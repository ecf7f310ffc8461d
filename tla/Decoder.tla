------------------------------ MODULE Decoder ------------------------------
(***************************************************************************)
(* The firmware of a decoder (decoder/src/decoder.c) and the flash page in *)
(* which it keeps its subscriptions (decoder/src/simple_flash.c).          *)
(*                                                                         *)
(* RAM holds decoder_status.subscribed_channels; one flash page holds a    *)
(* copy that survives power loss, behind the canary FLASH_FIRST_BOOT.  The *)
(* page is rewritten by erasing it and programming the copy word by word   *)
(* (a word is 8 bytes: the canary with its padding, or the flag and number *)
(* of a channel, or one of its two timestamps), and power may fail between *)
(* any two of these steps.                                                 *)
(*                                                                         *)
(* Three specifications share the actions: in StableSpec power never fails *)
(* while the page is being rewritten, in CutSpec it may fail anywhere, and *)
(* in FaultSpec the flash controller may also refuse an operation.         *)
(***************************************************************************)
EXTENDS Naturals

CONSTANTS
  MAX_CHANNEL_COUNT,
  Channel,             \* the 32-bit channel numbers in play
  EMERGENCY_CHANNEL,   \* channel 0, also the content of zeroed memory
  OnesId,              \* channel 0xFFFFFFFF, what an erased word reads as
  Time,                \* the 64-bit timestamps in play
  ZeroTime,            \* the timestamp 0, the content of zeroed memory
  Ones,                \* an erased word, also DEFAULT_CHANNEL_TIMESTAMP
  FLASH_FIRST_BOOT,    \* the canary
  Corrupt,             \* a word programmed twice without an erase
  Updates              \* the update packets that hosts send

Slots == 1..MAX_CHANNEL_COUNT
ChannelStatus == [active : BOOLEAN, id : Channel, start : Time, end : Time]
Tag == [active : BOOLEAN, id : Channel]
NoUpdate == [channel |-> EMERGENCY_CHANNEL, start |-> Ones, end |-> Ones]

ASSUME DecoderAssumption ==
  /\ MAX_CHANNEL_COUNT \in Nat \ {0}
  /\ {EMERGENCY_CHANNEL, OnesId} \subseteq Channel /\ EMERGENCY_CHANNEL # OnesId
  /\ {ZeroTime, Ones} \subseteq Time
  /\ FLASH_FIRST_BOOT # Ones /\ Corrupt # Ones /\ Corrupt # FLASH_FIRST_BOOT
  /\ Corrupt \notin Time \cup Tag /\ Ones \notin Tag
  /\ Updates \subseteq [channel : Channel, start : Time, end : Time]

VARIABLES
  pc,                    \* where the main thread is
  job,                   \* why the flash page is being rewritten
  subscribed_channels,   \* decoder_status.subscribed_channels, in RAM
  update,                \* the update packet in uart_buf
  flash,                 \* the flash page, word by word
  wp,                    \* the next word that flash_simple_write programs
  reply,                 \* the last response given to the host
  accepted,              \* history: every update that reached RAM
  confirmed              \* history: updates confirmed and not replaced since

vars == <<pc, job, subscribed_channels, update, flash, wp, reply, accepted, confirmed>>
history == <<accepted, confirmed>>

-----------------------------------------------------------------------------
(* The flash page. *)

Word == 0..(3 * MAX_CHANNEL_COUNT)
TagWord(i) == 3 * i - 2
StartWord(i) == 3 * i - 1
EndWord(i) == 3 * i

BlankPage == [k \in Word |-> Ones]

\* flash_entry_t laid out in memory, as flash_simple_write copies it.
Image(chs) ==
  [k \in Word |->
     IF k = 0 THEN FLASH_FIRST_BOOT
     ELSE LET s == chs[(k + 2) \div 3]
          IN IF k % 3 = 1 THEN [active |-> s.active, id |-> s.id]
             ELSE IF k % 3 = 2 THEN s.start ELSE s.end]

\* Programming only turns ones into zeroes.
Program(old, new) ==
  IF old \in {Ones, new} THEN new ELSE IF new = Ones THEN old ELSE Corrupt

\* What a slot can be read as.  An erased active flag holds 0xFF, which is
\* neither true nor false, so the build may take it for either.
ReadTag(w) ==
  IF w = Ones THEN {[active |-> b, id |-> OnesId] : b \in BOOLEAN}
  ELSE IF w = Corrupt THEN Tag ELSE {w}
ReadTime(w) == IF w = Corrupt THEN Time ELSE {w}
SlotReads(i) ==
  {[active |-> t.active, id |-> t.id, start |-> s, end |-> e] :
     t \in ReadTag(flash[TagWord(i)]),
     s \in ReadTime(flash[StartWord(i)]),
     e \in ReadTime(flash[EndWord(i)])}

-----------------------------------------------------------------------------
(* Responses. *)

NoReply == [msg |-> "none"]
ErrorReply == [msg |-> "ERROR_MSG"]
SubscribeReply == [msg |-> "SUBSCRIBE_MSG"]
DecodeReply(c) == [msg |-> "DECODE_MSG", channel |-> c]

ActiveSlots == {i \in Slots : subscribed_channels[i].active}

\* The entries of the response, by the slot they were taken from.
ListReply ==
  [msg |-> "LIST_MSG",
   channel_info |-> [i \in ActiveSlots |->
     [channel |-> subscribed_channels[i].id,
      start |-> subscribed_channels[i].start,
      end |-> subscribed_channels[i].end]]]

\* A mutant: the flag of the slot is not looked at.
is_subscribed_AnySlot(c) ==
  c = EMERGENCY_CHANNEL \/ \E i \in Slots : subscribed_channels[i].id = c

is_subscribed(c) ==
  c = EMERGENCY_CHANNEL \/ \E i \in ActiveSlots : subscribed_channels[i].id = c

\* Memory as the C runtime leaves it before main.
ZeroedRam ==
  [i \in Slots |-> [active |-> FALSE, id |-> EMERGENCY_CHANNEL,
                    start |-> ZeroTime, end |-> ZeroTime]]

Init ==
  /\ pc = "off" /\ job = "format"
  /\ subscribed_channels = ZeroedRam
  /\ update = NoUpdate
  /\ flash = BlankPage
  /\ wp = 0
  /\ reply = NoReply
  /\ accepted = {} /\ confirmed = {}

-----------------------------------------------------------------------------
(* Boot. *)

\* init() reads the page and finds the canary.
BootAgain ==
  /\ pc = "off" /\ flash[0] = FLASH_FIRST_BOOT
  /\ \E chs \in [Slots -> UNION {SlotReads(i) : i \in Slots}] :
       /\ \A i \in Slots : chs[i] \in SlotReads(i)
       /\ subscribed_channels' = chs
  /\ pc' = "uart"
  /\ UNCHANGED <<job, update, flash, wp, reply, history>>

\* A mutant: the flags are left as they are on the stack, like the numbers.
FirstBoot_FlagsUnset ==
  /\ pc = "off" /\ flash[0] # FLASH_FIRST_BOOT
  /\ \E tag \in [Slots -> Tag] :
       subscribed_channels' =
         [i \in Slots |-> [active |-> tag[i].active, id |-> tag[i].id,
                           start |-> Ones, end |-> Ones]]
  /\ pc' = "erase" /\ job' = "format"
  /\ UNCHANGED <<update, flash, wp, reply, history>>

\* init() finds no canary.  The numbers of the channels are left as they
\* happen to be on the stack.
FirstBoot ==
  /\ pc = "off" /\ flash[0] # FLASH_FIRST_BOOT
  /\ \E id \in [Slots -> Channel] :
       subscribed_channels' =
         [i \in Slots |-> [active |-> FALSE, id |-> id[i], start |-> Ones, end |-> Ones]]
  /\ pc' = "erase" /\ job' = "format"
  /\ UNCHANGED <<update, flash, wp, reply, history>>

\* The end of init(): without a UART the firmware spins forever.
InitUart ==
  /\ pc = "uart"
  /\ pc' \in {"ready", "halted"}
  /\ UNCHANGED <<job, subscribed_channels, update, flash, wp, reply, history>>

-----------------------------------------------------------------------------
(* Rewriting the page, from init() or from update_subscription(). *)

\* A mutant: init() answers as update_subscription() does.
AfterWrite_Always == "reply"
AfterWrite == IF job = "format" THEN "uart" ELSE "reply"

\* A mutant: the page is written without being erased first.
ErasePage_Skipped ==
  /\ pc = "erase"
  /\ pc' = "write" /\ wp' = 0
  /\ UNCHANGED <<job, subscribed_channels, update, flash, reply, history>>

ErasePage ==
  /\ pc = "erase"
  /\ flash' = BlankPage
  /\ pc' = "write" /\ wp' = 0
  /\ UNCHANGED <<job, subscribed_channels, update, reply, history>>

WriteWord ==
  /\ pc = "write" /\ wp \in Word
  /\ flash' = [flash EXCEPT ![wp] = Program(@, Image(subscribed_channels)[wp])]
  /\ wp' = wp + 1
  /\ UNCHANGED <<pc, job, subscribed_channels, update, reply, history>>

\* A mutant: the size given to flash_simple_write is one word short.
WriteDone_Short ==
  /\ pc = "write" /\ wp >= 3 * MAX_CHANNEL_COUNT
  /\ pc' = AfterWrite /\ wp' = 0
  /\ UNCHANGED <<job, subscribed_channels, update, flash, reply, history>>

WriteDone ==
  /\ pc = "write" /\ wp \notin Word
  /\ pc' = AfterWrite /\ wp' = 0
  /\ UNCHANGED <<job, subscribed_channels, update, flash, reply, history>>

\* Both functions return a negative value that their callers drop.
EraseFails ==
  /\ pc = "erase"
  /\ pc' = "write" /\ wp' = 0
  /\ UNCHANGED <<job, subscribed_channels, update, flash, reply, history>>

WriteFails ==
  /\ pc = "write"
  /\ pc' = AfterWrite /\ wp' = 0
  /\ UNCHANGED <<job, subscribed_channels, update, flash, reply, history>>

-----------------------------------------------------------------------------
(* Commands, one at a time. *)

\* Mutants: a new slot is taken even if the channel has one; the last slot is
\* taken when no other is usable.
Usable_Free(i, c) == ~subscribed_channels[i].active
Usable_Last(i, c) ==
  subscribed_channels[i].id = c \/ ~subscribed_channels[i].active \/ i = MAX_CHANNEL_COUNT

Usable(i, c) == subscribed_channels[i].id = c \/ ~subscribed_channels[i].active
FirstUsable(i, c) == Usable(i, c) /\ \A j \in 1..(i - 1) : ~Usable(j, c)

Installed(u) == [active |-> TRUE, id |-> u.channel, start |-> u.start, end |-> u.end]

\* update_subscription() up to the flash calls.
StartUpdate(u) ==
  /\ pc = "ready"
  /\ u.channel # EMERGENCY_CHANNEL
  /\ \E i \in Slots :
       /\ FirstUsable(i, u.channel)
       /\ subscribed_channels' = [subscribed_channels EXCEPT ![i] = Installed(u)]
  /\ pc' = "erase" /\ job' = "update"
  /\ update' = u
  /\ reply' = NoReply
  /\ accepted' = accepted \cup {u}
  /\ confirmed' = {v \in confirmed : v.channel # u.channel}
  /\ UNCHANGED <<flash, wp>>

RefuseUpdate(u) ==
  /\ pc = "ready"
  /\ \/ u.channel = EMERGENCY_CHANNEL
     \/ \A i \in Slots : ~Usable(i, u.channel)
  /\ reply' = ErrorReply
  /\ UNCHANGED <<pc, job, subscribed_channels, update, flash, wp, history>>

\* update_subscription() after the flash calls.
EndUpdate ==
  /\ pc = "reply"
  /\ pc' = "ready"
  /\ reply' = SubscribeReply
  /\ confirmed' = confirmed \cup {update}
  /\ update' = NoUpdate
  /\ UNCHANGED <<job, subscribed_channels, flash, wp, accepted>>

list_channels ==
  /\ pc = "ready"
  /\ reply' = ListReply
  /\ UNCHANGED <<pc, job, subscribed_channels, update, flash, wp, history>>

decode(c) ==
  /\ pc = "ready"
  /\ reply' = IF is_subscribed(c) THEN DecodeReply(c) ELSE ErrorReply
  /\ UNCHANGED <<pc, job, subscribed_channels, update, flash, wp, history>>

\* main(): the command was not received whole, or is none of the three.
BadCommand ==
  /\ pc = "ready"
  /\ reply' = ErrorReply
  /\ UNCHANGED <<pc, job, subscribed_channels, update, flash, wp, history>>

-----------------------------------------------------------------------------
(* Power. *)

LosePower ==
  /\ pc' = "off" /\ job' = "format"
  /\ subscribed_channels' = ZeroedRam
  /\ update' = NoUpdate
  /\ wp' = 0
  /\ reply' = NoReply
  /\ UNCHANGED <<flash, history>>

Rewriting == pc \in {"erase", "write"}
IdlePowerCut == pc # "off" /\ ~Rewriting /\ LosePower
TearingPowerCut == Rewriting /\ LosePower

Step ==
  \/ BootAgain \/ FirstBoot \/ InitUart
  \/ ErasePage \/ WriteWord \/ WriteDone
  \/ \E u \in Updates : StartUpdate(u) \/ RefuseUpdate(u)
  \/ EndUpdate \/ list_channels \/ BadCommand
  \/ \E c \in Channel : decode(c)

StableNext == Step \/ IdlePowerCut
CutNext == StableNext \/ TearingPowerCut
FaultNext == CutNext \/ EraseFails \/ WriteFails

StableSpec == Init /\ [][StableNext]_vars
CutSpec == Init /\ [][CutNext]_vars
FaultSpec == Init /\ [][FaultNext]_vars

-----------------------------------------------------------------------------
(* Properties. *)

FlashWord == {FLASH_FIRST_BOOT, Corrupt} \cup Tag \cup Time

\* Every variable stays within the type that the C declarations give it.
TypeOK ==
  /\ pc \in {"off", "uart", "ready", "halted", "erase", "write", "reply"}
  /\ job \in {"format", "update"}
  /\ subscribed_channels \in [Slots -> ChannelStatus]
  /\ update \in Updates \cup {NoUpdate}
  /\ flash \in [Word -> FlashWord]
  /\ \A i \in Slots : /\ flash[TagWord(i)] \in Tag \cup {Ones, Corrupt}
                     /\ flash[StartWord(i)] \in Time \cup {Corrupt}
                     /\ flash[EndWord(i)] \in Time \cup {Corrupt}
  /\ wp \in Word \cup {3 * MAX_CHANNEL_COUNT + 1}
  /\ reply.msg \in {"none", "ERROR_MSG", "SUBSCRIBE_MSG", "LIST_MSG", "DECODE_MSG"}
  /\ accepted \subseteq Updates /\ confirmed \subseteq accepted

\* No channel is ever held by two slots, whatever the sequence of updates,
\* renewals and reboots and whatever numbers the first boot left in the
\* unused slots (update_subscription takes the first slot that is free or
\* holds the channel, and does not look further).
NoDuplicateChannels ==
  \A i, j \in ActiveSlots :
    subscribed_channels[i].id = subscribed_channels[j].id => i = j

Holds(chs, u) == \E i \in Slots : chs[i] = Installed(u)

\* A subscription that the host was told is installed is in RAM whenever the
\* decoder runs, after any number of other updates and reboots, until the
\* host itself replaces it.
ConfirmedKept ==
  pc \notin {"off", "uart"} => \A u \in confirmed : Holds(subscribed_channels, u)

\* A decoder that accepted no update has no subscription: "If this is the
\* first boot of this decoder, mark all channels as unsubscribed."
FreshDecoderEmpty ==
  accepted = {} /\ pc = "ready" => ActiveSlots = {}

\* Told to the host as installed means programmed into the flash page.
ConfirmedStored ==
  reply = SubscribeReply => flash = Image(subscribed_channels)

\* A running decoder changes no subscription but the one it is asked to
\* change, even if an earlier rewrite was torn or refused by the flash and
\* left numbers and windows that nobody sent.
OthersUntouched ==
  [][pc # "off" /\ pc' # "off" =>
       \A i \in ActiveSlots :
         subscribed_channels'[i] # subscribed_channels[i] =>
           /\ pc' = "erase" /\ subscribed_channels[i].id = update'.channel
           /\ subscribed_channels'[i].active
           /\ subscribed_channels'[i].id = update'.channel]_vars

\* Whatever tears a rewrite, the window of an active slot is that of one
\* accepted update of its channel, possibly with erased halves: the old and
\* the new window of a channel are never mixed, and the only channel that
\* nobody asked for is the one that erased flash reads as.
NoMixedWindow ==
  \A i \in ActiveSlots :
    LET s == subscribed_channels[i] IN
      \/ s.id = OnesId /\ s.start = Ones /\ s.end = Ones
      \/ \E u \in accepted : /\ s.id = u.channel
                             /\ s.start \in {Ones, u.start}
                             /\ s.end \in {Ones, u.end}

-----------------------------------------------------------------------------
(* Refinement. *)

\* The subscriptions as a map: in RAM when the decoder runs, in flash when
\* it is off.
Stored ==
  IF flash[0] = FLASH_FIRST_BOOT
  THEN [i \in Slots |-> [active |-> flash[TagWord(i)].active, id |-> flash[TagWord(i)].id,
                         start |-> flash[StartWord(i)], end |-> flash[EndWord(i)]]]
  ELSE ZeroedRam
Current == IF pc = "off" THEN Stored ELSE subscribed_channels
SlotOf(chs, c) == CHOOSE i \in Slots : chs[i].active /\ chs[i].id = c
MapOf(chs) ==
  [c \in {chs[i].id : i \in {j \in Slots : chs[j].active}} |->
     [start |-> chs[SlotOf(chs, c)].start, end |-> chs[SlotOf(chs, c)].end]]

AnswerOf ==
  IF reply.msg = "LIST_MSG"
  THEN [msg |-> "LIST_MSG",
        subs |-> [c \in {reply.channel_info[i].channel : i \in DOMAIN reply.channel_info} |->
          LET i == CHOOSE j \in DOMAIN reply.channel_info : reply.channel_info[j].channel = c
          IN [start |-> reply.channel_info[i].start, end |-> reply.channel_info[i].end]]]
  ELSE reply

Promise ==
  INSTANCE Subscriptions WITH
    subs <- MapOf(Current),
    pending <- job = "update" /\ pc \in {"erase", "write", "reply"},
    answer <- AnswerOf,
    Capacity <- MAX_CHANNEL_COUNT

\* The decoder, while power holds during rewrites, does nothing that the
\* partial map of Subscriptions does not do: updates are atomic, reboots
\* lose nothing, a full table still renews, and each response is the one
\* that the subscriptions of that moment call for.
ImplementsSubscriptions == Promise!Spec
=============================================================================
