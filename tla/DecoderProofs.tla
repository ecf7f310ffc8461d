--------------------------- MODULE DecoderProofs ---------------------------
(***************************************************************************)
(* Proofs about Decoder: what holds of the decoder's subscriptions for any *)
(* number of slots, any channels, windows and updates.                     *)
(***************************************************************************)
EXTENDS Decoder, TLAPS

USE DecoderAssumption

-----------------------------------------------------------------------------
(* The layout of the flash page. *)

\* The words of a slot are words of the page, and no slot shares one.
LEMMA SlotWords ==
  ASSUME NEW i \in Slots
  PROVE  /\ TagWord(i) \in Word /\ TagWord(i) # 0
         /\ TagWord(i) % 3 = 1 /\ (TagWord(i) + 2) \div 3 = i
         /\ StartWord(i) \in Word /\ StartWord(i) # 0
         /\ StartWord(i) % 3 = 2 /\ (StartWord(i) + 2) \div 3 = i
         /\ EndWord(i) \in Word /\ EndWord(i) # 0
         /\ EndWord(i) % 3 = 0 /\ (EndWord(i) + 2) \div 3 = i
  BY DEF Slots, Word, TagWord, StartWord, EndWord

\* Every word but the canary belongs to one slot.
LEMMA WordSlots ==
  ASSUME NEW k \in Word, k # 0
  PROVE  /\ (k + 2) \div 3 \in Slots
         /\ k % 3 \in {0, 1, 2}
  BY DEF Slots, Word

\* What flash_simple_write leaves in each word.
LEMMA ImageWords ==
  ASSUME NEW chs
  PROVE  /\ Image(chs)[0] = FLASH_FIRST_BOOT
         /\ \A i \in Slots :
              /\ Image(chs)[TagWord(i)] = [active |-> chs[i].active, id |-> chs[i].id]
              /\ Image(chs)[StartWord(i)] = chs[i].start
              /\ Image(chs)[EndWord(i)] = chs[i].end
  <1>1. Image(chs)[0] = FLASH_FIRST_BOOT
    BY DEF Image, Word
  <1>2. ASSUME NEW i \in Slots
        PROVE  /\ Image(chs)[TagWord(i)] = [active |-> chs[i].active, id |-> chs[i].id]
               /\ Image(chs)[StartWord(i)] = chs[i].start
               /\ Image(chs)[EndWord(i)] = chs[i].end
    BY SlotWords DEF Image
  <1> QED BY <1>1, <1>2

\* A page written from a table of channels is a page of words.
LEMMA ImageType ==
  ASSUME NEW chs \in [Slots -> ChannelStatus]
  PROVE  Image(chs) \in [Word -> FlashWord]
  <1>1. ASSUME NEW k \in Word PROVE Image(chs)[k] \in FlashWord
    <2>1. CASE k = 0
      BY <2>1 DEF Image, FlashWord
    <2>2. CASE k # 0
      BY <2>2, WordSlots DEF Image, FlashWord, ChannelStatus, Tag
    <2> QED BY <2>1, <2>2
  <1> QED BY <1>1 DEF Image

\* Programming a word of the page leaves a word of the page.
LEMMA ProgramType ==
  ASSUME NEW old \in FlashWord, NEW new \in FlashWord
  PROVE  Program(old, new) \in FlashWord
  BY DEF Program, FlashWord

\* Whatever state the page is in, init() reads a table of channels from it.
LEMMA SlotReadsType ==
  ASSUME flash \in [Word -> FlashWord], NEW i \in Slots,
         flash[TagWord(i)] \in Tag \cup {Ones, Corrupt},
         flash[StartWord(i)] \in Time \cup {Corrupt},
         flash[EndWord(i)] \in Time \cup {Corrupt}
  PROVE  SlotReads(i) \subseteq ChannelStatus
  <1>1. ReadTag(flash[TagWord(i)]) \subseteq Tag
    BY DEF ReadTag, Tag
  <1>2. ReadTime(flash[StartWord(i)]) \subseteq Time /\ ReadTime(flash[EndWord(i)]) \subseteq Time
    BY DEF ReadTime
  <1> QED BY <1>1, <1>2 DEF SlotReads, ChannelStatus, Tag

-----------------------------------------------------------------------------
(* Types. *)

\* The words of a slot are not those of another, nor the canary.
LEMMA SlotWordsApart ==
  ASSUME NEW i \in Slots, NEW j \in Slots
  PROVE  /\ TagWord(i) # StartWord(j) /\ TagWord(i) # EndWord(j) /\ StartWord(i) # EndWord(j)
         /\ TagWord(i) = TagWord(j) => i = j
         /\ StartWord(i) = StartWord(j) => i = j
         /\ EndWord(i) = EndWord(j) => i = j
  BY DEF Slots, TagWord, StartWord, EndWord

\* The update whose rewrite is in progress is one of those accepted.
PendingOK ==
  /\ pc = "reply" => job = "update"
  /\ job = "update" /\ pc \in {"erase", "write", "reply"} => update \in accepted

TypeInv == TypeOK /\ PendingOK

LEMMA TypeInit == Init => TypeInv
  <1> SUFFICES ASSUME Init PROVE TypeInv
    BY DEF TypeInv
  <1>1. subscribed_channels \in [Slots -> ChannelStatus]
    BY DEF Init, ZeroedRam, ChannelStatus
  <1>2. flash \in [Word -> FlashWord] /\ \A k \in Word : flash[k] = Ones
    BY DEF Init, BlankPage, FlashWord
  <1>3. wp \in Word
    BY DEF Init, Word
  <1>4. reply.msg = "none"
    BY DEF Init, NoReply
  <1> QED BY <1>1, <1>2, <1>3, <1>4, SlotWords DEF Init, TypeOK, TypeInv, PendingOK

LEMMA TypeNext == TypeInv /\ [FaultNext]_vars => TypeInv'
  <1> SUFFICES ASSUME TypeInv, [FaultNext]_vars PROVE TypeInv'
    OBVIOUS
  <1> USE DEF TypeInv, PendingOK, TypeOK, history
  <1>1. CASE BootAgain
    <2>1. subscribed_channels' \in [Slots -> ChannelStatus]
      BY <1>1, SlotReadsType DEF BootAgain
    <2> QED BY <1>1, <2>1 DEF BootAgain
  <1>2. CASE FirstBoot
    <2>1. subscribed_channels' \in [Slots -> ChannelStatus]
      BY <1>2 DEF FirstBoot, ChannelStatus
    <2> QED BY <1>2, <2>1 DEF FirstBoot
  <1>3. CASE InitUart
    BY <1>3 DEF InitUart
  <1>4. CASE ErasePage
    <2>1. flash' \in [Word -> FlashWord] /\ \A k \in Word : flash'[k] = Ones
      BY <1>4 DEF ErasePage, BlankPage, FlashWord
    <2>2. wp' \in Word
      BY <1>4 DEF ErasePage, Word
    <2> QED BY <1>4, <2>1, <2>2, SlotWords DEF ErasePage
  <1>5. CASE WriteWord
    <2>1. wp \in Word /\ wp' \in Word \cup {3 * MAX_CHANNEL_COUNT + 1}
      BY <1>5 DEF WriteWord, Word
    <2>2. Image(subscribed_channels)[wp] \in FlashWord
      BY <2>1, ImageType
    <2>3. flash' = [flash EXCEPT ![wp] = Program(flash[wp], Image(subscribed_channels)[wp])]
      BY <1>5 DEF WriteWord
    <2>4. flash' \in [Word -> FlashWord]
      BY <2>1, <2>2, <2>3, ProgramType
    <2>5. ASSUME NEW i \in Slots
          PROVE  /\ flash'[TagWord(i)] \in Tag \cup {Ones, Corrupt}
                 /\ flash'[StartWord(i)] \in Time \cup {Corrupt}
                 /\ flash'[EndWord(i)] \in Time \cup {Corrupt}
      <3>1. subscribed_channels[i] \in ChannelStatus
        OBVIOUS
      <3>2. /\ Image(subscribed_channels)[TagWord(i)] \in Tag
            /\ Image(subscribed_channels)[StartWord(i)] \in Time
            /\ Image(subscribed_channels)[EndWord(i)] \in Time
        <4> HIDE DEF TypeInv, PendingOK, TypeOK, history
        <4>1. /\ [active |-> subscribed_channels[i].active, id |-> subscribed_channels[i].id] \in Tag
              /\ subscribed_channels[i].start \in Time
              /\ subscribed_channels[i].end \in Time
          BY <3>1 DEF ChannelStatus, Tag
        <4> QED BY ONLY <4>1, ImageWords, <3>1, i \in Slots
      <3> QED BY <2>1, <2>3, <3>2, SlotWords DEF Program
    <2> QED BY <1>5, <2>1, <2>4, <2>5 DEF WriteWord
  <1>6. CASE WriteDone \/ WriteFails
    BY <1>6 DEF WriteDone, WriteFails, AfterWrite, Word
  <1>7. ASSUME NEW u \in Updates, StartUpdate(u) PROVE TypeInv'
    <2>1. u \in [channel : Channel, start : Time, end : Time]
      OBVIOUS
    <2>2. subscribed_channels' \in [Slots -> ChannelStatus]
      BY <1>7, <2>1 DEF StartUpdate, Installed, ChannelStatus
    <2>3. reply'.msg = "none"
      BY <1>7 DEF StartUpdate, NoReply
    <2> QED BY <1>7, <2>2, <2>3 DEF StartUpdate
  <1>8. ASSUME NEW u \in Updates, RefuseUpdate(u) PROVE TypeInv'
    BY <1>8 DEF RefuseUpdate, ErrorReply
  <1>9. CASE EndUpdate
    BY <1>9 DEF EndUpdate, SubscribeReply
  <1>10. CASE list_channels
    BY <1>10 DEF list_channels, ListReply
  <1>11. CASE BadCommand
    BY <1>11 DEF BadCommand, ErrorReply
  <1>12. ASSUME NEW c \in Channel, decode(c) PROVE TypeInv'
    BY <1>12 DEF decode, DecodeReply, ErrorReply
  <1>13. CASE LosePower
    <2>1. subscribed_channels' \in [Slots -> ChannelStatus]
      BY <1>13 DEF LosePower, ZeroedRam, ChannelStatus
    <2>2. wp' \in Word /\ reply'.msg = "none"
      BY <1>13 DEF LosePower, Word, NoReply
    <2> QED BY <1>13, <2>1, <2>2 DEF LosePower
  <1>14. CASE EraseFails
    BY <1>14 DEF EraseFails, Word
  <1>15. CASE UNCHANGED vars
    BY <1>15 DEF vars
  <1> QED
    BY <1>1, <1>2, <1>3, <1>4, <1>5, <1>6, <1>7, <1>8, <1>9, <1>10, <1>11, <1>12, <1>13, <1>14, <1>15
    DEF FaultNext, CutNext, StableNext, Step, IdlePowerCut, TearingPowerCut

\* Every variable keeps its C type, whatever fails and whenever.
THEOREM TypeCorrect == FaultSpec => []TypeOK
  <1>1. TypeInv => TypeOK
    BY DEF TypeInv
  <1> QED BY TypeInit, TypeNext, <1>1, PTL DEF FaultSpec

-----------------------------------------------------------------------------
(* Rewrites that are not torn.  The slots in use come first and hold        *)
(* different channels, among them every confirmed one, and the flash page   *)
(* is the image of such a table whenever a restart may read it.             *)

Prefix(chs) == \A i, j \in Slots : i < j /\ chs[j].active => chs[i].active

Unique(chs) ==
  \A i, j \in Slots : chs[i].active /\ chs[j].active /\ chs[i].id = chs[j].id => i = j

Good(chs) ==
  /\ Prefix(chs) /\ Unique(chs)
  /\ \A u \in confirmed : Holds(chs, u)
  /\ accepted = {} => \A i \in Slots : ~chs[i].active

RamInv ==
  /\ pc # "off" => Good(subscribed_channels)
  /\ pc = "off" => subscribed_channels = ZeroedRam
  /\ job = "update" /\ pc \in {"erase", "write", "reply"} => Holds(subscribed_channels, update)
  /\ reply = SubscribeReply => pc = "ready"

FlashInv ==
  /\ pc \in {"uart", "ready", "reply", "halted"} => flash = Image(subscribed_channels)
  /\ pc = "write" =>
       \A k \in Word : flash[k] = IF k < wp THEN Image(subscribed_channels)[k] ELSE Ones
  /\ pc = "off" =>
       \/ flash[0] # FLASH_FIRST_BOOT /\ accepted = {}
       \/ /\ flash[0] = FLASH_FIRST_BOOT
          /\ Stored \in [Slots -> ChannelStatus] /\ Good(Stored) /\ flash = Image(Stored)

StableInv == TypeInv /\ RamInv /\ FlashInv

LEMMA OneRead ==
  ASSUME NEW T, NEW S, NEW E, NEW tag, NEW st, NEW en, T = {tag}, S = {st}, E = {en}
  PROVE  {[active |-> t.active, id |-> t.id, start |-> s, end |-> e] : t \in T, s \in S, e \in E}
           = {[active |-> tag.active, id |-> tag.id, start |-> st, end |-> en]}
  OBVIOUS

\* A page that was written from a table is read as that table.
LEMMA ReadBack ==
  ASSUME NEW chs \in [Slots -> ChannelStatus], flash = Image(chs)
  PROVE  /\ Stored = chs
         /\ \A i \in Slots : SlotReads(i) = {chs[i]}
  <1>1. ASSUME NEW i \in Slots
        PROVE  /\ flash[TagWord(i)] = [active |-> chs[i].active, id |-> chs[i].id]
               /\ flash[StartWord(i)] = chs[i].start
               /\ flash[EndWord(i)] = chs[i].end
               /\ chs[i] = [active |-> chs[i].active, id |-> chs[i].id,
                            start |-> chs[i].start, end |-> chs[i].end]
               /\ flash[TagWord(i)].active = chs[i].active /\ flash[TagWord(i)].id = chs[i].id
    BY ImageWords DEF ChannelStatus
  <1>2. Stored = chs
    <2>1. flash[0] = FLASH_FIRST_BOOT
      BY ImageWords
    <2>2. ASSUME NEW i \in Slots
          PROVE  [active |-> flash[TagWord(i)].active, id |-> flash[TagWord(i)].id,
                  start |-> flash[StartWord(i)], end |-> flash[EndWord(i)]] = chs[i]
      BY <1>1, Zenon
    <2>3. chs = [i \in Slots |-> chs[i]]
      OBVIOUS
    <2> QED BY <2>1, <2>2, <2>3 DEF Stored
  <1>3. ASSUME NEW i \in Slots PROVE SlotReads(i) = {chs[i]}
    <2>1. flash[TagWord(i)] \in Tag /\ flash[StartWord(i)] \in Time /\ flash[EndWord(i)] \in Time
      <3>1. chs[i] \in ChannelStatus
        OBVIOUS
      <3>2. [active |-> chs[i].active, id |-> chs[i].id] \in Tag
        BY <3>1 DEF ChannelStatus, Tag
      <3> QED BY <1>1, <3>1, <3>2 DEF ChannelStatus
    <2>2. ReadTag(flash[TagWord(i)]) = {flash[TagWord(i)]}
      <3>1. flash[TagWord(i)] # Ones /\ flash[TagWord(i)] # Corrupt
        BY <2>1
      <3> QED BY <3>1, Zenon DEF ReadTag
    <2>3. /\ ReadTime(flash[StartWord(i)]) = {flash[StartWord(i)]}
          /\ ReadTime(flash[EndWord(i)]) = {flash[EndWord(i)]}
      BY <2>1 DEF ReadTime
    <2>4. SlotReads(i) = {[active |-> flash[TagWord(i)].active, id |-> flash[TagWord(i)].id,
                           start |-> flash[StartWord(i)], end |-> flash[EndWord(i)]]}
      BY <2>2, <2>3, OneRead DEF SlotReads
    <2>5. [active |-> flash[TagWord(i)].active, id |-> flash[TagWord(i)].id,
           start |-> flash[StartWord(i)], end |-> flash[EndWord(i)]] = chs[i]
      BY <1>1, Zenon
    <2> QED BY <2>4, <2>5
  <1> QED BY <1>2, <1>3

LEMMA ZeroWord == 0 \in Word /\ \A k \in Word : k \in Nat
  BY DEF Word

LEMMA StableInit == Init => StableInv
  <1> SUFFICES ASSUME Init PROVE StableInv
    OBVIOUS
  <1>1. flash[0] # FLASH_FIRST_BOOT
    BY ZeroWord DEF Init, BlankPage
  <1>2. reply # SubscribeReply
    BY DEF Init, NoReply, SubscribeReply
  <1> QED BY <1>1, <1>2, TypeInit DEF Init, StableInv, RamInv, FlashInv

\* A step that leaves RAM and the history alone leaves the table good.
LEMMA GoodSame ==
  ASSUME RamInv, pc # "off", UNCHANGED <<subscribed_channels, history>>
  PROVE  Good(subscribed_channels)'
  BY DEF RamInv, Good, history, Holds, Prefix, Unique, Installed

\* update_subscription puts the update in the first usable slot and keeps the
\* table in order, free of duplicates and of every other subscription's loss.
LEMMA StartUpdateGood ==
  ASSUME TypeInv, Good(subscribed_channels), NEW u \in Updates, StartUpdate(u)
  PROVE  Good(subscribed_channels)' /\ Holds(subscribed_channels', u)
  <1> DEFINE chs == subscribed_channels
  <1>1. PICK i \in Slots : FirstUsable(i, u.channel) /\ chs' = [chs EXCEPT ![i] = Installed(u)]
    BY DEF StartUpdate
  <1>2. chs \in [Slots -> ChannelStatus] /\ Prefix(chs) /\ Unique(chs)
    BY DEF Good, TypeInv, TypeOK
  <1>3. /\ chs[i].id = u.channel \/ ~chs[i].active
        /\ \A j \in Slots : j < i => chs[j].active /\ chs[j].id # u.channel
    BY <1>1 DEF FirstUsable, Usable, Slots
  <1>4. /\ chs'[i].active /\ chs'[i].id = u.channel /\ chs'[i] = Installed(u)
        /\ \A j \in Slots : j # i => chs'[j] = chs[j]
    BY <1>1, <1>2 DEF Installed
  <1>5. Prefix(chs')
    BY <1>2, <1>3, <1>4 DEF Prefix, Slots
  <1>6. \A j \in Slots : j # i /\ chs[j].active => chs[j].id # u.channel
    BY <1>2, <1>3 DEF Prefix, Unique, Slots
  <1>7. Unique(chs')
    BY <1>2, <1>4, <1>6 DEF Unique
  <1>8. ASSUME NEW v \in confirmed' PROVE Holds(chs', v)
    <2>1. v \in confirmed /\ v.channel # u.channel
      BY <1>8 DEF StartUpdate
    <2>2. PICK j \in Slots : chs[j] = Installed(v)
      BY <2>1 DEF Good, Holds
    <2>3. j # i
      BY <1>3, <2>1, <2>2 DEF Installed
    <2> QED BY <1>4, <2>2, <2>3 DEF Holds, Installed
  <1>9. accepted' # {}
    BY DEF StartUpdate
  <1>10. Holds(chs', u)
    BY <1>4 DEF Holds
  <1> QED BY <1>5, <1>7, <1>8, <1>9, <1>10 DEF Good, Prefix, Unique, Holds, Installed

\* A command that only answers leaves the invariant as it is.
LEMMA AnswerStep ==
  ASSUME RamInv, FlashInv, pc = "ready",
         UNCHANGED <<pc, job, subscribed_channels, update, flash, wp, history>>
  PROVE  RamInv' /\ FlashInv'
  <1>1. Good(subscribed_channels)'
    BY GoodSame
  <1> QED BY <1>1 DEF RamInv, FlashInv

LEMMA StableNextInv == StableInv /\ [StableNext]_vars => StableInv'
  <1> SUFFICES ASSUME StableInv, [StableNext]_vars PROVE StableInv'
    OBVIOUS
  <1>1. TypeInv /\ TypeInv'
    BY TypeNext DEF StableInv, FaultNext, CutNext
  <1>2. RamInv /\ FlashInv
    BY DEF StableInv
  <1>3. subscribed_channels \in [Slots -> ChannelStatus]
    BY <1>1 DEF TypeInv, TypeOK
  <1>4. SUFFICES RamInv' /\ FlashInv'
    BY <1>1 DEF StableInv
  <1>5. CASE UNCHANGED vars
    <2>1. Stored' = Stored
      BY <1>5 DEF vars, Stored
    <2>2. (pc # "off" => Good(subscribed_channels)') /\ (Good(Stored) => Good(Stored)')
      BY <1>2, <1>5, <2>1 DEF vars, RamInv, Good, Holds, Prefix, Unique, Installed
    <2> QED BY <1>2, <1>5, <2>1, <2>2 DEF vars, RamInv, FlashInv, Holds, Installed
  <1>6. CASE BootAgain
    <2>1. /\ Stored \in [Slots -> ChannelStatus] /\ Good(Stored) /\ flash = Image(Stored)
      BY <1>2, <1>6 DEF BootAgain, FlashInv
    <2>2. \A i \in Slots : SlotReads(i) = {Stored[i]}
      BY <2>1, ReadBack
    <2>3. subscribed_channels' = Stored
      <3>1. PICK chs \in [Slots -> UNION {SlotReads(i) : i \in Slots}] :
              /\ \A i \in Slots : chs[i] \in SlotReads(i)
              /\ subscribed_channels' = chs
        BY <1>6 DEF BootAgain
      <3>2. \A i \in Slots : chs[i] = Stored[i]
        BY <2>2, <3>1
      <3> QED BY <2>1, <3>1, <3>2
    <2>4. Good(subscribed_channels)'
      BY <1>6, <2>1, <2>3 DEF BootAgain, Good, history, Holds, Prefix, Unique, Installed
    <2> QED BY <1>2, <1>6, <2>1, <2>3, <2>4 DEF BootAgain, RamInv, FlashInv
  <1>7. CASE FirstBoot
    <2>1. accepted = {} /\ confirmed = {}
      BY <1>1, <1>2, <1>7, ImageWords DEF FirstBoot, FlashInv, TypeInv, TypeOK
    <2>2. \A i \in Slots : ~subscribed_channels'[i].active
      BY <1>7 DEF FirstBoot
    <2>3. Good(subscribed_channels)'
      BY <1>7, <2>1, <2>2 DEF FirstBoot, history, Good, Prefix, Unique
    <2> QED BY <1>2, <1>7, <2>3 DEF FirstBoot, RamInv, FlashInv
  <1>8. ASSUME NEW u \in Updates, StartUpdate(u) PROVE RamInv' /\ FlashInv'
    <2>1. Good(subscribed_channels)' /\ Holds(subscribed_channels', u)
      BY <1>1, <1>2, <1>8, StartUpdateGood DEF StartUpdate, RamInv
    <2>2. pc' = "erase" /\ update' = u /\ reply' = NoReply
      BY <1>8 DEF StartUpdate
    <2> QED BY <2>1, <2>2 DEF RamInv, FlashInv, NoReply, SubscribeReply, Holds, Installed
  <1>9. CASE EndUpdate
    <2>1. Holds(subscribed_channels, update) /\ update \in accepted
      BY <1>1, <1>2, <1>9 DEF EndUpdate, RamInv, TypeInv, PendingOK
    <2>2. Good(subscribed_channels)'
      BY <1>2, <1>9, <2>1 DEF EndUpdate, RamInv, Good, Holds, Prefix, Unique, Installed
    <2> QED BY <1>2, <1>9, <2>2 DEF EndUpdate, RamInv, FlashInv
  <1>10. CASE IdlePowerCut
    <2>1. flash = Image(subscribed_channels) /\ Good(subscribed_channels)
      BY <1>1, <1>2, <1>10 DEF IdlePowerCut, Rewriting, RamInv, FlashInv, TypeInv, TypeOK
    <2>2. Stored = subscribed_channels /\ flash[0] = FLASH_FIRST_BOOT
      BY <1>3, <2>1, ReadBack, ImageWords
    <2>3. Stored' = subscribed_channels
      BY <1>10, <2>2 DEF IdlePowerCut, LosePower, Stored
    <2>4. Good(Stored)'
      BY <1>10, <2>1, <2>3 DEF IdlePowerCut, LosePower, Good, history, Holds, Prefix, Unique, Installed
    <2> QED
      BY <1>3, <1>10, <2>1, <2>2, <2>3, <2>4
      DEF IdlePowerCut, LosePower, RamInv, FlashInv, NoReply, SubscribeReply
  <1>11. CASE InitUart
    <2>1. Good(subscribed_channels)'
      BY <1>2, <1>11, GoodSame DEF InitUart, history
    <2> QED BY <1>2, <2>1, <1>11 DEF InitUart, RamInv, FlashInv
  <1>12. CASE ErasePage
    <2>1. Good(subscribed_channels)'
      BY <1>2, <1>12, GoodSame DEF ErasePage, history
    <2>2. \A k \in Word : flash'[k] = Ones /\ ~(k < wp')
      BY <1>12, ZeroWord DEF ErasePage, BlankPage
    <2> QED BY <1>2, <2>1, <1>12, <2>2 DEF ErasePage, RamInv, FlashInv, Holds, Installed
  <1>13. CASE WriteWord
    <2>1. Good(subscribed_channels)'
      BY <1>2, <1>13, GoodSame DEF WriteWord, history
    <2>2. wp \in Word /\ wp' = wp + 1 /\ flash \in [Word -> FlashWord]
      BY <1>1, <1>13 DEF WriteWord, TypeInv, TypeOK
    <2>3. flash' = [flash EXCEPT ![wp] = Program(flash[wp], Image(subscribed_channels)[wp])]
      BY <1>13 DEF WriteWord
    <2>4. \A k \in Word : flash[k] = IF k < wp THEN Image(subscribed_channels)[k] ELSE Ones
      BY <1>2, <1>13 DEF WriteWord, FlashInv
    <2>5. flash'[wp] = Image(subscribed_channels)[wp]
      BY <2>2, <2>3, <2>4, ZeroWord DEF Program
    <2>6. \A k \in Word : flash'[k] = IF k < wp' THEN Image(subscribed_channels)[k] ELSE Ones
      BY <2>2, <2>3, <2>4, <2>5, ZeroWord
    <2> QED BY <1>2, <2>1, <1>13, <2>6 DEF WriteWord, RamInv, FlashInv, Holds, Installed
  <1>14. CASE WriteDone
    <2>1. Good(subscribed_channels)'
      BY <1>2, <1>14, GoodSame DEF WriteDone, history
    <2>2. \A k \in Word : flash[k] = Image(subscribed_channels)[k]
      BY <1>1, <1>2, <1>14 DEF WriteDone, TypeInv, TypeOK, FlashInv, Word
    <2>3. flash = Image(subscribed_channels)
      BY <1>1, <1>3, <2>2, ImageType DEF TypeInv, TypeOK
    <2> QED BY <1>2, <2>1, <1>14, <2>3 DEF WriteDone, AfterWrite, RamInv, FlashInv, Holds, Installed
  <1>15. ASSUME NEW u \in Updates, RefuseUpdate(u) PROVE RamInv' /\ FlashInv'
    BY <1>2, <1>15, AnswerStep DEF RefuseUpdate
  <1>16. CASE list_channels \/ BadCommand
    BY <1>2, <1>16, AnswerStep DEF list_channels, BadCommand
  <1>17. ASSUME NEW c \in Channel, decode(c) PROVE RamInv' /\ FlashInv'
    BY <1>2, <1>17, AnswerStep DEF decode
  <1> QED
    BY <1>5, <1>6, <1>7, <1>8, <1>9, <1>10, <1>11, <1>12, <1>13, <1>14, <1>15, <1>16, <1>17
    DEF StableNext, Step

LEMMA StableAlways == StableSpec => []StableInv
  BY StableInit, StableNextInv, PTL DEF StableSpec

\* No channel is ever held by two slots: whatever the first boot left in the
\* unused slots, update_subscription finds the slot of a channel first.
THEOREM NoDuplicates == StableSpec => []NoDuplicateChannels
  <1>1. StableInv => NoDuplicateChannels
    BY DEF StableInv, RamInv, Good, Unique, NoDuplicateChannels, ActiveSlots, ZeroedRam
  <1> QED BY StableAlways, <1>1, PTL

\* What the host was told is installed stays installed, through updates of
\* other channels and any number of restarts.
THEOREM ConfirmedSurvives == StableSpec => []ConfirmedKept
  <1>1. StableInv => ConfirmedKept
    BY DEF StableInv, RamInv, Good, ConfirmedKept
  <1> QED BY StableAlways, <1>1, PTL

\* A decoder that accepted nothing has nothing, however often it restarts.
THEOREM FreshIsEmpty == StableSpec => []FreshDecoderEmpty
  <1>1. StableInv => FreshDecoderEmpty
    BY DEF StableInv, RamInv, Good, FreshDecoderEmpty, ActiveSlots
  <1> QED BY StableAlways, <1>1, PTL

\* When the host is told that an update is installed, the page holds it.
THEOREM StoredWhenConfirmed == StableSpec => []ConfirmedStored
  <1>1. StableInv => ConfirmedStored
    BY DEF StableInv, RamInv, FlashInv, ConfirmedStored
  <1> QED BY StableAlways, <1>1, PTL

-----------------------------------------------------------------------------
(* Any power cut, any flash error. *)

\* A running decoder changes only the subscription that it is asked to change.
THEOREM OnlyTheRequested == FaultSpec => OthersUntouched
  <1>1. ASSUME TypeInv, [FaultNext]_vars, pc # "off", pc' # "off",
               NEW i \in ActiveSlots, subscribed_channels'[i] # subscribed_channels[i]
        PROVE  /\ pc' = "erase" /\ subscribed_channels[i].id = update'.channel
               /\ subscribed_channels'[i].active
               /\ subscribed_channels'[i].id = update'.channel
    <2>1. PICK u \in Updates : StartUpdate(u)
      BY <1>1
      DEF FaultNext, CutNext, StableNext, Step, vars, BootAgain, FirstBoot, InitUart, ErasePage,
          WriteWord, WriteDone, RefuseUpdate, EndUpdate, list_channels, BadCommand, decode,
          IdlePowerCut, TearingPowerCut, LosePower, EraseFails, WriteFails
    <2>2. PICK j \in Slots :
            /\ FirstUsable(j, u.channel)
            /\ subscribed_channels' = [subscribed_channels EXCEPT ![j] = Installed(u)]
      BY <2>1 DEF StartUpdate
    <2>3. subscribed_channels \in [Slots -> ChannelStatus]
      BY <1>1 DEF TypeInv, TypeOK
    <2>4. i = j
      BY <1>1, <2>2, <2>3 DEF ActiveSlots
    <2>5. subscribed_channels[i].active /\ subscribed_channels'[i] = Installed(u)
      BY <2>2, <2>3, <2>4 DEF ActiveSlots
    <2> QED BY <2>1, <2>2, <2>4, <2>5 DEF StartUpdate, FirstUsable, Usable, Installed
  <1>2. FaultSpec => []TypeInv
    BY TypeInit, TypeNext, PTL DEF FaultSpec
  <1>3. TypeInv /\ [FaultNext]_vars =>
          [pc # "off" /\ pc' # "off" =>
             \A i \in ActiveSlots :
               subscribed_channels'[i] # subscribed_channels[i] =>
                 /\ pc' = "erase" /\ subscribed_channels[i].id = update'.channel
                 /\ subscribed_channels'[i].active
                 /\ subscribed_channels'[i].id = update'.channel]_vars
    BY <1>1
  <1> QED BY <1>2, <1>3, PTL DEF FaultSpec, OthersUntouched

-----------------------------------------------------------------------------
(* Torn rewrites.  A slot of the page is whole, erased, or erased from some *)
(* word on, so that no boot reads two windows mixed in one slot.            *)

SaneWindow(acc, c, s, e) ==
  \/ c = OnesId /\ s = Ones /\ e = Ones
  \/ \E u \in acc : c = u.channel /\ s \in {Ones, u.start} /\ e \in {Ones, u.end}

SaneTable(acc, chs) ==
  \A i \in Slots : chs[i].active => SaneWindow(acc, chs[i].id, chs[i].start, chs[i].end)

SanePage(acc, page) ==
  \A i \in Slots :
    /\ page[TagWord(i)] \in Tag \cup {Ones}
    /\ page[StartWord(i)] \in Time /\ page[EndWord(i)] \in Time
    /\ page[TagWord(i)] = Ones => page[StartWord(i)] = Ones /\ page[EndWord(i)] = Ones
    /\ page[TagWord(i)] # Ones /\ page[TagWord(i)].active =>
         SaneWindow(acc, page[TagWord(i)].id, page[StartWord(i)], page[EndWord(i)])

\* The page once the words before w are programmed.
Programmed(page, chs, w) ==
  \A k \in Word : page[k] = IF k < w THEN Image(chs)[k] ELSE Ones

CutInv ==
  /\ TypeInv
  /\ SaneTable(accepted, subscribed_channels)
  /\ SanePage(accepted, flash)
  /\ pc = "write" => Programmed(flash, subscribed_channels, wp)

\* However far the rewrite of a sane table got, the page is sane.
LEMMA ProgrammedIsSane ==
  ASSUME NEW acc, NEW chs \in [Slots -> ChannelStatus], SaneTable(acc, chs),
         NEW page, NEW w \in Nat, Programmed(page, chs, w)
  PROVE  SanePage(acc, page)
  <1> SUFFICES ASSUME NEW i \in Slots
      PROVE  /\ page[TagWord(i)] \in Tag \cup {Ones}
             /\ page[StartWord(i)] \in Time /\ page[EndWord(i)] \in Time
             /\ page[TagWord(i)] = Ones => page[StartWord(i)] = Ones /\ page[EndWord(i)] = Ones
             /\ page[TagWord(i)] # Ones /\ page[TagWord(i)].active =>
                  SaneWindow(acc, page[TagWord(i)].id, page[StartWord(i)], page[EndWord(i)])
    BY DEF SanePage
  <1> DEFINE tag == [active |-> chs[i].active, id |-> chs[i].id]
  <1>1. chs[i] \in ChannelStatus
    OBVIOUS
  <1>2. tag \in Tag /\ chs[i].start \in Time /\ chs[i].end \in Time
    BY <1>1 DEF ChannelStatus, Tag
  <1>3. /\ page[TagWord(i)] = IF TagWord(i) < w THEN tag ELSE Ones
        /\ page[StartWord(i)] = IF StartWord(i) < w THEN chs[i].start ELSE Ones
        /\ page[EndWord(i)] = IF EndWord(i) < w THEN chs[i].end ELSE Ones
    BY SlotWords, ImageWords DEF Programmed
  <1>4. TagWord(i) < StartWord(i) /\ StartWord(i) < EndWord(i)
        /\ {TagWord(i), StartWord(i), EndWord(i)} \subseteq Nat
    BY DEF TagWord, StartWord, EndWord, Slots
  <1>5. /\ page[TagWord(i)] \in Tag \cup {Ones}
        /\ page[StartWord(i)] \in {Ones, chs[i].start} /\ page[EndWord(i)] \in {Ones, chs[i].end}
        /\ page[TagWord(i)] = Ones => page[StartWord(i)] = Ones /\ page[EndWord(i)] = Ones
        /\ page[TagWord(i)] # Ones => page[TagWord(i)] = tag
    <2> HIDE DEF tag
    <2> QED BY <1>2, <1>3, <1>4
  <1>6. ASSUME page[TagWord(i)] # Ones, page[TagWord(i)].active
        PROVE  SaneWindow(acc, page[TagWord(i)].id, page[StartWord(i)], page[EndWord(i)])
    <2>1. chs[i].active /\ page[TagWord(i)].id = chs[i].id
      BY <1>5, <1>6
    <2>2. SaneWindow(acc, chs[i].id, chs[i].start, chs[i].end)
      BY <2>1 DEF SaneTable
    <2> QED BY <1>5, <2>1, <2>2 DEF SaneWindow
  <1> QED BY <1>2, <1>5, <1>6

\* A boot reads a sane table from a sane page.
LEMMA SaneBoot ==
  ASSUME NEW acc, SanePage(acc, flash), NEW i \in Slots, NEW s \in SlotReads(i), s.active
  PROVE  SaneWindow(acc, s.id, s.start, s.end)
  <1>1. PICK t \in ReadTag(flash[TagWord(i)]), st \in ReadTime(flash[StartWord(i)]),
             en \in ReadTime(flash[EndWord(i)]) :
          s = [active |-> t.active, id |-> t.id, start |-> st, end |-> en]
    BY DEF SlotReads
  <1>2. st = flash[StartWord(i)] /\ en = flash[EndWord(i)]
    BY <1>1 DEF SanePage, ReadTime
  <1>3. CASE flash[TagWord(i)] = Ones
    <2>1. t.id = OnesId
      BY <1>1, <1>3 DEF ReadTag
    <2> QED BY <1>1, <1>2, <1>3, <2>1 DEF SanePage, SaneWindow
  <1>4. CASE flash[TagWord(i)] # Ones
    <2>1. flash[TagWord(i)] \in Tag /\ flash[TagWord(i)] # Corrupt
      BY <1>4 DEF SanePage
    <2>2. t = flash[TagWord(i)]
      BY <1>1, <1>4, <2>1 DEF ReadTag
    <2> QED BY <1>1, <1>2, <1>4, <2>2 DEF SanePage
  <1> QED BY <1>3, <1>4

\* Accepting more updates makes nothing insane.
LEMMA SaneGrows ==
  ASSUME NEW acc, NEW more, acc \subseteq more, NEW chs, NEW page
  PROVE  /\ SaneTable(acc, chs) => SaneTable(more, chs)
         /\ SanePage(acc, page) => SanePage(more, page)
  BY DEF SaneTable, SanePage, SaneWindow

LEMMA CutInit == Init => CutInv
  <1> SUFFICES ASSUME Init PROVE CutInv
    OBVIOUS
  <1>1. SaneTable(accepted, subscribed_channels)
    BY DEF Init, ZeroedRam, SaneTable
  <1>2. SanePage(accepted, flash)
    BY SlotWords DEF Init, BlankPage, SanePage
  <1> QED BY <1>1, <1>2, TypeInit DEF Init, CutInv

LEMMA CutNextInv == CutInv /\ [CutNext]_vars => CutInv'
  <1> SUFFICES ASSUME CutInv, [CutNext]_vars PROVE CutInv'
    OBVIOUS
  <1> DEFINE Rest == /\ SaneTable(accepted, subscribed_channels)'
                     /\ SanePage(accepted, flash)'
                     /\ (pc = "write" => Programmed(flash, subscribed_channels, wp))'
  <1>1. TypeInv /\ TypeInv'
    BY TypeNext DEF CutInv, FaultNext
  <1>2. SUFFICES Rest
    BY <1>1 DEF CutInv
  <1>3. /\ SaneTable(accepted, subscribed_channels) /\ SanePage(accepted, flash)
        /\ pc = "write" => Programmed(flash, subscribed_channels, wp)
        /\ subscribed_channels \in [Slots -> ChannelStatus]
    BY <1>1 DEF CutInv, TypeInv, TypeOK
  <1>4. CASE BootAgain
    <2>1. SaneTable(accepted, subscribed_channels')
      BY <1>3, <1>4, SaneBoot DEF BootAgain, SaneTable
    <2> QED BY <1>3, <1>4, <2>1 DEF BootAgain, history
  <1>5. CASE FirstBoot
    <2>1. SaneTable(accepted, subscribed_channels')
      BY <1>5 DEF FirstBoot, SaneTable
    <2> QED BY <1>3, <1>5, <2>1 DEF FirstBoot, history
  <1>6. CASE ErasePage
    <2>1. wp' = 0 /\ Programmed(flash', subscribed_channels, 0)
      BY <1>6, ZeroWord DEF ErasePage, BlankPage, Programmed
    <2>2. SanePage(accepted, flash')
      BY <1>3, <2>1, ProgrammedIsSane
    <2> QED BY <1>3, <1>6, <2>1, <2>2 DEF ErasePage, history
  <1>7. CASE WriteWord
    <2>1. wp \in Word /\ wp' = wp + 1 /\ wp' \in Nat /\ flash \in [Word -> FlashWord]
      BY <1>1, <1>7, ZeroWord DEF WriteWord, TypeInv, TypeOK
    <2>2. flash' = [flash EXCEPT ![wp] = Program(flash[wp], Image(subscribed_channels)[wp])]
      BY <1>7 DEF WriteWord
    <2>3. Programmed(flash, subscribed_channels, wp)
      BY <1>3, <1>7 DEF WriteWord
    <2>4. flash'[wp] = Image(subscribed_channels)[wp]
      BY <2>1, <2>2, <2>3, ZeroWord DEF Program, Programmed
    <2>5. Programmed(flash', subscribed_channels, wp')
      BY <2>1, <2>2, <2>3, <2>4, ZeroWord DEF Programmed
    <2>6. SanePage(accepted, flash')
      BY <1>3, <2>1, <2>5, ProgrammedIsSane
    <2> QED BY <1>3, <1>7, <2>5, <2>6 DEF WriteWord, history
  <1>8. CASE WriteDone \/ InitUart \/ EndUpdate \/ list_channels \/ BadCommand
    BY <1>3, <1>8
    DEF WriteDone, AfterWrite, InitUart, EndUpdate, list_channels, BadCommand, history
  <1>9. ASSUME NEW u \in Updates, StartUpdate(u) PROVE Rest
    <2>1. accepted \subseteq accepted' /\ u \in accepted' /\ flash' = flash /\ pc' = "erase"
      BY <1>9 DEF StartUpdate
    <2>2. PICK j \in Slots :
            subscribed_channels' = [subscribed_channels EXCEPT ![j] = Installed(u)]
      BY <1>9 DEF StartUpdate
    <2>3. SaneTable(accepted', subscribed_channels')
      BY <1>3, <2>1, <2>2 DEF SaneTable, SaneWindow, Installed
    <2> QED BY <1>3, <2>1, <2>3, SaneGrows
  <1>10. ASSUME NEW u \in Updates, RefuseUpdate(u) PROVE Rest
    BY <1>3, <1>10 DEF RefuseUpdate, history
  <1>11. ASSUME NEW c \in Channel, decode(c) PROVE Rest
    BY <1>3, <1>11 DEF decode, history
  <1>12. CASE LosePower
    <2>1. SaneTable(accepted, subscribed_channels')
      BY <1>12 DEF LosePower, ZeroedRam, SaneTable
    <2> QED BY <1>3, <1>12, <2>1 DEF LosePower, history
  <1>13. CASE UNCHANGED vars
    BY <1>3, <1>13 DEF vars
  <1> QED
    BY <1>4, <1>5, <1>6, <1>7, <1>8, <1>9, <1>10, <1>11, <1>12, <1>13
    DEF CutNext, StableNext, Step, IdlePowerCut, TearingPowerCut

\* Wherever the power fails, a window in use was asked for, or is what is left
\* of it when the words not yet programmed read as erased.
THEOREM WindowsNeverMix == CutSpec => []NoMixedWindow
  <1>1. CutInv => NoMixedWindow
    BY DEF CutInv, SaneTable, SaneWindow, NoMixedWindow, ActiveSlots
  <1> QED BY CutInit, CutNextInv, <1>1, PTL DEF CutSpec
=============================================================================
