------------------------- MODULE DecoderRefinement -------------------------
(***************************************************************************)
(* The proof that a decoder whose rewrites are not torn implements the     *)
(* partial map of Subscriptions.                                           *)
(***************************************************************************)
EXTENDS DecoderProofs, FiniteSetTheorems

USE DecoderAssumption

-----------------------------------------------------------------------------
(* Tables of channels as partial maps. *)

Active(chs) == {i \in Slots : chs[i].active}
Ids(chs) == {chs[i].id : i \in Active(chs)}

LEMMA MapDomain ==
  ASSUME NEW chs
  PROVE  DOMAIN MapOf(chs) = Ids(chs)
  BY DEF MapOf, Ids, Active

\* A table without duplicates gives each channel the window of its slot.
LEMMA MapValue ==
  ASSUME NEW chs, Unique(chs), NEW i \in Active(chs)
  PROVE  MapOf(chs)[chs[i].id] = [start |-> chs[i].start, end |-> chs[i].end]
  <1>1. i \in Slots /\ chs[i].active
    BY DEF Active
  <1>2. SlotOf(chs, chs[i].id) \in Slots /\ chs[SlotOf(chs, chs[i].id)].active
        /\ chs[SlotOf(chs, chs[i].id)].id = chs[i].id
    BY <1>1 DEF SlotOf
  <1>3. SlotOf(chs, chs[i].id) = i
    BY <1>1, <1>2 DEF Unique
  <1>4. chs[i].id \in {chs[k].id : k \in {j \in Slots : chs[j].active}}
    BY <1>1
  <1> QED BY <1>3, <1>4 DEF MapOf

\* The number of channels subscribed is the number of slots in use.
LEMMA MapCount ==
  ASSUME NEW chs, Unique(chs)
  PROVE  /\ (\A i \in Slots : chs[i].active) => Cardinality(Ids(chs)) = MAX_CHANNEL_COUNT
         /\ (\E i \in Slots : ~chs[i].active) => Cardinality(Ids(chs)) < MAX_CHANNEL_COUNT
  <1> DEFINE f == [i \in Active(chs) |-> chs[i].id]
  <1>1. IsFiniteSet(Slots) /\ Cardinality(Slots) = MAX_CHANNEL_COUNT
    BY FS_Interval DEF Slots
  <1>2. Active(chs) \in SUBSET Slots
    BY DEF Active
  <1>3. /\ IsFiniteSet(Active(chs)) /\ Cardinality(Active(chs)) <= MAX_CHANNEL_COUNT
        /\ Cardinality(Active(chs)) = MAX_CHANNEL_COUNT => Active(chs) = Slots
    BY <1>1, <1>2, FS_Subset
  <1>4. f \in Surjection(Active(chs), Ids(chs))
    BY DEF Surjection, Ids
  <1>5. f \in Injection(Active(chs), Ids(chs))
    <2>1. f \in [Active(chs) -> Ids(chs)]
      BY DEF Ids
    <2>2. ASSUME NEW a \in Active(chs), NEW b \in Active(chs), f[a] = f[b] PROVE a = b
      BY <2>2 DEF Unique, Active
    <2> QED BY <2>1, <2>2 DEF Injection, IsInjective
  <1>6. Cardinality(Ids(chs)) = Cardinality(Active(chs))
    BY <1>3, <1>4, <1>5, FS_Surjection
  <1>7. Cardinality(Active(chs)) \in Nat
    BY <1>3, FS_CardinalityType
  <1>8. (\A i \in Slots : chs[i].active) => Active(chs) = Slots
    BY DEF Active
  <1>9. (\E i \in Slots : ~chs[i].active) => Active(chs) # Slots
    BY DEF Active
  <1> QED BY <1>1, <1>3, <1>6, <1>7, <1>8, <1>9

LEMMA SameCardinality ==
  ASSUME NEW S
  PROVE  Promise!Cardinality(S) = Cardinality(S)
  BY DEF Cardinality, Promise!Cardinality

\* The update takes a slot that is free, or its channel's, and the only one.
Installs(chs, new, i, u) ==
  /\ Unique(chs) /\ Unique(new)
  /\ new[i] = Installed(u)
  /\ chs[i].id = u.channel \/ ~chs[i].active
  /\ \A j \in Slots : j # i => new[j] = chs[j]
  /\ \A j \in Slots : j # i /\ chs[j].active => chs[j].id # u.channel

Extended(m, u) ==
  [c \in DOMAIN m \cup {u.channel} |->
     IF c = u.channel THEN [start |-> u.start, end |-> u.end] ELSE m[c]]

\* Installing an update changes the map at its channel only.
LEMMA MapInstall ==
  ASSUME NEW chs, NEW new, NEW i \in Slots, NEW u, Installs(chs, new, i, u)
  PROVE  MapOf(new) = Extended(MapOf(chs), u)
  <1> DEFINE g == [c \in Ids(chs) \cup {u.channel} |->
                     IF c = u.channel THEN [start |-> u.start, end |-> u.end]
                     ELSE MapOf(chs)[c]]
  <1> USE DEF Installs
  <1>1. /\ new[i].active /\ new[i].id = u.channel
        /\ new[i].start = u.start /\ new[i].end = u.end
    BY DEF Installed
  <1>2. Ids(new) = Ids(chs) \cup {u.channel}
    BY <1>1 DEF Ids, Active
  <1>3. ASSUME NEW c \in Ids(new) PROVE MapOf(new)[c] = g[c]
    <2>1. PICK j \in Active(new) : new[j].id = c
      BY DEF Ids
    <2>2. MapOf(new)[c] = [start |-> new[j].start, end |-> new[j].end]
      BY <2>1, MapValue
    <2>3. CASE j = i
      BY <1>1, <1>2, <2>1, <2>2, <2>3
    <2>4. CASE j # i
      <3>1. j \in Active(chs) /\ chs[j] = new[j] /\ c # u.channel
        BY <2>1, <2>4 DEF Active
      <3>2. MapOf(chs)[c] = [start |-> chs[j].start, end |-> chs[j].end]
        BY <2>1, <3>1, MapValue
      <3> QED BY <1>2, <2>2, <3>1, <3>2
    <2> QED BY <2>3, <2>4
  <1>4. MapOf(new) = [c \in Ids(new) |-> MapOf(new)[c]]
    BY DEF MapOf, Ids, Active
  <1>5. MapOf(new) = g
    BY <1>2, <1>3, <1>4
  <1> QED BY <1>5, MapDomain DEF Extended

-----------------------------------------------------------------------------
(* The steps. *)

Waiting == job = "update" /\ pc \in {"erase", "write", "reply"}

\* A step that is of no concern to the host.
LEMMA Silent ==
  ASSUME MapOf(Current)' = MapOf(Current), Waiting' <=> Waiting, reply' = reply
  PROVE  UNCHANGED Promise!vars
  BY DEF Promise!vars, Waiting, AnswerOf

\* What the table was, the table is.
LEMMA SameMap ==
  ASSUME UNCHANGED subscribed_channels, pc # "off", pc' # "off"
  PROVE  MapOf(Current)' = MapOf(Current)
  BY DEF Current, MapOf, SlotOf

LEMMA MapInit == Init => Promise!Init
  <1> SUFFICES ASSUME Init PROVE Promise!Init
    OBVIOUS
  <1>1. Current = ZeroedRam
    BY ZeroWord DEF Init, Current, Stored, BlankPage
  <1>2. MapOf(ZeroedRam) = [c \in {} |-> c]
    BY DEF MapOf, ZeroedRam
  <1>3. AnswerOf = Promise!NoAnswer
    BY DEF Init, AnswerOf, NoReply, Promise!NoAnswer
  <1> QED BY <1>1, <1>2, <1>3 DEF Init, Promise!Init

\* Answers.
LEMMA PlainAnswer ==
  ASSUME reply' \in {NoReply, ErrorReply, SubscribeReply} \/ \E c : reply' = DecodeReply(c)
  PROVE  AnswerOf' = reply'
  BY DEF AnswerOf, NoReply, ErrorReply, SubscribeReply, DecodeReply

\* What list_channels sends, entry by entry, is the whole map.
LEMMA ListAnswer ==
  ASSUME Unique(subscribed_channels), reply' = ListReply
  PROVE  AnswerOf' = [msg |-> "LIST_MSG", subs |-> MapOf(subscribed_channels)]
  <1> DEFINE chs == subscribed_channels
             info == ListReply.channel_info
             listed == {info[i].channel : i \in DOMAIN info}
             window(c) == LET i == CHOOSE j \in DOMAIN info : info[j].channel = c
                          IN [start |-> info[i].start, end |-> info[i].end]
  <1>1. DOMAIN info = Active(chs)
    BY DEF ListReply, ActiveSlots, Active
  <1>2. \A i \in Active(chs) :
          info[i] = [channel |-> chs[i].id, start |-> chs[i].start, end |-> chs[i].end]
    BY DEF ListReply, ActiveSlots, Active
  <1>3. listed = Ids(chs)
    <2> HIDE DEF info
    <2> QED BY <1>1, <1>2 DEF Ids
  <1>4. ASSUME NEW c \in Ids(chs) PROVE window(c) = MapOf(chs)[c]
    <2> DEFINE k == CHOOSE j \in DOMAIN info : info[j].channel = c
    <2> HIDE DEF info
    <2>1. PICK i \in Active(chs) : chs[i].id = c
      BY DEF Ids
    <2>2. k \in DOMAIN info /\ info[k].channel = c
      <3>1. i \in DOMAIN info /\ info[i].channel = c
        BY <1>1, <1>2, <2>1
      <3> QED BY <3>1
    <2> HIDE DEF k
    <2>3. k = i
      <3>1. k \in Active(chs) /\ chs[k].id = c
        BY <1>1, <1>2, <2>2
      <3> QED BY <2>1, <3>1 DEF Unique, Active
    <2>4. MapOf(chs)[c] = [start |-> chs[i].start, end |-> chs[i].end]
      BY <2>1, MapValue
    <2>5. info[k].start = chs[i].start /\ info[k].end = chs[i].end
      <3>1. info[i].start = chs[i].start /\ info[i].end = chs[i].end
        <4>1. info[i] = [channel |-> chs[i].id, start |-> chs[i].start, end |-> chs[i].end]
          BY <1>2, Zenon
        <4> QED BY <4>1
      <3> QED BY <2>3, <3>1, Zenon
    <2> USE DEF k
    <2> QED BY <2>4, <2>5
  <1>5. MapOf(chs) = [c \in Ids(chs) |-> MapOf(chs)[c]]
    BY DEF MapOf, Ids, Active
  <1>6. [c \in listed |-> window(c)] = MapOf(chs)
    BY <1>3, <1>4, <1>5
  <1>7. AnswerOf' = [msg |-> "LIST_MSG", subs |-> [c \in listed |-> window(c)]]
    BY DEF AnswerOf, ListReply
  <1> QED BY <1>6, <1>7

\* A command that only answers, given the answer.
LEMMA OnlyAnswers ==
  ASSUME pc = "ready", UNCHANGED <<pc, job, subscribed_channels, flash>>
  PROVE  /\ MapOf(Current)' = MapOf(Current) /\ MapOf(Current) = MapOf(subscribed_channels)
         /\ ~Waiting /\ ~Waiting'
  BY SameMap DEF Waiting, Current

\* An update is accepted exactly when the table has a usable slot.
LEMMA AcceptStep ==
  ASSUME StableInv, NEW u \in Updates, StartUpdate(u)
  PROVE  Promise!Accept(u)
  <1> DEFINE chs == subscribed_channels
  <1>1. PICK i \in Slots : FirstUsable(i, u.channel) /\ chs' = [chs EXCEPT ![i] = Installed(u)]
    BY DEF StartUpdate
  <1>2. /\ chs \in [Slots -> ChannelStatus] /\ TypeInv
        /\ Good(chs) /\ Prefix(chs) /\ Unique(chs)
    BY DEF StartUpdate, StableInv, RamInv, Good, TypeInv, TypeOK
  <1>3. Unique(chs')
    BY <1>2, StartUpdateGood DEF Good, Unique
  <1>4. Current = chs /\ Current' = chs' /\ ~Waiting /\ Waiting'
    BY DEF StartUpdate, Current, Waiting
  <1>5. /\ chs[i].id = u.channel \/ ~chs[i].active
        /\ \A j \in Slots : j < i => chs[j].active /\ chs[j].id # u.channel
    BY <1>1 DEF FirstUsable, Usable, Slots
  <1>6. chs'[i] = Installed(u) /\ \A j \in Slots : j # i => chs'[j] = chs[j]
    BY <1>1, <1>2
  <1>7. \A j \in Slots : j # i /\ chs[j].active => chs[j].id # u.channel
    BY <1>2, <1>5 DEF Prefix, Unique, Slots
  <1>8. MapOf(chs') = Extended(MapOf(chs), u)
    <2>1. Installs(chs, chs', i, u)
      BY <1>2, <1>3, <1>5, <1>6, <1>7 DEF Installs
    <2> QED BY <2>1, MapInstall
  <1>9. u.channel \in DOMAIN MapOf(chs) \/ Cardinality(DOMAIN MapOf(chs)) < MAX_CHANNEL_COUNT
    <2>1. CASE chs[i].active
      <3>1. u.channel \in Ids(chs)
        BY <1>5, <2>1 DEF Ids, Active
      <3> QED BY <3>1, MapDomain
    <2>2. CASE ~chs[i].active
      BY <1>2, <2>2, MapCount, MapDomain
    <2> QED BY <2>1, <2>2
  <1>10. AnswerOf' = Promise!NoAnswer
    BY PlainAnswer DEF StartUpdate, NoReply, Promise!NoAnswer
  <1>11. u.channel # EMERGENCY_CHANNEL
    BY DEF StartUpdate
  <1>12. MapOf(Current)' = MapOf(chs') /\ MapOf(Current) = MapOf(chs)
    BY <1>4
  <1> QED
    BY <1>4, <1>8, <1>9, <1>10, <1>11, <1>12, SameCardinality
    DEF Promise!Accept, Promise!Acceptable, Waiting, Extended

LEMMA RefuseStep ==
  ASSUME StableInv, NEW u \in Updates, RefuseUpdate(u)
  PROVE  Promise!Refuse(u)
  <1> DEFINE chs == subscribed_channels
  <1>1. Unique(chs) /\ pc = "ready" /\ UNCHANGED <<pc, job, subscribed_channels, flash>>
    BY DEF RefuseUpdate, StableInv, RamInv, Good
  <1>2. ~Promise!Acceptable(u)
    <2>1. CASE u.channel = EMERGENCY_CHANNEL
      BY <2>1 DEF Promise!Acceptable
    <2>2. CASE \A i \in Slots : ~Usable(i, u.channel)
      <3>1. \A i \in Slots : chs[i].active /\ chs[i].id # u.channel
        BY <2>2 DEF Usable
      <3>2. u.channel \notin Ids(chs) /\ Cardinality(Ids(chs)) = MAX_CHANNEL_COUNT
        BY <1>1, <3>1, MapCount DEF Ids, Active
      <3>3. DOMAIN MapOf(Current) = Ids(chs)
        BY <1>1, MapDomain DEF Current
      <3> QED BY <3>2, <3>3, SameCardinality DEF Promise!Acceptable
    <2> QED BY <2>1, <2>2 DEF RefuseUpdate
  <1>3. AnswerOf' = Promise!Failure
    BY PlainAnswer DEF RefuseUpdate, ErrorReply, Promise!Failure
  <1> QED BY <1>1, <1>2, <1>3, OnlyAnswers DEF Promise!Refuse, Waiting

LEMMA CommandStep ==
  ASSUME StableInv,
         list_channels \/ BadCommand \/ \E c \in Channel : decode(c)
  PROVE  Promise!Next
  <1> DEFINE chs == subscribed_channels
  <1>1. Unique(chs) /\ pc = "ready" /\ UNCHANGED <<pc, job, subscribed_channels, flash>>
    BY DEF list_channels, BadCommand, decode, StableInv, RamInv, Good
  <1>2. /\ MapOf(Current)' = MapOf(Current) /\ MapOf(Current) = MapOf(chs)
        /\ ~Waiting /\ ~Waiting'
    BY <1>1, OnlyAnswers
  <1>3. CASE list_channels
    <2>1. AnswerOf' = [msg |-> "LIST_MSG", subs |-> MapOf(chs)]
      BY <1>1, <1>3, ListAnswer DEF list_channels
    <2>2. Promise!List
      BY <1>2, <2>1 DEF Promise!List, Promise!Report, Waiting
    <2> QED BY <2>2 DEF Promise!Next
  <1>4. CASE BadCommand
    <2>1. AnswerOf' = Promise!Failure
      BY <1>4, PlainAnswer DEF BadCommand, ErrorReply, Promise!Failure
    <2>2. Promise!Reject
      BY <1>2, <2>1 DEF Promise!Reject, Waiting
    <2> QED BY <2>2 DEF Promise!Next
  <1>5. ASSUME NEW c \in Channel, decode(c) PROVE Promise!Next
    <2>1. is_subscribed(c) <=> c \in DOMAIN MapOf(Current) \cup {EMERGENCY_CHANNEL}
      <3>1. is_subscribed(c) <=> c = EMERGENCY_CHANNEL \/ c \in Ids(chs)
        BY DEF is_subscribed, ActiveSlots, Ids, Active
      <3>2. DOMAIN MapOf(Current) = Ids(chs)
        BY <1>2, MapDomain
      <3> QED BY <3>1, <3>2
    <2>2. AnswerOf' = reply'
      BY <1>5, PlainAnswer DEF decode
    <2>3. Promise!Decode(c)
      BY <1>2, <1>5, <2>1, <2>2
      DEF decode, Promise!Decode, Promise!Frame, Promise!Failure, DecodeReply, ErrorReply, Waiting
    <2> QED BY <2>3 DEF Promise!Next
  <1> QED BY <1>3, <1>4, <1>5

LEMMA BootStep ==
  ASSUME StableInv, BootAgain \/ FirstBoot
  PROVE  UNCHANGED Promise!vars
  <1>1. pc = "off" /\ pc' # "off" /\ ~Waiting /\ reply' = reply /\ Current = Stored
    BY DEF BootAgain, FirstBoot, Waiting, Current
  <1>2. Current' = subscribed_channels'
    BY <1>1 DEF Current
  <1>3. CASE BootAgain
    <2>1. /\ Stored \in [Slots -> ChannelStatus] /\ flash = Image(Stored)
      BY <1>3 DEF BootAgain, StableInv, FlashInv
    <2>2. \A i \in Slots : SlotReads(i) = {Stored[i]}
      BY <2>1, ReadBack
    <2>3. PICK chs \in [Slots -> UNION {SlotReads(i) : i \in Slots}] :
            (\A i \in Slots : chs[i] \in SlotReads(i)) /\ subscribed_channels' = chs
      BY <1>3 DEF BootAgain
    <2>4. \A i \in Slots : chs[i] = Stored[i]
      BY <2>2, <2>3
    <2>5. Current' = Current
      BY <1>1, <1>2, <2>1, <2>3, <2>4
    <2>6. MapOf(Current)' = MapOf(Current)
      BY <2>5
    <2>7. ~Waiting'
      BY <1>3 DEF BootAgain, Waiting
    <2> QED BY <1>1, <2>6, <2>7, Silent
  <1>4. CASE FirstBoot
    <2>1. Ids(Stored) = {} /\ Ids(subscribed_channels') = {}
      BY <1>4 DEF FirstBoot, Stored, ZeroedRam, Ids, Active
    <2>2. MapOf(Stored) = [c \in {} |-> c] /\ MapOf(subscribed_channels') = [c \in {} |-> c]
      BY <2>1 DEF MapOf, Ids, Active
    <2>3. MapOf(Current)' = MapOf(Current)
      BY <1>1, <1>2, <2>2
    <2>4. ~Waiting'
      BY <1>4 DEF FirstBoot, Waiting
    <2> QED BY <1>1, <2>3, <2>4, Silent
  <1> QED BY <1>3, <1>4

LEMMA RestartStep ==
  ASSUME StableInv, IdlePowerCut
  PROVE  Promise!Restart
  <1>1. pc \in {"uart", "ready", "reply", "halted"} /\ pc' = "off" /\ flash' = flash
    BY DEF IdlePowerCut, LosePower, Rewriting, StableInv, TypeInv, TypeOK
  <1>2. Stored = subscribed_channels
    BY <1>1, ReadBack DEF StableInv, FlashInv, TypeInv, TypeOK
  <1>3. Current = subscribed_channels /\ Current' = subscribed_channels
    BY <1>1, <1>2 DEF Current, Stored
  <1>4. MapOf(Current)' = MapOf(Current)
    BY <1>3
  <1>5. AnswerOf' = Promise!NoAnswer
    BY PlainAnswer DEF IdlePowerCut, LosePower, NoReply, Promise!NoAnswer
  <1> QED BY <1>1, <1>4, <1>5 DEF Promise!Restart

LEMMA ConfirmStep ==
  ASSUME StableInv, EndUpdate
  PROVE  Promise!Confirm
  <1>1. Waiting /\ ~Waiting' /\ MapOf(Current)' = MapOf(Current)
    BY SameMap DEF EndUpdate, Waiting, StableInv, TypeInv, PendingOK
  <1>2. AnswerOf' = Promise!Done
    BY PlainAnswer DEF EndUpdate, SubscribeReply, Promise!Done
  <1> QED BY <1>1, <1>2 DEF Promise!Confirm, Waiting

LEMMA RefinementStep == StableInv /\ [StableNext]_vars => [Promise!Next]_(Promise!vars)
  <1> SUFFICES ASSUME StableInv, [StableNext]_vars PROVE [Promise!Next]_(Promise!vars)
    OBVIOUS
  <1>1. CASE InitUart \/ ErasePage \/ WriteWord \/ WriteDone
    <2>1. MapOf(Current)' = MapOf(Current) /\ (Waiting' <=> Waiting) /\ reply' = reply
      BY <1>1, SameMap DEF InitUart, ErasePage, WriteWord, WriteDone, AfterWrite, Waiting
    <2> QED BY <2>1, Silent
  <1>2. CASE UNCHANGED vars
    <2>1. MapOf(Current)' = MapOf(Current) /\ (Waiting' <=> Waiting) /\ reply' = reply
      BY <1>2 DEF vars, Current, Stored, MapOf, SlotOf, Waiting
    <2> QED BY <2>1, Silent
  <1>3. ASSUME NEW u \in Updates, StartUpdate(u) PROVE Promise!Next
    BY <1>3, AcceptStep DEF Promise!Next
  <1>4. ASSUME NEW u \in Updates, RefuseUpdate(u) PROVE Promise!Next
    BY <1>4, RefuseStep DEF Promise!Next
  <1>5. CASE EndUpdate
    BY <1>5, ConfirmStep DEF Promise!Next
  <1>6. CASE IdlePowerCut
    BY <1>6, RestartStep DEF Promise!Next
  <1>7. CASE BootAgain \/ FirstBoot
    BY <1>7, BootStep
  <1>8. CASE list_channels \/ BadCommand \/ \E c \in Channel : decode(c)
    BY <1>8, CommandStep
  <1> QED
    BY <1>1, <1>2, <1>3, <1>4, <1>5, <1>6, <1>7, <1>8 DEF StableNext, Step

\* A decoder whose rewrites are not torn does only what the map of
\* Subscriptions does: each update takes effect at once or not at all, every
\* answer is the one the map calls for, and restarts lose nothing.
THEOREM Refinement == StableSpec => ImplementsSubscriptions
  BY MapInit, StableAlways, RefinementStep, PTL DEF StableSpec, ImplementsSubscriptions, Promise!Spec
=============================================================================
