--------------------------- MODULE SatelliteProofs --------------------------
(***************************************************************************)
(* The chains of futures of Satellite implement the backlogs of Broadcast, *)
(* for any number of channels, TVs and messages.                           *)
(***************************************************************************)
EXTENDS Satellite, SequenceTheorems, TLAPS

-----------------------------------------------------------------------------
(* Ends of sequences. *)

Rest(s, i) == SubSeq(s, i, Len(s))

LEMMA RestAppend ==
  ASSUME NEW S, NEW s \in Seq(S), NEW m \in S, NEW i \in 1..(Len(s) + 1)
  PROVE  Rest(Append(s, m), i) = Append(Rest(s, i), m)
BY DEF Rest

LEMMA RestTail ==
  ASSUME NEW S, NEW s \in Seq(S), NEW i \in 1..Len(s)
  PROVE  /\ Rest(s, i) # <<>>
         /\ Head(Rest(s, i)) = s[i]
         /\ Tail(Rest(s, i)) = Rest(s, i + 1)
<1>1. i \in Int /\ Len(s) \in i..Len(s) /\ \A k \in i..Len(s) : s[k] \in S
  OBVIOUS
<1>2. Len(SubSeq(s, i, Len(s))) = Len(s) - i + 1
  BY <1>1, SubSeqProperties
<1>3. /\ Head(SubSeq(s, i, Len(s))) = s[i]
      /\ Tail(SubSeq(s, i, Len(s))) = SubSeq(s, i + 1, Len(s))
  BY <1>1, HeadTailOfSubSeq
<1>4. SubSeq(s, i, Len(s)) # <<>>
  <2>1. Len(SubSeq(s, i, Len(s))) # 0
    BY <1>1, <1>2
  <2>2. Len(<<>>) = 0
    OBVIOUS
  <2> QED
    BY <2>1, <2>2, Zenon
<1> QED
  BY <1>3, <1>4, Zenon DEF Rest

LEMMA RestEmpty ==
  ASSUME NEW S, NEW s \in Seq(S)
  PROVE  Rest(s, Len(s) + 1) = <<>>
BY DEF Rest

-----------------------------------------------------------------------------
(* Types, and handlers that have not written yet. *)

TypeInv == TypeOK /\ \A t \in TVs : at[t] \in {"none", "start"} => sent[t] = <<>>

LEMMA TypeInit == Init => TypeInv
<1> SUFFICES ASSUME Init PROVE TypeInv
  OBVIOUS
<1>1. <<>> \in Seq(Lines)
  OBVIOUS
<1> QED
  BY <1>1, SatelliteAssumption DEF Init, TypeInv, TypeOK

LEMMA FatalType ==
  ASSUME TypeInv, handle_fatal
  PROVE  cancelled' \subseteq cleanup_tasks /\ conn' \in [TVs -> {"none", "open", "gone", "lost", "closed"}]
BY DEF TypeInv, TypeOK, handle_fatal

\* Every step keeps the types.
LEMMA TypeStep == TypeInv /\ [Next]_vars => TypeInv'
<1> SUFFICES ASSUME TypeInv, [Next]_vars PROVE TypeInv'
  OBVIOUS
<1> USE SatelliteAssumption DEF TypeInv
<1>1. ASSUME NEW m \in Lines, ServeLine(m) PROVE TypeInv'
  <2>1. \A c \in Channels : /\ resolved'[c] \in Seq(Lines)
                            /\ Len(resolved[c]) \in Nat /\ Len(resolved'[c]) \in Nat
                            /\ Len(resolved[c]) <= Len(resolved'[c])
    BY <1>1 DEF ServeLine, TypeOK
  <2>2. resolved' \in [Channels -> Seq(Lines)]
    BY <1>1, <2>1 DEF ServeLine
  <2>3. \A t \in TVs : waiter'[t] \in 1..(Len(resolved'[port'[t]]) + 1)
    BY <1>1, <2>1 DEF ServeLine, TypeOK, tvVars
  <2> QED
    BY <1>1, <2>2, <2>3 DEF ServeLine, TypeOK, tvVars, serverVars
<1>2. ASSUME UplinkFails \/ BadChannel PROVE TypeInv'
  BY <1>2, FatalType DEF UplinkFails, BadChannel, TypeOK
<1>3. ASSUME NEW c \in Channels,
             Listen(c) \/ ListenFails(c) \/ OpenServer(c) \/ CloseServer(c) \/ AbortServer(c)
      PROVE  TypeInv'
  <2>1. CASE Listen(c)
    BY <2>1 DEF Listen, TypeOK, tvVars
  <2>2. CASE ListenFails(c)
    BY <2>2, FatalType DEF ListenFails, TypeOK
  <2>3. CASE OpenServer(c)
    BY <2>3 DEF OpenServer, TypeOK, tvVars
  <2>4. CASE CloseServer(c)
    BY <2>4, FatalType DEF CloseServer, TypeOK
  <2>5. CASE AbortServer(c)
    BY <2>5, FatalType DEF AbortServer, TypeOK
  <2> QED
    BY <1>3, <2>1, <2>2, <2>3, <2>4, <2>5
<1>4. CASE Exit
  BY <1>4 DEF Exit, TypeOK, serverVars
<1>5. ASSUME NEW t \in TVs, Connect(t) \/ Disconnect(t) \/ Resume(t) PROVE TypeInv'
  BY <1>5 DEF Connect, Disconnect, Resume, TypeOK, serverVars
<1>6. ASSUME NEW t \in TVs, StartHandler(t) PROVE TypeInv'
  <2>1. Len(resolved[port[t]]) + 1 \in 1..(Len(resolved[port[t]]) + 1)
    BY DEF TypeOK
  <2> QED
    BY <1>6, <2>1 DEF StartHandler, TypeOK, serverVars
<1>7. ASSUME NEW t \in TVs, WriteMessage(t) PROVE TypeInv'
  <2>1. /\ resolved[port[t]] \in Seq(Lines) /\ waiter[t] \in 1..Len(resolved[port[t]])
        /\ waiter[t] + 1 \in 1..(Len(resolved[port[t]]) + 1)
    BY <1>7 DEF WriteMessage, TypeOK
  <2>2. sent' \in [TVs -> Seq(Lines)]
    <3>1. Append(sent[t], resolved[port[t]][waiter[t]]) \in Seq(Lines)
      BY <2>1 DEF TypeOK
    <3> QED
      BY <1>7, <3>1 DEF WriteMessage, TypeOK
  <2>3. at' \in [TVs -> {"none", "start", "await", "paused", "raise"}]
        /\ \A u \in TVs : at'[u] \in {"none", "start"} => u # t /\ at[u] \in {"none", "start"}
    BY <1>7 DEF WriteMessage, TypeOK
  <2>4. \A u \in TVs : u # t => sent'[u] = sent[u]
    BY <1>7 DEF WriteMessage, TypeOK
  <2>5. TypeOK'
    BY <1>7, <2>1, <2>2, <2>3 DEF WriteMessage, NextWaiter, TypeOK, serverVars
  <2> QED
    BY <2>3, <2>4, <2>5
<1>8. ASSUME NEW t \in TVs, EndHandler(t) PROVE TypeInv'
  <2>1. <<>> \in Seq(Lines)
    OBVIOUS
  <2> QED
    BY <1>8, <2>1 DEF EndHandler, TypeOK, serverVars
<1>9. CASE UNCHANGED vars
  BY <1>9 DEF vars, TypeOK, tvVars, serverVars
<1> QED
  BY <1>1, <1>2, <1>3, <1>4, <1>5, <1>6, <1>7, <1>8, <1>9
     DEF Next, Others, serve_downlink, downlink

-----------------------------------------------------------------------------
(* What the handlers of the TVs still have to send. *)

Listeners == {t \in TVs : Tuned(t)}

\* TVs that stop to listen: their connection or their handler is gone.
LEMMA Leaving ==
  ASSUME UNCHANGED <<resolved, port, waiter>>,
         Listeners' \subseteq Listeners, \A t \in Listeners' : sent'[t] = sent[t]
  PROVE  [Promise!Next]_Promise!vars
<1> DEFINE S == Listeners \ Listeners'
<1>1. /\ S \subseteq TVs
      /\ \A t \in TVs : (at[t] \in {"await", "paused"} /\ conn[t] = "open") <=> t \in Listeners
      /\ \A t \in TVs : (at'[t] \in {"await", "paused"} /\ conn'[t] = "open") <=> t \in Listeners'
  BY DEF Listeners, Tuned
<1> HIDE DEF S
<1>2. CASE S = {}
  <2>1. Listeners = Listeners'
    BY <1>2 DEF S
  <2> QED
    BY <1>1, <2>1 DEF Promise!vars, Backlog, Tuned
<1>3. CASE S # {}
  <2>1. Promise!Leave(S)
    BY <1>1, <1>3 DEF Promise!Leave, Backlog, Tuned, S
  <2>2. S \in SUBSET TVs
    BY <1>1
  <2> QED
    BY <2>1, <2>2 DEF Promise!Next, Promise!Leave
<1> QED
  BY <1>2, <1>3

\* The state of Broadcast.
TunedBar == [t \in TVs |-> IF Tuned(t) THEN {port[t]} ELSE {}]
PendingBar == [t \in TVs |-> IF Tuned(t) THEN Backlog(t) ELSE <<>>]
SentBar == [t \in TVs |-> IF Tuned(t) THEN sent[t] ELSE <<>>]

\* A message is published: it is the last one that the TVs of its channel await.
LEMMA Publishing ==
  ASSUME TypeInv, NEW m \in Lines, ServeLine(m)
  PROVE  Promise!Publish(m)
<1> DEFINE rest(t) == Rest(resolved[port[t]], waiter[t])
           next(t) == Rest(resolved'[port[t]], waiter[t])
<1>1. \A t \in TVs : next(t) = IF GoesTo(m, port[t]) THEN Append(rest(t), m) ELSE rest(t)
  <2> TAKE t \in TVs
  <2>1. /\ port[t] \in Channels /\ resolved[port[t]] \in Seq(Lines)
        /\ waiter[t] \in 1..(Len(resolved[port[t]]) + 1)
    BY DEF TypeInv, TypeOK
  <2>2. Rest(Append(resolved[port[t]], m), waiter[t]) = Append(rest(t), m)
    BY <2>1, RestAppend
  <2> QED
    BY <2>1, <2>2 DEF ServeLine
<1>2. UNCHANGED <<at, port, waiter, conn, sent>>
  BY DEF ServeLine, tvVars
<1>3. \A t \in TVs : /\ rest(t) = SubSeq(resolved[port[t]], waiter[t], Len(resolved[port[t]]))
                     /\ next(t) = SubSeq(resolved'[port[t]], waiter[t], Len(resolved'[port[t]]))
  BY DEF Rest
<1> HIDE DEF rest, next
<1> QED
  BY <1>1, <1>2, <1>3 DEF Promise!Publish, Tuned, Backlog

\* The first message that an open connection awaits is written.
LEMMA Sending ==
  ASSUME TypeInv, NEW t \in TVs, WriteMessage(t), conn[t] = "open"
  PROVE  Promise!Send(t)
<1> DEFINE rest(u) == Rest(resolved[port[u]], waiter[u])
<1>1. /\ resolved[port[t]] \in Seq(Lines) /\ waiter[t] \in 1..Len(resolved[port[t]])
      /\ at[t] = "await"
  BY DEF TypeInv, TypeOK, WriteMessage
<1>2. /\ rest(t) # <<>> /\ Head(rest(t)) = resolved[port[t]][waiter[t]]
      /\ Tail(rest(t)) = Rest(resolved[port[t]], waiter[t] + 1)
  BY <1>1, RestTail
<1>3. /\ UNCHANGED <<resolved, port, conn>>
      /\ waiter' = [waiter EXCEPT ![t] = waiter[t] + 1]
      /\ sent' = [sent EXCEPT ![t] = Append(sent[t], resolved[port[t]][waiter[t]])]
      /\ at' = [at EXCEPT ![t] = "await"] \/ at' = [at EXCEPT ![t] = "paused"]
  BY DEF WriteMessage, NextWaiter, TypeInv, TypeOK
<1> HIDE DEF rest
<1>4. \A u \in TVs : rest(u) = SubSeq(resolved[port[u]], waiter[u], Len(resolved[port[u]]))
  BY DEF rest, Rest
<1>5. Tail(rest(t)) = SubSeq(resolved[port[t]], waiter[t] + 1, Len(resolved[port[t]]))
  BY <1>2 DEF Rest
<1>6. /\ Tuned(t)
      /\ \A u \in TVs : (at'[u] \in {"await", "paused"} /\ conn'[u] = "open") <=> Tuned(u)
      /\ waiter'[t] = waiter[t] + 1
      /\ sent'[t] = Append(sent[t], resolved[port[t]][waiter[t]])
      /\ \A u \in TVs : u # t => waiter'[u] = waiter[u] /\ sent'[u] = sent[u]
  BY <1>1, <1>3 DEF Tuned, TypeInv, TypeOK
<1>7. PendingBar[t] = rest(t)
  BY <1>4, <1>6 DEF PendingBar, Backlog
<1>8. UNCHANGED TunedBar
  BY <1>3, <1>6 DEF TunedBar, Tuned
<1>9. PendingBar' = [PendingBar EXCEPT ![t] = Tail(PendingBar[t])]
  <2>1. PendingBar'[t] = Tail(rest(t))
    BY <1>3, <1>5, <1>6 DEF PendingBar, Tuned, Backlog
  <2>2. \A u \in TVs : u # t => PendingBar'[u] = PendingBar[u]
    BY <1>3, <1>6 DEF PendingBar, Tuned, Backlog
  <2> QED
    BY <1>7, <2>1, <2>2 DEF PendingBar
<1>10. SentBar' = [SentBar EXCEPT ![t] = Append(SentBar[t], Head(PendingBar[t]))]
  <2>1. SentBar[t] = sent[t] /\ SentBar'[t] = Append(sent[t], Head(PendingBar[t]))
    BY <1>2, <1>6, <1>7 DEF SentBar, Tuned
  <2>2. \A u \in TVs : u # t => SentBar'[u] = SentBar[u]
    BY <1>6 DEF SentBar, Tuned
  <2> QED
    BY <2>1, <2>2 DEF SentBar
<1> QED
  BY <1>2, <1>7, <1>8, <1>9, <1>10
     DEF Promise!Send, TunedBar, PendingBar, SentBar

\* A handler takes the first future: a TV listens, if it is still there.
LEMMA Listening ==
  ASSUME TypeInv, NEW t \in TVs, StartHandler(t)
  PROVE  [Promise!Next]_Promise!vars
<1>1. /\ UNCHANGED <<resolved, port, conn, sent>>
      /\ at[t] = "start" /\ at' = [at EXCEPT ![t] = "await"]
      /\ waiter' = [waiter EXCEPT ![t] = Len(resolved[port[t]]) + 1]
      /\ sent[t] = <<>>
      /\ SubSeq(resolved[port[t]], Len(resolved[port[t]]) + 1, Len(resolved[port[t]])) = <<>>
  <2>1. /\ UNCHANGED <<resolved, port, conn, sent>>
        /\ at[t] = "start" /\ at' = [at EXCEPT ![t] = "await"]
        /\ waiter' = [waiter EXCEPT ![t] = Len(resolved[port[t]]) + 1]
    BY DEF StartHandler
  <2>2. resolved[port[t]] \in Seq(Lines)
    BY DEF TypeInv, TypeOK
  <2>3. Rest(resolved[port[t]], Len(resolved[port[t]]) + 1) = <<>>
    BY <2>2, RestEmpty
  <2> QED
    BY <2>1, <2>3 DEF TypeInv, Rest
<1>2. CASE conn[t] = "open"
  <2>1. Promise!Listen(t, port[t])
    <3>1. /\ \A u \in TVs : Tuned(u) => u # t
          /\ \A u \in TVs : (at'[u] \in {"await", "paused"} /\ conn'[u] = "open") <=> Tuned(u) \/ u = t
          /\ waiter'[t] = Len(resolved[port[t]]) + 1
          /\ \A u \in TVs : u # t => waiter'[u] = waiter[u]
      BY <1>1, <1>2 DEF Tuned, TypeInv, TypeOK
    <3>2. TunedBar[t] = {} /\ TunedBar' = [TunedBar EXCEPT ![t] = {port[t]}]
      BY <1>1, <3>1 DEF TunedBar, Tuned
    <3>3. UNCHANGED PendingBar
      <4>1. PendingBar'[t] = <<>> /\ PendingBar[t] = <<>>
        BY <1>1, <3>1 DEF PendingBar, Tuned, Backlog
      <4>2. \A u \in TVs : u # t => PendingBar'[u] = PendingBar[u]
        BY <1>1, <3>1 DEF PendingBar, Tuned, Backlog
      <4> QED
        BY <4>1, <4>2 DEF PendingBar
    <3>4. UNCHANGED SentBar
      BY <1>1, <3>1 DEF SentBar, Tuned
    <3> QED
      BY <3>2, <3>3, <3>4 DEF Promise!Listen, TunedBar, PendingBar, SentBar
  <2>2. port[t] \in Channels
    BY DEF TypeInv, TypeOK
  <2> QED
    BY <2>1, <2>2 DEF Promise!Next, Promise!Listen
<1>3. CASE conn[t] # "open"
  BY <1>1, <1>3 DEF Promise!vars, Tuned, Backlog, TypeInv, TypeOK
<1> QED
  BY <1>2, <1>3

\* The connections that handle_fatal() closes were open.
LEMMA FatalStep ==
  ASSUME TypeInv, handle_fatal \/ UNCHANGED conn, UNCHANGED <<resolved, at, port, waiter, sent>>
  PROVE  [Promise!Next]_Promise!vars
<1>1. Listeners' \subseteq Listeners
  BY DEF handle_fatal, TypeInv, TypeOK, Listeners, Tuned
<1> QED
  BY <1>1, Leaving

LEMMA StepSimulation == TypeInv /\ [Next]_vars => [Promise!Next]_Promise!vars
<1> SUFFICES ASSUME TypeInv, [Next]_vars PROVE [Promise!Next]_Promise!vars
  OBVIOUS
<1>1. ASSUME NEW m \in Lines, ServeLine(m) PROVE [Promise!Next]_Promise!vars
  BY <1>1, Publishing DEF Promise!Next, Promise!Publish
<1>2. ASSUME UplinkFails \/ BadChannel PROVE [Promise!Next]_Promise!vars
  BY <1>2, FatalStep DEF UplinkFails, BadChannel
<1>3. ASSUME NEW c \in Channels,
             Listen(c) \/ ListenFails(c) \/ OpenServer(c) \/ CloseServer(c) \/ AbortServer(c)
      PROVE  [Promise!Next]_Promise!vars
  BY <1>3, FatalStep DEF Listen, ListenFails, OpenServer, CloseServer, AbortServer, tvVars
<1>4. CASE Exit
  BY <1>4, Leaving DEF Exit, Listeners, Tuned
<1>5. ASSUME NEW t \in TVs, Connect(t) \/ Disconnect(t) \/ Resume(t) \/ EndHandler(t)
      PROVE  [Promise!Next]_Promise!vars
  <2>1. UNCHANGED <<resolved, port, waiter>>
    BY <1>5 DEF Connect, Disconnect, Resume, EndHandler
  <2>2. Listeners' \subseteq Listeners /\ \A u \in Listeners' : sent'[u] = sent[u]
    BY <1>5 DEF Connect, Disconnect, Resume, EndHandler, Listeners, Tuned, TypeInv, TypeOK
  <2> QED
    BY <2>1, <2>2, Leaving
<1>6. ASSUME NEW t \in TVs, StartHandler(t) PROVE [Promise!Next]_Promise!vars
  BY <1>6, Listening
<1>7. ASSUME NEW t \in TVs, WriteMessage(t) PROVE [Promise!Next]_Promise!vars
  <2>1. CASE conn[t] = "open"
    BY <1>7, <2>1, Sending DEF Promise!Next, Promise!Send
  <2>2. CASE conn[t] # "open"
    BY <1>7, <2>2 DEF WriteMessage, Promise!vars, Tuned, Backlog, TypeInv, TypeOK
  <2> QED
    BY <2>1, <2>2
<1>8. CASE UNCHANGED vars
  BY <1>8, FatalStep DEF vars, tvVars
<1> QED
  BY <1>1, <1>2, <1>3, <1>4, <1>5, <1>6, <1>7, <1>8
     DEF Next, Others, serve_downlink, downlink

-----------------------------------------------------------------------------

\* The satellite keeps the types of its state: a handler awaits a future of its
\* channel's chain, at most the last one.
THEOREM TypeCorrect == Spec => []TypeOK
<1>1. TypeInv => TypeOK
  BY DEF TypeInv
<1> QED
  BY <1>1, TypeInit, TypeStep, PTL DEF Spec

\* Whatever TVs connect, stall and leave, and whenever the uplink fails, a TV
\* that listens is sent the messages of its channel and channel 0, each once
\* and in order, from the one after those published when downlink() started.
THEOREM SafeBroadcast == Spec => Promise!SafeSpec
<1>1. Init => Promise!Init
  BY DEF Init, Promise!Init, Tuned
<1> QED
  BY <1>1, TypeInit, TypeStep, StepSimulation, PTL DEF Spec, Promise!SafeSpec
=============================================================================
