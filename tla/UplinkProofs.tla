---------------------------- MODULE UplinkProofs ----------------------------
(***************************************************************************)
(* Safety of Uplink, for any number of channels, frames and satellites.    *)
(***************************************************************************)
EXTENDS Uplink, TLAPS

LEMMA Remainder ==
  ASSUME NEW i \in 0..(Frames - 1)
  PROVE  NextIdx(i) \in 0..(Frames - 1) /\ (i + 1) % Frames \in 0..(Frames - 1)
BY UplinkAssumption DEF NextIdx

\* Only the running task holds a frame.
Hands ==
  \A t \in Tasks :
    /\ frame[t] # <<>> <=> at[t] \in {"throw", "write"}
    /\ at[t] \in {"throw", "write"} => running = t

TypeInv == TypeOK /\ Hands

LEMMA TypeInit == Init => TypeInv
<1> SUFFICES ASSUME Init PROVE TypeInv
  OBVIOUS
<1>1. 0 \in 0..(Frames - 1)
  BY UplinkAssumption
<1>2. /\ encoded_queue \in Seq(Frame) /\ waiters \in Seq(Tasks)
      /\ frame \in [Tasks -> Seq(Frame)]
  BY DEF Init
<1>3. TypeOK
  <2>1. /\ send_frame \in [Channels -> BOOLEAN] /\ idx \in [Channels -> 0..(Frames - 1)]
        /\ expected \in [Channels -> 0..(Frames - 1)]
    BY <1>1 DEF Init
  <2>2. /\ at \in [Tasks -> {"none", "wait"}]
        /\ conn \in [Satellites -> {"none"}]
    BY DEF Init
  <2>3. uplink_down = TRUE /\ locked = FALSE /\ running = Nobody
    BY DEF Init
  <2>4. wasted \in 0..2
    BY DEF Init
  <2> QED
    BY <1>2, <2>1, <2>2, <2>3, <2>4 DEF TypeOK
<1>4. Hands
  BY DEF Init, Hands
<1> QED
  BY <1>3, <1>4 DEF TypeInv

\* Every step keeps the types.
LEMMA TypeStep == TypeInv /\ [Next]_vars => TypeInv'
<1> SUFFICES ASSUME TypeInv, [Next]_vars PROVE TypeInv'
  OBVIOUS
<1> USE UplinkAssumption DEF TypeInv
<1>1. ASSUME NEW c \in Channels, frame_clock(c) PROVE TypeInv'
  BY <1>1 DEF TypeOK, Hands, frame_clock, loopVars
<1>2. ASSUME NEW c \in Channels, frame_stream(c) PROVE TypeInv'
  <2>1. NextIdx(idx[c]) \in 0..(Frames - 1)
    BY Remainder DEF TypeOK
  <2>2. [channel |-> c, idx |-> idx[c]] \in Frame
    BY DEF TypeOK, Frame
  <2>3. encoded_queue' \in Seq(Frame)
    BY <1>2, <2>2 DEF TypeOK, frame_stream
  <2> QED
    BY <1>2, <2>1, <2>3 DEF TypeOK, Hands, frame_stream, loopVars
<1>3. ASSUME NEW t \in Tasks, Acquire(t) PROVE TypeInv'
  <2>1. waiters' \in Seq(Tasks)
    <3>1. waiters' = Append(waiters, t) \/ waiters' = waiters
      BY <1>3 DEF Acquire
    <3>2. waiters \in Seq(Tasks)
      BY DEF TypeOK
    <3> QED
      BY <3>1, <3>2
  <2>2. TypeOK'
    BY <1>3, <2>1 DEF TypeOK, Acquire, GoTo, clockVars
  <2>3. Hands'
    BY <1>3 DEF TypeOK, Hands, Acquire, GoTo, CanRun
  <2> QED
    BY <2>2, <2>3
<1>4. ASSUME NEW t \in Tasks, Granted(t) PROVE TypeInv'
  <2>1. waiters' \in Seq(Tasks)
    BY <1>4 DEF TypeOK, Granted
  <2>2. TypeOK'
    BY <1>4, <2>1 DEF TypeOK, Granted, GoTo, clockVars
  <2>3. Hands'
    BY <1>4 DEF TypeOK, Hands, Granted, GoTo
  <2> QED
    BY <2>2, <2>3
<1>5. ASSUME NEW t \in Tasks, AwaitFrame(t) PROVE TypeInv'
  BY <1>5 DEF TypeOK, Hands, AwaitFrame, clockVars
<1>6. ASSUME NEW t \in Tasks, NEW line \in {"throw", "write"}, TakeFrame(t, line) PROVE TypeInv'
  <2>1. Head(encoded_queue) \in Frame /\ encoded_queue' \in Seq(Frame)
    BY <1>6 DEF TypeOK, TakeFrame
  <2>2. frame' \in [Tasks -> Seq(Frame)]
    <3>1. <<Head(encoded_queue)>> \in Seq(Frame)
      BY <2>1
    <3> QED
      BY <1>6, <3>1 DEF TypeOK, TakeFrame
  <2>3. TypeOK'
    BY <1>6, <2>1, <2>2 DEF TypeOK, TakeFrame, GoTo, clockVars
  <2>4. Hands'
    BY <1>6 DEF TypeOK, Hands, TakeFrame, GoTo, CanRun
  <2> QED
    BY <2>3, <2>4
<1>7. ASSUME WaitDown PROVE TypeInv'
  <2>1. Drain \in Tasks
    BY DEF Tasks
  <2> QED
    BY <1>7, <2>1 DEF TypeOK, Hands, WaitDown, GoTo, CanRun, clockVars
<1>8. ASSUME NEW t \in Tasks, Handled(t), at[t] \in {"throw", "write"}
      PROVE frame' \in [Tasks -> Seq(Frame)] /\ expected' \in [Channels -> 0..(Frames - 1)]
  <2>1. frame[t] \in Seq(Frame) /\ frame[t] # <<>>
    BY <1>8 DEF TypeOK, Hands
  <2>2. frame[t][1] \in Frame
    BY <2>1
  <2>3. (frame[t][1].idx + 1) % Frames \in 0..(Frames - 1)
    BY <2>2, Remainder DEF Frame
  <2>4. <<>> \in Seq(Frame)
    OBVIOUS
  <2> QED
    BY <1>8, <2>3, <2>4 DEF TypeOK, Handled
<1>9. ASSUME ThrowAway PROVE TypeInv'
  <2>1. Drain \in Tasks
    BY DEF Tasks
  <2>2. frame' \in [Tasks -> Seq(Frame)] /\ expected' \in [Channels -> 0..(Frames - 1)]
    BY <1>8, <1>9, <2>1 DEF ThrowAway
  <2>3. TypeOK'
    <3>1. wasted' \in 0..2
      BY <1>9 DEF TypeOK, ThrowAway
    <3>2. /\ UNCHANGED <<send_frame, idx, encoded_queue, uplink_down, locked, waiters, running, conn>>
          /\ at' = [at EXCEPT ![Drain] = "wait"]
      BY <1>9 DEF ThrowAway, GoTo, clockVars, loopVars
    <3> QED
      BY <2>2, <3>1, <3>2 DEF TypeOK
  <2>4. Hands'
    BY <1>9, <2>1 DEF TypeOK, Hands, ThrowAway, Handled, GoTo, loopVars
  <2> QED
    BY <2>3, <2>4
<1>10. ASSUME NEW s \in Satellites, Write(s) PROVE TypeInv'
  <2>1. s \in Tasks
    BY DEF Tasks
  <2>2. frame' \in [Tasks -> Seq(Frame)] /\ expected' \in [Channels -> 0..(Frames - 1)]
    BY <1>8, <1>10, <2>1 DEF Write
  <2>3. TypeOK'
    BY <1>10, <2>1, <2>2 DEF TypeOK, Write, GoTo, clockVars
  <2>4. Hands'
    BY <1>10, <2>1 DEF TypeOK, Hands, Write, Handled, GoTo
  <2> QED
    BY <2>3, <2>4
<1>11. ASSUME NEW s \in Satellites,
              \/ Connect(s) \/ Disconnect(s) \/ ConnectionLost(s)
              \/ StartHandler(s) \/ WriterDrain(s) \/ Resume(s) \/ EndHandler(s)
       PROVE  TypeInv'
  <2>1. s \in Tasks /\ Drain \in Tasks /\ s # Drain
    BY DEF Tasks
  <2>2. CASE Connect(s)
    BY <2>1, <2>2 DEF TypeOK, Hands, Connect, GoTo, clockVars, loopVars
  <2>3. CASE Disconnect(s)
    BY <2>1, <2>3 DEF TypeOK, Hands, Disconnect, clockVars, loopVars
  <2>4. CASE ConnectionLost(s)
    BY <2>1, <2>4 DEF TypeOK, Hands, ConnectionLost, clockVars, loopVars
  <2>5. CASE StartHandler(s)
    BY <2>1, <2>5 DEF TypeOK, Hands, StartHandler, GoTo, clockVars
  <2>6. CASE WriterDrain(s)
    BY <2>1, <2>6 DEF TypeOK, Hands, WriterDrain, GoTo, clockVars
  <2>7. CASE Resume(s)
    BY <2>1, <2>7 DEF TypeOK, Hands, Resume, GoTo, clockVars
  <2>8. CASE EndHandler(s)
    <3>0. at' = [t \in Tasks |-> IF t = s THEN "none"
                                 ELSE IF t = Drain /\ at[t] = "event" THEN "lock" ELSE at[t]]
      BY <2>1, <2>8 DEF TypeOK, EndHandler
    <3>1. \A t \in Tasks : at'[t] = IF t = s THEN "none"
                                    ELSE IF t = Drain /\ at[t] = "event" THEN "lock" ELSE at[t]
      BY <3>0
    <3>2. Hands'
      <4>1. running \in {s, Nobody} /\ frame' = frame /\ at[s] = "raise"
        BY <2>8 DEF EndHandler, CanRun
      <4>2. \A t \in Tasks : at[t] \notin {"throw", "write"} /\ at'[t] \notin {"throw", "write"}
        BY <2>1, <3>1, <4>1 DEF Hands
      <4> QED
        BY <4>1, <4>2 DEF Hands
    <3>3. TypeOK'
      <4>1. at' \in [Tasks -> {"none", "start", "wait", "event", "lock", "queued", "get", "throw",
                               "write", "drain", "paused", "raise"}]
        BY <3>0 DEF TypeOK
      <4>2. conn' \in [Satellites -> {"none", "open", "gone", "reset", "lost"}]
        BY <2>8 DEF TypeOK, EndHandler
      <4>3. /\ UNCHANGED <<send_frame, idx, encoded_queue, locked, waiters, frame, expected>>
            /\ uplink_down' \in BOOLEAN /\ wasted' \in 0..2 /\ running' \in Tasks \cup {Nobody}
        BY <2>8 DEF EndHandler, clockVars
      <4> QED
        BY <4>1, <4>2, <4>3 DEF TypeOK
    <3> QED
      BY <3>2, <3>3
  <2> QED
    BY <1>11, <2>2, <2>3, <2>4, <2>5, <2>6, <2>7, <2>8
<1>12. CASE UNCHANGED vars
  BY <1>12 DEF TypeOK, Hands, vars, clockVars, loopVars
<1> QED
  BY <1>1, <1>2, <1>3, <1>4, <1>5, <1>6, <1>7, <1>9, <1>10, <1>11, <1>12
     DEF Next, uplink_drain, handle_uplink, Tasks

\* All variables keep their types (Uplink.TypeOK).
THEOREM TypeCorrect == Spec => []TypeOK
<1>1. TypeInv => TypeOK
  BY DEF TypeInv
<1> QED
  BY <1>1, TypeInit, TypeStep, PTL DEF Spec

-----------------------------------------------------------------------------
(* read_lock. *)

\* A task that comes to `get' finds no other one there.
LEMMA OneReaderStep == TypeInv /\ OneReader /\ [Next]_vars => OneReader'
<1> SUFFICES ASSUME TypeInv, OneReader, [Next]_vars PROVE OneReader'
  OBVIOUS
<1> USE UplinkAssumption DEF TypeInv
<1>1. ASSUME NEW t \in Tasks, NEW line, at' = [at EXCEPT ![t] = line], at[t] # "get", line # "get",
             locked' = locked
      PROVE  OneReader'
  BY <1>1 DEF TypeOK, OneReader
<1>2. ASSUME NEW t \in Tasks, at' = [at EXCEPT ![t] = "get"], ~locked, locked' = TRUE
      PROVE  OneReader'
  BY <1>2 DEF TypeOK, OneReader
<1>3. ASSUME UNCHANGED <<at, locked>> PROVE OneReader'
  BY <1>3 DEF OneReader
<1>4. ASSUME NEW t \in Tasks, NEW line \in {"throw", "write"}, TakeFrame(t, line) PROVE OneReader'
  <2>1. at[t] = "get" /\ at' = [at EXCEPT ![t] = line] /\ locked' = FALSE
    BY <1>4 DEF TakeFrame, GoTo
  <2> QED
    BY <2>1 DEF TypeOK, OneReader
<1>5. ASSUME NEW t \in Tasks, Acquire(t) PROVE OneReader'
  <2>1. CASE Free
    BY <1>2, <1>5, <2>1 DEF Acquire, GoTo, Free
  <2>2. CASE ~Free
    BY <1>1, <1>5, <2>2 DEF Acquire, GoTo
  <2> QED
    BY <2>1, <2>2
<1>6. ASSUME NEW t \in Tasks, Granted(t) PROVE OneReader'
  BY <1>2, <1>6 DEF Granted, GoTo
<1>7. ASSUME NEW t \in Tasks, AwaitFrame(t) PROVE OneReader'
  BY <1>3, <1>7 DEF AwaitFrame
<1>8. Drain \in Tasks /\ Satellites \subseteq Tasks
  BY DEF Tasks
<1>9. ASSUME WaitDown PROVE OneReader'
  BY <1>1, <1>8, <1>9 DEF WaitDown, GoTo
<1>10. ASSUME ThrowAway PROVE OneReader'
  BY <1>1, <1>8, <1>10 DEF ThrowAway, GoTo, loopVars
<1>11. ASSUME NEW s \in Satellites, EndHandler(s) PROVE OneReader'
  <2>1. at[s] = "raise" /\ locked' = locked /\ s \in Tasks
    BY <1>8, <1>11 DEF EndHandler
  <2>2. at' = [t \in Tasks |-> IF t = s THEN "none"
                               ELSE IF t = Drain /\ at[t] = "event" THEN "lock" ELSE at[t]]
    BY <1>8, <1>11 DEF TypeOK, EndHandler
  <2>3. \A t \in Tasks : at'[t] = "get" <=> at[t] = "get"
    BY <2>1, <2>2
  <2> QED
    BY <2>1, <2>3 DEF OneReader
<1>12. ASSUME NEW s \in Satellites,
              \/ Connect(s) \/ Disconnect(s) \/ ConnectionLost(s)
              \/ StartHandler(s) \/ Write(s) \/ WriterDrain(s) \/ Resume(s)
       PROVE  OneReader'
  <2>1. CASE Connect(s)
    BY <1>1, <1>8, <2>1 DEF Connect, GoTo, loopVars
  <2>2. CASE Disconnect(s)
    BY <1>3, <2>2 DEF Disconnect, loopVars
  <2>3. CASE ConnectionLost(s)
    BY <1>3, <2>3 DEF ConnectionLost, loopVars
  <2>4. CASE StartHandler(s)
    BY <1>1, <1>8, <2>4 DEF StartHandler, GoTo
  <2>5. CASE Write(s)
    BY <1>1, <1>8, <2>5 DEF Write, GoTo
  <2>6. CASE WriterDrain(s)
    BY <1>1, <1>8, <2>6 DEF WriterDrain, GoTo
  <2>7. CASE Resume(s)
    BY <1>1, <1>8, <2>7 DEF Resume, GoTo
  <2> QED
    BY <1>12, <2>1, <2>2, <2>3, <2>4, <2>5, <2>6, <2>7
<1>13. ASSUME NEW c \in Channels, frame_clock(c) \/ frame_stream(c) PROVE OneReader'
  BY <1>3, <1>13 DEF frame_clock, frame_stream, loopVars
<1>14. CASE UNCHANGED vars
  BY <1>3, <1>14 DEF vars, loopVars
<1> QED
  BY <1>4, <1>5, <1>6, <1>7, <1>8, <1>9, <1>10, <1>11, <1>12, <1>13, <1>14
     DEF Next, uplink_drain, handle_uplink

\* The reader that waits for a frame holds read_lock and is the only one.
THEOREM LockExclusive == Spec => []OneReader
<1>1. Init => OneReader
  BY DEF Init, OneReader
<1> QED
  BY <1>1, TypeInit, TypeStep, OneReaderStep, PTL DEF Spec

-----------------------------------------------------------------------------
(* The drain and the event uplink_down. *)

\* A drain that has thrown a frame away while the uplink is up waits for the event.
Waste ==
  /\ uplink_down => wasted = 0
  /\ ~uplink_down => \/ wasted = 0
                     \/ wasted = 1 /\ at[Drain] \in {"wait", "event"}

LEMMA WasteStep == TypeInv /\ Waste /\ [Next]_vars => Waste'
<1> SUFFICES ASSUME TypeInv, Waste, [Next]_vars PROVE Waste'
  OBVIOUS
<1> USE UplinkAssumption DEF TypeInv
<1>0. /\ Drain \in Tasks /\ Satellites \subseteq Tasks
      /\ \A t \in Tasks : \A line : at' = [at EXCEPT ![t] = line] =>
           /\ at'[t] = line
           /\ \A u \in Tasks : u # t => at'[u] = at[u]
  BY DEF Tasks, TypeOK
<1>1. ASSUME UNCHANGED <<uplink_down, wasted>>,
             at[Drain] \in {"wait", "event"} => at'[Drain] \in {"wait", "event"}
      PROVE  Waste'
  BY <1>1 DEF Waste
<1>2. ASSUME NEW t \in Tasks, Acquire(t) \/ Granted(t) PROVE Waste'
  <2>1. at[t] \in {"lock", "queued"} /\ UNCHANGED <<uplink_down, wasted>>
    BY <1>2 DEF Acquire, Granted
  <2>2. \E line : at' = [at EXCEPT ![t] = line]
    BY <1>2 DEF Acquire, Granted, GoTo
  <2> QED
    BY <1>0, <1>1, <2>1, <2>2
<1>3. ASSUME NEW t \in Tasks, AwaitFrame(t) PROVE Waste'
  BY <1>1, <1>3 DEF AwaitFrame
<1>4. ASSUME NEW t \in Tasks, NEW line, TakeFrame(t, line) PROVE Waste'
  BY <1>0, <1>1, <1>4 DEF TakeFrame, GoTo
<1>5. ASSUME WaitDown PROVE Waste'
  <2>1. UNCHANGED <<uplink_down, wasted>> /\ at[Drain] = "wait"
    BY <1>5 DEF WaitDown
  <2>2. at'[Drain] = IF uplink_down THEN "lock" ELSE "event"
    BY <1>0, <1>5 DEF WaitDown, GoTo
  <2> QED
    BY <2>1, <2>2 DEF Waste
<1>6. ASSUME ThrowAway PROVE Waste'
  <2>1. /\ at[Drain] = "throw" /\ at'[Drain] = "wait" /\ uplink_down' = uplink_down
        /\ wasted' = IF uplink_down THEN 0 ELSE IF wasted < 2 THEN wasted + 1 ELSE 2
    BY <1>0, <1>6 DEF ThrowAway, GoTo
  <2> QED
    BY <2>1 DEF Waste
<1>7. ASSUME NEW s \in Satellites, StartHandler(s) PROVE Waste'
  <2>1. /\ s # Drain /\ at' = [at EXCEPT ![s] = "lock"]
        /\ uplink_down' = FALSE /\ wasted' = wasted
    BY <1>7 DEF StartHandler, GoTo
  <2> QED
    BY <1>0, <2>1 DEF Waste
<1>8. ASSUME NEW s \in Satellites, EndHandler(s) PROVE Waste'
  BY <1>8 DEF EndHandler, Waste
<1>9. ASSUME NEW s \in Satellites,
             \/ Connect(s) \/ Disconnect(s) \/ ConnectionLost(s)
             \/ Write(s) \/ WriterDrain(s) \/ Resume(s)
      PROVE  Waste'
  <2>1. UNCHANGED <<uplink_down, wasted>>
    BY <1>9 DEF Connect, Disconnect, ConnectionLost, Write, WriterDrain, Resume
  <2>2. at' = at \/ \E line : at' = [at EXCEPT ![s] = line]
    BY <1>9 DEF Connect, Disconnect, ConnectionLost, Write, WriterDrain, Resume, GoTo
  <2>3. at'[Drain] = at[Drain]
    BY <1>0, <2>2
  <2> QED
    BY <1>1, <2>1, <2>3
<1>10. ASSUME NEW c \in Channels, frame_clock(c) \/ frame_stream(c) PROVE Waste'
  BY <1>1, <1>10 DEF frame_clock, frame_stream
<1>11. CASE UNCHANGED vars
  BY <1>1, <1>11 DEF vars
<1> QED
  BY <1>0, <1>2, <1>3, <1>4, <1>5, <1>6, <1>7, <1>8, <1>9, <1>10, <1>11
     DEF Next, uplink_drain, handle_uplink

\* From clear() to the next set() of uplink_down, the drain throws away at most
\* one frame.
THEOREM WasteBounded == Spec => []AtMostOneWasted
<1>1. Init => Waste
  BY DEF Init, Waste
<1>2. Waste => AtMostOneWasted
  BY DEF Waste, AtMostOneWasted
<1> QED
  BY <1>1, <1>2, TypeInit, TypeStep, WasteStep, PTL DEF Spec

-----------------------------------------------------------------------------
(* The order of frames. *)

\* The frame of a channel that the head of the queue has to be: the one after
\* that in the hands of a task, if any.
Held(c) == \E t \in Tasks : frame[t] # <<>> /\ frame[t][1].channel = c
Due(c) == IF Held(c) THEN (expected[c] + 1) % Frames ELSE expected[c]

Positions == 1..Len(encoded_queue)
ChannelAt(i) == encoded_queue[i].channel
IdxAt(i) == encoded_queue[i].idx

\* From the frame in hand over those in the queue to the next one to be
\* encoded, the frames of each channel follow each other.
OrderHand == \A t \in Tasks : frame[t] # <<>> => frame[t][1].idx = expected[frame[t][1].channel]
OrderHead ==
  \A i \in Positions :
    (\A j \in Positions : j < i => ChannelAt(j) # ChannelAt(i)) => IdxAt(i) = Due(ChannelAt(i))
OrderQueue ==
  \A i, j \in Positions :
    /\ i < j /\ ChannelAt(i) = ChannelAt(j)
    /\ \A k \in Positions : i < k /\ k < j => ChannelAt(k) # ChannelAt(i)
    => IdxAt(j) = (IdxAt(i) + 1) % Frames
OrderLast ==
  \A i \in Positions :
    (\A j \in Positions : i < j => ChannelAt(j) # ChannelAt(i))
    => idx[ChannelAt(i)] = (IdxAt(i) + 1) % Frames
OrderNone ==
  \A c \in Channels : (\A i \in Positions : ChannelAt(i) # c) => idx[c] = Due(c)

Order == OrderHand /\ OrderHead /\ OrderQueue /\ OrderLast /\ OrderNone

LEMMA OrderInit == Init => Order
<1> SUFFICES ASSUME Init PROVE Order
  OBVIOUS
<1>1. Positions = {} /\ \A t \in Tasks : frame[t] = <<>>
  BY DEF Init, Positions
<1>2. \A c \in Channels : idx[c] = 0 /\ Due(c) = 0
  BY <1>1 DEF Init, Due, Held
<1> QED
  BY <1>1, <1>2 DEF Order, OrderHand, OrderHead, OrderQueue, OrderLast, OrderNone

LEMMA OrderSame ==
  ASSUME Order, UNCHANGED <<encoded_queue, frame, idx, expected>>
  PROVE  Order'
BY DEF Order, OrderHand, OrderHead, OrderQueue, OrderLast, OrderNone,
       Positions, ChannelAt, IdxAt, Due, Held

\* Nobody but the running task holds a frame.
LEMMA OneHand ==
  ASSUME TypeInv, NEW t \in Tasks, CanRun(t), NEW u \in Tasks, u # t
  PROVE  frame[u] = <<>>
BY UplinkAssumption DEF TypeInv, Hands, CanRun

LEMMA QueueType == TypeInv => \A i \in Positions : encoded_queue[i] \in Frame /\ ChannelAt(i) \in Channels
<1> SUFFICES ASSUME TypeInv, NEW i \in Positions PROVE encoded_queue[i] \in Frame /\ ChannelAt(i) \in Channels
  OBVIOUS
<1>1. encoded_queue \in Seq(Frame)
  BY DEF TypeInv, TypeOK
<1>2. encoded_queue[i] \in Frame
  BY <1>1 DEF Positions
<1> QED
  BY <1>2 DEF ChannelAt, Frame

\* The frame in hand is handled: it leaves the line, and what is due stays.
LEMMA OrderHandled ==
  ASSUME TypeInv, Order, NEW t \in Tasks, at[t] \in {"throw", "write"}, Handled(t),
         UNCHANGED <<encoded_queue, idx>>
  PROVE  Order'
<1>1. /\ frame[t] # <<>> /\ frame[t] \in Seq(Frame)
      /\ \A u \in Tasks : u # t => frame[u] = <<>>
  BY UplinkAssumption DEF TypeInv, TypeOK, Hands
<1>2. frame[t][1] \in Frame
  BY <1>1
<1>3. frame[t][1].channel \in Channels
  BY <1>2 DEF Frame
<1>4. \A u \in Tasks : frame'[u] = <<>>
  BY <1>1 DEF Handled, TypeInv, TypeOK
<1>5. frame[t][1].idx = expected[frame[t][1].channel]
  BY <1>1 DEF Order, OrderHand
<1>6. \A c \in Channels :
        expected'[c] = IF c = frame[t][1].channel THEN (expected[c] + 1) % Frames ELSE expected[c]
  BY <1>3, <1>5 DEF Handled, TypeInv, TypeOK
<1>7. \A c \in Channels : Due(c)' = Due(c)
  <2>1. \A c \in Channels : ~Held(c)' /\ (Held(c) <=> c = frame[t][1].channel)
    BY <1>1, <1>4 DEF Held
  <2> QED
    BY <1>6, <2>1 DEF Due
<1>8. \A i \in Positions : ChannelAt(i) \in Channels
  BY QueueType
<1>9. Positions' = Positions /\ \A i \in Positions : ChannelAt(i)' = ChannelAt(i) /\ IdxAt(i)' = IdxAt(i)
  BY DEF Positions, ChannelAt, IdxAt
<1>10. OrderHand'
  BY <1>4 DEF OrderHand
<1>11. OrderHead' /\ OrderNone'
  BY <1>7, <1>8, <1>9 DEF Order, OrderHead, OrderNone
<1>12. OrderQueue' /\ OrderLast'
  BY <1>9 DEF Order, OrderQueue, OrderLast
<1> QED
  BY <1>10, <1>11, <1>12 DEF Order

\* The head of the queue is taken into an empty hand.
LEMMA OrderTaken ==
  ASSUME TypeInv, Order, NEW t \in Tasks, NEW line, TakeFrame(t, line)
  PROVE  Order'
<1> DEFINE c0 == ChannelAt(1)
<1>1. \A u \in Tasks : frame[u] = <<>>
  <2>1. frame[t] = <<>>
    BY DEF TakeFrame, TypeInv, Hands
  <2> QED
    BY <2>1, OneHand DEF TakeFrame
<1>2. /\ encoded_queue \in Seq(Frame) /\ encoded_queue # <<>>
      /\ frame' = [frame EXCEPT ![t] = <<encoded_queue[1]>>]
      /\ UNCHANGED <<idx, expected>>
  BY DEF TypeInv, TypeOK, TakeFrame, clockVars
<1>3. 1 \in Positions /\ \A i \in Positions : ChannelAt(i) \in Channels
  BY <1>2, QueueType DEF Positions
<1>4. /\ frame'[t][1] = encoded_queue[1] /\ frame'[t] # <<>>
      /\ \A u \in Tasks : u # t => frame'[u] = <<>>
  BY <1>1, <1>2 DEF TypeInv, TypeOK
<1>5. IdxAt(1) = expected[c0]
  <2>1. ~Held(c0)
    BY <1>1 DEF Held
  <2>2. IdxAt(1) = Due(c0)
    BY <1>3 DEF Order, OrderHead, Positions
  <2> QED
    BY <2>1, <2>2 DEF Due
<1>6. OrderHand'
  BY <1>2, <1>4, <1>5 DEF OrderHand, ChannelAt, IdxAt
<1>7. \A c \in Channels :
        /\ Due(c) = expected[c]
        /\ Due(c)' = IF c = c0 THEN (IdxAt(1) + 1) % Frames ELSE expected[c]
  <2>1. \A c \in Channels : ~Held(c) /\ (Held(c)' <=> c = c0)
    BY <1>1, <1>4 DEF Held, ChannelAt
  <2> QED
    BY <1>2, <1>5, <2>1 DEF Due
<1>8. /\ Len(encoded_queue') = Len(encoded_queue) - 1 /\ Len(encoded_queue) \in Nat
      /\ \A i \in Positions' : /\ i + 1 \in Positions
                               /\ ChannelAt(i)' = ChannelAt(i + 1) /\ IdxAt(i)' = IdxAt(i + 1)
  BY <1>2 DEF TakeFrame, Positions, ChannelAt, IdxAt
<1>9. \A i \in Positions : i # 1 => /\ i \in Nat /\ i - 1 \in Positions'
                                   /\ ChannelAt(i - 1)' = ChannelAt(i)
  <2> SUFFICES ASSUME NEW i \in Positions, i # 1
               PROVE  i \in Nat /\ i - 1 \in Positions' /\ ChannelAt(i - 1)' = ChannelAt(i)
    OBVIOUS
  <2>1. i \in Nat /\ i - 1 \in Positions' /\ (i - 1) + 1 = i
    BY <1>8 DEF Positions
  <2> QED
    BY <1>8, <2>1
<1>10. OrderHead'
  <2> SUFFICES ASSUME NEW i \in Positions',
                      \A j \in Positions' : j < i => ChannelAt(j)' # ChannelAt(i)'
               PROVE  IdxAt(i)' = Due(ChannelAt(i))'
    BY DEF OrderHead
  <2>1. i + 1 \in Positions /\ ChannelAt(i)' = ChannelAt(i + 1) /\ IdxAt(i)' = IdxAt(i + 1)
    BY <1>8
  <2>2. \A j \in Positions : 1 < j /\ j < i + 1 => ChannelAt(j) # ChannelAt(i + 1)
    BY <1>8, <1>9, <2>1 DEF Positions
  <2>3. CASE ChannelAt(i + 1) = c0
    BY <1>3, <1>7, <2>1, <2>2, <2>3 DEF Order, OrderQueue, Positions
  <2>4. CASE ChannelAt(i + 1) # c0
    <3>1. \A j \in Positions : j < i + 1 => ChannelAt(j) # ChannelAt(i + 1)
      BY <2>2, <2>4 DEF Positions
    <3>2. IdxAt(i + 1) = Due(ChannelAt(i + 1))
      BY <2>1, <3>1 DEF Order, OrderHead
    <3> QED
      BY <1>3, <1>7, <2>1, <2>4, <3>2
  <2> QED
    BY <2>3, <2>4
<1>11. OrderQueue'
  <2> SUFFICES ASSUME NEW i \in Positions', NEW j \in Positions', i < j, ChannelAt(i)' = ChannelAt(j)',
                      \A k \in Positions' : i < k /\ k < j => ChannelAt(k)' # ChannelAt(i)'
               PROVE  IdxAt(j)' = (IdxAt(i)' + 1) % Frames
    BY DEF OrderQueue
  <2>1. \A k \in Positions : i + 1 < k /\ k < j + 1 => ChannelAt(k) # ChannelAt(i + 1)
    BY <1>8, <1>9 DEF Positions
  <2>2. IdxAt(j + 1) = (IdxAt(i + 1) + 1) % Frames
    BY <1>8, <2>1 DEF Order, OrderQueue, Positions
  <2> QED
    BY <1>8, <2>2
<1>12. OrderLast'
  <2> SUFFICES ASSUME NEW i \in Positions',
                      \A j \in Positions' : i < j => ChannelAt(j)' # ChannelAt(i)'
               PROVE  idx'[ChannelAt(i)'] = (IdxAt(i)' + 1) % Frames
    BY DEF OrderLast
  <2>1. \A j \in Positions : i + 1 < j => ChannelAt(j) # ChannelAt(i + 1)
    BY <1>8, <1>9 DEF Positions
  <2>2. idx[ChannelAt(i + 1)] = (IdxAt(i + 1) + 1) % Frames
    BY <1>8, <2>1 DEF Order, OrderLast
  <2> QED
    BY <1>2, <1>8, <2>2
<1>13. OrderNone'
  <2> SUFFICES ASSUME NEW c \in Channels, \A i \in Positions' : ChannelAt(i)' # c
               PROVE  idx'[c] = Due(c)'
    BY DEF OrderNone
  <2>1. \A i \in Positions : i # 1 => ChannelAt(i) # c
    BY <1>8, <1>9 DEF Positions
  <2>2. CASE c = c0
    <3>1. idx[c0] = (IdxAt(1) + 1) % Frames
      BY <1>3, <2>1, <2>2 DEF Order, OrderLast, Positions
    <3> QED
      BY <1>2, <1>7, <2>2, <3>1
  <2>3. CASE c # c0
    <3>1. idx[c] = Due(c)
      BY <2>1, <2>3 DEF Order, OrderNone
    <3> QED
      BY <1>2, <1>7, <2>3, <3>1
  <2> QED
    BY <2>2, <2>3
<1> QED
  BY <1>6, <1>10, <1>11, <1>12, <1>13 DEF Order

\* A new frame is put at the end of the line.
LEMMA OrderStreamed ==
  ASSUME TypeInv, Order, NEW c \in Channels, frame_stream(c)
  PROVE  Order'
<1>0. PICK last \in Nat : last = Len(encoded_queue) + 1
  BY DEF TypeInv, TypeOK
<1>1. /\ encoded_queue \in Seq(Frame) /\ Len(encoded_queue) \in Nat
      /\ encoded_queue' = Append(encoded_queue, [channel |-> c, idx |-> idx[c]])
      /\ idx \in [Channels -> 0..(Frames - 1)] /\ idx' = [idx EXCEPT ![c] = (idx[c] + 1) % Frames]
      /\ UNCHANGED <<frame, expected>>
  BY DEF TypeInv, TypeOK, frame_stream, NextIdx
<1>2. /\ Positions' = Positions \cup {last}
      /\ \A i \in Positions : i \in Nat /\ i < last /\ i # last
      /\ \A i \in Positions : ChannelAt(i)' = ChannelAt(i) /\ IdxAt(i)' = IdxAt(i)
      /\ encoded_queue'[last] = [channel |-> c, idx |-> idx[c]]
  BY <1>0, <1>1 DEF Positions, ChannelAt, IdxAt
<1>3. \A d : Due(d)' = Due(d)
  BY <1>1 DEF Due, Held
<1>4. OrderHand'
  BY <1>1 DEF Order, OrderHand
<1>5. ChannelAt(last)' = c /\ IdxAt(last)' = idx[c]
  <2>1. ChannelAt(last)' = encoded_queue'[last].channel /\ IdxAt(last)' = encoded_queue'[last].idx
    BY DEF ChannelAt, IdxAt
  <2> QED
    BY <1>2, <2>1
<1>6. OrderHead'
  <2> SUFFICES ASSUME NEW i \in Positions',
                      \A j \in Positions' : j < i => ChannelAt(j)' # ChannelAt(i)'
               PROVE  IdxAt(i)' = Due(ChannelAt(i))'
    BY DEF OrderHead
  <2>1. CASE i = last
    <3>1. \A j \in Positions : ChannelAt(j) # c
      BY <1>2, <1>5, <2>1
    <3>2. idx[c] = Due(c)
      BY <3>1 DEF Order, OrderNone
    <3> QED
      BY <1>3, <1>5, <2>1, <3>2
  <2>2. CASE i \in Positions
    <3>1. \A j \in Positions : j < i => ChannelAt(j) # ChannelAt(i)
      BY <1>2, <2>2
    <3>2. IdxAt(i) = Due(ChannelAt(i))
      BY <2>2, <3>1 DEF Order, OrderHead
    <3> QED
      BY <1>2, <1>3, <2>2, <3>2
  <2> QED
    BY <1>2, <2>1, <2>2
<1>7. OrderQueue'
  <2> SUFFICES ASSUME NEW i \in Positions', NEW j \in Positions', i < j, ChannelAt(i)' = ChannelAt(j)',
                      \A k \in Positions' : i < k /\ k < j => ChannelAt(k)' # ChannelAt(i)'
               PROVE  IdxAt(j)' = (IdxAt(i)' + 1) % Frames
    BY DEF OrderQueue
  <2>0. i \in Positions
    BY <1>1, <1>2 DEF Positions
  <2>1. CASE j = last
    <3>1. \A k \in Positions : i < k => ChannelAt(k) # ChannelAt(i)
      BY <1>2, <2>0, <2>1
    <3>2. idx[ChannelAt(i)] = (IdxAt(i) + 1) % Frames
      BY <2>0, <3>1 DEF Order, OrderLast
    <3> QED
      BY <1>2, <1>5, <2>0, <2>1, <3>2
  <2>2. CASE j \in Positions
    <3>1. \A k \in Positions : i < k /\ k < j => ChannelAt(k) # ChannelAt(i)
      BY <1>2, <2>0
    <3>2. IdxAt(j) = (IdxAt(i) + 1) % Frames
      BY <1>2, <2>0, <2>2, <3>1 DEF Order, OrderQueue
    <3> QED
      BY <1>2, <2>0, <2>2, <3>2
  <2> QED
    BY <1>2, <2>1, <2>2
<1>8. OrderLast'
  <2> SUFFICES ASSUME NEW i \in Positions',
                      \A j \in Positions' : i < j => ChannelAt(j)' # ChannelAt(i)'
               PROVE  idx'[ChannelAt(i)'] = (IdxAt(i)' + 1) % Frames
    BY DEF OrderLast
  <2>1. CASE i = last
    BY <1>1, <1>5, <2>1
  <2>2. CASE i \in Positions
    <3>1. ChannelAt(i) # c
      BY <1>2, <1>5, <2>2
    <3>2. \A j \in Positions : i < j => ChannelAt(j) # ChannelAt(i)
      BY <1>2, <2>2
    <3>3. idx[ChannelAt(i)] = (IdxAt(i) + 1) % Frames
      BY <2>2, <3>2 DEF Order, OrderLast
    <3>4. ChannelAt(i) \in Channels
      BY <2>2, QueueType
    <3> QED
      BY <1>1, <1>2, <2>2, <3>1, <3>3, <3>4
  <2> QED
    BY <1>2, <2>1, <2>2
<1>9. OrderNone'
  <2> SUFFICES ASSUME NEW d \in Channels, \A i \in Positions' : ChannelAt(i)' # d
               PROVE  idx'[d] = Due(d)'
    BY DEF OrderNone
  <2>1. d # c /\ \A i \in Positions : ChannelAt(i) # d
    BY <1>2, <1>5
  <2>2. idx[d] = Due(d)
    BY <2>1 DEF Order, OrderNone
  <2> QED
    BY <1>1, <1>3, <2>1, <2>2
<1> QED
  BY <1>4, <1>6, <1>7, <1>8, <1>9 DEF Order

\* The three steps that move a frame are those above.
LEMMA OrderStep == TypeInv /\ Order /\ [Next]_vars => Order'
<1> SUFFICES ASSUME TypeInv, Order, [Next]_vars PROVE Order'
  OBVIOUS
<1>1. Drain \in Tasks /\ Satellites \subseteq Tasks
  BY DEF Tasks
<1>2. ASSUME NEW c \in Channels, frame_clock(c) PROVE Order'
  BY <1>2, OrderSame DEF frame_clock
<1>3. ASSUME NEW c \in Channels, frame_stream(c) PROVE Order'
  BY <1>3, OrderStreamed
<1>4. ASSUME NEW t \in Tasks, Acquire(t) \/ Granted(t) \/ AwaitFrame(t) PROVE Order'
  BY <1>4, OrderSame DEF Acquire, Granted, AwaitFrame, clockVars
<1>5. ASSUME NEW t \in Tasks, NEW line, TakeFrame(t, line) PROVE Order'
  BY <1>5, OrderTaken
<1>6. ASSUME WaitDown PROVE Order'
  BY <1>6, OrderSame DEF WaitDown, clockVars
<1>7. ASSUME ThrowAway PROVE Order'
  BY <1>1, <1>7, OrderHandled DEF ThrowAway, clockVars
<1>8. ASSUME NEW s \in Satellites, Write(s) PROVE Order'
  BY <1>1, <1>8, OrderHandled DEF Write, clockVars
<1>9. ASSUME NEW s \in Satellites,
             \/ Connect(s) \/ Disconnect(s) \/ ConnectionLost(s) \/ StartHandler(s)
             \/ WriterDrain(s) \/ Resume(s) \/ EndHandler(s)
      PROVE  Order'
  BY <1>9, OrderSame
     DEF Connect, Disconnect, ConnectionLost, StartHandler, WriterDrain, Resume, EndHandler, clockVars
<1>10. CASE UNCHANGED vars
  BY <1>10, OrderSame DEF vars, clockVars
<1> QED
  BY <1>1, <1>2, <1>3, <1>4, <1>5, <1>6, <1>7, <1>8, <1>9, <1>10
     DEF Next, uplink_drain, handle_uplink

\* Frames of a channel are sent or thrown away in the order of encoding, each
\* once, whatever tasks take them out of the queue.
THEOREM OrderKept == Spec => InOrder
<1> DEFINE A == \A t \in Tasks :
             frame[t] # <<>> /\ frame'[t] = <<>> => frame[t][1].idx = expected[frame[t][1].channel]
<1>1. Order /\ [Next]_vars => [A]_vars
  BY DEF Order, OrderHand
<1>2. Spec => [][A]_vars
  BY <1>1, TypeInit, TypeStep, OrderInit, OrderStep, PTL DEF Spec
<1> QED
  BY <1>2 DEF InOrder
=============================================================================
