------------------------------- MODULE Uplink ------------------------------
(***************************************************************************)
(* The uplink (tools/ectf25/uplink/__init__.py): one clock and one frame   *)
(* stream per channel put encoded frames into a queue; a handler per       *)
(* connected satellite takes frames out of it and sends them, and the      *)
(* drain throws frames away when no satellite is connected.                *)
(*                                                                         *)
(* These are coroutines of one asyncio loop: a task runs until it awaits   *)
(* something that is not there yet.  `running' is the task that has not    *)
(* awaited yet; the loop may only pick another one when it is Nobody.      *)
(***************************************************************************)
EXTENDS Integers, Sequences, FiniteSets

CONSTANTS
  Channels,       \* the channels that the uplink serves
  Frames,         \* number of frames in the frame file of a channel
  Satellites,     \* connections of satellites
  Drain,          \* the task of uplink_drain
  Nobody,         \* no task is running
  MaxQueue        \* bound: frames in the queue

Tasks == Satellites \cup {Drain}
Frame == [channel : Channels, idx : 0..(Frames - 1)]

ASSUME UplinkAssumption ==
  /\ Frames \in Nat \ {0} /\ MaxQueue \in Nat \ {0}
  /\ Drain \notin Satellites /\ Nobody \notin Tasks

VARIABLES
  send_frame,      \* the event of each channel
  idx,             \* the next frame of each channel
  encoded_queue,
  uplink_down,     \* whether this event is set
  locked,          \* read_lock
  waiters,         \* the tasks that wait for read_lock, first come first served
  at,              \* the line that each task has come to
  frame,           \* the frame that each task has taken, if any
  running,
  conn,            \* the connection of each handler
  expected,        \* history: the frame of each channel to be handled next
  wasted           \* history: frames drained since uplink_down was cleared, up to 2

loopVars == <<locked, waiters, running>>
clockVars == <<send_frame, idx>>
vars == <<clockVars, encoded_queue, uplink_down, loopVars, at, frame, conn, expected, wasted>>

Init ==
  /\ send_frame = [c \in Channels |-> FALSE]
  /\ idx = [c \in Channels |-> 0]
  /\ encoded_queue = <<>>
  /\ uplink_down = TRUE
  /\ locked = FALSE /\ waiters = <<>>
  /\ at = [t \in Tasks |-> IF t = Drain THEN "wait" ELSE "none"]
  /\ frame = [t \in Tasks |-> <<>>]
  /\ running = Nobody
  /\ conn = [s \in Satellites |-> "none"]
  /\ expected = [c \in Channels |-> 0]
  /\ wasted = 0

-----------------------------------------------------------------------------
(* Clocks and frame streams. *)

frame_clock(c) ==
  /\ running = Nobody
  /\ send_frame' = [send_frame EXCEPT ![c] = TRUE]
  /\ UNCHANGED <<idx, encoded_queue, uplink_down, loopVars, at, frame, conn, expected, wasted>>

\* Mutants: the frame file is not started over; the frame is sent again.
NextIdx_NoWrap(i) == i + 1
NextIdx_Same(i) == i
NextIdx(i) == (i + 1) % Frames

\* From one wait() to the next.
frame_stream(c) ==
  /\ running = Nobody
  /\ send_frame[c]
  /\ Len(encoded_queue) < MaxQueue
  /\ send_frame' = [send_frame EXCEPT ![c] = FALSE]
  /\ encoded_queue' = Append(encoded_queue, [channel |-> c, idx |-> idx[c]])
  /\ idx' = [idx EXCEPT ![c] = NextIdx(@)]
  /\ UNCHANGED <<uplink_down, loopVars, at, frame, conn, expected, wasted>>

-----------------------------------------------------------------------------
(* read_lock and encoded_queue, as asyncio implements them. *)

GoTo(t, line) == at' = [at EXCEPT ![t] = line]
CanRun(t) == running \in {t, Nobody}

Free == ~locked /\ waiters = <<>>

\* A mutant: handlers do not take the lock.
Acquire_Unlocked(t) ==
  /\ at[t] = "lock" /\ CanRun(t)
  /\ IF t \in Satellites \/ Free
     THEN locked' = (t = Drain \/ locked) /\ GoTo(t, "get") /\ running' = t /\ UNCHANGED waiters
     ELSE waiters' = Append(waiters, t) /\ GoTo(t, "queued") /\ running' = Nobody /\ UNCHANGED locked
  /\ UNCHANGED <<clockVars, encoded_queue, uplink_down, frame, conn, expected, wasted>>

\* Entering `async with self.read_lock'.
Acquire(t) ==
  /\ at[t] = "lock" /\ CanRun(t)
  /\ IF Free
     THEN locked' = TRUE /\ GoTo(t, "get") /\ running' = t /\ UNCHANGED waiters
     ELSE waiters' = Append(waiters, t) /\ GoTo(t, "queued") /\ running' = Nobody /\ UNCHANGED locked
  /\ UNCHANGED <<clockVars, encoded_queue, uplink_down, frame, conn, expected, wasted>>

Granted(t) ==
  /\ at[t] = "queued" /\ running = Nobody
  /\ ~locked /\ waiters # <<>> /\ Head(waiters) = t
  /\ waiters' = Tail(waiters)
  /\ locked' = TRUE /\ GoTo(t, "get") /\ running' = t
  /\ UNCHANGED <<clockVars, encoded_queue, uplink_down, frame, conn, expected, wasted>>

\* queue.get() finds no frame.
AwaitFrame(t) ==
  /\ at[t] = "get" /\ running = t
  /\ encoded_queue = <<>>
  /\ running' = Nobody
  /\ UNCHANGED <<clockVars, encoded_queue, uplink_down, locked, waiters, at, frame, conn, expected, wasted>>

\* A mutant: the lock is not released.
TakeFrame_Locked(t, line) ==
  /\ at[t] = "get" /\ CanRun(t)
  /\ encoded_queue # <<>>
  /\ frame' = [frame EXCEPT ![t] = <<Head(encoded_queue)>>]
  /\ encoded_queue' = Tail(encoded_queue)
  /\ GoTo(t, line) /\ running' = t
  /\ UNCHANGED <<clockVars, uplink_down, locked, waiters, conn, expected, wasted>>

\* queue.get() returns a frame, and the lock is released.
TakeFrame(t, line) ==
  /\ at[t] = "get" /\ CanRun(t)
  /\ encoded_queue # <<>>
  /\ frame' = [frame EXCEPT ![t] = <<Head(encoded_queue)>>]
  /\ encoded_queue' = Tail(encoded_queue)
  /\ locked' = FALSE
  /\ GoTo(t, line) /\ running' = t
  /\ UNCHANGED <<clockVars, uplink_down, waiters, conn, expected, wasted>>

\* The frame in hand is sent or thrown away.
Handled(t) ==
  /\ frame' = [frame EXCEPT ![t] = <<>>]
  /\ expected' = [expected EXCEPT ![frame[t][1].channel] = (frame[t][1].idx + 1) % Frames]

-----------------------------------------------------------------------------
(* The drain. *)

\* A mutant: the event is not looked at again.
WaitDown_Once ==
  /\ at[Drain] = "wait" /\ CanRun(Drain)
  /\ GoTo(Drain, "lock") /\ running' = Drain
  /\ UNCHANGED <<clockVars, encoded_queue, uplink_down, locked, waiters, frame, conn, expected, wasted>>

\* wait() on an event that is set does not suspend the task.
WaitDown ==
  /\ at[Drain] = "wait" /\ CanRun(Drain)
  /\ IF uplink_down THEN GoTo(Drain, "lock") /\ running' = Drain
     ELSE GoTo(Drain, "event") /\ running' = Nobody
  /\ UNCHANGED <<clockVars, encoded_queue, uplink_down, locked, waiters, frame, conn, expected, wasted>>

ThrowAway ==
  /\ at[Drain] = "throw" /\ running = Drain
  /\ Handled(Drain)
  /\ wasted' = IF uplink_down THEN 0 ELSE IF wasted < 2 THEN wasted + 1 ELSE 2
  /\ GoTo(Drain, "wait")
  /\ UNCHANGED <<clockVars, encoded_queue, uplink_down, loopVars, conn>>

uplink_drain == WaitDown \/ Acquire(Drain) \/ Granted(Drain) \/ AwaitFrame(Drain)
                \/ TakeFrame(Drain, "throw") \/ ThrowAway

-----------------------------------------------------------------------------
(* Connections and their handlers. *)

Live(s) == conn[s] = "open" /\ at[s] \notin {"none", "start"}

\* A satellite connects; its handler is a new task.
Connect(s) ==
  /\ at[s] = "none" /\ running = Nobody
  /\ conn' = [conn EXCEPT ![s] = "open"]
  /\ GoTo(s, "start")
  /\ UNCHANGED <<clockVars, encoded_queue, uplink_down, loopVars, frame, expected, wasted>>

\* The satellite ends.  What is still to be sent to it provokes a reset.
Disconnect(s) ==
  /\ conn[s] = "open"
  /\ \E c \in {"gone", "reset"} :
       /\ at[s] \in {"drain", "paused"} => c = "reset"
       /\ conn' = [conn EXCEPT ![s] = c]
  /\ UNCHANGED <<clockVars, encoded_queue, uplink_down, loopVars, at, frame, expected, wasted>>

\* The loop reads the reset.
ConnectionLost(s) ==
  /\ conn[s] = "reset" /\ running = Nobody
  /\ conn' = [conn EXCEPT ![s] = "lost"]
  /\ UNCHANGED <<clockVars, encoded_queue, uplink_down, loopVars, at, frame, expected, wasted>>

StartHandler(s) ==
  /\ at[s] = "start" /\ running = Nobody
  /\ uplink_down' = FALSE
  /\ GoTo(s, "lock") /\ running' = s
  /\ UNCHANGED <<clockVars, encoded_queue, locked, waiters, frame, conn, expected, wasted>>

\* write(): to a satellite that is gone it succeeds and provokes a reset; on a
\* reset connection it fails and drain() lets the loop run before it raises.
Write(s) ==
  /\ at[s] = "write" /\ running = s
  /\ Handled(s)
  /\ GoTo(s, IF conn[s] \in {"open", "gone"} THEN "drain" ELSE "raise")
  /\ conn' = [conn EXCEPT ![s] = IF @ = "gone" THEN "reset" ELSE IF @ = "reset" THEN "lost" ELSE @]
  /\ running' = IF conn[s] = "reset" THEN Nobody ELSE s
  /\ UNCHANGED <<clockVars, encoded_queue, uplink_down, locked, waiters, wasted>>

\* drain() returns, at once or after the buffer has emptied.
WriterDrain(s) ==
  /\ at[s] = "drain" /\ running = s
  /\ \/ GoTo(s, "lock") /\ UNCHANGED running
     \/ GoTo(s, "paused") /\ running' = Nobody
  /\ UNCHANGED <<clockVars, encoded_queue, uplink_down, locked, waiters, frame, conn, expected, wasted>>

Resume(s) ==
  /\ at[s] = "paused" /\ running = Nobody
  /\ \/ conn[s] = "open" /\ GoTo(s, "lock")
     \/ conn[s] = "lost" /\ GoTo(s, "raise")
  /\ running' = s
  /\ UNCHANGED <<clockVars, encoded_queue, uplink_down, locked, waiters, frame, conn, expected, wasted>>

\* A mutant: the event is not set again.
EndHandler_StaysUp(s) ==
  /\ at[s] = "raise" /\ CanRun(s)
  /\ at' = [at EXCEPT ![s] = "none"]
  /\ conn' = [conn EXCEPT ![s] = "none"]
  /\ running' = Nobody
  /\ UNCHANGED <<clockVars, encoded_queue, uplink_down, locked, waiters, frame, expected, wasted>>

\* The exception leaves the loop; the uplink is marked as down, which wakes
\* the drain.
EndHandler(s) ==
  /\ at[s] = "raise" /\ CanRun(s)
  /\ uplink_down' = TRUE /\ wasted' = 0
  /\ at' = [at EXCEPT ![s] = "none", ![Drain] = IF @ = "event" THEN "lock" ELSE @]
  /\ conn' = [conn EXCEPT ![s] = "none"]
  /\ running' = Nobody
  /\ UNCHANGED <<clockVars, encoded_queue, locked, waiters, frame, expected>>

handle_uplink(s) ==
  \/ StartHandler(s) \/ Acquire(s) \/ Granted(s) \/ AwaitFrame(s) \/ TakeFrame(s, "write")
  \/ Write(s) \/ WriterDrain(s) \/ Resume(s) \/ EndHandler(s)

Next ==
  \/ \E c \in Channels : frame_clock(c) \/ frame_stream(c)
  \/ uplink_drain
  \/ \E s \in Satellites : handle_uplink(s) \/ Connect(s) \/ Disconnect(s) \/ ConnectionLost(s)

\* The loop serves ready tasks in the order in which they became ready.
Fairness ==
  /\ \A c \in Channels : SF_vars(frame_clock(c)) /\ SF_vars(frame_stream(c))
  /\ SF_vars(uplink_drain)
  /\ \A s \in Satellites : SF_vars(handle_uplink(s)) /\ SF_vars(ConnectionLost(s))

Spec == Init /\ [][Next]_vars /\ Fairness

-----------------------------------------------------------------------------
(* Properties. *)

TypeOK ==
  /\ send_frame \in [Channels -> BOOLEAN] /\ idx \in [Channels -> 0..(Frames - 1)]
  /\ encoded_queue \in Seq(Frame)
  /\ uplink_down \in BOOLEAN /\ locked \in BOOLEAN
  /\ waiters \in Seq(Tasks) /\ running \in Tasks \cup {Nobody}
  /\ at \in [Tasks -> {"none", "start", "wait", "event", "lock", "queued", "get", "throw",
                       "write", "drain", "paused", "raise"}]
  /\ frame \in [Tasks -> Seq(Frame)]
  /\ conn \in [Satellites -> {"none", "open", "gone", "reset", "lost"}]
  /\ expected \in [Channels -> 0..(Frames - 1)] /\ wasted \in 0..2

\* Frames of a channel are sent or thrown away in the order of encoding, each
\* once, however many handlers and the drain take turns at the queue.
InOrder ==
  [][\A t \in Tasks :
       frame[t] # <<>> /\ frame'[t] = <<>> => frame[t][1].idx = expected[frame[t][1].channel]]_vars

\* The reader that waits for a frame holds the lock and is the only one.
OneReader ==
  /\ \A t, u \in Tasks : at[t] = "get" /\ at[u] = "get" => t = u
  /\ locked <=> \E t \in Tasks : at[t] = "get"

\* Once a satellite has marked the uplink as up, the drain throws away at most
\* one frame until it is marked as down: the one it was already waiting for.
AtMostOneWasted == ~uplink_down => wasted <= 1

\* A satellite that stays connected goes on receiving frames, whatever old
\* handlers and the drain do to the queue.
KeepsServing ==
  \A s \in Satellites : <>[]Live(s) => []<><<Write(s)>>_vars

\* If all satellites stay away, the queue is emptied again and again.
DrainTakesOver ==
  <>[](\A s \in Satellites : conn[s] # "open") => []<>(encoded_queue = <<>>)

\* uplink_drain() says "Drain uplink if satellite not connected".
DrainOnlyWhenDown ==
  [][at[Drain] = "throw" /\ at'[Drain] # "throw" => \A s \in Satellites : ~Live(s)]_vars
=============================================================================
