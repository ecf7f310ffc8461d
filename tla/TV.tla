--------------------------------- MODULE TV --------------------------------
(***************************************************************************)
(* The TV (tools/ectf25/tv/__init__.py): one thread receives frames from   *)
(* the satellite and queues them, one sends them to the decoder and shows  *)
(* what comes back, and the main thread waits for one of them to end or    *)
(* for the user.  They stop each other with the event `crash'.             *)
(*                                                                         *)
(* What the threads wait for, the satellite and the decoder, is joined to  *)
(* their actions in Delivery.                                              *)
(***************************************************************************)
EXTENDS Naturals, Sequences

VARIABLES
  main,        \* the line of run() that the main thread has come to
  rx,          \* the same of the thread in downlink(), a daemon
  dec,         \* the same of the thread in decode()
  socket,      \* frames that have arrived and have not been read
  to_decode,   \* the queue between the threads
  crash,       \* the event
  hand,        \* the frame that the decoder is to decode, if any
  shown,       \* what was shown
  late         \* history: frames given to the decoder after the event was set

tvVars == <<main, rx, dec, socket, to_decode, crash, hand, shown, late>>

Init ==
  /\ main = "decode" /\ rx = "none" /\ dec = "none"
  /\ socket = <<>> /\ to_decode = <<>> /\ crash = FALSE
  /\ hand = <<>> /\ shown = <<>> /\ late = 0

\* A mutant: the interpreter also waits for the receiving thread.
Ended_NotDaemon == main = "ended" /\ dec \in {"none", "ended"} /\ rx \in {"none", "ended"}

\* The interpreter exits when all its threads but the daemons have ended.
Ended == main = "ended" /\ dec \in {"none", "ended"}

-----------------------------------------------------------------------------
(* run() *)

StartDecode ==
  /\ main = "decode" /\ main' = "downlink"
  /\ dec' = "check"
  /\ UNCHANGED <<rx, socket, to_decode, crash, hand, shown, late>>

StartDownlink ==
  /\ main = "downlink" /\ main' = "poll"
  /\ rx' = "connect"
  /\ UNCHANGED <<dec, socket, to_decode, crash, hand, shown, late>>

\* The loop ends when one of the threads is not alive.
Poll ==
  /\ main = "poll" /\ "ended" \in {rx, dec}
  /\ main' = "finally"
  /\ UNCHANGED <<rx, dec, socket, to_decode, crash, hand, shown, late>>

\* KeyboardInterrupt.
Interrupt ==
  /\ main \in {"decode", "downlink", "poll"}
  /\ main' = "finally"
  /\ UNCHANGED <<rx, dec, socket, to_decode, crash, hand, shown, late>>

SetCrash ==
  /\ main = "finally" /\ main' = "ended"
  /\ crash' = TRUE
  /\ UNCHANGED <<rx, dec, socket, to_decode, hand, shown, late>>

-----------------------------------------------------------------------------
(* downlink() *)

Connect ==
  /\ rx = "connect" /\ ~Ended
  /\ rx' = "check"
  /\ UNCHANGED <<main, dec, socket, to_decode, crash, hand, shown, late>>

\* The test of the event at the head of the loop.
CheckReceive ==
  /\ rx = "check" /\ ~Ended
  /\ rx' = IF crash THEN "ended" ELSE "recv"
  /\ UNCHANGED <<main, dec, socket, to_decode, crash, hand, shown, late>>

\* A line has been read and its frame is put in the queue.
Receive ==
  /\ rx = "recv" /\ ~Ended /\ socket # <<>>
  /\ to_decode' = Append(to_decode, Head(socket))
  /\ socket' = Tail(socket)
  /\ rx' = "check"
  /\ UNCHANGED <<main, dec, crash, hand, shown, late>>

\* The connection is refused, or it ends.
DownlinkFails ==
  /\ rx \in {"connect", "recv"} /\ ~Ended
  /\ rx' = "ended" /\ crash' = TRUE
  /\ UNCHANGED <<main, dec, socket, to_decode, hand, shown, late>>

-----------------------------------------------------------------------------
(* decode() *)

\* A mutant: the queue is served to its end.
CheckDecode_QueueFirst ==
  /\ dec = "check"
  /\ dec' = IF crash /\ to_decode = <<>> THEN "ended" ELSE "look"
  /\ UNCHANGED <<main, rx, socket, to_decode, crash, hand, shown, late>>

\* The test of the event at the head of the loop.
CheckDecode ==
  /\ dec = "check"
  /\ dec' = IF crash THEN "ended" ELSE "look"
  /\ UNCHANGED <<main, rx, socket, to_decode, crash, hand, shown, late>>

\* Mutants: the newest frame is taken; the last one is left in the queue.
NextFrame_Newest == to_decode' = SubSeq(to_decode, 1, Len(to_decode) - 1) /\ hand' = <<to_decode[Len(to_decode)]>>
NextFrame == to_decode' = Tail(to_decode) /\ hand' = <<Head(to_decode)>>
Queued_Two == Len(to_decode) > 1
Queued == to_decode # <<>>

\* get_nowait(): the frame goes to DecoderIntf.decode().
Look ==
  /\ dec = "look" /\ Queued
  /\ NextFrame
  /\ dec' = "call"
  /\ late' = IF crash THEN late + 1 ELSE late
  /\ UNCHANGED <<main, rx, socket, crash, shown>>

LookAgain ==
  /\ dec = "look" /\ ~Queued
  /\ dec' = "check"
  /\ UNCHANGED <<main, rx, socket, to_decode, crash, hand, shown, late>>

\* The decoder has answered, and the frame is shown.
Show(frame) ==
  /\ dec = "call" /\ dec' = "check"
  /\ shown' = Append(shown, frame) /\ hand' = <<>>
  /\ UNCHANGED <<main, rx, socket, to_decode, crash, late>>

\* A mutant: the exception does not leave the loop.
DecodeFails_Continues ==
  /\ dec = "call" /\ dec' = "check"
  /\ UNCHANGED <<main, rx, socket, to_decode, crash, hand, shown, late>>

\* The call raises: the frame in hand is lost with the thread.
DecodeFails ==
  /\ dec = "call" /\ dec' = "ended"
  /\ crash' = TRUE
  /\ UNCHANGED <<main, rx, socket, to_decode, hand, shown, late>>
=============================================================================
