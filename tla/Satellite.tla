----------------------------- MODULE Satellite -----------------------------
(***************************************************************************)
(* The satellite (tools/ectf25/satellite.py): one task reads frames from   *)
(* the uplink and publishes them on their channel, one task per channel    *)
(* serves a TCP port, and one handler per connected TV awaits the messages *)
(* of its channel and sends them.                                          *)
(*                                                                         *)
(* PubSub is a chain of futures: publish() resolves the last one with the  *)
(* message and a new future.  The futures of a channel are numbered in the *)
(* order of the chain; the last one is not resolved.                       *)
(*                                                                         *)
(* In PromptSpec the uplink fails only after every port is served; in Spec *)
(* it may fail earlier.                                                    *)
(***************************************************************************)
EXTENDS Naturals, Sequences, FiniteSets

CONSTANTS
  Channels,       \* the channels that the satellite serves
  TVs,            \* connections of TVs
  Emergency,      \* channel 0
  MaxMessages     \* bound: frames that the uplink sends

Lines == [channel : Channels \cup {Emergency}, n : 1..MaxMessages]

ASSUME SatelliteAssumption == MaxMessages \in Nat

VARIABLES
  uplink,      \* serve_uplink(): "reading", or how it ended
  read,        \* number of lines read from the uplink
  resolved,    \* the values of the resolved futures of each channel
  server,      \* serve_downlink() of each channel: the port is opened in two steps
  cleanup_tasks, cancelled,    \* the channels whose server task is registered, and cancelled
  at,          \* the line that the handler of each TV has come to
  port,        \* the channel that it serves
  waiter,      \* the future that it awaits
  conn,        \* its connection
  streams,     \* the TVs whose stream handle_fatal() closes
  sent,        \* what each handler has written to an open connection
  process      \* "running" or "ended"

tvVars == <<at, port, waiter, conn, streams, sent>>
serverVars == <<server, cleanup_tasks, cancelled>>
vars == <<uplink, read, resolved, serverVars, tvVars, process>>

Init ==
  /\ uplink = "reading" /\ read = 0
  /\ resolved = [c \in Channels |-> <<>>]
  /\ server = [c \in Channels |-> "starting"]
  /\ cleanup_tasks = {} /\ cancelled = {}
  /\ at = [t \in TVs |-> "none"]
  /\ port \in [TVs -> Channels]
  /\ waiter = [t \in TVs |-> 1]
  /\ conn = [t \in TVs |-> "none"]
  /\ streams = {}
  /\ sent = [t \in TVs |-> <<>>]
  /\ process = "running"

-----------------------------------------------------------------------------
(* The uplink. *)

\* A mutant: the streams are closed, the tasks go on.
handle_fatal_NoCancel ==
  /\ conn' = [t \in TVs |-> IF t \in streams THEN "closed" ELSE conn[t]]
  /\ UNCHANGED cancelled

\* cancel() and close() take effect when the loop runs again.
handle_fatal ==
  /\ cancelled' = cancelled \cup cleanup_tasks
  /\ conn' = [t \in TVs |-> IF t \in streams THEN "closed" ELSE conn[t]]

GoesTo(m, c) == m.channel \in {c, Emergency}

\* A frame of a channel, or of channel 0 for all of them.
ServeLine(m) ==
  /\ process = "running" /\ uplink = "reading"
  /\ read < MaxMessages /\ m.n = read + 1
  /\ read' = read + 1
  /\ resolved' = [c \in Channels |-> IF GoesTo(m, c) THEN Append(resolved[c], m) ELSE resolved[c]]
  /\ UNCHANGED <<uplink, serverVars, tvVars, process>>

\* The uplink is closed, or sends something that is not JSON.
UplinkFails ==
  /\ process = "running" /\ uplink = "reading"
  /\ uplink' = "failed"
  /\ handle_fatal
  /\ UNCHANGED <<read, resolved, server, cleanup_tasks, at, port, waiter, streams, sent, process>>

\* A frame of a channel that is not served, or one without a channel: the
\* exception reaches the task group of serve(), which cancels all that are left.
BadChannel ==
  /\ process = "running" /\ uplink = "reading"
  /\ uplink' = "raised"
  /\ handle_fatal
  /\ UNCHANGED <<read, resolved, server, cleanup_tasks, at, port, waiter, streams, sent, process>>

-----------------------------------------------------------------------------
(* The ports. *)

\* start_server() listens, but has not returned yet.
Listen(c) ==
  /\ process = "running" /\ server[c] = "starting" /\ uplink # "raised"
  /\ server' = [server EXCEPT ![c] = "listening"]
  /\ UNCHANGED <<uplink, read, resolved, cleanup_tasks, cancelled, tvVars, process>>

\* The port is taken: again an exception reaches the task group, which cancels
\* serve_uplink().
ListenFails(c) ==
  /\ process = "running" /\ server[c] = "starting"
  /\ server' = [server EXCEPT ![c] = "closed"]
  /\ uplink' = "raised"
  /\ IF uplink = "reading" THEN handle_fatal ELSE UNCHANGED <<cancelled, conn>>
  /\ UNCHANGED <<read, resolved, cleanup_tasks, at, port, waiter, streams, sent, process>>

\* The task of serve_forever() is registered.
OpenServer(c) ==
  /\ process = "running" /\ server[c] = "listening" /\ uplink # "raised"
  /\ server' = [server EXCEPT ![c] = "serving"]
  /\ cleanup_tasks' = cleanup_tasks \cup {c}
  /\ UNCHANGED <<uplink, read, resolved, cancelled, tvVars, process>>

\* The task of serve_forever() was cancelled.
CloseServer(c) ==
  /\ process = "running" /\ server[c] = "serving" /\ c \in cancelled
  /\ server' = [server EXCEPT ![c] = "closed"]
  /\ handle_fatal
  /\ UNCHANGED <<uplink, read, resolved, cleanup_tasks, at, port, waiter, streams, sent, process>>

\* serve_downlink() is cancelled by the task group, before or after it serves.
AbortServer(c) ==
  /\ process = "running" /\ uplink = "raised" /\ server[c] # "closed"
  /\ server' = [server EXCEPT ![c] = "closed"]
  /\ IF server[c] = "serving" THEN handle_fatal ELSE UNCHANGED <<cancelled, conn>>
  /\ UNCHANGED <<uplink, read, resolved, cleanup_tasks, at, port, waiter, streams, sent, process>>

\* All tasks of serve() are done: main() exits.
Exit ==
  /\ process = "running"
  /\ uplink # "reading" /\ \A c \in Channels : server[c] = "closed"
  /\ process' = "ended"
  /\ at' = [t \in TVs |-> "none"] /\ conn' = [t \in TVs |-> "none"] /\ streams' = {}
  /\ sent' = [t \in TVs |-> <<>>]
  /\ UNCHANGED <<uplink, read, resolved, serverVars, port, waiter>>

-----------------------------------------------------------------------------
(* The TVs. *)

Connect(t) ==
  /\ process = "running" /\ at[t] = "none" /\ server[port[t]] \in {"listening", "serving"}
  /\ at' = [at EXCEPT ![t] = "start"]
  /\ conn' = [conn EXCEPT ![t] = "open"]
  /\ UNCHANGED <<uplink, read, resolved, serverVars, port, waiter, streams, sent, process>>

\* The TV goes away; what is still to be sent to it provokes a reset.
Disconnect(t) ==
  /\ conn[t] = "open"
  /\ \E x \in {"gone", "lost"} :
       /\ at[t] = "paused" => x = "lost"
       /\ conn' = [conn EXCEPT ![t] = x]
  /\ UNCHANGED <<uplink, read, resolved, serverVars, at, port, waiter, streams, sent, process>>

\* downlink() runs up to the first future of its channel, the one that is not
\* resolved yet.
StartHandler(t) ==
  /\ process = "running" /\ at[t] = "start"
  /\ streams' = streams \cup {t}
  /\ waiter' = [waiter EXCEPT ![t] = Len(resolved[port[t]]) + 1]
  /\ at' = [at EXCEPT ![t] = "await"]
  /\ UNCHANGED <<uplink, read, resolved, serverVars, port, conn, sent, process>>

\* Mutants: the publisher's current future is awaited next, not the one that
\* came with the message; one future is skipped.
NextWaiter_Current(t) == Len(resolved[port[t]]) + 1
NextWaiter_Skip(t) == waiter[t] + 2
NextWaiter(t) == waiter[t] + 1

\* The future is resolved: its message is written.  drain() raises if the
\* connection is lost or closed; otherwise it returns, at once or later.
WriteMessage(t) ==
  /\ process = "running" /\ at[t] = "await" /\ waiter[t] <= Len(resolved[port[t]])
  /\ waiter' = [waiter EXCEPT ![t] = NextWaiter(t)]
  /\ IF conn[t] = "open" THEN sent' = [sent EXCEPT ![t] = Append(@, resolved[port[t]][waiter[t]])]
     ELSE UNCHANGED sent
  /\ conn' = [conn EXCEPT ![t] = IF @ = "gone" THEN "lost" ELSE @]
  /\ IF conn[t] \in {"lost", "closed"} THEN at' = [at EXCEPT ![t] = "raise"]
     ELSE \E line \in {"await", "paused"} : at' = [at EXCEPT ![t] = line]
  /\ UNCHANGED <<uplink, read, resolved, serverVars, port, streams, process>>

Resume(t) ==
  /\ process = "running" /\ at[t] = "paused"
  /\ at' = [at EXCEPT ![t] = IF conn[t] = "lost" THEN "raise" ELSE "await"]
  /\ UNCHANGED <<uplink, read, resolved, serverVars, port, waiter, conn, streams, sent, process>>

EndHandler(t) ==
  /\ process = "running" /\ at[t] = "raise"
  /\ at' = [at EXCEPT ![t] = "none"]
  /\ conn' = [conn EXCEPT ![t] = "none"]
  /\ streams' = streams \ {t}
  /\ sent' = [sent EXCEPT ![t] = <<>>]
  /\ UNCHANGED <<uplink, read, resolved, serverVars, port, waiter, process>>

downlink(t) ==
  StartHandler(t) \/ WriteMessage(t) \/ Resume(t) \/ EndHandler(t)
serve_downlink(c) == Listen(c) \/ OpenServer(c) \/ CloseServer(c) \/ AbortServer(c)

Others ==
  \/ \E m \in Lines : ServeLine(m)
  \/ BadChannel \/ Exit
  \/ \E c \in Channels : serve_downlink(c) \/ ListenFails(c)
  \/ \E t \in TVs : Connect(t) \/ Disconnect(t) \/ downlink(t)

PromptNext == Others \/ (cleanup_tasks = Channels /\ UplinkFails)
Next == Others \/ UplinkFails

Fairness ==
  /\ WF_vars(Exit)
  /\ \A c \in Channels : WF_vars(serve_downlink(c))
  /\ \A t \in TVs : WF_vars(downlink(t))

\* The loop runs every task that is ready; a TV reads what is sent to it.
PromptSpec == Init /\ [][PromptNext]_vars /\ Fairness
Spec == Init /\ [][Next]_vars /\ Fairness

-----------------------------------------------------------------------------
(* Properties. *)

\* Handlers only wait for futures of their channel's chain.
TypeOK ==
  /\ uplink \in {"reading", "failed", "raised"} /\ read \in 0..MaxMessages
  /\ resolved \in [Channels -> Seq(Lines)]
  /\ server \in [Channels -> {"starting", "listening", "serving", "closed"}]
  /\ cancelled \subseteq cleanup_tasks /\ cleanup_tasks \subseteq Channels
  /\ at \in [TVs -> {"none", "start", "await", "paused", "raise"}]
  /\ port \in [TVs -> Channels]
  /\ waiter \in [TVs -> Nat] /\ \A t \in TVs : waiter[t] \in 1..(Len(resolved[port[t]]) + 1)
  /\ conn \in [TVs -> {"none", "open", "gone", "lost", "closed"}]
  /\ streams \subseteq TVs
  /\ sent \in [TVs -> Seq(Lines)]
  /\ process \in {"running", "ended"}

\* A TV listens while its handler runs and its connection is open.
Tuned(t) == at[t] \in {"await", "paused"} /\ conn[t] = "open"
Backlog(t) == SubSeq(resolved[port[t]], waiter[t], Len(resolved[port[t]]))

Promise == INSTANCE Broadcast WITH
  Messages <- Lines,
  tuned <- [t \in TVs |-> IF Tuned(t) THEN {port[t]} ELSE {}],
  pending <- [t \in TVs |-> IF Tuned(t) THEN Backlog(t) ELSE <<>>],
  sent <- [t \in TVs |-> IF Tuned(t) THEN sent[t] ELSE <<>>]

\* Every TV gets each message published on its channel from the moment it
\* listens, once and in order, whatever PubSub's chain of futures goes through.
ImplementsBroadcast == Promise!Spec

\* handle_fatal() says "Cleanup tasks and streams on a fatal error": when the
\* uplink has failed or a port was refused, the process ends.
FailureEnds == uplink # "reading" ~> process = "ended"
=============================================================================
