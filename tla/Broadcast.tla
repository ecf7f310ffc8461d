----------------------------- MODULE Broadcast -----------------------------
(***************************************************************************)
(* What the satellite promises to the TVs: from the moment it listens to a *)
(* channel, a TV is sent every message published on this channel, each     *)
(* once and in order, however slow it is and whatever other TVs do.        *)
(* Satellite.tla implements it with a chain of futures per channel.        *)
(***************************************************************************)
EXTENDS Naturals, Sequences

CONSTANTS
  Channels,      \* the channels of the satellite
  TVs,           \* the TVs that may listen
  Messages,      \* what may be published
  GoesTo(_, _)   \* whether a message goes to a channel

VARIABLES
  tuned,     \* the channel that each TV listens to, if any
  pending,   \* what each TV has not been sent yet
  sent       \* what each TV was sent

vars == <<tuned, pending, sent>>

Init ==
  /\ tuned = [t \in TVs |-> {}]
  /\ pending = [t \in TVs |-> <<>>]
  /\ sent = [t \in TVs |-> <<>>]

Listen(t, c) ==
  /\ tuned[t] = {}
  /\ tuned' = [tuned EXCEPT ![t] = {c}]
  /\ UNCHANGED <<pending, sent>>

Publish(m) ==
  /\ pending' = [t \in TVs |-> IF \E c \in tuned[t] : GoesTo(m, c)
                               THEN Append(pending[t], m) ELSE pending[t]]
  /\ UNCHANGED <<tuned, sent>>

Send(t) ==
  /\ pending[t] # <<>>
  /\ sent' = [sent EXCEPT ![t] = Append(@, Head(pending[t]))]
  /\ pending' = [pending EXCEPT ![t] = Tail(@)]
  /\ UNCHANGED tuned

\* TVs are gone, or the satellite closes their connections.
Leave(S) ==
  /\ S # {} /\ \A t \in S : tuned[t] # {}
  /\ tuned' = [t \in TVs |-> IF t \in S THEN {} ELSE tuned[t]]
  /\ pending' = [t \in TVs |-> IF t \in S THEN <<>> ELSE pending[t]]
  /\ sent' = [t \in TVs |-> IF t \in S THEN <<>> ELSE sent[t]]

Next ==
  \/ \E t \in TVs, c \in Channels : Listen(t, c)
  \/ \E m \in Messages : Publish(m)
  \/ \E t \in TVs : Send(t)
  \/ \E S \in SUBSET TVs : Leave(S)

SafeSpec == Init /\ [][Next]_vars

\* A TV that stays is sent everything.
Spec == SafeSpec /\ \A t \in TVs : WF_vars(Send(t))
=============================================================================
