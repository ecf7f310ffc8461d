------------------------------ MODULE Exchange -----------------------------
(***************************************************************************)
(* What the serial protocol promises to the tools that talk to a decoder:  *)
(* a request is executed once, as it was made, and the call returns what   *)
(* the decoder answered to it.  HostLink.tla implements it byte by byte.   *)
(***************************************************************************)
EXTENDS Sequences

CONSTANTS
  Requests,        \* the messages that the tools send
  AnswersTo(_),    \* what the decoder may answer to a message
  OutcomeOf(_),    \* what the tool makes of an answer
  Nothing          \* no request, or no outcome, yet

VARIABLES
  busy,       \* a call is in progress
  request,    \* the last request made
  served,     \* what the decoder executed for it, with its answer
  outcome     \* what the last call returned

vars == <<busy, request, served, outcome>>

Init == busy = FALSE /\ request = Nothing /\ served = <<>> /\ outcome = Nothing

Call ==
  /\ ~busy
  /\ request' \in Requests
  /\ busy' = TRUE /\ served' = <<>> /\ outcome' = Nothing

Serve ==
  /\ busy /\ served = <<>>
  /\ \E a \in AnswersTo(request) : served' = <<[request |-> request, answer |-> a]>>
  /\ UNCHANGED <<busy, request, outcome>>

Return ==
  /\ busy /\ served # <<>>
  /\ busy' = FALSE /\ outcome' = OutcomeOf(served[1].answer)
  /\ UNCHANGED <<request, served>>

Next == Call \/ Serve \/ Return
Fairness == WF_vars(Serve) /\ WF_vars(Return)
SafeSpec == Init /\ [][Next]_vars
Spec == SafeSpec /\ Fairness
=============================================================================
