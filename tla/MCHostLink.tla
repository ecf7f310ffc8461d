----------------------------- MODULE MCHostLink ----------------------------
(* Small instances of HostLink for TLC. *)
EXTENDS HostLink

CONSTANTS Lengths, AnswerLengths, Filler

Text(n) == [i \in 1..n |-> Filler]

\* Bodies as subscriptions and frames have them, and one list command.
MCRequests ==
  [opcode : {DECODE, SUBSCRIBE}, body : {Text(n) : n \in Lengths}] \cup
  {[opcode |-> LIST, body |-> <<>>]}
MCBodies == {Text(n) : n \in AnswerLengths}
MCErrorText == Text(3)
MCDebugText == <<120>>
=============================================================================
