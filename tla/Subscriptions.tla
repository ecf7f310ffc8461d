--------------------------- MODULE Subscriptions ---------------------------
(***************************************************************************)
(* What a decoder promises about its subscriptions, with no slots, no      *)
(* flash and no power: a partial map from channels to windows of time,     *)
(* changed by one accepted update at a time, reported by the list command  *)
(* and consulted by the decode command.  Decoder.tla implements it as long *)
(* as the supply does not fail while the flash page is being rewritten.    *)
(***************************************************************************)
EXTENDS Naturals, FiniteSets

CONSTANTS
  Channel,             \* channel numbers
  EMERGENCY_CHANNEL,   \* the broadcast channel, decodable by everybody
  Updates,             \* the subscription updates that a host may send
  Capacity             \* how many channels can be subscribed at once

VARIABLES
  subs,      \* [subscribed channels -> window]
  pending,   \* an update was accepted and has not been confirmed yet
  answer     \* the last answer given to the host

vars == <<subs, pending, answer>>

NoAnswer == [msg |-> "none"]
Failure  == [msg |-> "ERROR_MSG"]
Done     == [msg |-> "SUBSCRIBE_MSG"]
Report   == [msg |-> "LIST_MSG", subs |-> subs]
Frame(c) == [msg |-> "DECODE_MSG", channel |-> c]

Acceptable(u) ==
  /\ u.channel # EMERGENCY_CHANNEL
  /\ u.channel \in DOMAIN subs \/ Cardinality(DOMAIN subs) < Capacity

Init == subs = [c \in {} |-> c] /\ pending = FALSE /\ answer = NoAnswer

\* A new channel is added, or the window of a subscribed one replaced; all
\* other subscriptions stay as they are.
Accept(u) ==
  /\ ~pending /\ Acceptable(u)
  /\ subs' = [c \in DOMAIN subs \cup {u.channel} |->
                IF c = u.channel THEN [start |-> u.start, end |-> u.end] ELSE subs[c]]
  /\ pending' = TRUE
  /\ answer' = NoAnswer

Refuse(u) ==
  /\ ~pending /\ ~Acceptable(u)
  /\ answer' = Failure
  /\ UNCHANGED <<subs, pending>>

Confirm ==
  /\ pending
  /\ pending' = FALSE
  /\ answer' = Done
  /\ UNCHANGED subs

List ==
  /\ ~pending
  /\ answer' = Report
  /\ UNCHANGED <<subs, pending>>

Decode(c) ==
  /\ ~pending
  /\ answer' = IF c \in DOMAIN subs \cup {EMERGENCY_CHANNEL} THEN Frame(c) ELSE Failure
  /\ UNCHANGED <<subs, pending>>

\* A command that is none of the three.
Reject == ~pending /\ answer' = Failure /\ UNCHANGED <<subs, pending>>

\* The decoder restarts: whatever was being said is lost, no subscription is.
Restart == pending' = FALSE /\ answer' = NoAnswer /\ UNCHANGED subs

Next ==
  \/ \E u \in Updates : Accept(u) \/ Refuse(u)
  \/ \E c \in Channel : Decode(c)
  \/ Confirm \/ List \/ Reject \/ Restart

Spec == Init /\ [][Next]_vars
=============================================================================
