----------------------------- MODULE MCDecoder -----------------------------
(* Small instances of Decoder for TLC. *)
EXTENDS Decoder, TLC

CONSTANTS c1, c2, c3, t1, t2

\* Two windows per channel, one of them open-ended (its end is the all-ones
\* timestamp that an erased word also reads as).
MCUpdates ==
  [channel : Channel, start : {t1}, end : {Ones}] \cup
  [channel : Channel, start : {t2}, end : {t1}]

\* Windows that share neither end, without the emergency channel.
MCWindows ==
  {[channel |-> c, start |-> t, end |-> t] : c \in Channel \ {EMERGENCY_CHANNEL}, t \in {t1, t2}}

\* One open-ended window per channel.
MCOpenWindows ==
  [channel : Channel \ {EMERGENCY_CHANNEL}, start : {t1}, end : {Ones}]

OrdinaryChannels == Permutations({c1, c2, c3} \cap Channel)
=============================================================================
