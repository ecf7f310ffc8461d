----------------------------- MODULE MCDelivery ----------------------------
(* A small instance of Delivery for TLC, with bytes of one bit: channels   *)
(* have 4 bits and timestamps 8.                                           *)
EXTENDS Delivery

\* Timestamps do not increase, and may be as large as they get.
MCFrames ==
  {[channel |-> 0, timestamp |-> 255, frame |-> <<1>>],
   [channel |-> 2, timestamp |-> 0, frame |-> <<0, 1>>],
   [channel |-> 13, timestamp |-> 0, frame |-> <<>>]}

MCRequests ==
  {[device_id |-> 9, start |-> 0, end |-> 255, channel |-> 2],
   [device_id |-> 9, start |-> 6, end |-> 105, channel |-> 2],
   [device_id |-> 9, start |-> 15, end |-> 16, channel |-> 13],
   [device_id |-> 9, start |-> 0, end |-> 1, channel |-> 0]}
=============================================================================
