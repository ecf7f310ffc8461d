-------------------------------- MODULE Wire -------------------------------
(***************************************************************************)
(* The bodies of the messages, as the tools pack and unpack them with      *)
(* `struct' and as the decoder reads and fills its packed C structures:    *)
(* frames (encoder.py, decode()), subscriptions (gen_subscription.py,      *)
(* update_subscription()) and the list of channels (list_channels(),       *)
(* DecoderIntf.list()).  Numbers are unsigned and little-endian; a byte    *)
(* holds one of Byte values.                                               *)
(***************************************************************************)
EXTENDS Integers, Sequences

CONSTANT Byte    \* the number of values of a byte: 256

ASSUME WireAssumption == Byte \in Nat /\ Byte > 1

Bytes == Seq(0..(Byte - 1))
Word32 == Byte * Byte * Byte * Byte    \* one more than the largest `I'

\* The four bytes of an `I', and the eight of a `Q'.
P32(n) ==
  LET n1 == n \div Byte
      n2 == n1 \div Byte
      n3 == n2 \div Byte
  IN <<n % Byte, n1 % Byte, n2 % Byte, n3 % Byte>>
P64(n) == P32(n % Word32) \o P32(n \div Word32)

\* The numbers that begin at byte i.
U32(s, i) == s[i] + Byte * (s[i + 1] + Byte * (s[i + 2] + Byte * s[i + 3]))
U64(s, i) == U32(s, i) + Word32 * U32(s, i + 4)

-----------------------------------------------------------------------------
(* Frames. *)

\* A mutant: the timestamp comes first.
encode_TimestampFirst(channel, frame, timestamp) == P64(timestamp) \o P32(channel) \o frame

\* Encoder.encode().
encode(channel, frame, timestamp) == P32(channel) \o P64(timestamp) \o frame

\* frame_packet_t, as decode() reads it: frame_size is a uint16_t.
FrameChannel(packet) == U32(packet, 1)
frame_size(packet) == (Len(packet) - 12) % 65536
FrameData(packet) == SubSeq(packet, 13, 12 + frame_size(packet))

-----------------------------------------------------------------------------
(* Subscriptions. *)

gen_subscription(r) == P32(r.device_id) \o P64(r.start) \o P64(r.end) \o P32(r.channel)

\* A mutant: the two timestamps are exchanged.
UpdateOf_EndFirst(body) == [channel |-> U32(body, 21), start |-> U64(body, 13), end |-> U64(body, 5)]

\* subscription_update_packet_t: the number of the decoder is not looked at.
UpdateOf(body) == [channel |-> U32(body, 21), start |-> U64(body, 5), end |-> U64(body, 13)]

-----------------------------------------------------------------------------
(* The list of channels. *)

\* channel_info_t and list_response_t.
InfoSize == 20
InfoBytes(info) == P32(info.channel) \o P64(info.start) \o P64(info.end)
ListResponse(infos) ==
  P32(Len(infos)) \o
  [i \in 1..(InfoSize * Len(infos)) |->
     InfoBytes(infos[(i - 1) \div InfoSize + 1])[((i - 1) % InfoSize) + 1]]

\* list() unpacks the body of a response, or raises.
Unpackable(body) == Len(body) >= 4 /\ Len(body) - 4 = InfoSize * U32(body, 1)
UnpackList(body) ==
  [k \in 1..U32(body, 1) |->
     LET i == 5 + InfoSize * (k - 1)
     IN [channel |-> U32(body, i), start |-> U64(body, i + 4), end |-> U64(body, i + 12)]]
=============================================================================
