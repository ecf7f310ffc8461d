------------------------------ MODULE HostLink -----------------------------
(***************************************************************************)
(* The serial protocol between the tools (tools/ectf25/utils/decoder.py)   *)
(* and a decoder (decoder/src/host_messaging.c and the main loop of        *)
(* decoder.c), byte by byte.                                               *)
(*                                                                         *)
(* A message is a header (magic, opcode, 16-bit little-endian length) and  *)
(* a body sent in blocks of BLOCK_LEN bytes; the receiver acknowledges the *)
(* header and each block with an ACK message.  DEBUG messages are not      *)
(* acknowledged.  Neither side has a timeout.                              *)
(*                                                                         *)
(* LinkSpec is the protocol when nothing fails.  In FaultSpec a tool may   *)
(* be killed and the decoder may lose power at any moment, and the user    *)
(* gives up a call that is stuck and tries again once the line is quiet.   *)
(***************************************************************************)
EXTENDS Integers, Sequences

CONSTANTS
  BLOCK_LEN,    \* bytes per block, on both sides
  Requests,     \* the messages that tools send
  Bodies,       \* the bodies of the decoder's answers to LIST and DECODE
  ErrorText,    \* the body of its ERROR messages
  DebugText,    \* the body of its DEBUG messages
  MaxLen,       \* bound: a longer length in a header is read as this one
  MaxFaults     \* bound: kills and power losses at an arbitrary moment

MSG_MAGIC == 37
DECODE == 68
SUBSCRIBE == 83
LIST == 76
ACK == 65
DEBUG == 71
ERROR == 69
Opcode == {DECODE, SUBSCRIBE, LIST, ACK, DEBUG, ERROR}
NACK_MSGS == {DEBUG, ACK}

Byte == 0..255
Message == [opcode : Opcode, body : Seq(Byte)]

ASSUME HostLinkAssumption ==
  /\ BLOCK_LEN \in Nat \ {0} /\ MaxLen \in Nat /\ MaxFaults \in Nat
  /\ Bodies \subseteq Seq(Byte) /\ {ErrorText, DebugText} \subseteq Seq(Byte)
  /\ \A r \in Requests : r \in Message /\ r.opcode \in {DECODE, SUBSCRIBE, LIST}

\* A body is never longer than the 16-bit length in its header can tell.
ASSUME BodiesFit ==
  /\ MaxLen <= 65535
  /\ \A r \in Requests : Len(r.body) <= MaxLen
  /\ \A b \in Bodies \cup {ErrorText, DebugText} : Len(b) <= MaxLen

\* What the decoder prints (at most the 128 bytes of output_buf) has no magic
\* byte, nor has its length: the rest of a DEBUG message is not read as a header.
ASSUME PrintsNoMagic ==
  /\ Len(DebugText) < 256 /\ Len(DebugText) # MSG_MAGIC
  /\ \A i \in 1..Len(DebugText) : DebugText[i] # MSG_MAGIC

VARIABLES
  hpc,         \* host: "idle", in get_ack() or waiting for the response
  request,     \* host: the message of this call
  unsent,      \* host: the rest of its body
  stream,      \* host: bytes in which no header was found yet
  msg,         \* host: the message being received
  outcome,     \* host: what the last call returned
  toDecoder, toHost,    \* bytes on the wire
  dpc,         \* decoder: what it does with the bytes it reads
  hdr,         \* decoder: the bytes of the header read so far
  packet,      \* decoder: the packet being received
  outbox,      \* decoder: messages it has to write before it is ready again
  untold,      \* decoder: the rest of the body of the message being written
  served,      \* history: the packets executed during the call, with their answers
  faults       \* kills and power losses so far

hostVars == <<hpc, request, unsent, stream, msg, outcome>>
decoderVars == <<dpc, hdr, packet, outbox, untold>>
vars == <<hostVars, toDecoder, toHost, decoderVars, served, faults>>

-----------------------------------------------------------------------------
(* Messages. *)

Pack(op, n) == <<MSG_MAGIC, op, n % 256, n \div 256>>
Unpack(lo, hi) == IF lo + 256 * hi > MaxLen THEN MaxLen ELSE lo + 256 * hi

\* A mutant: the body is sent in one piece.
BlockOf_Whole(body) == body

\* Message.packets() and write_bytes(): the next block of a body, and the rest.
BlockOf(body) == SubSeq(body, 1, IF Len(body) < BLOCK_LEN THEN Len(body) ELSE BLOCK_LEN)
AfterBlock(body) == SubSeq(body, BLOCK_LEN + 1, Len(body))

Ack == Pack(ACK, 0)
NoMessage == [opcode |-> 0, len |-> 0, body |-> <<>>]
Failed == [opcode |-> ERROR, body |-> <<>>]
Nothing == [opcode |-> 0, body |-> <<>>]
Error == [opcode |-> ERROR, body |-> ErrorText]
Debug == [opcode |-> DEBUG, body |-> DebugText]

\* The commands of the main loop.
AnswersTo(p) ==
  CASE p.opcode = LIST -> [opcode : {LIST}, body : Bodies]
    [] p.opcode = DECODE -> [opcode : {DECODE}, body : Bodies] \cup {Error}
    [] p.opcode = SUBSCRIBE -> {[opcode |-> SUBSCRIBE, body |-> <<>>], Error}
    [] OTHER -> {Error}

\* decode(), subscribe() and list(): the call returns the response, or raises.
OutcomeOf(answer) == IF answer.opcode = ERROR THEN Failed ELSE answer

Init ==
  /\ hpc = "idle" /\ request = Nothing /\ unsent = <<>>
  /\ stream = <<>> /\ msg = NoMessage /\ outcome = Nothing
  /\ toDecoder = <<>> /\ toHost = <<>>
  /\ dpc = "write" /\ hdr = <<>> /\ packet = NoMessage
  /\ outbox = <<Debug, Debug>> /\ untold = <<>>
  /\ served = <<>> /\ faults = 0

-----------------------------------------------------------------------------
(* The host. *)

\* send_msg() sends the header of the message.
Send(r) ==
  /\ hpc = "idle"
  /\ toDecoder' = toDecoder \o Pack(r.opcode, Len(r.body))
  /\ hpc' = "ack" /\ request' = r /\ unsent' = r.body
  /\ outcome' = Nothing /\ served' = <<>>
  /\ UNCHANGED <<msg, decoderVars, faults>>

\* A tool makes another call.
Call(r) == Send(r) /\ UNCHANGED <<stream, toHost>>

\* A new tool opens the port, which discards some of what arrived before.
FirstCall(r) ==
  /\ Send(r)
  /\ stream' = <<>>
  /\ \E k \in 1..(Len(toHost) + 1) : toHost' = SubSeq(toHost, k, Len(toHost))

\* MessageHdr.parse(): the position of the first magic byte, if a header can
\* be read there.
HeaderAt(s, i) == s[i] = MSG_MAGIC /\ i + 3 <= Len(s) /\ s[i + 1] \in Opcode
Parsed(s) == {i \in 1..Len(s) : HeaderAt(s, i) /\ \A j \in 1..(i - 1) : s[j] # MSG_MAGIC}

\* A mutant: a message is acknowledged with its own opcode.
HostAck_Echo(op) == IF op \in NACK_MSGS THEN <<>> ELSE Pack(op, 0)

HostAck(op) == IF op \in NACK_MSGS THEN <<>> ELSE Ack

\* get_raw_msg() reads one more byte and tries to parse what it has.
HostReadByte ==
  /\ hpc # "idle" /\ msg = NoMessage /\ toHost # <<>>
  /\ toHost' = Tail(toHost)
  /\ LET s == Append(stream, Head(toHost)) IN
       IF Parsed(s) = {}
       THEN stream' = s /\ UNCHANGED <<msg, toDecoder>>
       ELSE \E i \in Parsed(s) :
              /\ stream' = SubSeq(s, i + 4, Len(s))
              /\ msg' = [opcode |-> s[i + 1], len |-> Unpack(s[i + 2], s[i + 3]), body |-> <<>>]
              /\ toDecoder' = toDecoder \o HostAck(s[i + 1])
  /\ UNCHANGED <<hpc, request, unsent, outcome, decoderVars, served, faults>>

\* A mutant: every block is read as a full one.
BlockLeft_Full == BLOCK_LEN

BlockLeft ==
  LET rest == msg.len - Len(msg.body) IN IF rest < BLOCK_LEN THEN rest ELSE BLOCK_LEN

\* get_raw_msg() reads a block of the body, once it is there.
HostReadBlock ==
  /\ msg # NoMessage /\ Len(msg.body) < msg.len
  /\ Len(toHost) >= BlockLeft
  /\ LET n == BlockLeft IN
       /\ msg' = [msg EXCEPT !.body = @ \o SubSeq(toHost, 1, n)]
       /\ toHost' = SubSeq(toHost, n + 1, Len(toHost))
  /\ toDecoder' = toDecoder \o HostAck(msg.opcode)
  /\ UNCHANGED <<hpc, request, unsent, stream, outcome, decoderVars, served, faults>>

Return(result) ==
  /\ hpc' = "idle" /\ outcome' = result /\ unsent' = <<>>
  /\ UNCHANGED toDecoder

\* send_msg() got the ACK of the header or of a block.
SendNext ==
  /\ hpc = "ack" /\ msg.opcode = ACK /\ msg.body = <<>>
  /\ IF unsent = <<>>
     THEN hpc' = "response" /\ UNCHANGED <<unsent, toDecoder>>
     ELSE /\ toDecoder' = toDecoder \o BlockOf(unsent)
          /\ unsent' = AfterBlock(unsent)
          /\ UNCHANGED hpc
  /\ UNCHANGED outcome

BadAck ==
  /\ hpc = "ack" /\ ~(msg.opcode = ACK /\ msg.body = <<>>)
  /\ Return(Failed)

Response ==
  /\ hpc = "response"
  /\ Return(IF msg.opcode = request.opcode /\ (msg.opcode = SUBSCRIBE => msg.body = <<>>)
            THEN [opcode |-> msg.opcode, body |-> msg.body] ELSE Failed)

\* get_msg() has a whole message: a DEBUG is skipped, an ERROR ends the call.
HostMessage ==
  /\ msg # NoMessage /\ Len(msg.body) = msg.len
  /\ msg' = NoMessage
  /\ CASE msg.opcode = DEBUG -> UNCHANGED <<hpc, unsent, outcome, toDecoder>>
       [] msg.opcode = ERROR -> Return(Failed)
       [] OTHER -> SendNext \/ BadAck \/ Response
  /\ UNCHANGED <<request, stream, toHost, decoderVars, served, faults>>

HostStep == HostReadByte \/ HostReadBlock \/ HostMessage

-----------------------------------------------------------------------------
(* The decoder. *)

\* A mutant: the magic is not searched for.
HeaderWith_Unaligned(h, byte) == Append(h, byte)

\* read_header(): the bytes before the magic are ignored.
HeaderWith(h, byte) == IF h = <<>> /\ byte # MSG_MAGIC THEN <<>> ELSE Append(h, byte)

ReadHeaderByte ==
  /\ dpc \in {"packet", "ack"} /\ Len(hdr) < 4 /\ toDecoder # <<>>
  /\ hdr' = HeaderWith(hdr, Head(toDecoder))
  /\ toDecoder' = Tail(toDecoder)
  /\ UNCHANGED <<hostVars, toHost, dpc, packet, outbox, untold, served, faults>>

\* What the commands say before they answer.
Remarks(p, answer) ==
  CASE p.opcode = LIST -> <<Debug>>
    [] p.opcode = DECODE -> IF answer = Error THEN <<Debug>> ELSE <<Debug, Debug>>
    [] OTHER -> <<>>

\* main() executes the packet; then it tells that it is ready again.
Execute(p) ==
  \E a \in AnswersTo(p) :
    /\ outbox' = Remarks(p, a) \o <<a, Debug>>
    /\ dpc' = "write"
    /\ packet' = NoMessage
    /\ served' = Append(served, [request |-> p, answer |-> a])

\* read_packet() has the header: it is acknowledged, unless it is an ACK.
ReadPacket ==
  /\ dpc = "packet" /\ Len(hdr) = 4
  /\ hdr' = <<>>
  /\ LET op == hdr[2]
         len == Unpack(hdr[3], hdr[4]) IN
       /\ toHost' = IF op = ACK THEN toHost ELSE toHost \o Ack
       /\ IF op = ACK \/ len = 0
          THEN Execute([opcode |-> op, body |-> <<>>])
          ELSE /\ dpc' = "body"
               /\ packet' = [opcode |-> op, len |-> len, body |-> <<>>]
               /\ UNCHANGED <<outbox, served>>
  /\ UNCHANGED <<hostVars, toDecoder, untold, faults>>

\* A mutant: a last block that is not full is not acknowledged.
AckDue_FullBlock(n, len) == n % BLOCK_LEN = 0

\* Each full block is acknowledged, and the last one.
AckDue(n, len) == n % BLOCK_LEN = 0 \/ n = len

\* read_bytes() takes a byte of the body.
ReadBodyByte ==
  /\ dpc = "body" /\ toDecoder # <<>>
  /\ toDecoder' = Tail(toDecoder)
  /\ LET body == Append(packet.body, Head(toDecoder))
         n == Len(body) IN
       /\ toHost' = IF AckDue(n, packet.len) THEN toHost \o Ack ELSE toHost
       /\ IF n = packet.len
          THEN Execute([opcode |-> packet.opcode, body |-> body])
          ELSE packet' = [packet EXCEPT !.body = body] /\ UNCHANGED <<dpc, outbox, served>>
  /\ UNCHANGED <<hostVars, hdr, untold, faults>>

\* A mutant: nothing ends the writing.
Written_Again == outbox' = Tail(outbox) /\ dpc' = "write"

\* The message is written: the next one, or back to read_packet().
Written ==
  /\ outbox' = Tail(outbox)
  /\ dpc' = IF Tail(outbox) = <<>> THEN "packet" ELSE "write"

\* write_packet() sends the header, and all of a DEBUG message.
WritePacket ==
  /\ dpc = "write"
  /\ LET m == Head(outbox) IN
       IF m.opcode = DEBUG
       THEN /\ toHost' = toHost \o Pack(DEBUG, Len(m.body)) \o m.body
            /\ Written /\ UNCHANGED untold
       ELSE /\ toHost' = toHost \o Pack(m.opcode, Len(m.body))
            /\ untold' = m.body /\ dpc' = "ack" /\ UNCHANGED outbox
  /\ UNCHANGED <<hostVars, toDecoder, hdr, packet, served, faults>>

\* read_ack() has a header.  It returns 0, or -1 as a uint8_t, which is never
\* negative: whatever the header says, the message goes on.
ReadAck ==
  /\ dpc = "ack" /\ Len(hdr) = 4
  /\ hdr' = <<>>
  /\ IF untold = <<>>
     THEN Written /\ UNCHANGED <<toHost, untold>>
     ELSE /\ toHost' = toHost \o BlockOf(untold)
          /\ untold' = AfterBlock(untold)
          /\ UNCHANGED <<dpc, outbox>>
  /\ UNCHANGED <<hostVars, toDecoder, packet, served, faults>>

DecoderStep == ReadHeaderByte \/ ReadPacket \/ ReadBodyByte \/ WritePacket \/ ReadAck

-----------------------------------------------------------------------------
(* Faults. *)

\* The call ends where it is, and the tool with it.
Abandon ==
  /\ hpc # "idle"
  /\ hpc' = "idle" /\ outcome' = Failed /\ unsent' = <<>>
  /\ stream' = <<>> /\ msg' = NoMessage
  /\ UNCHANGED <<request, toHost, decoderVars, served>>

\* A tool is killed at any moment, with some of its bytes still to be sent.
Kill ==
  /\ faults < MaxFaults /\ faults' = faults + 1
  /\ Abandon
  /\ \E k \in 0..Len(toDecoder) : toDecoder' = SubSeq(toDecoder, 1, k)

\* The decoder loses power and boots again.
PowerLoss ==
  /\ faults < MaxFaults /\ faults' = faults + 1
  /\ toDecoder' = <<>>
  /\ \E k \in 0..Len(toHost) : toHost' = SubSeq(toHost, 1, k)
  /\ dpc' = "write" /\ outbox' = <<Debug, Debug>>
  /\ hdr' = <<>> /\ packet' = NoMessage /\ untold' = <<>>
  /\ UNCHANGED <<hostVars, served>>

\* Both sides wait for the other, until the user gives up.
DecoderWaits == toDecoder = <<>> /\ dpc \in {"packet", "body", "ack"} /\ Len(hdr) < 4
HostWaits ==
  IF msg = NoMessage THEN toHost = <<>>
  ELSE Len(msg.body) < msg.len /\ Len(toHost) < BlockLeft
GiveUp ==
  /\ DecoderWaits /\ HostWaits
  /\ Abandon
  /\ UNCHANGED <<toDecoder, faults>>

\* The user tries again once the line is quiet.
Retry(r) == DecoderWaits /\ Send(r) /\ stream' = <<>> /\ toHost' = <<>>

LinkNext == HostStep \/ DecoderStep \/ \E r \in Requests : Call(r) \/ FirstCall(r)
FaultNext ==
  \/ HostStep \/ DecoderStep \/ Kill \/ PowerLoss \/ GiveUp
  \/ \E r \in Requests : Retry(r)

Fairness == WF_vars(HostStep) /\ WF_vars(DecoderStep)
LinkSpec == Init /\ [][LinkNext]_vars /\ Fairness
FaultSpec ==
  /\ Init /\ [][FaultNext]_vars /\ Fairness
  /\ WF_vars(GiveUp) /\ WF_vars(\E r \in Requests : Retry(r))

-----------------------------------------------------------------------------
(* Properties. *)

\* What a message can carry, and the messages that can be sent.
B == Seq(Byte)
Body == {b \in B : Len(b) <= MaxLen}
Sendable == [opcode : Opcode, body : Body]

\* The types, however the two sides have lost step: the decoder writes only while
\* it has a message to write, and lengths are what a header can tell.
TypeOK ==
  /\ hpc \in {"idle", "ack", "response"} /\ dpc \in {"packet", "body", "ack", "write"}
  /\ stream \in B /\ unsent \in B /\ toDecoder \in B /\ toHost \in B /\ hdr \in B /\ untold \in B
  /\ msg \in [opcode : Opcode \cup {0}, len : 0..MaxLen, body : B]
  /\ packet \in [opcode : Byte, len : 0..MaxLen, body : B]
  /\ outbox \in Seq(Sendable) /\ (dpc \in {"write", "ack"} => outbox # <<>>)

\* Whatever was lost, and whatever is taken for a header, neither side reads more
\* of a body than the header told, and what the decoder still writes is the end of
\* the body of its message: get_raw_msg(), read_bytes() and write_bytes() stay
\* within their bounds when the other side talks of something else.
WithinHeader ==
  /\ Len(hdr) <= 4 /\ Len(msg.body) <= msg.len
  /\ dpc = "body" => Len(packet.body) < packet.len
  /\ dpc = "ack" =>
       LET body == Head(outbox).body IN
         Len(untold) <= Len(body) /\ untold = SubSeq(body, Len(body) - Len(untold) + 1, Len(body))

Calls ==
  INSTANCE Exchange WITH busy <- hpc # "idle"

\* Whatever the lengths of the bodies, whole blocks or not, a call is executed
\* by the decoder once and as it was made, returns the decoder's answer to it,
\* and always returns: no acknowledgement is missing or one too many.
ImplementsExchange == Calls!Spec

\* A body goes block by block, in both directions: while one side reads a body,
\* the other never has more than a block of it on the wire.
OneBlock ==
  /\ dpc = "body" => Len(toDecoder) <= BLOCK_LEN
  /\ msg # NoMessage /\ msg.opcode \notin NACK_MSGS /\ Len(msg.body) < msg.len
     => Len(toHost) <= BLOCK_LEN

Answered(p) ==
  /\ served = <<p>> /\ p.request = request
  /\ outcome = OutcomeOf(p.answer)

\* A user who gives up on a stuck call and tries again, on a line that has gone
\* quiet, is answered in the end, whatever byte of a message the fault cut and
\* however the two sides have lost step.
Recovers == []<>(hpc = "idle" /\ \E i \in 1..Len(served) : Answered(served[i]))

\* write_packet() says "If the header was not ack'd, don't send the message":
\* the bytes of a body are only written after an ACK.
BodyAfterAck ==
  [][dpc = "ack" /\ Len(hdr) = 4 /\ Len(toHost') > Len(toHost) => hdr[2] = ACK]_vars
=============================================================================
