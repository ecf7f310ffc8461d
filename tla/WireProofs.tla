----------------------------- MODULE WireProofs ----------------------------
(***************************************************************************)
(* What is packed on one side is unpacked on the other, for every number   *)
(* of values of a byte, every value of the fields and every length.        *)
(***************************************************************************)
EXTENDS Wire, TLAPS

-----------------------------------------------------------------------------
(* Bytes, and what stands where in the concatenation of bodies. *)

\* Two pieces one after the other: each byte stands where it is looked for.
LEMMA Concat ==
  \A s, t \in Bytes :
     /\ s \o t \in Bytes
     /\ Len(s) \in Nat /\ Len(s \o t) = Len(s) + Len(t)
     /\ \A k \in 1..Len(s) : (s \o t)[k] = s[k]
     /\ \A k \in 1..Len(t) : (s \o t)[Len(s) + k] = t[k]
<1> TAKE s, t \in Bytes
<1> DEFINE S == 0..(Byte - 1)
<1>1. s \in Seq(S) /\ t \in Seq(S)  BY DEF Bytes
<1> HIDE DEF S
<1>2. s \o t \in Seq(S)  BY <1>1
<1> QED BY <1>1, <1>2 DEF S, Bytes

LEMMA ByteAt == ASSUME NEW s \in Bytes PROVE \A k \in 1..Len(s) : s[k] \in 0..(Byte - 1)
<1> DEFINE S == 0..(Byte - 1)
<1>1. s \in Seq(S)  BY DEF Bytes
<1> HIDE DEF S
<1>2. \A k \in 1..Len(s) : s[k] \in S  BY <1>1
<1> QED BY <1>2 DEF S

LEMMA IsBytes ==
  ASSUME NEW m \in Nat, NEW s \in [1..m -> 0..(Byte - 1)]
  PROVE  s \in Bytes /\ Len(s) = m
<1> DEFINE S == 0..(Byte - 1)
<1>1. s \in [1..m -> S]  OBVIOUS
<1> HIDE DEF S
<1>2. s \in Seq(S) /\ Len(s) = m  BY <1>1
<1> QED BY <1>2 DEF S, Bytes

LEMMA Closed == \A s, t \in Bytes : s \o t \in Bytes
  BY Concat

-----------------------------------------------------------------------------
(* Numbers: what is split into bytes is put together again. *)

\* A number is its low byte and the rest.
LEMMA Division ==
  ASSUME NEW a \in Nat
  PROVE  /\ a \div Byte \in Nat
         /\ a % Byte \in 0..(Byte - 1)
         /\ a = (a % Byte) + Byte * (a \div Byte)
  BY WireAssumption

\* A byte less leaves a number shorter by a byte.
LEMMA Less ==
  ASSUME NEW a \in Nat, NEW c \in Nat, a < Byte * c
  PROVE  a \div Byte < c
<1>1. Byte \in Nat /\ Byte > 0  BY WireAssumption
<1> DEFINE q == a \div Byte
           r == a % Byte
<1>2. q \in Nat /\ r \in Nat /\ a = r + Byte * q  BY Division, <1>1
<1> HIDE DEF q, r
<1>3. SUFFICES ASSUME q >= c PROVE FALSE  BY <1>2 DEF q
<1>4. PICK d \in Nat : q = c + d
  <2>1. q - c \in Nat /\ q = c + (q - c)  BY <1>2, <1>3
  <2> QED BY <2>1
<1>5. Byte * q = Byte * c + Byte * d  BY <1>1, <1>4
<1>6. Byte * d \in Nat /\ Byte * c \in Nat  BY <1>1, <1>4
<1> QED BY <1>2, <1>5, <1>6

\* struct.pack('<I') and a uint32_t of the decoder are each other's inverse, wherever the four bytes stand.
LEMMA U32P32 ==
  ASSUME NEW n \in 0..(Word32 - 1), NEW s, NEW i \in Nat,
         s[i] = P32(n)[1], s[i + 1] = P32(n)[2], s[i + 2] = P32(n)[3], s[i + 3] = P32(n)[4]
  PROVE  U32(s, i) = n
<1> DEFINE n1 == n \div Byte
           n2 == n1 \div Byte
           n3 == n2 \div Byte
<1> HIDE DEF n1, n2, n3
<1>0. Byte \in Nat /\ Byte > 1  BY WireAssumption
<1>1. n \in Nat /\ n < Byte * (Byte * (Byte * Byte))  BY <1>0 DEF Word32
<1>2. n1 \in Nat /\ n = (n % Byte) + Byte * n1  BY Division, <1>1 DEF n1
<1>3. n2 \in Nat /\ n1 = (n1 % Byte) + Byte * n2  BY Division, <1>2 DEF n2
<1>4. n3 \in Nat /\ n2 = (n2 % Byte) + Byte * n3  BY Division, <1>3 DEF n3
<1>5. n3 < Byte
  <2>1. Byte * (Byte * Byte) \in Nat /\ Byte * Byte \in Nat  BY <1>0
  <2>2. n1 < Byte * (Byte * Byte)  BY Less, <2>1, <1>1 DEF n1
  <2>3. n2 < Byte * Byte  BY Less, <2>1, <2>2, <1>2 DEF n2
  <2> QED BY Less, <2>3, <1>0, <1>3 DEF n3
<1>6. n3 % Byte = n3  BY <1>5, <1>4, <1>0
<1>7. P32(n) = <<n % Byte, n1 % Byte, n2 % Byte, n3>>  BY <1>6 DEF P32, n1, n2, n3
<1>8. U32(s, i) = (n % Byte) + Byte * ((n1 % Byte) + Byte * ((n2 % Byte) + Byte * n3))  BY <1>7 DEF U32
<1> QED BY <1>8, <1>2, <1>3, <1>4

LEMMA Word == Word32 \in Nat /\ Word32 > 0
<1>1. Byte \in Nat /\ Byte > 0  BY WireAssumption
<1>2. Byte * Byte \in Nat /\ Byte * Byte > 0  BY <1>1
<1>3. Byte * Byte * Byte \in Nat /\ Byte * Byte * Byte > 0  BY <1>1, <1>2
<1> QED BY <1>1, <1>3 DEF Word32

LEMMA P32Bytes == ASSUME NEW n \in Nat PROVE P32(n) \in Bytes /\ Len(P32(n)) = 4
<1> DEFINE n1 == n \div Byte
           n2 == n1 \div Byte
           n3 == n2 \div Byte
<1>1. n \in Nat /\ n1 \in Nat /\ n2 \in Nat /\ n3 \in Nat  BY Division
<1> HIDE DEF n1, n2, n3
<1>2. \A a \in {n, n1, n2, n3} : a % Byte \in 0..(Byte - 1)  BY Division, <1>1
<1>3. P32(n) = <<n % Byte, n1 % Byte, n2 % Byte, n3 % Byte>>  BY DEF P32, n1, n2, n3
<1> QED BY <1>2, <1>3 DEF Bytes

\* A 64 bit number is made of two words.
LEMMA Halves ==
  ASSUME NEW n \in 0..(Word32 * Word32 - 1)
  PROVE  /\ n % Word32 \in 0..(Word32 - 1)
         /\ n \div Word32 \in 0..(Word32 - 1)
         /\ n = (n % Word32) + Word32 * (n \div Word32)
<1> DEFINE q == n \div Word32
           r == n % Word32
<1>1. n \in Nat /\ n < Word32 * Word32  BY Word
<1>2. q \in Nat /\ r \in 0..(Word32 - 1) /\ n = r + Word32 * q  BY Word, <1>1
<1> HIDE DEF q, r
<1>3. q < Word32
  <2>1. SUFFICES ASSUME q >= Word32 PROVE FALSE  BY <1>2, Word
  <2>2. q - Word32 \in Nat /\ q = Word32 + (q - Word32)  BY <2>1, <1>2, Word
  <2>3. PICK d \in Nat : q = Word32 + d  BY <2>2
  <2>4. Word32 * q = Word32 * Word32 + Word32 * d  BY <2>3, Word
  <2>5. Word32 * d \in Nat /\ Word32 * Word32 \in Nat  BY <2>3, Word
  <2> QED BY <1>1, <1>2, <2>4, <2>5
<1>4. q \in 0..(Word32 - 1)  BY <1>2, <1>3, Word
<1> QED BY <1>1, <1>2, <1>4, Word DEF q, r

\* The same of '<Q' and uint64_t.
LEMMA U64P64 ==
  ASSUME NEW n \in 0..(Word32 * Word32 - 1), NEW s, NEW i \in Nat,
         \A k \in 1..8 : s[i + k - 1] = P64(n)[k]
  PROVE  U64(s, i) = n
<1> DEFINE lo == n % Word32
           hi == n \div Word32
<1>1. lo \in 0..(Word32 - 1) /\ hi \in 0..(Word32 - 1) /\ n = lo + Word32 * hi  BY Halves
<1> HIDE DEF lo, hi
<1>2. /\ P32(lo) \in Bytes /\ Len(P32(lo)) = 4
      /\ P32(hi) \in Bytes /\ Len(P32(hi)) = 4  BY P32Bytes, <1>1, Word
<1>3. P64(n) = P32(lo) \o P32(hi)  BY DEF P64, lo, hi
<1>4. \A k \in 1..4 : P64(n)[k] = P32(lo)[k] /\ P64(n)[4 + k] = P32(hi)[k]
  <2> DEFINE a == P32(lo)
             b == P32(hi)
  <2>1. a \in Bytes /\ Len(a) = 4 /\ b \in Bytes /\ Len(b) = 4  BY <1>2
  <2>2. P64(n) = a \o b  BY <1>3
  <2> HIDE DEF a, b
  <2>3. /\ \A k \in 1..Len(a) : (a \o b)[k] = a[k]
        /\ \A k \in 1..Len(b) : (a \o b)[Len(a) + k] = b[k]
    BY <2>1, Concat
  <2>4. \A k \in 1..4 : P64(n)[k] = a[k] /\ P64(n)[4 + k] = b[k]  BY <2>1, <2>2, <2>3
  <2> QED BY <2>4 DEF a, b
<1>5. \A k \in 1..4 : s[i + k - 1] = P32(lo)[k]  BY <1>4
<1>6. \A k \in 1..4 : s[i + 4 + k - 1] = P32(hi)[k]
  <2> TAKE k \in 1..4
  <2>1. 4 + k \in 1..8 /\ i + (4 + k) - 1 = i + 4 + k - 1  OBVIOUS
  <2> QED BY <1>4, <2>1
<1>7. U32(s, i) = lo
  <2>1. /\ s[i] = P32(lo)[1] /\ s[i + 1] = P32(lo)[2] /\ s[i + 2] = P32(lo)[3] /\ s[i + 3] = P32(lo)[4]  BY <1>5
  <2> QED BY <2>1, <1>1, U32P32
<1>8. U32(s, i + 4) = hi
  <2> DEFINE j == i + 4
  <2>1. /\ s[j] = P32(hi)[1] /\ s[j + 1] = P32(hi)[2] /\ s[j + 2] = P32(hi)[3] /\ s[j + 3] = P32(hi)[4]  BY <1>6
  <2>2. j \in Nat  OBVIOUS
  <2> HIDE DEF j
  <2>3. U32(s, j) = hi  BY <2>1, <2>2, <1>1, U32P32
  <2> QED BY <2>3 DEF j
<1> QED BY <1>1, <1>7, <1>8 DEF U64

LEMMA P64Length == ASSUME NEW n \in Nat PROVE P64(n) \in Bytes /\ Len(P64(n)) = 8
<1> DEFINE lo == P32(n % Word32)
           hi == P32(n \div Word32)
<1>1. n % Word32 \in Nat /\ n \div Word32 \in Nat  BY Word
<1>2. lo \in Bytes /\ Len(lo) = 4 /\ hi \in Bytes /\ Len(hi) = 4  BY <1>1, P32Bytes
<1>3. P64(n) = lo \o hi  BY DEF P64
<1> HIDE DEF lo, hi
<1>4. lo \o hi \in Bytes /\ Len(lo \o hi) = Len(lo) + Len(hi)  BY <1>2, Concat
<1> QED BY <1>2, <1>3, <1>4

-----------------------------------------------------------------------------
(* Bodies. *)

\* Three pieces one after the other.
LEMMA Concat3 ==
  ASSUME NEW a \in Bytes, NEW b \in Bytes, NEW f \in Bytes, NEW e, e = (a \o b) \o f
  PROVE  /\ e \in Bytes /\ Len(e) = Len(a) + Len(b) + Len(f)
         /\ \A k \in 1..Len(a) : e[k] = a[k]
         /\ \A k \in 1..Len(b) : e[Len(a) + k] = b[k]
         /\ \A k \in 1..Len(f) : e[Len(a) + Len(b) + k] = f[k]
<1> DEFINE S == 0..(Byte - 1)
<1>1. a \in Seq(S) /\ b \in Seq(S) /\ f \in Seq(S)  BY DEF Bytes
<1>2. Bytes = Seq(S)  BY DEF Bytes
<1> HIDE DEF S
<1>3. e \in Seq(S) /\ Len(e) = Len(a) + Len(b) + Len(f)  BY <1>1
<1>4. \A k \in 1..Len(a) : e[k] = a[k]  BY <1>1
<1>5. \A k \in 1..Len(b) : e[Len(a) + k] = b[k]  BY <1>1
<1>6. \A k \in 1..Len(f) : e[Len(a) + Len(b) + k] = f[k]  BY <1>1
<1> QED BY <1>2, <1>3, <1>4, <1>5, <1>6

\* A packet made by encode() is read by the decoder's decode() as the channel and
\* the frame that went in, whatever the timestamp, as long as frame_size, a
\* uint16_t, does not wrap.
THEOREM FrameCarried ==
  ASSUME NEW c \in 0..(Word32 - 1), NEW t \in Nat, NEW f \in Bytes, Len(f) < 65524
  PROVE  /\ encode(c, f, t) \in Bytes /\ Len(encode(c, f, t)) = 12 + Len(f)
         /\ FrameChannel(encode(c, f, t)) = c
         /\ FrameData(encode(c, f, t)) = f
<1> DEFINE a == P32(c)
           b == P64(t)
           e == encode(c, f, t)
<1>1. a \in Bytes /\ b \in Bytes  BY P32Bytes, P64Length, Word
<1>2. Len(a) = 4 /\ Len(b) = 8  BY P32Bytes, P64Length, Word
<1>3. e = (a \o b) \o f  BY DEF encode
<1> HIDE DEF a, b, e
<1>4. /\ e \in Bytes /\ Len(f) \in Nat /\ Len(e) = 12 + Len(f)
      /\ \A k \in 1..4 : e[k] = a[k]
      /\ \A k \in 1..Len(f) : e[12 + k] = f[k]
  <2>0. e \in Bytes  BY <1>1, <1>3, Closed
  <2>1. Len(e) = Len(a) + Len(b) + Len(f)  BY <1>1, <1>3, Concat3
  <2>2. \A k \in 1..Len(a) : e[k] = a[k]  BY <1>1, <1>3, Concat3
  <2>3. \A k \in 1..Len(f) : e[Len(a) + Len(b) + k] = f[k]  BY <1>1, <1>3, Concat3
  <2>4. Len(f) \in Nat  BY DEF Bytes
  <2> QED BY <1>2, <2>0, <2>1, <2>2, <2>3, <2>4
<1>5. FrameChannel(e) = c
  <2>1. e[1] = P32(c)[1] /\ e[2] = P32(c)[2] /\ e[3] = P32(c)[3] /\ e[4] = P32(c)[4]  BY <1>4 DEF a
  <2>2. U32(e, 1) = c  BY <2>1, U32P32
  <2> QED BY <2>2 DEF FrameChannel
<1>6. FrameData(e) = f
  <2>1. frame_size(e) = Len(f)
    <3> DEFINE n == Len(f)
    <3>1. n \in Nat /\ n < 65536 /\ Len(e) - 12 = n  BY <1>4
    <3> HIDE DEF n
    <3>2. n % 65536 = n  BY <3>1
    <3> QED BY <3>1, <3>2 DEF frame_size, n
  <2>2. FrameData(e) = SubSeq(e, 13, 12 + Len(f))  BY <2>1 DEF FrameData
  <2>3. Len(SubSeq(e, 13, 12 + Len(f))) = Len(f)  BY <1>4 DEF Bytes
  <2>4. \A k \in 1..Len(f) : SubSeq(e, 13, 12 + Len(f))[k] = f[k]  BY <1>4 DEF Bytes
  <2> QED BY <2>2, <2>3, <2>4 DEF Bytes
<1> QED BY <1>4, <1>5, <1>6 DEF e

\* Four pieces: what follows the first one.
LEMMA Concat4 ==
  ASSUME NEW a \in Bytes, NEW b \in Bytes, NEW c \in Bytes, NEW d \in Bytes, NEW e,
         e = ((a \o b) \o c) \o d
  PROVE  /\ \A k \in 1..Len(b) : e[Len(a) + k] = b[k]
         /\ \A k \in 1..Len(c) : e[Len(a) + Len(b) + k] = c[k]
         /\ \A k \in 1..Len(d) : e[Len(a) + Len(b) + Len(c) + k] = d[k]
<1> DEFINE S == 0..(Byte - 1)
<1>1. a \in Seq(S) /\ b \in Seq(S) /\ c \in Seq(S) /\ d \in Seq(S)  BY DEF Bytes
<1> HIDE DEF S
<1>2. \A k \in 1..Len(b) : e[Len(a) + k] = b[k]  BY <1>1
<1>3. \A k \in 1..Len(c) : e[Len(a) + Len(b) + k] = c[k]  BY <1>1
<1>4. \A k \in 1..Len(d) : e[Len(a) + Len(b) + Len(c) + k] = d[k]  BY <1>1
<1> QED BY <1>2, <1>3, <1>4

\* A number packed after byte i of s is read as it was.
LEMMA Fields ==
  ASSUME NEW n \in 0..(Word32 - 1), NEW s, NEW i \in Nat,
         \A k \in 1..4 : s[i + k] = P32(n)[k]
  PROVE  U32(s, i + 1) = n
<1> DEFINE j == i + 1
<1>1. j \in Nat /\ s[j] = P32(n)[1] /\ s[j + 1] = P32(n)[2] /\ s[j + 2] = P32(n)[3] /\ s[j + 3] = P32(n)[4]
  OBVIOUS
<1> HIDE DEF j
<1>2. U32(s, j) = n  BY <1>1, U32P32
<1> QED BY <1>2 DEF j

LEMMA Fields64 ==
  ASSUME NEW n \in 0..(Word32 * Word32 - 1), NEW s, NEW i \in Nat,
         \A k \in 1..8 : s[i + k] = P64(n)[k]
  PROVE  U64(s, i + 1) = n
<1> DEFINE j == i + 1
<1>1. j \in Nat /\ \A k \in 1..8 : s[j + k - 1] = P64(n)[k]
  <2>1. \A k \in 1..8 : j + k - 1 = i + k  OBVIOUS
  <2> QED BY <2>1
<1> HIDE DEF j
<1>2. U64(s, j) = n  BY <1>1, U64P64
<1> QED BY <1>2 DEF j

\* A `Q'.
Stamps == 0..(Word32 * Word32 - 1)

\* A body made by gen_subscription() is read by update_subscription() as the
\* channel and the window that went in: neither the order of the fields nor the
\* width of a timestamp differs, and the number of the device is not looked at.
THEOREM WindowCarried ==
  ASSUME NEW r \in [device_id : Nat, start : Stamps, end : Stamps, channel : 0..(Word32 - 1)]
  PROVE  UpdateOf(gen_subscription(r)) = [channel |-> r.channel, start |-> r.start, end |-> r.end]
<1> DEFINE a == P32(r.device_id)
           b == P64(r.start)
           c == P64(r.end)
           d == P32(r.channel)
           e == gen_subscription(r)
<1>0. /\ r.device_id \in Nat /\ r.start \in Nat /\ r.end \in Nat /\ r.channel \in Nat
      /\ r.start \in Stamps /\ r.end \in Stamps /\ r.channel \in 0..(Word32 - 1)
  BY Word DEF Stamps
<1>1. a \in Bytes /\ b \in Bytes /\ c \in Bytes /\ d \in Bytes  BY <1>0, P32Bytes, P64Length
<1>2. Len(a) = 4 /\ Len(b) = 8 /\ Len(c) = 8 /\ Len(d) = 4  BY <1>0, P32Bytes, P64Length
<1>3. e = ((a \o b) \o c) \o d  BY DEF gen_subscription
<1> HIDE DEF a, b, c, d, e
<1>4. /\ \A k \in 1..8 : e[4 + k] = b[k]
      /\ \A k \in 1..8 : e[12 + k] = c[k]
      /\ \A k \in 1..4 : e[20 + k] = d[k]
  <2>1. \A k \in 1..Len(b) : e[Len(a) + k] = b[k]  BY <1>1, <1>3, Concat4
  <2>2. \A k \in 1..Len(c) : e[Len(a) + Len(b) + k] = c[k]  BY <1>1, <1>3, Concat4
  <2>3. \A k \in 1..Len(d) : e[Len(a) + Len(b) + Len(c) + k] = d[k]  BY <1>1, <1>3, Concat4
  <2> QED BY <1>2, <2>1, <2>2, <2>3
<1>5. U64(e, 4 + 1) = r.start
  <2> DEFINE n == r.start
             i == 4
  <2>1. n \in Stamps /\ i \in Nat /\ \A k \in 1..8 : e[i + k] = b[k]  BY <1>0, <1>4
  <2>2. b = P64(n)  BY DEF b
  <2> HIDE DEF n, i
  <2>3. U64(e, i + 1) = n  BY <2>1, <2>2, Fields64 DEF Stamps
  <2> QED BY <2>3 DEF n, i
<1>6. U64(e, 12 + 1) = r.end
  <2> DEFINE n == r.end
             i == 12
  <2>1. n \in Stamps /\ i \in Nat /\ \A k \in 1..8 : e[i + k] = c[k]  BY <1>0, <1>4
  <2>2. c = P64(n)  BY DEF c
  <2> HIDE DEF n, i
  <2>3. U64(e, i + 1) = n  BY <2>1, <2>2, Fields64 DEF Stamps
  <2> QED BY <2>3 DEF n, i
<1>7. U32(e, 20 + 1) = r.channel
  <2> DEFINE n == r.channel
             i == 20
  <2>1. n \in 0..(Word32 - 1) /\ i \in Nat /\ \A k \in 1..4 : e[i + k] = d[k]  BY <1>0, <1>4
  <2>2. d = P32(n)  BY DEF d
  <2> HIDE DEF n, i
  <2>3. U32(e, i + 1) = n  BY <2>1, <2>2, Fields
  <2> QED BY <2>3 DEF n, i
<1> QED BY <1>5, <1>6, <1>7 DEF UpdateOf, e

\* A slot, as it is listed.
Infos == [channel : 0..(Word32 - 1), start : Stamps, end : Stamps]

\* A channel_info_t is unpacked as it was, wherever it stands.
LEMMA InfoRead ==
  ASSUME NEW info \in Infos, NEW s, NEW i \in Nat, \A k \in 1..InfoSize : s[i + k] = InfoBytes(info)[k]
  PROVE  U32(s, i + 1) = info.channel /\ U64(s, i + 5) = info.start /\ U64(s, i + 13) = info.end
<1> DEFINE a == P32(info.channel)
           b == P64(info.start)
           c == P64(info.end)
           e == InfoBytes(info)
<1>0. /\ info.channel \in 0..(Word32 - 1) /\ info.start \in Stamps /\ info.end \in Stamps
      /\ info.channel \in Nat /\ info.start \in Nat /\ info.end \in Nat
  BY Word DEF Stamps, Infos
<1>1. a \in Bytes /\ b \in Bytes /\ c \in Bytes  BY <1>0, P32Bytes, P64Length
<1>2. Len(a) = 4 /\ Len(b) = 8 /\ Len(c) = 8  BY <1>0, P32Bytes, P64Length
<1>3. e = (a \o b) \o c  BY DEF InfoBytes
<1>4. \A k \in 1..20 : s[i + k] = e[k]  BY DEF InfoSize
<1> HIDE DEF a, b, c, e
<1>5. /\ \A k \in 1..4 : s[i + k] = a[k]
      /\ \A k \in 1..8 : s[(i + 4) + k] = b[k]
      /\ \A k \in 1..8 : s[(i + 12) + k] = c[k]
  <2>1. \A k \in 1..Len(a) : e[k] = a[k]  BY <1>1, <1>3, Concat3
  <2>2. \A k \in 1..Len(b) : e[Len(a) + k] = b[k]  BY <1>1, <1>3, Concat3
  <2>3. \A k \in 1..Len(c) : e[Len(a) + Len(b) + k] = c[k]  BY <1>1, <1>3, Concat3
  <2>4. /\ \A k \in 1..4 : e[k] = a[k]
        /\ \A k \in 1..8 : e[4 + k] = b[k]
        /\ \A k \in 1..8 : e[12 + k] = c[k]
    BY <1>2, <2>1, <2>2, <2>3
  <2>5. ASSUME NEW k \in 1..4 PROVE s[i + k] = a[k]  BY <1>4, <2>4
  <2>6. ASSUME NEW k \in 1..8 PROVE s[(i + 4) + k] = b[k]
    <3>1. s[i + (4 + k)] = e[4 + k]  BY <1>4
    <3>2. i + (4 + k) = (i + 4) + k  OBVIOUS
    <3> QED BY <3>1, <3>2, <2>4
  <2>7. ASSUME NEW k \in 1..8 PROVE s[(i + 12) + k] = c[k]
    <3>1. s[i + (12 + k)] = e[12 + k]  BY <1>4
    <3>2. i + (12 + k) = (i + 12) + k  OBVIOUS
    <3> QED BY <3>1, <3>2, <2>4
  <2> QED BY <2>5, <2>6, <2>7
<1>6. U32(s, i + 1) = info.channel
  <2> DEFINE n == info.channel
  <2>1. n \in 0..(Word32 - 1) /\ a = P32(n)  BY <1>0 DEF a
  <2> HIDE DEF n
  <2>2. U32(s, i + 1) = n  BY <1>5, <2>1, Fields
  <2> QED BY <2>2 DEF n
<1>7. U64(s, i + 5) = info.start
  <2> DEFINE n == info.start
             j == i + 4
  <2>1. n \in Stamps /\ b = P64(n) /\ j \in Nat /\ \A k \in 1..8 : s[j + k] = b[k]  BY <1>0, <1>5 DEF b
  <2>2. j + 1 = i + 5  OBVIOUS
  <2> HIDE DEF n, j
  <2>3. U64(s, j + 1) = n  BY <2>1, Fields64 DEF Stamps
  <2> QED BY <2>2, <2>3 DEF n
<1>8. U64(s, i + 13) = info.end
  <2> DEFINE n == info.end
             j == i + 12
  <2>1. n \in Stamps /\ c = P64(n) /\ j \in Nat /\ \A k \in 1..8 : s[j + k] = c[k]  BY <1>0, <1>5 DEF c
  <2>2. j + 1 = i + 13  OBVIOUS
  <2> HIDE DEF n, j
  <2>3. U64(s, j + 1) = n  BY <2>1, Fields64 DEF Stamps
  <2> QED BY <2>2, <2>3 DEF n
<1> QED BY <1>6, <1>7, <1>8

\* A channel_info_t takes InfoSize bytes.
LEMMA InfoLength ==
  ASSUME NEW info \in Infos
  PROVE  Len(InfoBytes(info)) = InfoSize /\ \A k \in 1..InfoSize : InfoBytes(info)[k] \in 0..(Byte - 1)
<1> DEFINE a == P32(info.channel)
           b == P64(info.start)
           c == P64(info.end)
           e == InfoBytes(info)
<1>0. info.channel \in Nat /\ info.start \in Nat /\ info.end \in Nat  BY Word DEF Stamps, Infos
<1>1. a \in Bytes /\ b \in Bytes /\ c \in Bytes  BY <1>0, P32Bytes, P64Length
<1>2. Len(a) = 4 /\ Len(b) = 8 /\ Len(c) = 8  BY <1>0, P32Bytes, P64Length
<1>3. e = (a \o b) \o c  BY DEF InfoBytes
<1> HIDE DEF a, b, c, e
<1>4. Len(e) = Len(a) + Len(b) + Len(c)  BY <1>1, <1>3, Concat3
<1>5. e \in Bytes  BY <1>1, <1>3, Closed
<1>6. Len(e) = 20  BY <1>2, <1>4
<1>7. \A k \in 1..20 : e[k] \in 0..(Byte - 1)
  <2>1. \A k \in 1..Len(e) : e[k] \in 0..(Byte - 1)  BY <1>5, ByteAt
  <2> QED BY <2>1, <1>6
<1> QED BY <1>6, <1>7 DEF e, InfoSize

\* The response that list_channels() builds, as long as it may be, is taken by
\* DecoderIntf.list(), which checks its length, and unpacked to the same channels
\* and windows in the same order.
THEOREM ListCarried ==
  ASSUME NEW infos \in Seq(Infos), Len(infos) < Word32
  PROVE  /\ Unpackable(ListResponse(infos))
         /\ UnpackList(ListResponse(infos)) = infos
<1> DEFINE n == Len(infos)
           a == P32(n)
           F == [i \in 1..(InfoSize * n) |-> InfoBytes(infos[(i - 1) \div InfoSize + 1])[((i - 1) % InfoSize) + 1]]
           e == ListResponse(infos)
<1>0. n \in Nat /\ n \in 0..(Word32 - 1)  BY Word
<1>1. a \in Bytes /\ Len(a) = 4  BY <1>0, P32Bytes
<1>2. e = a \o F  BY DEF ListResponse
<1>3. \A k \in 1..n : infos[k] \in Infos  OBVIOUS
<1>4. F \in Bytes /\ Len(F) = 20 * n
  <2>1. ASSUME NEW i \in 1..(20 * n)
        PROVE  InfoBytes(infos[(i - 1) \div InfoSize + 1])[((i - 1) % InfoSize) + 1] \in 0..(Byte - 1)
    <3> DEFINE k == (i - 1) \div InfoSize + 1
               j == ((i - 1) % InfoSize) + 1
    <3>1. k \in 1..n /\ j \in 1..InfoSize  BY <1>0 DEF InfoSize
    <3> HIDE DEF k, j
    <3>2. InfoBytes(infos[k])[j] \in 0..(Byte - 1)  BY <3>1, <1>3, InfoLength
    <3> QED BY <3>2 DEF k, j
  <2>2. 20 * n \in Nat  BY <1>0
  <2>3. F \in [1..(20 * n) -> 0..(Byte - 1)]  BY <2>1 DEF InfoSize
  <2> DEFINE m == 20 * n
  <2>4. m \in Nat /\ F \in [1..m -> 0..(Byte - 1)]  BY <2>2, <2>3
  <2> HIDE DEF F, n, m
  <2>5. F \in Bytes /\ Len(F) = m  BY <2>4, IsBytes
  <2> QED BY <2>5 DEF m
<1>5. \A k \in 1..n, j \in 1..InfoSize : F[20 * (k - 1) + j] = InfoBytes(infos[k])[j]
  <2> TAKE k \in 1..n, j \in 1..InfoSize
  <2> DEFINE i == 20 * (k - 1) + j
  <2>1. /\ i \in 1..(InfoSize * n)
        /\ (i - 1) \div InfoSize + 1 = k
        /\ ((i - 1) % InfoSize) + 1 = j
    BY <1>0 DEF InfoSize
  <2> HIDE DEF i
  <2>2. F[i] = InfoBytes(infos[k])[j]  BY <2>1
  <2> QED BY <2>2 DEF i
<1> HIDE DEF a, F, e, n
<1>6. /\ Len(e) = 4 + 20 * n
      /\ \A k \in 1..4 : e[k] = a[k]
      /\ \A k \in 1..(20 * n) : e[4 + k] = F[k]
  <2>1. Len(e) = Len(a) + Len(F)  BY <1>1, <1>2, <1>4, Concat
  <2>2. \A k \in 1..Len(a) : e[k] = a[k]  BY <1>1, <1>2, <1>4, Concat
  <2>3. \A k \in 1..Len(F) : e[Len(a) + k] = F[k]  BY <1>1, <1>2, <1>4, Concat
  <2> QED BY <1>1, <1>4, <2>1, <2>2, <2>3
<1>7. U32(e, 1) = n
  <2>1. e[1] = P32(n)[1] /\ e[2] = P32(n)[2] /\ e[3] = P32(n)[3] /\ e[4] = P32(n)[4]  BY <1>6 DEF a
  <2>2. e[1 + 1] = P32(n)[2] /\ e[1 + 2] = P32(n)[3] /\ e[1 + 3] = P32(n)[4]  BY <2>1
  <2> QED BY <2>1, <2>2, <1>0, U32P32
<1>8. Unpackable(e)  BY <1>0, <1>6, <1>7 DEF Unpackable, InfoSize
<1>9. ASSUME NEW k \in 1..n
      PROVE  LET i == 5 + InfoSize * (k - 1)
             IN [channel |-> U32(e, i), start |-> U64(e, i + 4), end |-> U64(e, i + 12)] = infos[k]
  <2> DEFINE i == 4 + 20 * (k - 1)
  <2>1. \A j \in 1..InfoSize : e[i + j] = InfoBytes(infos[k])[j]
    <3> TAKE j \in 1..InfoSize
    <3>1. 20 * (k - 1) + j \in 1..(20 * n) /\ 4 + (20 * (k - 1) + j) = i + j  BY <1>0 DEF InfoSize
    <3> QED BY <3>1, <1>5, <1>6
  <2>2. i \in Nat /\ infos[k] \in Infos  BY <1>0, <1>3
  <2>3. i + 1 = 5 + InfoSize * (k - 1) /\ i + 5 = (5 + InfoSize * (k - 1)) + 4
          /\ i + 13 = (5 + InfoSize * (k - 1)) + 12
    BY <1>0 DEF InfoSize
  <2> HIDE DEF i
  <2>4. U32(e, i + 1) = infos[k].channel /\ U64(e, i + 5) = infos[k].start /\ U64(e, i + 13) = infos[k].end
    BY <2>1, <2>2, InfoRead
  <2>5. infos[k] = [channel |-> infos[k].channel, start |-> infos[k].start, end |-> infos[k].end]
    BY <2>2 DEF Infos
  <2> QED BY <2>3, <2>4, <2>5
<1>10. UnpackList(e) = infos
  <2>1. UnpackList(e) = [k \in 1..n |-> infos[k]]  BY <1>7, <1>9 DEF UnpackList
  <2>2. infos = [k \in 1..n |-> infos[k]]  BY DEF n
  <2> QED BY <2>1, <2>2
<1> QED BY <1>8, <1>10 DEF e
=============================================================================
