--------------------------- MODULE HostLinkProofs ---------------------------
(***************************************************************************)
(* Safety of the serial protocol when nothing fails, for any requests,     *)
(* answers, printed text and block length: it implements Exchange.  The    *)
(* invariant LinkInv says in which phase of a call both sides are, which   *)
(* bytes are on the wire and what each side makes of them.  At the end,    *)
(* what remains true when tools are killed and power fails.                *)
(***************************************************************************)
EXTENDS HostLink, SequenceTheorems, TLAPS

-----------------------------------------------------------------------------
(* Sequences of bytes. *)

\* Lengths, and the empty sequence.
LEMMA Bytes ==
  \A x, y \in B :
    /\ x \o y \in B /\ Len(x) \in Nat /\ Len(x \o y) = Len(x) + Len(y)
    /\ (x = <<>> <=> Len(x) = 0)
  BY ConcatProperties, EmptySeq, LenProperties DEF B

\* The empty sequence adds nothing.
LEMMA None == <<>> \in B /\ \A x \in B : x \o <<>> = x /\ <<>> \o x = x
  BY EmptySeq, ConcatEmptySeq DEF B

\* Concatenation needs no parentheses.
LEMMA Assoc == \A x, y, z \in B : (x \o y) \o z = x \o (y \o z)
  BY ConcatAssociative DEF B

\* A byte that is read moves from what is to come to what was read.
LEMMA Shift ==
  ASSUME NEW x \in B, NEW y \in B, y # <<>>
  PROVE  /\ Head(y) \in Byte /\ Tail(y) \in B /\ Len(Tail(y)) = Len(y) - 1
         /\ Append(x, Head(y)) \in B /\ Len(Append(x, Head(y))) = Len(x) + 1
         /\ Append(x, Head(y)) \o Tail(y) = x \o y
         /\ Head(y) = y[1]
<1>1. y \in Seq(Byte) /\ x \in Seq(Byte)
  BY DEF B
<1>2. Head(y) \in Byte /\ Tail(y) \in Seq(Byte) /\ Len(Tail(y)) = Len(y) - 1
  BY <1>1, HeadTailProperties
<1>3. Append(x, Head(y)) \in Seq(Byte) /\ Len(Append(x, Head(y))) = Len(x) + 1
  BY <1>1, <1>2, AppendProperties
<1>4. Append(x, Head(y)) = x \o <<Head(y)>>
  BY <1>1, <1>2, AppendIsConcat
<1>5. <<Head(y)>> \in Seq(Byte)
  BY <1>2
<1>6. Head(y) = y[1]
  BY <1>1
<1>7. <<Head(y)>> \o Tail(y) = y
  <2>1. Len(y) \in Nat /\ Len(y) >= 1
    BY <1>1, EmptySeq
  <2>2. 1 \in 1..Len(y) /\ Len(y) \in 1..Len(y)
    BY <2>1
  <2>3. SubSeq(y, 1, Len(y)) = <<y[1]>> \o SubSeq(y, 1 + 1, Len(y))
    BY <1>1, <2>2, SubSeqRecursiveFirst
  <2>4. SubSeq(y, 1, Len(y)) = y /\ Tail(y) = SubSeq(y, 2, Len(y))
    BY <1>1, SubSeqFull, TailIsSubSeq
  <2> QED
    BY <2>3, <2>4, <1>6
<1>8. (x \o <<Head(y)>>) \o Tail(y) = x \o (<<Head(y)>> \o Tail(y))
  BY <1>1, <1>2, <1>5, ConcatAssociative
<1> QED
  BY <1>2, <1>3, <1>4, <1>6, <1>7, <1>8 DEF B

\* Two ways to take the same bytes apart at the same place are one.
LEMMA SameCut ==
  ASSUME NEW x \in B, NEW y \in B, NEW u \in B, NEW v \in B,
         x \o y = u \o v, Len(x) = Len(u)
  PROVE  x = u /\ y = v
<1>1. x \in Seq(Byte) /\ y \in Seq(Byte) /\ u \in Seq(Byte) /\ v \in Seq(Byte)
  BY DEF B
<1>2. Len(x) \in Nat /\ Len(y) \in Nat
  BY Bytes
<1>3. /\ \A i \in 1..(Len(x) + Len(y)) : (x \o y)[i] = IF i <= Len(x) THEN x[i] ELSE y[i - Len(x)]
      /\ \A i \in 1..(Len(u) + Len(v)) : (u \o v)[i] = IF i <= Len(u) THEN u[i] ELSE v[i - Len(u)]
      /\ Len(x \o y) = Len(x) + Len(y) /\ Len(u \o v) = Len(u) + Len(v)
  BY <1>1, ConcatProperties
<1>4. Len(v) = Len(y)
  <2>1. Len(v) \in Nat
    BY Bytes
  <2> QED
    BY <2>1, <1>2, <1>3
<1>5. \A i \in 1..Len(x) : x[i] = u[i]
  BY <1>2, <1>3, <1>4
<1>6. x = u
  BY <1>1, <1>5, SeqEqual
<1>7. y = v
  <2>1. \A i \in 1..Len(y) : y[i] = v[i]
    <3> TAKE i \in 1..Len(y)
    <3>1. Len(x) + i \in 1..(Len(x) + Len(y)) /\ Len(x) + i - Len(x) = i /\ ~(Len(x) + i <= Len(x))
      BY <1>2
    <3> DEFINE k == Len(x) + i
    <3>2. (x \o y)[k] = y[k - Len(x)]
      BY <1>3, <3>1
    <3>3. (u \o v)[k] = v[k - Len(x)]
      <4>1. k \in 1..(Len(u) + Len(v)) /\ ~(k <= Len(u)) /\ k - Len(u) = k - Len(x)
        BY <1>4, <3>1
      <4> QED
        BY <1>3, <4>1
    <3> QED
      BY <3>1, <3>2, <3>3
  <2> QED
    BY <1>1, <1>4, <2>1, SeqEqual
<1> QED
  BY <1>6, <1>7

\* The first n bytes and the others.
LEMMA Cut ==
  ASSUME NEW x \in B, NEW n \in 0..Len(x)
  PROVE  /\ SubSeq(x, 1, n) \in B /\ Len(SubSeq(x, 1, n)) = n
         /\ SubSeq(x, n + 1, Len(x)) \in B /\ Len(SubSeq(x, n + 1, Len(x))) = Len(x) - n
         /\ SubSeq(x, 1, n) \o SubSeq(x, n + 1, Len(x)) = x
<1>1. x \in Seq(Byte) /\ Len(x) \in Nat
  BY Bytes DEF B
<1>2. \A i \in 1..Len(x) : x[i] \in Byte
  BY <1>1, ElementOfSeq
<1>3. SubSeq(x, 1, n) \in Seq(Byte) /\ Len(SubSeq(x, 1, n)) = n
  <2>1. \A i \in 1..n : x[i] \in Byte
    BY <1>1, <1>2
  <2>2. /\ SubSeq(x, 1, n) \in Seq(Byte)
        /\ Len(SubSeq(x, 1, n)) = IF 1 <= n THEN n - 1 + 1 ELSE 0
    <3>1. 1 \in Int /\ n \in Int
      BY <1>1
    <3> QED
      BY <2>1, <3>1, SubSeqProperties
  <2> QED
    BY <2>2, <1>1
<1>4. SubSeq(x, n + 1, Len(x)) \in Seq(Byte) /\ Len(SubSeq(x, n + 1, Len(x))) = Len(x) - n
  <2>1. \A i \in (n + 1)..Len(x) : x[i] \in Byte
    BY <1>1, <1>2
  <2>2. /\ SubSeq(x, n + 1, Len(x)) \in Seq(Byte)
        /\ Len(SubSeq(x, n + 1, Len(x))) = IF n + 1 <= Len(x) THEN Len(x) - (n + 1) + 1 ELSE 0
    <3>1. n + 1 \in Int /\ Len(x) \in Int
      BY <1>1
    <3> QED
      BY <2>1, <3>1, SubSeqProperties
  <2> QED
    BY <2>2, <1>1
<1>5. SubSeq(x, 1, n) \o SubSeq(x, n + 1, Len(x)) = SubSeq(x, 1, Len(x))
  <2>1. 1 \in 1..(Len(x) + 1) /\ n \in (1 - 1)..Len(x) /\ Len(x) \in n..Len(x)
    BY <1>1
  <2> QED
    BY <1>1, <2>1, ConcatAdjacentSubSeq
<1> QED
  BY <1>1, <1>3, <1>4, <1>5, SubSeqFull DEF B

\* What is cut off before the end of the first piece leaves the second one whole.
LEMMA CutFirst ==
  ASSUME NEW x \in B, NEW y \in B, NEW n \in 0..Len(x)
  PROVE  /\ SubSeq(x \o y, 1, n) = SubSeq(x, 1, n)
         /\ SubSeq(x \o y, n + 1, Len(x \o y)) = SubSeq(x, n + 1, Len(x)) \o y
<1> DEFINE p == SubSeq(x, 1, n)
           q == SubSeq(x, n + 1, Len(x))
           z == x \o y
           P == SubSeq(z, 1, n)
           Q == SubSeq(z, n + 1, Len(z))
<1>1. p \in B /\ q \in B /\ p \o q = x /\ Len(p) = n
  BY Cut
<1>2. z \in B /\ Len(z) = Len(x) + Len(y) /\ Len(x) \in Nat /\ Len(y) \in Nat
  BY Bytes
<1>3. n \in 0..Len(z)
  BY <1>2
<1> HIDE DEF z
<1>4. P \in B /\ Q \in B /\ P \o Q = z /\ Len(P) = n
  BY <1>2, <1>3, Cut
<1> HIDE DEF p, q, P, Q
<1>5. p \o (q \o y) = P \o Q
  <2>1. p \in B /\ q \in B /\ y \in B
    BY <1>1
  <2>2. (p \o q) \o y = p \o (q \o y)
    BY <2>1, Assoc
  <2> QED
    BY <1>1, <1>4, <2>2 DEF z
<1>6. q \o y \in B
  BY <1>1, Bytes
<1>7. p = P /\ q \o y = Q
  BY <1>1, <1>4, <1>5, <1>6, SameCut
<1> QED
  BY <1>7 DEF p, q, P, Q, z

\* The bytes x and then y are also u and then v, and x ends first.
Reaches(x, y, u, v) == x \in B /\ y \in B /\ u \in B /\ v \in B /\ x \o y = u \o v /\ Len(x) <= Len(u)
\* The bytes u are x and more, and y goes on after them.
Splits(x, y, u, v) == \E w \in B : u = x \o w /\ y = w \o v
\* Of two cuts of a sequence, the longer first part reaches over the shorter.
LEMMA Overlap == 
  ASSUME NEW x, NEW y, NEW u, NEW v, Reaches(x, y, u, v)
  PROVE  Splits(x, y, u, v)
<1> DEFINE n == Len(x)
           p == SubSeq(u, 1, n)
           z == SubSeq(u, n + 1, Len(u))
<1>6. x \in B /\ y \in B /\ u \in B /\ v \in B
  BY DEF Reaches
<1>0. n \in 0..Len(u)
  <2>1. Len(x) \in Nat /\ Len(u) \in Nat /\ Len(x) <= Len(u)
    BY Bytes DEF Reaches
  <2> QED
    BY <2>1
<1>1. p \in B /\ z \in B /\ p \o z = u /\ Len(p) = n
  BY <1>6, <1>0, Cut
<1>2. x \o y = u \o v /\ Len(x) = Len(p)
  BY <1>1 DEF Reaches
<1> HIDE DEF p, z, n
<1>3. z \o v \in B
  BY <1>6, <1>1, Bytes
<1>4. x \o y = p \o (z \o v)
  <2>1. p \in B /\ z \in B /\ v \in B
    BY <1>1, <1>6
  <2>2. (p \o z) \o v = p \o (z \o v)
    BY <2>1, Assoc
  <2> QED
    BY <1>1, <1>2, <2>2
<1>5. x = p /\ y = z \o v
  BY <1>6, <1>1, <1>2, <1>3, <1>4, SameCut
<1> QED
  BY <1>1, <1>5 DEF Splits

-----------------------------------------------------------------------------
(* Headers. *)

\* A header can be sent for every body, and its length is read as it was sent.
LEMMA Header ==
  ASSUME NEW op \in Opcode, NEW n \in 0..MaxLen
  PROVE  /\ Pack(op, n) \in B /\ Len(Pack(op, n)) = 4
         /\ Pack(op, n)[1] = MSG_MAGIC /\ Pack(op, n)[2] = op
         /\ Pack(op, n)[3] = n % 256 /\ Pack(op, n)[4] = n \div 256
         /\ Unpack(Pack(op, n)[3], Pack(op, n)[4]) = n
<1>1. n \in Nat /\ n <= 65535 /\ n <= MaxLen /\ MaxLen \in Nat
  BY HostLinkAssumption, BodiesFit
<1>2. n % 256 \in 0..255 /\ n \div 256 \in 0..255 /\ n = (n % 256) + 256 * (n \div 256)
  BY <1>1
<1>3. op \in 0..255 /\ MSG_MAGIC \in 0..255
  BY DEF Opcode, DECODE, SUBSCRIBE, LIST, ACK, DEBUG, ERROR, MSG_MAGIC
<1> DEFINE lo == n % 256
           hi == n \div 256
<1>4. lo \in Byte /\ hi \in Byte /\ op \in Byte /\ MSG_MAGIC \in Byte
  BY <1>2, <1>3 DEF Byte
<1>5. Unpack(lo, hi) = n
  BY <1>1, <1>2 DEF Unpack
<1> HIDE DEF lo, hi
<1>6. Pack(op, n) = <<MSG_MAGIC, op, lo, hi>>
  BY DEF Pack, lo, hi
<1>7. Pack(op, n) \in Seq(Byte)
  BY <1>4, <1>6
<1>8. Len(Pack(op, n)) = 4
  BY <1>6
<1>9. /\ Pack(op, n)[1] = MSG_MAGIC /\ Pack(op, n)[2] = op
      /\ Pack(op, n)[3] = lo /\ Pack(op, n)[4] = hi
  BY <1>6
<1> QED
  BY <1>5, <1>7, <1>8, <1>9 DEF B, lo, hi

\* Bytes in which no header can begin.
NoMagic(s) == \A k \in 1..Len(s) : s[k] # MSG_MAGIC

\* No bytes are such bytes.
LEMMA NoMagicNone == NoMagic(<<>>)
<1>1. Len(<<>>) = 0
  OBVIOUS
<1>2. 1..0 = {}
  OBVIOUS
<1> QED
  BY <1>1, <1>2 DEF NoMagic

\* A byte without magic is read.
LEMMA NoMagicShift ==
  ASSUME NEW s \in B, NoMagic(s), NEW j \in B, NoMagic(j), j # <<>>
  PROVE  NoMagic(Append(s, Head(j))) /\ NoMagic(Tail(j))
<1>1. s \in Seq(Byte) /\ j \in Seq(Byte) /\ Len(s) \in Nat /\ Len(j) \in Nat /\ Len(j) # 0
  BY Bytes DEF B
<1>2. Head(j) \in Byte /\ Head(j) = j[1] /\ Len(Tail(j)) = Len(j) - 1
  BY Shift
<1>3. \A k \in 1..Len(Tail(j)) : Tail(j)[k] = j[k + 1]
  BY <1>1, HeadTailProperties
<1>4. /\ Len(Append(s, Head(j))) = Len(s) + 1
      /\ \A k \in 1..Len(s) : Append(s, Head(j))[k] = s[k]
      /\ Append(s, Head(j))[Len(s) + 1] = Head(j)
  BY <1>1, <1>2, AppendProperties
<1>5. Head(j) # MSG_MAGIC
  <2>1. 1 \in 1..Len(j)
    BY <1>1
  <2> QED
    BY <2>1, <1>2 DEF NoMagic
<1>6. NoMagic(Tail(j))
  <2> SUFFICES ASSUME NEW k \in 1..Len(Tail(j)) PROVE Tail(j)[k] # MSG_MAGIC
    BY DEF NoMagic
  <2>1. k + 1 \in 1..Len(j)
    BY <1>1, <1>2
  <2> QED
    BY <2>1, <1>3 DEF NoMagic
<1>7. NoMagic(Append(s, Head(j)))
  <2> SUFFICES ASSUME NEW k \in 1..(Len(s) + 1) PROVE Append(s, Head(j))[k] # MSG_MAGIC
    BY <1>4 DEF NoMagic
  <2>1. k \in 1..Len(s) \/ k = Len(s) + 1
    BY <1>1
  <2> QED
    BY <2>1, <1>4, <1>5 DEF NoMagic
<1> QED
  BY <1>6, <1>7

\* No header is found where there is no magic byte, or too few bytes from it.
LEMMA NoHeader == ASSUME NEW s \in B, NoMagic(s) PROVE Parsed(s) = {}
  BY DEF Parsed, HeaderAt, NoMagic

\* A header that has begun is not parsed before it is whole.
LEMMA HalfHeader ==
  ASSUME NEW j \in B, NoMagic(j), NEW p \in B, Len(p) > 0, p[1] = MSG_MAGIC, Len(p) < 4
  PROVE  Parsed(j \o p) = {}
<1> DEFINE s == j \o p
           n == Len(j)
<1>1. n \in Nat /\ Len(p) \in Nat /\ Len(s) = n + Len(p) /\ Len(s) \in Nat
  BY Bytes
<1>2. \A k \in 1..(n + Len(p)) : s[k] = IF k <= n THEN j[k] ELSE p[k - n]
  BY ConcatProperties DEF B
<1> HIDE DEF s, n
<1>3. ASSUME NEW k \in 1..n PROVE s[k] # MSG_MAGIC
  <2>1. k \in 1..(n + Len(p)) /\ k <= n
    BY <1>1
  <2>2. k \in 1..Len(j)
    BY DEF n
  <2> QED
    BY <2>1, <2>2, <1>2 DEF NoMagic
<1>4. s[n + 1] = MSG_MAGIC
  <2> DEFINE k == n + 1
  <2>1. k \in 1..(n + Len(p)) /\ ~(k <= n) /\ k - n = 1
    BY <1>1
  <2> HIDE DEF k
  <2>2. s[k] = p[k - n]
    BY <2>1, <1>2
  <2> QED
    BY <2>1, <2>2 DEF k
<1> SUFFICES ASSUME NEW i \in Parsed(s) PROVE FALSE
  BY DEF s
<1>5. i \in 1..Len(s) /\ s[i] = MSG_MAGIC /\ i + 3 <= Len(s) /\ \A k \in 1..(i - 1) : s[k] # MSG_MAGIC
  BY DEF Parsed, HeaderAt
<1>6. i > n
  BY <1>1, <1>3, <1>5
<1>7. i <= n + 1
  <2>1. i > n + 1 => n + 1 \in 1..(i - 1)
    BY <1>1, <1>5
  <2> QED
    BY <2>1, <1>1, <1>4, <1>5
<1> QED
  BY <1>1, <1>5, <1>6, <1>7

\* The header of opcode op and length n is all that is found in s, at i.
Read(s, i, op, n) ==
  /\ Parsed(s) = {i}
  /\ s[i + 1] = op /\ Unpack(s[i + 2], s[i + 3]) = n
  /\ SubSeq(s, i + 4, Len(s)) = <<>>

\* After bytes without the magic, a header is found where it starts, all of it.
LEMMA WholeHeader ==
  ASSUME NEW j \in B, NoMagic(j), NEW op \in Opcode, NEW n \in 0..MaxLen
  PROVE  Read(j \o Pack(op, n), Len(j) + 1, op, n)
<1> DEFINE h == Pack(op, n)
           s == j \o h
           i == Len(j) + 1
<1>1. h \in B /\ Len(h) = 4 /\ h[1] = MSG_MAGIC /\ h[2] = op /\ Unpack(h[3], h[4]) = n
  BY Header
<1> HIDE DEF h
<1>2. Len(j) \in Nat /\ Len(s) = Len(j) + 4
  <2>1. Len(j) \in Nat /\ Len(s) = Len(j) + Len(h)
    BY <1>1, Bytes
  <2> QED
    BY <2>1, <1>1
<1>3. \A k \in 1..(Len(j) + 4) : s[k] = IF k <= Len(j) THEN j[k] ELSE h[k - Len(j)]
  <2>1. \A k \in 1..(Len(j) + Len(h)) : s[k] = IF k <= Len(j) THEN j[k] ELSE h[k - Len(j)]
    BY <1>1, ConcatProperties DEF B
  <2> QED
    BY <2>1, <1>1
<1> HIDE DEF s
<1>4. \A k \in 1..Len(j) : s[k] # MSG_MAGIC
  <2> TAKE k \in 1..Len(j)
  <2>1. k \in 1..(Len(j) + 4) /\ k <= Len(j)
    BY <1>2
  <2> QED
    BY <2>1, <1>3 DEF NoMagic
<1>5. s[i] = h[1] /\ s[i + 1] = h[2] /\ s[i + 2] = h[3] /\ s[i + 3] = h[4]
  <2>1. ASSUME NEW k \in {1, 2, 3, 4} PROVE s[Len(j) + k] = h[k]
    <3>1. Len(j) + k \in 1..(Len(j) + 4) /\ ~(Len(j) + k <= Len(j)) /\ Len(j) + k - Len(j) = k
      BY <1>2
    <3>2. s[Len(j) + k] = h[Len(j) + k - Len(j)]
      BY <3>1, <1>3
    <3> QED
      BY <3>1, <3>2
  <2>2. i = Len(j) + 1 /\ i + 1 = Len(j) + 2 /\ i + 2 = Len(j) + 3 /\ i + 3 = Len(j) + 4
    BY <1>2
  <2> QED
    BY <2>1, <2>2
<1>6. i \in 1..Len(s) /\ i + 3 <= Len(s) /\ i - 1 = Len(j)
  BY <1>2
<1>7. i \in Parsed(s)
  BY <1>1, <1>4, <1>5, <1>6 DEF Parsed, HeaderAt
<1>8. ASSUME NEW k \in Parsed(s) PROVE k = i
  <2>1. k \in 1..Len(s) /\ s[k] = MSG_MAGIC /\ \A l \in 1..(k - 1) : s[l] # MSG_MAGIC
    BY <1>8 DEF Parsed, HeaderAt
  <2>2. ~(k < i)
    BY <2>1, <1>2, <1>4
  <2>3. ~(i < k)
    <3>1. i < k => i \in 1..(k - 1)
      BY <2>1, <1>2
    <3> QED
      BY <3>1, <2>1, <1>1, <1>5
  <2> QED
    BY <2>1, <2>2, <2>3, <1>2
<1>9. SubSeq(s, i + 4, Len(s)) = <<>>
  <2>1. i + 4 \in Int /\ Len(s) \in Int /\ Len(s) < i + 4
    BY <1>2
  <2> QED
    BY <2>1, SubSeqEmpty
<1> HIDE DEF i
<1>10. Parsed(s) = {i} /\ s[i + 1] = op /\ Unpack(s[i + 2], s[i + 3]) = n /\ SubSeq(s, i + 4, Len(s)) = <<>>
  BY <1>1, <1>5, <1>7, <1>8, <1>9
<1> QED
  BY <1>10 DEF s, h, i, Read

-----------------------------------------------------------------------------
(* What the decoder prints. *)

\* A DEBUG message.
Dbg == Pack(DEBUG, Len(DebugText)) \o DebugText

\* Any number of DEBUG messages: the least set that has none of them, and
\* one more before each of its members.
Chatter ==
  {c \in B : \A S \in SUBSET B : (<<>> \in S /\ \A x \in S : Dbg \o x \in S) => c \in S}

\* Of the bytes of a DEBUG message only the first is a magic byte.
LEMMA DbgBytes ==
  /\ DebugText \in B /\ Len(DebugText) \in 0..MaxLen /\ DEBUG \in Opcode
  /\ Dbg \in B /\ Len(Dbg) = 4 + Len(DebugText)
  /\ \A k \in 1..Len(Dbg) : k # 1 => Dbg[k] # MSG_MAGIC
<1> DEFINE n == Len(DebugText)
           h == Pack(DEBUG, n)
<1>1. DebugText \in B /\ n \in 0..MaxLen /\ DEBUG \in Opcode
  <2>1. DebugText \in B
    BY HostLinkAssumption DEF B
  <2>2. n <= MaxLen /\ MaxLen \in Nat /\ n \in Nat
    BY <2>1, HostLinkAssumption, BodiesFit, Bytes
  <2> QED
    BY <2>1, <2>2 DEF Opcode
<1>2. n < 256 /\ n # MSG_MAGIC /\ \A i \in 1..n : DebugText[i] # MSG_MAGIC
  BY PrintsNoMagic
<1> HIDE DEF n
<1>3. h \in B /\ Len(h) = 4 /\ h[2] = DEBUG /\ h[3] = n % 256 /\ h[4] = n \div 256
  BY <1>1, Header
<1>4. h[2] # MSG_MAGIC /\ h[3] # MSG_MAGIC /\ h[4] # MSG_MAGIC
  <2>1. n % 256 = n /\ n \div 256 = 0
    BY <1>1, <1>2, HostLinkAssumption
  <2> QED
    BY <2>1, <1>2, <1>3 DEF DEBUG, MSG_MAGIC
<1> HIDE DEF h
<1>5. Dbg = h \o DebugText
  BY DEF Dbg, h, n
<1>6. Dbg \in B /\ Len(Dbg) = Len(h) + n
  BY <1>1, <1>3, <1>5, Bytes DEF n
<1>7. \A k \in 1..(Len(h) + n) : Dbg[k] = IF k <= Len(h) THEN h[k] ELSE DebugText[k - Len(h)]
  BY <1>1, <1>3, <1>5, ConcatProperties DEF B, n
<1>8. Len(Dbg) = 4 + n /\ \A k \in 1..(4 + n) : Dbg[k] = IF k <= 4 THEN h[k] ELSE DebugText[k - 4]
  BY <1>3, <1>6, <1>7
<1>9. ASSUME NEW k \in 1..(4 + n), k # 1 PROVE Dbg[k] # MSG_MAGIC
  <2>1. n \in Nat
    BY <1>1, HostLinkAssumption
  <2>2. CASE k <= 4
    <3>1. k \in {2, 3, 4}
      BY <2>1, <2>2, <1>9
    <3> QED
      BY <3>1, <2>2, <1>4, <1>8
  <2>3. CASE ~(k <= 4)
    <3> DEFINE i == k - 4
    <3>1. i \in 1..n
      BY <2>1, <2>3
    <3>2. Dbg[k] = DebugText[i]
      BY <1>8, <2>3
    <3> HIDE DEF i
    <3> QED
      BY <3>1, <3>2, <1>2
  <2> QED
    BY <2>2, <2>3
<1> QED
  BY <1>1, <1>6, <1>8, <1>9 DEF n

\* What holds of no messages, and of one more, holds of any number.
LEMMA ChatterLeast ==
  ASSUME NEW S \in SUBSET B, <<>> \in S, \A x \in S : Dbg \o x \in S
  PROVE  Chatter \subseteq S
  BY DEF Chatter

\* Chatter is bytes, none of them, or one more message first.
LEMMA ChatterBegins ==
  Chatter \subseteq B /\ <<>> \in Chatter /\ \A x \in Chatter : Dbg \o x \in Chatter
<1>1. Chatter \subseteq B
  BY DEF Chatter
<1>2. <<>> \in Chatter
  BY None DEF Chatter
<1>3. ASSUME NEW x \in Chatter PROVE Dbg \o x \in Chatter
  <2>1. Dbg \o x \in B
    BY <1>1, DbgBytes, Bytes
  <2>2. ASSUME NEW S \in SUBSET B, <<>> \in S, \A y \in S : Dbg \o y \in S PROVE Dbg \o x \in S
    BY <2>2 DEF Chatter
  <2> QED
    BY <2>1, <2>2 DEF Chatter
<1> QED
  BY <1>1, <1>2, <1>3

\* The decoder prints one message more.
LEMMA ChatterMore == \A x \in Chatter : x \o Dbg \in Chatter
<1> DEFINE S == {x \in B : x \o Dbg \in Chatter}
<1>1. <<>> \in S
  <2>1. <<>> \o Dbg = Dbg \o <<>>
    BY DbgBytes, None
  <2> QED
    BY <2>1, ChatterBegins, None
<1>2. ASSUME NEW x \in S PROVE Dbg \o x \in S
  <2>1. (Dbg \o x) \o Dbg = Dbg \o (x \o Dbg)
    BY DbgBytes, Assoc
  <2>2. Dbg \o (x \o Dbg) \in Chatter
    BY ChatterBegins
  <2>3. Dbg \o x \in B
    BY DbgBytes, Bytes
  <2> QED
    BY <2>1, <2>2, <2>3
<1>3. S \in SUBSET B
  OBVIOUS
<1> HIDE DEF S
<1>4. Chatter \subseteq S
  BY <1>1, <1>2, <1>3, ChatterLeast
<1> QED
  BY <1>4 DEF S

\* The host reads the first message of what was printed.
LEMMA ChatterSplit == \A c \in Chatter : c = <<>> \/ \E d \in Chatter : c = Dbg \o d
<1> DEFINE S == {c \in Chatter : c = <<>> \/ \E d \in Chatter : c = Dbg \o d}
<1>1. <<>> \in S
  BY ChatterBegins
<1>2. \A x \in S : Dbg \o x \in S
  BY ChatterBegins
<1>3. S \in SUBSET B
  BY ChatterBegins
<1> HIDE DEF S
<1>4. Chatter \subseteq S
  BY <1>1, <1>2, <1>3, ChatterLeast
<1> QED
  BY <1>4 DEF S

\* Whatever is discarded at its beginning, what is left are whole messages
\* behind bytes that are not taken for a header.
LEMMA ChatterEnds ==
  \A c \in Chatter : \A n \in 0..Len(c) :
    \E j \in B, d \in Chatter : NoMagic(j) /\ SubSeq(c, n + 1, Len(c)) = j \o d
<1> DEFINE Ends(c) == \A n \in 0..Len(c) :
             \E j \in B, d \in Chatter : NoMagic(j) /\ SubSeq(c, n + 1, Len(c)) = j \o d
           S == {c \in Chatter : Ends(c)}
<1>1. <<>> \in S
  <2> SUFFICES ASSUME NEW n \in 0..Len(<<>>) PROVE SubSeq(<<>>, n + 1, Len(<<>>)) = <<>> \o <<>>
    BY ChatterBegins, None, NoMagicNone
  <2>1. Len(<<>>) = 0
    OBVIOUS
  <2>2. n + 1 \in Int /\ Len(<<>>) \in Int /\ Len(<<>>) < n + 1
    BY <2>1
  <2>3. SubSeq(<<>>, n + 1, Len(<<>>)) = <<>>
    BY <2>2, SubSeqEmpty
  <2> QED
    BY <2>3, None
<1>2. ASSUME NEW x \in S PROVE Dbg \o x \in S
  <2> DEFINE c == Dbg \o x
             m == Len(Dbg)
  <2>1. x \in Chatter /\ x \in B /\ Dbg \in B
    BY ChatterBegins, DbgBytes
  <2>2. c \in Chatter /\ c \in B /\ Len(c) = m + Len(x) /\ m \in Nat /\ Len(x) \in Nat
    BY <2>1, ChatterBegins, Bytes
  <2> SUFFICES ASSUME NEW n \in 0..Len(c)
               PROVE  \E j \in B, d \in Chatter : NoMagic(j) /\ SubSeq(c, n + 1, Len(c)) = j \o d
    BY <2>2
  <2>3. CASE n = 0
    <3>1. SubSeq(c, n + 1, Len(c)) = c
      <4>1. n + 1 = 1
        BY <2>3
      <4> QED
        BY <4>1, <2>2, SubSeqFull DEF B
    <3> QED
      BY <3>1, <2>2, None, NoMagicNone
  <2>4. CASE n \in 1..m
    <3> DEFINE j == SubSeq(Dbg, n + 1, Len(Dbg))
    <3>1. n \in 0..Len(Dbg)
      BY <2>2, <2>4
    <3>2. SubSeq(c, n + 1, Len(c)) = j \o x
      BY <2>1, <3>1, CutFirst
    <3>3. j \in B /\ Len(j) = m - n
      BY <2>1, <3>1, Cut
    <3>4. \A i \in 1..(m - (n + 1) + 1) : j[i] = Dbg[n + 1 + i - 1]
      <4>1. \A i \in (n + 1)..m : Dbg[i] \in Byte
        <5>1. \A i \in (n + 1)..m : i \in 1..m
          BY <2>2, <2>4
        <5> QED
          BY <5>1, <2>1, ElementOfSeq DEF B
      <4>2. n + 1 \in Int /\ m \in Int
        BY <2>2, <2>4
      <4> QED
        BY <4>1, <4>2, SubSeqProperties
    <3> HIDE DEF j
    <3>5. NoMagic(j)
      <4> SUFFICES ASSUME NEW i \in 1..(m - n) PROVE j[i] # MSG_MAGIC
        BY <3>3 DEF NoMagic
      <4> DEFINE k == n + i
      <4>1. k \in 1..m /\ k # 1 /\ n + 1 + i - 1 = k /\ i \in 1..(m - (n + 1) + 1)
        BY <2>2, <2>4
      <4>2. j[i] = Dbg[k]
        BY <4>1, <3>4
      <4> HIDE DEF k
      <4> QED
        BY <4>1, <4>2, DbgBytes
    <3> QED
      BY <3>2, <3>3, <3>5, <2>1
  <2>5. CASE n > m
    <3> DEFINE k == n - m
    <3>1. k \in 0..Len(x) /\ n \in Nat
      BY <2>2, <2>5
    <3>2. SubSeq(c, n + 1, Len(c)) = SubSeq(x, k + 1, Len(x))
      <4>1. CASE n = Len(c)
        <5>1. SubSeq(c, n + 1, Len(c)) = <<>>
          <6>1. n + 1 \in Int /\ Len(c) \in Int /\ Len(c) < n + 1
            BY <4>1, <3>1, <2>2
          <6> QED
            BY <6>1, SubSeqEmpty
        <5>2. SubSeq(x, k + 1, Len(x)) = <<>>
          <6>1. k + 1 \in Int /\ Len(x) \in Int /\ Len(x) < k + 1
            BY <4>1, <3>1, <2>2
          <6> QED
            BY <6>1, SubSeqEmpty
        <5> QED
          BY <5>1, <5>2
      <4>2. CASE n # Len(c)
        <5> DEFINE a == n + 1
                   e == Len(c)
        <5> HIDE DEF c, m
        <5>1. a \in (m + 1)..(m + Len(x)) /\ e \in (m + 1)..(m + Len(x))
          BY <4>2, <2>2, <2>5, <3>1
        <5>2. a - m = k + 1 /\ e - m = Len(x)
          BY <2>2, <3>1
        <5> HIDE DEF a, e
        <5>3. SubSeq(c, a, e) = SubSeq(x, a - m, e - m)
          BY <5>1, <2>1, SubSeqOfConcat2 DEF B, c, m
        <5> QED
          BY <5>2, <5>3 DEF a, e
      <4> QED
        BY <4>1, <4>2
    <3>3. Ends(x)
      OBVIOUS
    <3> HIDE DEF k, c, m
    <3>4. \E j \in B, d \in Chatter : NoMagic(j) /\ SubSeq(x, k + 1, Len(x)) = j \o d
      BY <3>1, <3>3
    <3> QED
      BY <3>2, <3>4
  <2>6. n = 0 \/ n \in 1..m \/ n > m
    <3> HIDE DEF c, m
    <3> QED
      BY <2>2
  <2> QED
    BY <2>3, <2>4, <2>5, <2>6
<1>3. S \in SUBSET B
  BY ChatterBegins
<1> HIDE DEF S
<1>4. Chatter \subseteq S
  BY <1>1, <1>2, <1>3, ChatterLeast
<1> QED
  BY <1>4 DEF S

-----------------------------------------------------------------------------
(* Blocks. *)

\* A block and what is left are the whole; only the last block is not full.
LEMMA Block ==
  ASSUME NEW x \in B
  PROVE  /\ BlockOf(x) \in B /\ AfterBlock(x) \in B /\ BlockOf(x) \o AfterBlock(x) = x
         /\ Len(BlockOf(x)) <= BLOCK_LEN
         /\ x # <<>> => BlockOf(x) # <<>>
         /\ AfterBlock(x) # <<>> => Len(BlockOf(x)) = BLOCK_LEN
<1>1. BLOCK_LEN \in Nat /\ BLOCK_LEN # 0 /\ Len(x) \in Nat /\ (x = <<>> <=> Len(x) = 0)
  BY HostLinkAssumption, Bytes
<1>2. CASE Len(x) < BLOCK_LEN
  <2>1. BlockOf(x) = x
    BY <1>2, SubSeqFull DEF BlockOf, B
  <2>2. AfterBlock(x) = <<>>
    <3>1. BLOCK_LEN + 1 \in Int /\ Len(x) \in Int /\ Len(x) < BLOCK_LEN + 1
      BY <1>1, <1>2
    <3> QED
      BY <3>1, SubSeqEmpty DEF AfterBlock
  <2>3. Len(BlockOf(x)) <= BLOCK_LEN
    BY <2>1, <1>1, <1>2
  <2> QED
    BY <2>1, <2>2, <2>3, None
<1>3. CASE ~(Len(x) < BLOCK_LEN)
  <2>1. BlockOf(x) = SubSeq(x, 1, BLOCK_LEN) /\ AfterBlock(x) = SubSeq(x, BLOCK_LEN + 1, Len(x))
    BY <1>3 DEF BlockOf, AfterBlock
  <2>2. BLOCK_LEN \in 0..Len(x)
    BY <1>1, <1>3
  <2>3. BlockOf(x) \in B /\ AfterBlock(x) \in B /\ BlockOf(x) \o AfterBlock(x) = x /\ Len(BlockOf(x)) = BLOCK_LEN
    BY <2>1, <2>2, Cut
  <2>4. BlockOf(x) # <<>>
    BY <2>3, <1>1, Bytes
  <2>5. Len(BlockOf(x)) <= BLOCK_LEN
    BY <2>3, <1>1
  <2> QED
    BY <2>3, <2>4, <2>5
<1> QED
  BY <1>2, <1>3

-----------------------------------------------------------------------------
(* Types. *)

\* The decoder answers with the opcode of the request or with an error.
LEMMA Answers ==
  /\ Requests \subseteq Sendable
  /\ \A p : AnswersTo(p) \subseteq Sendable
  /\ \A p : \A a \in AnswersTo(p) : a.opcode \in {LIST, DECODE, SUBSCRIBE, ERROR}
  /\ Debug \in Sendable /\ Debug.opcode = DEBUG /\ Debug.body = DebugText
<1>1. Bodies \subseteq Body /\ ErrorText \in Body /\ DebugText \in Body /\ <<>> \in Body
  <2>1. Bodies \subseteq B /\ ErrorText \in B /\ DebugText \in B
    BY HostLinkAssumption DEF B
  <2>2. \A b \in Bodies \cup {ErrorText, DebugText} : Len(b) <= MaxLen
    BY BodiesFit
  <2>3. <<>> \in B /\ Len(<<>>) <= MaxLen
    <3>1. Len(<<>>) = 0
      OBVIOUS
    <3>2. 0 <= MaxLen
      BY HostLinkAssumption
    <3> QED
      BY <3>1, <3>2, None
  <2> QED
    BY <2>1, <2>2, <2>3 DEF Body
<1>2. Requests \subseteq Sendable
  BY HostLinkAssumption, BodiesFit DEF Sendable, Body, Message, B
<1>3. \A p : AnswersTo(p) \subseteq [opcode : {LIST, DECODE, SUBSCRIBE, ERROR}, body : Body]
  BY <1>1 DEF AnswersTo, Error
<1>4. {LIST, DECODE, SUBSCRIBE, ERROR} \subseteq Opcode
  BY DEF Opcode
<1>5. \A p : AnswersTo(p) \subseteq Sendable
  BY <1>3, <1>4 DEF Sendable
<1>6. \A p : \A a \in AnswersTo(p) : a.opcode \in {LIST, DECODE, SUBSCRIBE, ERROR}
  BY <1>3
<1>7. Debug \in Sendable /\ Debug.opcode = DEBUG /\ Debug.body = DebugText
  BY <1>1 DEF Debug, Sendable, Opcode
<1> QED
  BY <1>2, <1>5, <1>6, <1>7

\* The header of a message.
Hdr(m) == Pack(m.opcode, Len(m.body))

\* A message that can be sent has a header that can be read.
LEMMA SentHeader ==
  ASSUME NEW m \in Sendable
  PROVE  /\ m.opcode \in Opcode /\ m.body \in B /\ Len(m.body) \in 0..MaxLen
         /\ Hdr(m) \in B /\ Len(Hdr(m)) = 4 /\ Hdr(m)[1] = MSG_MAGIC
<1>1. m.opcode \in Opcode /\ m.body \in B /\ Len(m.body) <= MaxLen
  BY DEF Sendable, Body
<1>2. Len(m.body) \in 0..MaxLen
  <2>1. Len(m.body) \in Nat /\ MaxLen \in Nat
    BY <1>1, Bytes, HostLinkAssumption
  <2> QED
    BY <2>1, <1>1
<1> QED
  BY <1>1, <1>2, Header DEF Hdr

\* An ACK is a header.
LEMMA AckHeader ==
  /\ ACK \in Opcode /\ 0 \in 0..MaxLen /\ Ack = Pack(ACK, 0)
  /\ Ack \in B /\ Len(Ack) = 4 /\ Ack[1] = MSG_MAGIC /\ Ack[2] = ACK
<1>1. ACK \in Opcode /\ 0 \in 0..MaxLen
  BY HostLinkAssumption DEF Opcode
<1> QED
  BY <1>1, Header DEF Ack

\* The lengths that headers tell are within the bound.
LEMMA Unpacked == \A lo, hi \in Byte : Unpack(lo, hi) \in 0..MaxLen
  BY HostLinkAssumption DEF Unpack, Byte

\* No message is a message of the types.
LEMMA EmptyMessages ==
  /\ NoMessage \in [opcode : Opcode \cup {0}, len : 0..MaxLen, body : B]
  /\ NoMessage \in [opcode : Byte, len : 0..MaxLen, body : B]
<1>1. 0 \in 0..MaxLen /\ 0 \in Byte /\ <<>> \in B
  BY HostLinkAssumption, None DEF Byte
<1> QED
  BY <1>1 DEF NoMessage

\* The types hold at first.
LEMMA TypeInit == Init => TypeOK
<1> SUFFICES ASSUME Init PROVE TypeOK
  OBVIOUS
<1>1. outbox = <<Debug, Debug>> /\ outbox \in Seq(Sendable) /\ outbox # <<>>
  BY Answers DEF Init
<1> QED
  BY <1>1, None, EmptyMessages DEF Init, TypeOK

\* The end of a sequence of bytes.
LEMMA Ending == ASSUME NEW x \in B, NEW k \in Nat, k >= 1 PROVE SubSeq(x, k, Len(x)) \in B
<1>1. Len(x) \in Nat
  BY Bytes
<1>2. \A i \in k..Len(x) : x[i] \in Byte
  <2>1. \A i \in k..Len(x) : i \in 1..Len(x)
    BY <1>1
  <2> QED
    BY <2>1, ElementOfSeq DEF B
<1>3. k \in Int /\ Len(x) \in Int
  BY <1>1
<1> QED
  BY <1>2, <1>3, SubSeqProperties DEF B

\* The host keeps the types.
LEMMA TypeHost == TypeOK /\ HostStep => TypeOK'
<1> SUFFICES ASSUME TypeOK, HostStep PROVE TypeOK'
  OBVIOUS
<1>1. \A op : HostAck(op) \in B
  BY AckHeader, None DEF HostAck
<1>2. CASE HostReadByte
  <2> DEFINE s == Append(stream, Head(toHost))
  <2>1. /\ toHost # <<>> /\ toHost' = Tail(toHost)
        /\ UNCHANGED <<hpc, unsent>> /\ UNCHANGED <<dpc, hdr, packet, outbox, untold>>
        /\ \/ stream' = s /\ UNCHANGED <<msg, toDecoder>>
           \/ \E i \in Parsed(s) :
                /\ stream' = SubSeq(s, i + 4, Len(s))
                /\ msg' = [opcode |-> s[i + 1], len |-> Unpack(s[i + 2], s[i + 3]), body |-> <<>>]
                /\ toDecoder' = toDecoder \o HostAck(s[i + 1])
    BY <1>2 DEF HostReadByte, decoderVars
  <2>2. s \in B /\ Tail(toHost) \in B
    BY <2>1, Shift DEF TypeOK
  <2> HIDE DEF s
  <2>3. CASE stream' = s /\ UNCHANGED <<msg, toDecoder>>
    BY <2>1, <2>2, <2>3 DEF TypeOK
  <2>4. ASSUME NEW i \in Parsed(s),
               stream' = SubSeq(s, i + 4, Len(s)),
               msg' = [opcode |-> s[i + 1], len |-> Unpack(s[i + 2], s[i + 3]), body |-> <<>>],
               toDecoder' = toDecoder \o HostAck(s[i + 1])
        PROVE  TypeOK'
    <3>1. i \in Nat /\ i + 2 \in 1..Len(s) /\ i + 3 \in 1..Len(s) /\ s[i + 1] \in Opcode
      <4>1. Len(s) \in Nat /\ i \in 1..Len(s) /\ i + 3 <= Len(s) /\ s[i + 1] \in Opcode
        BY <2>2, Bytes DEF Parsed, HeaderAt
      <4> QED
        BY <4>1
    <3>2. stream' \in B
      <4>1. i + 4 \in Nat /\ i + 4 >= 1
        BY <3>1
      <4> QED
        BY <4>1, <2>2, <2>4, Ending
    <3>3. s[i + 2] \in Byte /\ s[i + 3] \in Byte
      BY <2>2, <3>1, ElementOfSeq DEF B
    <3>4. msg' \in [opcode : Opcode \cup {0}, len : 0..MaxLen, body : B]
      BY <2>4, <3>1, <3>3, Unpacked, None
    <3>5. toDecoder' \in B
      BY <2>4, <1>1, Bytes DEF TypeOK
    <3> QED
      BY <2>1, <2>2, <3>2, <3>4, <3>5 DEF TypeOK
  <2> QED
    BY <2>1, <2>3, <2>4
<1>3. CASE HostReadBlock
  <2> DEFINE n == BlockLeft
  <2>1. /\ Len(toHost) >= n /\ Len(msg.body) < msg.len
        /\ msg' = [msg EXCEPT !.body = @ \o SubSeq(toHost, 1, n)]
        /\ toHost' = SubSeq(toHost, n + 1, Len(toHost))
        /\ toDecoder' = toDecoder \o HostAck(msg.opcode)
        /\ UNCHANGED <<hpc, unsent, stream>> /\ UNCHANGED <<dpc, hdr, packet, outbox, untold>>
    BY <1>3 DEF HostReadBlock, decoderVars
  <2>2. msg.body \in B /\ msg.len \in Nat
    BY HostLinkAssumption DEF TypeOK
  <2>3. n \in Nat
    BY <2>1, <2>2, Bytes, HostLinkAssumption DEF BlockLeft
  <2> HIDE DEF n
  <2>4. n \in 0..Len(toHost)
    BY <2>1, <2>3, Bytes DEF TypeOK
  <2>5. SubSeq(toHost, 1, n) \in B /\ toHost' \in B
    BY <2>1, <2>4, Cut DEF TypeOK
  <2>6. msg.body \o SubSeq(toHost, 1, n) \in B /\ toDecoder' \in B
    BY <2>1, <2>2, <2>5, <1>1, Bytes DEF TypeOK
  <2>7. msg' \in [opcode : Opcode \cup {0}, len : 0..MaxLen, body : B]
    BY <2>1, <2>6 DEF TypeOK
  <2> QED
    BY <2>1, <2>5, <2>6, <2>7 DEF TypeOK
<1>4. CASE HostMessage
  <2>1. /\ msg' = NoMessage /\ UNCHANGED <<stream, toHost>> /\ UNCHANGED <<dpc, hdr, packet, outbox, untold>>
        /\ \/ UNCHANGED <<hpc, unsent, toDecoder>>
           \/ hpc' = "idle" /\ unsent' = <<>> /\ UNCHANGED toDecoder
           \/ hpc' = "response" /\ UNCHANGED <<unsent, toDecoder>>
           \/ toDecoder' = toDecoder \o BlockOf(unsent) /\ unsent' = AfterBlock(unsent) /\ UNCHANGED hpc
    BY <1>4 DEF HostMessage, SendNext, BadAck, Response, Return, decoderVars
  <2>2. BlockOf(unsent) \in B /\ AfterBlock(unsent) \in B
    BY Block DEF TypeOK
  <2>3. toDecoder \o BlockOf(unsent) \in B
    BY <2>2, Bytes DEF TypeOK
  <2>4. hpc' \in {"idle", "ack", "response"} /\ unsent' \in B /\ toDecoder' \in B
    BY <2>1, <2>2, <2>3, None DEF TypeOK
  <2> QED
    BY <2>1, <2>4, EmptyMessages DEF TypeOK
<1> QED
  BY <1>2, <1>3, <1>4 DEF HostStep

\* A command that is executed leaves messages to write.
LEMMA Executed ==
  ASSUME NEW p, Execute(p)
  PROVE  /\ dpc' = "write" /\ packet' = NoMessage
         /\ outbox' \in Seq(Sendable) /\ outbox' # <<>>
<1>1. PICK a \in AnswersTo(p) : outbox' = Remarks(p, a) \o <<a, Debug>> /\ dpc' = "write" /\ packet' = NoMessage
  BY DEF Execute
<1>2. a \in Sendable /\ Debug \in Sendable
  BY Answers
<1>3. Remarks(p, a) \in Seq(Sendable)
  BY <1>2 DEF Remarks
<1>4. <<a, Debug>> \in Seq(Sendable) /\ <<a, Debug>> # <<>>
  BY <1>2
<1> HIDE DEF Debug
<1> DEFINE y == <<a, Debug>>
<1>5. y \in Seq(Sendable) /\ y # <<>>
  BY <1>4
<1> HIDE DEF y
<1>6. Remarks(p, a) \o y \in Seq(Sendable) /\ Remarks(p, a) \o y # <<>>
  BY <1>3, <1>5, ConcatProperties, ConcatEqualIffEmpty
<1> QED
  BY <1>1, <1>6 DEF y

\* The decoder keeps the types.
LEMMA TypeDecoder == TypeOK /\ DecoderStep => TypeOK'
<1> SUFFICES ASSUME TypeOK, DecoderStep PROVE TypeOK'
  OBVIOUS
<1>1. Ack \in B /\ toHost \o Ack \in B
  BY AckHeader, Bytes DEF TypeOK
<1>2. CASE ReadHeaderByte
  <2>1. /\ toDecoder # <<>> /\ hdr' = HeaderWith(hdr, Head(toDecoder)) /\ toDecoder' = Tail(toDecoder)
        /\ UNCHANGED <<hpc, unsent, stream, msg>> /\ UNCHANGED <<toHost, dpc, packet, outbox, untold>>
    BY <1>2 DEF ReadHeaderByte, hostVars
  <2>2. Append(hdr, Head(toDecoder)) \in B /\ Tail(toDecoder) \in B
    BY <2>1, Shift DEF TypeOK
  <2>3. hdr' \in B
    BY <2>1, <2>2, None DEF HeaderWith
  <2> QED
    BY <2>1, <2>2, <2>3 DEF TypeOK
<1>3. CASE ReadPacket
  <2> DEFINE op == hdr[2]
             len == Unpack(hdr[3], hdr[4])
  <2>1. /\ Len(hdr) = 4 /\ hdr' = <<>>
        /\ toHost' = toHost \/ toHost' = toHost \o Ack
        /\ \/ Execute([opcode |-> op, body |-> <<>>])
           \/ dpc' = "body" /\ packet' = [opcode |-> op, len |-> len, body |-> <<>>] /\ UNCHANGED outbox
        /\ UNCHANGED <<hpc, unsent, stream, msg>> /\ UNCHANGED <<toDecoder, untold>>
    BY <1>3 DEF ReadPacket, hostVars
  <2>2. op \in Byte /\ len \in 0..MaxLen
    <3>1. {2, 3, 4} \subseteq 1..Len(hdr)
      BY <2>1
    <3>2. hdr[2] \in Byte /\ hdr[3] \in Byte /\ hdr[4] \in Byte
      BY <3>1, ElementOfSeq DEF TypeOK, B
    <3> QED
      BY <3>2, Unpacked
  <2> HIDE DEF op, len
  <2>3. CASE Execute([opcode |-> op, body |-> <<>>])
    <3>1. dpc' = "write" /\ packet' = NoMessage /\ outbox' \in Seq(Sendable) /\ outbox' # <<>>
      BY <2>3, Executed
    <3> QED
      BY <2>1, <3>1, <1>1, None, EmptyMessages DEF TypeOK
  <2>4. CASE dpc' = "body" /\ packet' = [opcode |-> op, len |-> len, body |-> <<>>] /\ UNCHANGED outbox
    <3>1. packet' \in [opcode : Byte, len : 0..MaxLen, body : B]
      BY <2>2, <2>4, None
    <3> QED
      BY <2>1, <2>4, <3>1, <1>1, None DEF TypeOK
  <2> QED
    BY <2>1, <2>3, <2>4
<1>4. CASE ReadBodyByte
  <2> DEFINE body == Append(packet.body, Head(toDecoder))
  <2>1. /\ toDecoder # <<>> /\ toDecoder' = Tail(toDecoder)
        /\ toHost' = toHost \/ toHost' = toHost \o Ack
        /\ \/ Execute([opcode |-> packet.opcode, body |-> body])
           \/ packet' = [packet EXCEPT !.body = body] /\ UNCHANGED <<dpc, outbox>>
        /\ UNCHANGED <<hpc, unsent, stream, msg>> /\ UNCHANGED <<hdr, untold>>
    BY <1>4 DEF ReadBodyByte, hostVars
  <2>2. body \in B /\ Tail(toDecoder) \in B
    BY <2>1, Shift DEF TypeOK
  <2> HIDE DEF body
  <2>3. CASE Execute([opcode |-> packet.opcode, body |-> body])
    <3>1. dpc' = "write" /\ packet' = NoMessage /\ outbox' \in Seq(Sendable) /\ outbox' # <<>>
      BY <2>3, Executed
    <3> QED
      BY <2>1, <2>2, <3>1, <1>1, EmptyMessages DEF TypeOK
  <2>4. CASE packet' = [packet EXCEPT !.body = body] /\ UNCHANGED <<dpc, outbox>>
    <3>1. packet' \in [opcode : Byte, len : 0..MaxLen, body : B]
      BY <2>2, <2>4 DEF TypeOK
    <3> QED
      BY <2>1, <2>2, <2>4, <3>1, <1>1 DEF TypeOK
  <2> QED
    BY <2>1, <2>3, <2>4
<1>5. ASSUME Written, outbox # <<>>
      PROVE  /\ dpc' \in {"packet", "write"} /\ outbox' \in Seq(Sendable)
             /\ dpc' \in {"write", "ack"} => outbox' # <<>>
  <2>1. Tail(outbox) \in Seq(Sendable)
    BY <1>5, HeadTailProperties DEF TypeOK
  <2> QED
    BY <2>1, <1>5 DEF Written
<1>6. CASE WritePacket
  <2> DEFINE m == Head(outbox)
  <2>1. /\ dpc = "write"
        /\ UNCHANGED <<hpc, unsent, stream, msg>> /\ UNCHANGED <<toDecoder, hdr, packet>>
        /\ \/ toHost' = toHost \o Hdr(m) \o m.body /\ Written /\ UNCHANGED untold
           \/ toHost' = toHost \o Hdr(m) /\ untold' = m.body /\ dpc' = "ack" /\ UNCHANGED outbox
    BY <1>6 DEF WritePacket, Hdr, hostVars
  <2>2. outbox # <<>> /\ m \in Sendable
    BY <2>1, HeadTailProperties DEF TypeOK
  <2> HIDE DEF m
  <2>3. Hdr(m) \in B /\ m.body \in B
    BY <2>2, SentHeader
  <2>4. toHost \o Hdr(m) \in B /\ toHost \o Hdr(m) \o m.body \in B
    BY <2>3, Bytes DEF TypeOK
  <2>5. CASE toHost' = toHost \o Hdr(m) \o m.body /\ Written /\ UNCHANGED untold
    BY <2>1, <2>2, <2>4, <2>5, <1>5 DEF TypeOK
  <2>6. CASE toHost' = toHost \o Hdr(m) /\ untold' = m.body /\ dpc' = "ack" /\ UNCHANGED outbox
    BY <2>1, <2>2, <2>3, <2>4, <2>6 DEF TypeOK
  <2> QED
    BY <2>1, <2>5, <2>6
<1>7. CASE ReadAck
  <2>1. /\ dpc = "ack" /\ hdr' = <<>>
        /\ UNCHANGED <<hpc, unsent, stream, msg>> /\ UNCHANGED <<toDecoder, packet>>
        /\ \/ Written /\ UNCHANGED <<toHost, untold>>
           \/ /\ toHost' = toHost \o BlockOf(untold) /\ untold' = AfterBlock(untold)
              /\ UNCHANGED <<dpc, outbox>>
    BY <1>7 DEF ReadAck, hostVars
  <2>2. outbox # <<>>
    BY <2>1 DEF TypeOK
  <2>3. BlockOf(untold) \in B /\ AfterBlock(untold) \in B
    BY Block DEF TypeOK
  <2>4. toHost \o BlockOf(untold) \in B
    BY <2>3, Bytes DEF TypeOK
  <2>5. CASE Written /\ UNCHANGED <<toHost, untold>>
    BY <2>1, <2>2, <2>5, <1>5, None DEF TypeOK
  <2>6. CASE /\ toHost' = toHost \o BlockOf(untold) /\ untold' = AfterBlock(untold)
             /\ UNCHANGED <<dpc, outbox>>
    BY <2>1, <2>2, <2>3, <2>4, <2>6, None DEF TypeOK
  <2> QED
    BY <2>1, <2>5, <2>6
<1> QED
  BY <1>2, <1>3, <1>4, <1>6, <1>7 DEF DecoderStep

\* A new call keeps the types.
LEMMA TypeCall == ASSUME TypeOK, NEW r \in Requests, Call(r) \/ FirstCall(r) PROVE TypeOK'
<1>1. /\ toDecoder' = toDecoder \o Hdr(r) /\ hpc' = "ack" /\ unsent' = r.body
      /\ UNCHANGED msg /\ UNCHANGED <<dpc, hdr, packet, outbox, untold>>
      /\ \/ UNCHANGED <<stream, toHost>>
         \/ stream' = <<>> /\ \E k \in 1..(Len(toHost) + 1) : toHost' = SubSeq(toHost, k, Len(toHost))
  BY DEF Call, FirstCall, Send, decoderVars, Hdr
<1>2. Hdr(r) \in B /\ r.body \in B
  BY Answers, SentHeader
<1>3. toDecoder' \in B
  BY <1>1, <1>2, Bytes DEF TypeOK
<1>4. stream' \in B /\ toHost' \in B
  <2>1. CASE UNCHANGED <<stream, toHost>>
    BY <2>1 DEF TypeOK
  <2>2. ASSUME NEW k \in 1..(Len(toHost) + 1), toHost' = SubSeq(toHost, k, Len(toHost)), stream' = <<>>
        PROVE  stream' \in B /\ toHost' \in B
    <3>1. k \in Nat /\ k >= 1
      BY Bytes DEF TypeOK
    <3> QED
      BY <3>1, <2>2, Ending, None DEF TypeOK
  <2> QED
    BY <1>1, <2>1, <2>2
<1> QED
  BY <1>1, <1>2, <1>3, <1>4 DEF TypeOK

\* Every step keeps the types.
LEMMA TypeStep == TypeOK /\ [LinkNext]_vars => TypeOK'
<1> SUFFICES ASSUME TypeOK, [LinkNext]_vars PROVE TypeOK'
  OBVIOUS
<1>1. CASE UNCHANGED vars
  BY <1>1 DEF vars, hostVars, decoderVars, TypeOK
<1> QED
  BY <1>1, TypeHost, TypeDecoder, TypeCall DEF LinkNext

-----------------------------------------------------------------------------
(* What the host hears. *)

\* The host, with message m and bytes s read and bytes t to come, is going to
\* read q, because what is before q is no header or the rest of a DEBUG message.
Hears(m, s, t, q) ==
  \/ m = NoMessage /\ NoMagic(s) /\ \E j \in B : NoMagic(j) /\ t = j \o q
  \/ m = NoMessage /\ \E j, p \in B : NoMagic(j) /\ p # <<>> /\ Len(p) < 4 /\ s = j \o p /\ p \o t = q
  \/ s = <<>> /\ \E b, r \in B : /\ m = [opcode |-> DEBUG, len |-> Len(DebugText), body |-> b]
                                 /\ b \o r = DebugText /\ t = r \o q

\* More bytes are written to the host.
LEMMA HearsMore ==
  ASSUME NEW m, NEW s \in B, NEW t \in B, NEW q \in B, NEW x \in B, Hears(m, s, t, q)
  PROVE  Hears(m, s, t \o x, q \o x)
<1>1. CASE m = NoMessage /\ NoMagic(s) /\ \E j \in B : NoMagic(j) /\ t = j \o q
  <2>1. PICK j \in B : NoMagic(j) /\ t = j \o q
    BY <1>1
  <2>2. t \o x = j \o (q \o x)
    <3>1. (j \o q) \o x = j \o (q \o x)
      BY Assoc
    <3> QED
      BY <2>1, <3>1
  <2> QED
    BY <1>1, <2>1, <2>2 DEF Hears
<1>2. CASE /\ m = NoMessage
           /\ \E j, p \in B : NoMagic(j) /\ p # <<>> /\ Len(p) < 4 /\ s = j \o p /\ p \o t = q
  <2>1. PICK j \in B, p \in B : NoMagic(j) /\ p # <<>> /\ Len(p) < 4 /\ s = j \o p /\ p \o t = q
    BY <1>2
  <2>2. p \o (t \o x) = q \o x
    <3>1. (p \o t) \o x = p \o (t \o x)
      BY Assoc
    <3> QED
      BY <2>1, <3>1
  <2> QED
    BY <1>2, <2>1, <2>2 DEF Hears
<1>3. CASE s = <<>> /\ \E b, r \in B : /\ m = [opcode |-> DEBUG, len |-> Len(DebugText), body |-> b]
                                       /\ b \o r = DebugText /\ t = r \o q
  <2>1. PICK b \in B, r \in B : /\ m = [opcode |-> DEBUG, len |-> Len(DebugText), body |-> b]
                                /\ b \o r = DebugText /\ t = r \o q
    BY <1>3
  <2>2. t \o x = r \o (q \o x)
    <3>1. (r \o q) \o x = r \o (q \o x)
      BY Assoc
    <3> QED
      BY <2>1, <3>1
  <2> QED
    BY <1>3, <2>1, <2>2 DEF Hears
<1> QED
  BY <1>1, <1>2, <1>3 DEF Hears

\* The first byte of two pieces is that of the first one.
LEMMA FirstByte ==
  ASSUME NEW x \in B, NEW y \in B, x # <<>>
  PROVE  Head(x \o y) = Head(x) /\ Tail(x \o y) = Tail(x) \o y /\ x \o y # <<>>
<1> DEFINE z == x \o y
<1>1. z \in B /\ z # <<>>
  <2>1. Len(z) = Len(x) + Len(y) /\ z \in B /\ Len(x) \in Nat /\ Len(y) \in Nat
    BY Bytes
  <2>2. Len(x) # 0
    BY Bytes
  <2>3. Len(z) # 0
    <3> HIDE DEF z
    <3> QED
      BY <2>1, <2>2
  <2> QED
    BY <2>1, <2>3, Bytes
<1> HIDE DEF z
<1> DEFINE a == Append(<<>>, Head(z))
           c == Append(<<>>, Head(x))
<1>2. a \in B /\ a \o Tail(z) = <<>> \o z /\ Len(a) = Len(<<>>) + 1 /\ Tail(z) \in B
  BY <1>1, None, Shift
<1>3. c \in B /\ c \o Tail(x) = <<>> \o x /\ Len(c) = Len(<<>>) + 1 /\ Tail(x) \in B
  BY None, Shift
<1>4. Len(a) = Len(c)
  BY <1>2, <1>3
<1>5. Head(a) = Head(z) /\ Head(c) = Head(x)
  BY HeadTailAppend, EmptySeq
<1> HIDE DEF a, c
<1>6. a \o Tail(z) = c \o (Tail(x) \o y)
  <2>1. a \o Tail(z) = z /\ c \o Tail(x) = x
    BY <1>1, <1>2, <1>3, None
  <2>2. (c \o Tail(x)) \o y = c \o (Tail(x) \o y)
    BY <1>3, Assoc
  <2> QED
    BY <2>1, <2>2 DEF z
<1>7. Tail(x) \o y \in B
  BY <1>3, Bytes
<1>8. a = c /\ Tail(z) = Tail(x) \o y
  <2> DEFINE v == Tail(z)
             w == Tail(x) \o y
  <2>1. a \in B /\ c \in B /\ v \in B /\ w \in B /\ a \o v = c \o w /\ Len(a) = Len(c)
    BY <1>2, <1>3, <1>4, <1>6, <1>7
  <2> HIDE DEF v, w, a, c
  <2>2. a = c /\ v = w
    BY <2>1, SameCut
  <2> QED
    BY <2>2 DEF v, w
<1> QED
  BY <1>1, <1>5, <1>8 DEF z

\* A byte is appended to the second piece.
LEMMA AppendSecond ==
  ASSUME NEW x \in B, NEW y \in B, NEW e \in Byte
  PROVE  Append(x \o y, e) = x \o Append(y, e)
<1> DEFINE z == x \o y
           f == <<e>>
<1>1. z \in B /\ f \in B
  BY Bytes DEF B
<1>2. Append(z, e) = z \o f /\ Append(y, e) = y \o f
  BY <1>1, AppendIsConcat DEF B
<1> HIDE DEF f
<1>3. z \o f = x \o (y \o f)
  BY <1>1, Assoc
<1> QED
  BY <1>2, <1>3

\* The host has read s, is going to read t, and q begins with a header, if it is not empty.
Offered(s, t, q, op, n, rest) ==
  /\ s \in B /\ t \in B /\ t # <<>> /\ q \in B /\ Hears(NoMessage, s, t, q)
  /\ op \in Opcode /\ n \in 0..MaxLen /\ rest \in B
  /\ q = <<>> \/ q = Pack(op, n) \o rest

\* With one more byte it has no header yet, or the one that q begins with.
Heard(s, t, q, op, n, rest) ==
  LET u == Append(s, Head(t)) IN
  \/ Parsed(u) = {} /\ Hears(NoMessage, u, Tail(t), q)
  \/ /\ q # <<>> /\ Tail(t) = rest
     /\ \E i \in Nat : /\ Parsed(u) = {i}
              /\ u[i + 1] = op /\ Unpack(u[i + 2], u[i + 3]) = n
              /\ SubSeq(u, i + 4, Len(u)) = <<>>

\* The host reads a byte: it goes on, or it has the header that q begins with.
LEMMA HeardByte ==
  ASSUME NEW s, NEW t, NEW q, NEW op, NEW n, NEW rest, Offered(s, t, q, op, n, rest)
  PROVE  Heard(s, t, q, op, n, rest)
<1> SUFFICES ASSUME s \in B, t \in B, t # <<>>, q \in B, Hears(NoMessage, s, t, q),
                    op \in Opcode, n \in 0..MaxLen, rest \in B, q = <<>> \/ q = Pack(op, n) \o rest
             PROVE  LET u == Append(s, Head(t)) IN
                    \/ Parsed(u) = {} /\ Hears(NoMessage, u, Tail(t), q)
                    \/ /\ q # <<>> /\ Tail(t) = rest
                       /\ \E i \in Nat : /\ Parsed(u) = {i}
                                /\ u[i + 1] = op /\ Unpack(u[i + 2], u[i + 3]) = n
                                /\ SubSeq(u, i + 4, Len(u)) = <<>>
  BY DEF Offered, Heard
<1> DEFINE h == Pack(op, n)
           b == Head(t)
           u == Append(s, b)
<1>1. h \in B /\ Len(h) = 4 /\ h[1] = MSG_MAGIC
  BY Header
<1>8. h # <<>>
  <2>1. Len(h) # 0
    BY <1>1
  <2> QED
    BY <1>1, <2>1, Bytes
<1>2. b \in Byte /\ u \in B /\ Tail(t) \in B
  BY Shift
<1>3. q # <<>> => q = h \o rest
  OBVIOUS
<1> HIDE DEF h
<1>4. \A l, x : NoMessage # [opcode |-> DEBUG, len |-> l, body |-> x]
  BY DEF NoMessage, DEBUG
<1>5. CASE NoMagic(s) /\ \E j \in B : NoMagic(j) /\ t = j \o q
  <2>1. PICK j \in B : NoMagic(j) /\ t = j \o q
    BY <1>5
  <2>2. CASE j # <<>>
    <3>1. b = Head(j) /\ Tail(t) = Tail(j) \o q
      BY <2>1, <2>2, FirstByte
    <3>2. NoMagic(u) /\ NoMagic(Tail(j)) /\ Tail(j) \in B
      BY <3>1, <2>1, <2>2, <1>5, NoMagicShift, Shift
    <3>3. Parsed(u) = {}
      BY <3>2, <1>2, NoHeader
    <3> HIDE DEF u, b
    <3> QED
      BY <3>1, <3>2, <3>3 DEF Hears, u, b
  <2>3. CASE j = <<>>
    <3> DEFINE p == Append(<<>>, b)
    <3>1. t = q /\ t = h \o rest
      BY <2>1, <2>3, <1>3, None
    <3>2. p \in B /\ p \o Tail(t) = t /\ Len(p) = 1
      <4>1. p \in B /\ p \o Tail(t) = <<>> \o t /\ Len(p) = Len(<<>>) + 1
        BY None, Shift
      <4>2. Len(<<>>) = 0
        OBVIOUS
      <4> HIDE DEF p
      <4> QED
        BY <4>1, <4>2, None
    <3>3. p[1] = b
      OBVIOUS
    <3>4. b = MSG_MAGIC
      <4>1. Head(h \o rest) = Head(h) /\ Head(h) = h[1]
        BY <1>1, <1>8, FirstByte
      <4> QED
        BY <4>1, <3>1, <1>1
    <3>5. u = s \o p
      <4>1. Append(s \o <<>>, b) = s \o Append(<<>>, b)
        BY <1>2, None, AppendSecond
      <4> QED
        BY <4>1, None
    <3> HIDE DEF p, b, u
    <3>6. p # <<>> /\ Len(p) > 0 /\ Len(p) < 4
      <4>1. p # <<>>
        BY <3>2, Bytes
      <4> QED
        BY <4>1, <3>2
    <3>7. Parsed(u) = {}
      BY <3>2, <3>3, <3>4, <3>5, <3>6, <1>5, HalfHeader
    <3>8. Hears(NoMessage, u, Tail(t), q)
      BY <3>1, <3>2, <3>5, <3>6, <1>5 DEF Hears
    <3> QED
      BY <3>7, <3>8 DEF u, b
  <2> QED
    BY <2>2, <2>3
<1>6. CASE \E j, p \in B : NoMagic(j) /\ p # <<>> /\ Len(p) < 4 /\ s = j \o p /\ p \o t = q
  <2>1. PICK j \in B, p \in B : NoMagic(j) /\ p # <<>> /\ Len(p) < 4 /\ s = j \o p /\ p \o t = q
    BY <1>6
  <2> DEFINE c == Append(p, b)
  <2>2. c \in B /\ Len(c) = Len(p) + 1 /\ c \o Tail(t) = q
    BY <2>1, Shift
  <2>3. u = j \o c
    BY <2>1, <1>2, AppendSecond
  <2> HIDE DEF c, u, b
  <2>4. Len(p) \in Nat /\ Len(c) \in Nat /\ Len(c) <= 4 /\ Len(c) > 0
    <3>1. Len(p) \in Nat
      BY Bytes
    <3> QED
      BY <3>1, <2>1, <2>2
  <2>5. q = h \o rest /\ q # <<>>
    <3>1. q # <<>>
      BY <2>1, FirstByte
    <3> QED
      BY <3>1, <1>3
  <2> DEFINE y == Tail(t)
  <2>11. Reaches(c, y, h, rest)
    <3>1. Len(c) <= Len(h)
      BY <2>4, <1>1
    <3>2. c \o y = h \o rest
      BY <2>2, <2>5
    <3> QED
      BY <3>1, <3>2, <2>2, <1>1, <1>2 DEF Reaches
  <2>12. Splits(c, y, h, rest)
    BY <2>11, Overlap
  <2>6. PICK z \in B : h = c \o z /\ y = z \o rest
    BY <2>12 DEF Splits
  <2>7. c[1] = MSG_MAGIC
    <3>1. c # <<>>
      BY <2>2, <2>4, Bytes
    <3>2. Head(h) = Head(c)
      BY <2>2, <2>6, <3>1, FirstByte
    <3>3. Head(h) = h[1] /\ Head(c) = c[1]
      BY <1>1, <1>8, <2>2, <3>1, Shift
    <3> QED
      BY <3>2, <3>3, <1>1
  <2>8. CASE Len(c) < 4
    <3>1. Parsed(u) = {}
      BY <2>1, <2>2, <2>3, <2>4, <2>7, <2>8, HalfHeader
    <3>2. c # <<>>
      BY <2>2, <2>4, Bytes
    <3>3. Hears(NoMessage, u, Tail(t), q)
      BY <2>1, <2>2, <2>3, <2>8, <3>2 DEF Hears
    <3> QED
      BY <3>1, <3>3 DEF u, b
  <2>9. CASE Len(c) = 4
    <3>1. c = h /\ Tail(t) = rest
      <4>1. c \o Tail(t) = h \o rest /\ Len(c) = Len(h)
        BY <2>2, <2>5, <2>9, <1>1
      <4> QED
        BY <4>1, <2>2, <1>1, <1>2, SameCut
    <3> DEFINE i == Len(j) + 1
    <3>2. /\ Parsed(u) = {i} /\ u[i + 1] = op /\ Unpack(u[i + 2], u[i + 3]) = n
          /\ SubSeq(u, i + 4, Len(u)) = <<>>
      <4>1. Read(j \o h, i, op, n)
        BY <2>1, WholeHeader DEF h
      <4>2. u = j \o h
        BY <2>3, <3>1
      <4> QED
        BY <4>1, <4>2 DEF Read
    <3>3. i \in Nat
      <4>1. Len(j) \in Nat
        BY Bytes
      <4> QED
        BY <4>1
    <3> HIDE DEF i
    <3> QED
      BY <2>5, <3>1, <3>2, <3>3 DEF u, b
  <2>10. Len(c) < 4 \/ Len(c) = 4
    BY <2>2, <2>4
  <2> QED
    BY <2>8, <2>9, <2>10
<1>7. (NoMagic(s) /\ \E j \in B : NoMagic(j) /\ t = j \o q)
      \/ \E j, p \in B : NoMagic(j) /\ p # <<>> /\ Len(p) < 4 /\ s = j \o p /\ p \o t = q
  BY <1>4 DEF Hears
<1> QED
  BY <1>5, <1>6, <1>7

\* The host is going to read w, after messages that it skips.
Listening(w) == \E c \in Chatter : Hears(msg, stream, toHost, c \o w)

\* The host has got an ACK, and the bytes t follow it.
AckMessage == [opcode |-> ACK, len |-> 0, body |-> <<>>]
AckHeld(t) == msg = AckMessage /\ stream = <<>> /\ toHost = t

\* Bytes that are written behind w are read behind w.
LEMMA ListenMore ==
  ASSUME TypeOK, NEW w \in B, Listening(w), NEW x \in B,
         toHost' = toHost \o x, UNCHANGED <<msg, stream>>
  PROVE  Listening(w \o x)'
<1>1. PICK c \in Chatter : Hears(msg, stream, toHost, c \o w)
  BY DEF Listening
<1>2. c \in B /\ c \o w \in B
  BY ChatterBegins, Bytes
<1>3. Hears(msg, stream, toHost \o x, (c \o w) \o x)
  BY <1>1, <1>2, HearsMore DEF TypeOK
<1>4. (c \o w) \o x = c \o (w \o x)
  BY <1>2, Assoc
<1>5. msg' = msg /\ stream' = stream
  OBVIOUS
<1> QED
  BY <1>3, <1>4, <1>5 DEF Listening

\* One more DEBUG message changes nothing for a host that expects nothing else.
LEMMA ListenChatter ==
  ASSUME TypeOK, Listening(<<>>), toHost' = toHost \o Dbg, UNCHANGED <<msg, stream>>
  PROVE  Listening(<<>>)'
<1>1. PICK c \in Chatter : Hears(msg, stream, toHost, c \o <<>>)
  BY DEF Listening
<1>2. c \in B /\ c \o <<>> = c /\ Dbg \in B
  BY ChatterBegins, None, DbgBytes
<1>3. Hears(msg, stream, toHost \o Dbg, c \o Dbg)
  BY <1>1, <1>2, HearsMore DEF TypeOK
<1>4. c \o Dbg \in Chatter
  BY ChatterMore
<1>5. c \o Dbg = (c \o Dbg) \o <<>>
  BY <1>4, ChatterBegins, None
<1>6. msg' = msg /\ stream' = stream
  OBVIOUS
<1> QED
  BY <1>3, <1>4, <1>5, <1>6 DEF Listening

\* The messages of the protocol are not the absence of one.
LEMMA NotTold == /\ \A l, x : NoMessage # [opcode |-> DEBUG, len |-> l, body |-> x]
                 /\ AckMessage # NoMessage
                 /\ \A m : m.opcode # 0 => m # NoMessage
  BY DEF NoMessage, DEBUG, AckMessage, ACK

\* The host is quiet: nothing but the host's input changes.
Quietly == UNCHANGED <<hpc, request, unsent, outcome, decoderVars, served>>

\* The step that reads a byte: the host goes on, or has the header that q begins with.
LEMMA HostByte ==
  ASSUME TypeOK, HostReadByte, NEW q \in B, Hears(NoMessage, stream, toHost, q),
         NEW op \in Opcode, NEW n \in 0..MaxLen, NEW rest \in B, q = <<>> \/ q = Pack(op, n) \o rest
  PROVE  /\ Quietly
         /\ \/ UNCHANGED <<msg, toDecoder>> /\ Hears(msg', stream', toHost', q)
            \/ /\ q # <<>> /\ toHost' = rest /\ stream' = <<>>
               /\ msg' = [opcode |-> op, len |-> n, body |-> <<>>]
               /\ toDecoder' = toDecoder \o HostAck(op)
<1> DEFINE u == Append(stream, Head(toHost))
<1>1. /\ toHost # <<>> /\ toHost' = Tail(toHost) /\ msg = NoMessage
      /\ UNCHANGED <<hpc, request, unsent, outcome, decoderVars, served>>
      /\ \/ Parsed(u) = {} /\ stream' = u /\ UNCHANGED <<msg, toDecoder>>
         \/ Parsed(u) # {} /\
            \E i \in Parsed(u) :
              /\ stream' = SubSeq(u, i + 4, Len(u))
              /\ msg' = [opcode |-> u[i + 1], len |-> Unpack(u[i + 2], u[i + 3]), body |-> <<>>]
              /\ toDecoder' = toDecoder \o HostAck(u[i + 1])
  BY DEF HostReadByte
<1>2. \/ Parsed(u) = {} /\ Hears(NoMessage, u, Tail(toHost), q)
      \/ /\ q # <<>> /\ Tail(toHost) = rest
         /\ \E i \in Nat : /\ Parsed(u) = {i}
                  /\ u[i + 1] = op /\ Unpack(u[i + 2], u[i + 3]) = n
                  /\ SubSeq(u, i + 4, Len(u)) = <<>>
  <2>1. Offered(stream, toHost, q, op, n, rest)
    BY <1>1 DEF Offered, TypeOK
  <2>2. Heard(stream, toHost, q, op, n, rest)
    BY <2>1, HeardByte
  <2> QED
    BY <2>2 DEF Heard
<1> HIDE DEF u
<1>3. Quietly
  BY <1>1 DEF Quietly
<1>4. CASE Parsed(u) = {} /\ Hears(NoMessage, u, Tail(toHost), q)
  <2>1. stream' = u /\ msg' = msg /\ toDecoder' = toDecoder
    BY <1>1, <1>4
  <2> QED
    BY <2>1, <1>1, <1>3, <1>4
<1>5. ASSUME q # <<>>, Tail(toHost) = rest, NEW i \in Nat, Parsed(u) = {i},
             u[i + 1] = op, Unpack(u[i + 2], u[i + 3]) = n, SubSeq(u, i + 4, Len(u)) = <<>>
      PROVE  /\ q # <<>> /\ toHost' = rest /\ stream' = <<>>
             /\ msg' = [opcode |-> op, len |-> n, body |-> <<>>]
             /\ toDecoder' = toDecoder \o HostAck(op)
  <2>1. Parsed(u) # {} /\ \A k \in Parsed(u) : k = i
    BY <1>5
  <2>2. /\ stream' = SubSeq(u, i + 4, Len(u))
        /\ msg' = [opcode |-> u[i + 1], len |-> Unpack(u[i + 2], u[i + 3]), body |-> <<>>]
        /\ toDecoder' = toDecoder \o HostAck(u[i + 1])
    BY <1>1, <2>1
  <2> QED
    BY <1>1, <1>5, <2>2
<1> QED
  BY <1>2, <1>3, <1>4, <1>5

\* A debug message that is being read: its next block, or its end.
LEMMA HostDebug ==
  ASSUME TypeOK, HostStep, NEW q \in B, stream = <<>>,
         NEW b \in B, NEW r \in B, msg = [opcode |-> DEBUG, len |-> Len(DebugText), body |-> b],
         b \o r = DebugText, toHost = r \o q
  PROVE  Quietly /\ UNCHANGED toDecoder /\ Hears(msg', stream', toHost', q)
<1>1. msg # NoMessage /\ msg.opcode = DEBUG /\ msg.len = Len(DebugText) /\ msg.body = b
  BY NotTold
<1>2. Len(b) \in Nat /\ Len(r) \in Nat /\ Len(DebugText) = Len(b) + Len(r) /\ DebugText \in B
  BY DbgBytes, Bytes
<1>3. ~HostReadByte
  BY <1>1 DEF HostReadByte
<1>4. CASE HostReadBlock
  <2> DEFINE n == BlockLeft
             x == SubSeq(r, 1, n)
             y == SubSeq(r, n + 1, Len(r))
  <2>1. n \in 0..Len(r)
    BY <1>1, <1>2, HostLinkAssumption DEF BlockLeft
  <2>2. /\ msg' = [msg EXCEPT !.body = @ \o SubSeq(toHost, 1, n)]
        /\ toHost' = SubSeq(toHost, n + 1, Len(toHost))
        /\ toDecoder' = toDecoder \o HostAck(msg.opcode)
        /\ stream' = stream
        /\ Quietly
    BY <1>4 DEF HostReadBlock, Quietly
  <2>3. x \in B /\ y \in B /\ x \o y = r
    BY <2>1, Cut
  <2>4. SubSeq(toHost, 1, n) = x /\ toHost' = y \o q
    BY <2>1, <2>2, CutFirst
  <2> HIDE DEF n, x, y
  <2>5. msg' = [opcode |-> DEBUG, len |-> Len(DebugText), body |-> b \o x]
    BY <2>2, <2>4
  <2>6. b \o x \in B /\ (b \o x) \o y = DebugText
    <3>1. (b \o x) \o y = b \o (x \o y)
      <4>1. b \in B /\ x \in B /\ y \in B
        BY <2>3
      <4> QED
        BY <4>1, Assoc
    <3>2. b \o x \in B
      BY <2>3, Bytes
    <3>3. b \o r = DebugText
      OBVIOUS
    <3> QED
      BY <3>1, <3>2, <3>3, <2>3
  <2>7. toDecoder' = toDecoder
    BY <2>2, <1>1, None DEF HostAck, NACK_MSGS, TypeOK
  <2>8. Hears(msg', stream', toHost', q)
    BY <2>2, <2>3, <2>4, <2>5, <2>6 DEF Hears
  <2> QED
    BY <2>2, <2>7, <2>8
<1>5. CASE HostMessage
  <2>1. /\ msg' = NoMessage /\ Len(b) = Len(DebugText)
        /\ UNCHANGED <<hpc, unsent, outcome, toDecoder>>
        /\ UNCHANGED <<request, stream, toHost, decoderVars, served, faults>>
    <3>1. msg' = NoMessage /\ Len(msg.body) = msg.len
      BY <1>5 DEF HostMessage
    <3>2. UNCHANGED <<request, stream, toHost, decoderVars, served, faults>>
      BY <1>5 DEF HostMessage
    <3>3. UNCHANGED <<hpc, unsent, outcome, toDecoder>>
      <4>1. msg.opcode = DEBUG
        BY <1>1
      <4> QED
        BY <4>1, <1>5 DEF HostMessage, SendNext, BadAck, Response, Return, DEBUG, ERROR
    <3> QED
      BY <1>1, <3>1, <3>2, <3>3
  <2>2. Quietly
    BY <2>1 DEF Quietly
  <2>3. r = <<>>
    <3>1. Len(r) = 0
      BY <2>1, <1>2
    <3> QED
      BY <3>1, Bytes
  <2>4. toHost' = <<>> \o q /\ <<>> \in B /\ NoMagic(<<>>) /\ stream' = <<>>
    BY <2>1, <2>3, None, NoMagicNone
  <2>5. Hears(msg', stream', toHost', q)
    BY <2>1, <2>4 DEF Hears
  <2> QED
    BY <2>1, <2>2, <2>5
<1> QED
  BY <1>3, <1>4, <1>5 DEF HostStep

\* What a host step does while the host listens for w.
LEMMA HostHears ==
  ASSUME TypeOK, HostStep, NEW w \in B, Listening(w),
         NEW op \in Opcode, NEW n \in 0..MaxLen, NEW rest \in B, w = <<>> \/ w = Pack(op, n) \o rest
  PROVE  /\ Quietly
         /\ \/ UNCHANGED toDecoder /\ Listening(w)'
            \/ /\ w # <<>> /\ toHost' = rest /\ stream' = <<>>
               /\ msg' = [opcode |-> op, len |-> n, body |-> <<>>]
               /\ toDecoder' = toDecoder \o HostAck(op)
<1>1. PICK c \in Chatter : Hears(msg, stream, toHost, c \o w)
  BY DEF Listening
<1>2. c \in B /\ c \o w \in B
  BY ChatterBegins, Bytes
<1>3. CASE msg = NoMessage
  <2>1. ~HostReadBlock /\ ~HostMessage
    BY <1>3 DEF HostReadBlock, HostMessage
  <2>2. HostReadByte
    BY <2>1 DEF HostStep
  <2>3. CASE c = <<>>
    <3>1. c \o w = w
      BY <2>3, None
    <3>2. Hears(NoMessage, stream, toHost, w)
      BY <3>1, <1>1, <1>3
    <3>3. /\ Quietly
          /\ \/ UNCHANGED <<msg, toDecoder>> /\ Hears(msg', stream', toHost', w)
             \/ /\ w # <<>> /\ toHost' = rest /\ stream' = <<>>
                /\ msg' = [opcode |-> op, len |-> n, body |-> <<>>]
                /\ toDecoder' = toDecoder \o HostAck(op)
      BY <2>2, <3>2, HostByte
    <3>4. Hears(msg', stream', toHost', w) => Listening(w)'
      BY <1>1, <3>1 DEF Listening
    <3> QED
      BY <3>3, <3>4
  <2>4. ASSUME NEW d \in Chatter, c = Dbg \o d
        PROVE  Quietly /\ UNCHANGED toDecoder /\ Listening(w)'
    <3> DEFINE k == Len(DebugText)
               q == c \o w
               e == DebugText \o (d \o w)
    <3>1. d \in B /\ d \o w \in B /\ DebugText \in B /\ e \in B /\ k \in 0..MaxLen /\ DEBUG \in Opcode
      BY ChatterBegins, Bytes, DbgBytes
    <3>2. q = Pack(DEBUG, k) \o e /\ q \in B
      <4>1. Pack(DEBUG, k) \in B
        BY <3>1, Header
      <4> DEFINE h == Pack(DEBUG, k)
      <4>2. c = (h \o DebugText) \o d
        BY <2>4 DEF Dbg
      <4> HIDE DEF h
      <4>3. c = h \o (DebugText \o d)
        BY <4>1, <4>2, <3>1, Assoc DEF h
      <4>4. c \o w = h \o ((DebugText \o d) \o w)
        <5>1. DebugText \o d \in B /\ h \in B
          BY <3>1, <4>1, Bytes DEF h
        <5>2. (h \o (DebugText \o d)) \o w = h \o ((DebugText \o d) \o w)
          BY <5>1, Assoc
        <5> QED
          BY <4>3, <5>2
      <4>5. (DebugText \o d) \o w = DebugText \o (d \o w)
        BY <3>1, Assoc
      <4> QED
        BY <4>4, <4>5, <1>2 DEF h
    <3> HIDE DEF q, e, k
    <3>3. Hears(NoMessage, stream, toHost, q)
      BY <1>1, <1>3 DEF q
    <3>4. /\ Quietly
          /\ \/ UNCHANGED <<msg, toDecoder>> /\ Hears(msg', stream', toHost', q)
             \/ /\ q # <<>> /\ toHost' = e /\ stream' = <<>>
                /\ msg' = [opcode |-> DEBUG, len |-> k, body |-> <<>>]
                /\ toDecoder' = toDecoder \o HostAck(DEBUG)
      BY <2>2, <3>1, <3>2, <3>3, HostByte
    <3>5. CASE UNCHANGED <<msg, toDecoder>> /\ Hears(msg', stream', toHost', q)
      BY <3>4, <3>5, <1>1 DEF Listening, q
    <3>6. CASE /\ toHost' = e /\ stream' = <<>>
               /\ msg' = [opcode |-> DEBUG, len |-> k, body |-> <<>>]
               /\ toDecoder' = toDecoder \o HostAck(DEBUG)
      <4>1. toDecoder' = toDecoder
        BY <3>6, None DEF HostAck, NACK_MSGS, TypeOK
      <4>2. <<>> \in B /\ <<>> \o DebugText = DebugText
        BY <3>1, None
      <4>3. Hears(msg', stream', toHost', d \o w)
        BY <3>6, <4>2, <3>1 DEF Hears, e, k
      <4> QED
        BY <3>4, <4>1, <4>3, <2>4 DEF Listening
    <3> QED
      BY <3>4, <3>5, <3>6
  <2> QED
    BY <2>3, <2>4, ChatterSplit
<1>4. CASE msg # NoMessage
  <2>1. PICK b \in B, r \in B : /\ stream = <<>> /\ msg = [opcode |-> DEBUG, len |-> Len(DebugText), body |-> b]
                                /\ b \o r = DebugText /\ toHost = r \o (c \o w)
    BY <1>1, <1>4 DEF Hears
  <2>2. Quietly /\ UNCHANGED toDecoder /\ Hears(msg', stream', toHost', c \o w)
    BY <1>2, <2>1, HostDebug
  <2> QED
    BY <2>2, <1>1 DEF Listening
<1> QED
  BY <1>3, <1>4

-----------------------------------------------------------------------------
(* The decoder. *)

\* A header that is being read stays a header when one more byte is read.
LEMMA HeaderByte ==
  ASSUME NEW h \in B, NEW t \in B, t # <<>>, h # <<>> \/ Head(t) = MSG_MAGIC
  PROVE  /\ HeaderWith(h, Head(t)) \in B
         /\ HeaderWith(h, Head(t)) \o Tail(t) = h \o t
         /\ Len(HeaderWith(h, Head(t))) = Len(h) + 1
  BY Shift DEF HeaderWith

\* What is read, and what is left, of the bytes x that the decoder is sent.
Pending(x) == hdr \o toDecoder = x /\ Len(hdr) <= 4

\* No request is being received or answered, and the bytes w are on their way.
Settled(w) ==
  /\ untold = <<>> /\ packet = NoMessage
  /\ \/ dpc = "packet" /\ outbox = <<>> /\ Pending(w)
     \/ dpc = "write" /\ outbox \in {<<Debug>>, <<Debug, Debug>>} /\ hdr = <<>> /\ toDecoder = w
     \/ dpc = "ack" /\ (\E a \in Sendable : outbox = <<a, Debug>>) /\ Pending(Ack \o w)

\* One more byte of a header is read.
LEMMA PendingByte ==
  ASSUME TypeOK, ReadHeaderByte, NEW h \in B, h # <<>>, h[1] = MSG_MAGIC, NEW w \in B,
         Pending(h \o w)
  PROVE  Pending(h \o w)' /\ UNCHANGED <<hostVars, toHost, dpc, packet, outbox, untold, served>>
<1>1. /\ Len(hdr) < 4 /\ toDecoder # <<>>
      /\ hdr' = HeaderWith(hdr, Head(toDecoder)) /\ toDecoder' = Tail(toDecoder)
      /\ UNCHANGED <<hostVars, toHost, dpc, packet, outbox, untold, served>>
  BY DEF ReadHeaderByte
<1>2. hdr # <<>> \/ Head(toDecoder) = MSG_MAGIC
  <2>1. CASE hdr = <<>>
    <3>1. toDecoder = h \o w
      BY <2>1, None DEF Pending, TypeOK
    <3>2. Head(h \o w) = Head(h)
      BY FirstByte
    <3>3. Head(h) = h[1]
      BY Shift
    <3> QED
      BY <3>1, <3>2, <3>3
  <2> QED
    BY <2>1
<1>3. /\ hdr' \o toDecoder' = hdr \o toDecoder
      /\ Len(hdr') = Len(hdr) + 1
  BY <1>1, <1>2, HeaderByte DEF TypeOK
<1>4. Len(hdr') <= 4
  <2>1. Len(hdr) \in Nat
    BY Bytes DEF TypeOK
  <2> QED
    BY <2>1, <1>1, <1>3
<1>5. hdr' \o toDecoder' = h \o w
  BY <1>3 DEF Pending
<1> QED
  BY <1>1, <1>4, <1>5 DEF Pending

\* A whole header of four bytes has been read.
LEMMA PendingHeader ==
  ASSUME TypeOK, NEW h \in B, NEW w \in B, Len(h) = 4, Len(hdr) = 4, Pending(h \o w)
  PROVE  hdr = h /\ toDecoder = w
<1>1. hdr \o toDecoder = h \o w /\ Len(hdr) = Len(h)
  BY DEF Pending
<1> QED
  BY <1>1, SameCut DEF TypeOK

\* The messages of an outbox are written from the first to the last.
LEMMA Pops ==
  \A a, b, c, d :
    /\ Head(<<a>>) = a /\ Tail(<<a>>) = <<>>
    /\ Head(<<a, b>>) = a /\ Tail(<<a, b>>) = <<b>>
    /\ Head(<<a, b, c>>) = a /\ Tail(<<a, b, c>>) = <<b, c>>
    /\ Head(<<a, b, c, d>>) = a /\ Tail(<<a, b, c, d>>) = <<b, c, d>>
    /\ <<a, b>> # <<>> /\ <<a, b, c>> # <<>>
  OBVIOUS

\* The decoder says something while it is settled.
LEMMA DebugWritten ==
  ASSUME TypeOK, dpc = "write", Head(outbox) = Debug, DecoderStep
  PROVE  /\ toHost' = toHost \o Dbg /\ outbox' = Tail(outbox)
         /\ dpc' = IF Tail(outbox) = <<>> THEN "packet" ELSE "write"
         /\ UNCHANGED <<hostVars, toDecoder, hdr, packet, served, untold>>
<1>1. WritePacket
  BY DEF DecoderStep, ReadHeaderByte, ReadPacket, ReadBodyByte, ReadAck
<1>2. /\ toHost' = toHost \o Pack(DEBUG, Len(DebugText)) \o DebugText
      /\ Written /\ UNCHANGED untold
      /\ UNCHANGED <<hostVars, toDecoder, hdr, packet, served>>
  <2>1. Head(outbox).opcode = DEBUG /\ Head(outbox).body = DebugText
    BY Answers
  <2> QED
    BY <1>1, <2>1 DEF WritePacket
<1>3. toHost' = toHost \o Dbg
  <2> DEFINE h == Pack(DEBUG, Len(DebugText))
  <2>1. h \in B /\ DebugText \in B
    BY DbgBytes, Header
  <2>2. toHost' = (toHost \o h) \o DebugText
    BY <1>2
  <2> HIDE DEF h
  <2>3. toHost' = toHost \o (h \o DebugText)
    <3>1. toHost \in B
      BY DEF TypeOK
    <3>2. h \in B /\ DebugText \in B
      BY <2>1
    <3>3. (toHost \o h) \o DebugText = toHost \o (h \o DebugText)
      BY <3>1, <3>2, Assoc
    <3> QED
      BY <2>2, <3>3
  <2> QED
    BY <2>3 DEF Dbg, h
<1> QED
  BY <1>2, <1>3 DEF Written

\* A settled decoder stays settled and says at most one thing, or it has read
\* the whole header of a request.
LEMMA SettledStep ==
  ASSUME TypeOK, DecoderStep, NEW w \in B, Settled(w),
         w = <<>> \/ \E op \in Opcode, n \in 0..MaxLen : w = Pack(op, n)
  PROVE  \/ /\ Settled(w)' /\ UNCHANGED <<hostVars, served>>
            /\ toHost' = toHost \/ toHost' = toHost \o Dbg
         \/ /\ w # <<>> /\ ReadPacket /\ dpc = "packet" /\ outbox = <<>>
            /\ hdr = w /\ toDecoder = <<>>
<1>1. untold = <<>> /\ packet = NoMessage
  BY DEF Settled
<1>2. w # <<>> => Len(w) = 4 /\ w[1] = MSG_MAGIC
  BY Header
<1>3. CASE dpc = "packet" /\ outbox = <<>> /\ Pending(w)
  <2>1. ReadHeaderByte \/ ReadPacket
    BY <1>3 DEF DecoderStep, ReadBodyByte, WritePacket, ReadAck
  <2>2. w # <<>>
    <3>1. ASSUME w = <<>> PROVE FALSE
      <4>1. Len(hdr) + Len(toDecoder) = 0 /\ Len(hdr) \in Nat /\ Len(toDecoder) \in Nat
        BY <3>1, <1>3, Bytes DEF TypeOK, Pending
      <4>2. Len(hdr) = 0 /\ Len(toDecoder) = 0
        BY <4>1
      <4>3. hdr = <<>> /\ toDecoder = <<>>
        BY <4>2, Bytes DEF TypeOK
      <4>4. ~ReadHeaderByte
        BY <4>3 DEF ReadHeaderByte
      <4>5. ~ReadPacket
        BY <4>2 DEF ReadPacket
      <4> QED
        BY <4>4, <4>5, <2>1
    <3> QED
      BY <3>1
  <2>3. w \o <<>> = w /\ <<>> \in B
    BY None
  <2>4. CASE ReadHeaderByte
    <3>1. Pending(w)' /\ UNCHANGED <<hostVars, toHost, dpc, packet, outbox, untold, served>>
      <4>1. Pending(w \o <<>>)
        BY <1>3, <2>3
      <4>2. /\ Pending(w \o <<>>)'
            /\ UNCHANGED <<hostVars, toHost, dpc, packet, outbox, untold, served>>
        BY <4>1, <2>2, <2>3, <2>4, <1>2, PendingByte
      <4>3. hdr' \o toDecoder' = w /\ Len(hdr') <= 4
        BY <4>2, <2>3 DEF Pending
      <4> QED
        BY <4>2, <4>3 DEF Pending
    <3>2. Settled(w)'
      BY <1>1, <1>3, <3>1 DEF Settled
    <3> QED
      BY <3>1, <3>2
  <2>5. CASE ReadPacket
    <3>1. Len(hdr) = 4
      BY <2>5 DEF ReadPacket
    <3>2. Pending(w \o <<>>)
      BY <1>3, <2>3
    <3>3. hdr = w /\ toDecoder = <<>>
      BY <3>1, <3>2, <1>2, <2>2, <2>3, PendingHeader
    <3> QED
      BY <3>3, <2>2, <2>5, <1>3
  <2> QED
    BY <2>1, <2>4, <2>5
<1>4. CASE dpc = "write" /\ outbox \in {<<Debug>>, <<Debug, Debug>>} /\ hdr = <<>> /\ toDecoder = w
  <2>1. Head(outbox) = Debug /\ Tail(outbox) \in {<<>>, <<Debug>>}
    <3>1. CASE outbox = <<Debug>>
      BY <3>1, Pops
    <3>2. CASE outbox = <<Debug, Debug>>
      BY <3>2, Pops
    <3> QED
      BY <1>4, <3>1, <3>2
  <2>2. /\ toHost' = toHost \o Dbg /\ outbox' = Tail(outbox)
        /\ dpc' = IF Tail(outbox) = <<>> THEN "packet" ELSE "write"
        /\ UNCHANGED <<hostVars, toDecoder, hdr, packet, served, untold>>
    BY <1>4, <2>1, DebugWritten
  <2>3. (dpc' = "packet" /\ outbox' = <<>>) \/ (dpc' = "write" /\ outbox' = <<Debug>>)
    BY <2>1, <2>2
  <2>4. hdr' = <<>> /\ toDecoder' = w /\ untold' = <<>> /\ packet' = NoMessage
    BY <1>1, <1>4, <2>2
  <2>5. Pending(w)'
    <3>1. <<>> \o w = w
      BY None
    <3>2. Len(<<>>) <= 4
      OBVIOUS
    <3>3. hdr' \o toDecoder' = w /\ Len(hdr') <= 4
      BY <2>4, <3>1, <3>2
    <3> QED
      BY <3>3 DEF Pending
  <2>6. Settled(w)'
    BY <2>3, <2>4, <2>5 DEF Settled
  <2> QED
    BY <2>2, <2>6
<1>5. ASSUME dpc = "ack", NEW a \in Sendable, outbox = <<a, Debug>>, Pending(Ack \o w)
      PROVE  Settled(w)' /\ UNCHANGED <<hostVars, served>> /\ toHost' = toHost
  <2>1. ReadHeaderByte \/ ReadAck
    BY <1>5 DEF DecoderStep, ReadBodyByte, WritePacket, ReadPacket
  <2>2. Ack \in B /\ Ack # <<>> /\ Len(Ack) = 4 /\ Ack[1] = MSG_MAGIC
    <3>1. Ack # <<>>
      BY DEF Ack, Pack
    <3> QED
      BY <3>1, AckHeader
  <2>3. CASE ReadHeaderByte
    <3>1. Pending(Ack \o w)' /\ UNCHANGED <<hostVars, toHost, dpc, packet, outbox, untold, served>>
      BY <1>5, <2>2, <2>3, PendingByte
    <3>2. Settled(w)'
      BY <1>1, <1>5, <3>1 DEF Settled
    <3> QED
      BY <3>1, <3>2
  <2>4. CASE ReadAck
    <3>1. Len(hdr) = 4
      BY <2>4 DEF ReadAck
    <3>2. hdr = Ack /\ toDecoder = w
      BY <3>1, <1>5, <2>2, PendingHeader
    <3>3. /\ hdr' = <<>> /\ Written /\ UNCHANGED <<toHost, untold>>
          /\ UNCHANGED <<hostVars, toDecoder, packet, served>>
      BY <1>1, <2>4 DEF ReadAck
    <3>4. outbox' = <<Debug>> /\ dpc' = "write"
      BY <3>3, <1>5 DEF Written
    <3>5. Settled(w)'
      BY <1>1, <3>2, <3>3, <3>4 DEF Settled
    <3> QED
      BY <3>3, <3>5
  <2> QED
    BY <2>1, <2>3, <2>4
<1>6. \/ dpc = "packet" /\ outbox = <<>> /\ Pending(w)
      \/ dpc = "write" /\ outbox \in {<<Debug>>, <<Debug, Debug>>} /\ hdr = <<>> /\ toDecoder = w
      \/ dpc = "ack" /\ (\E a \in Sendable : outbox = <<a, Debug>>) /\ Pending(Ack \o w)
  BY DEF Settled
<1> QED
  BY <1>3, <1>4, <1>5, <1>6

\* A request is sent to a settled decoder.
LEMMA SettledMore ==
  ASSUME TypeOK, Settled(<<>>), NEW x \in B,
         toDecoder' = toDecoder \o x, UNCHANGED decoderVars
  PROVE  Settled(x)'
<1>1. UNCHANGED <<dpc, hdr, packet, outbox, untold>>
  BY DEF decoderVars
<1>2. hdr' \o toDecoder' = (hdr \o toDecoder) \o x
  <2>1. hdr \o (toDecoder \o x) = (hdr \o toDecoder) \o x
    <3>1. hdr \in B /\ toDecoder \in B
      BY DEF TypeOK
    <3> QED
      BY <3>1, Assoc
  <2> QED
    BY <1>1, <2>1
<1>3. <<>> \o x = x /\ Ack \o <<>> = Ack
  BY None, AckHeader
<1>4. Pending(<<>>) => Pending(x)'
  <2>1. hdr \o toDecoder = <<>> => hdr' \o toDecoder' = x
    BY <1>2, <1>3
  <2> QED
    BY <2>1, <1>1 DEF Pending
<1>5. Pending(Ack \o <<>>) => Pending(Ack \o x)'
  <2>1. hdr \o toDecoder = Ack => hdr' \o toDecoder' = Ack \o x
    BY <1>2
  <2> QED
    BY <2>1, <1>1, <1>3 DEF Pending
<1>6. toDecoder = <<>> => toDecoder' = x
  BY <1>3
<1> QED
  BY <1>1, <1>4, <1>5, <1>6 DEF Settled

-----------------------------------------------------------------------------
(* The phases of a call. *)

\* Between two calls the decoder may still have something to say.
Idle ==
  /\ hpc = "idle" /\ msg = NoMessage /\ stream = <<>> /\ toHost \in Chatter
  /\ Settled(<<>>)

\* The header of the request is sent and not yet read.
Called ==
  /\ hpc = "ack" /\ served = <<>> /\ unsent = request.body
  /\ Listening(<<>>) /\ Settled(Hdr(request))

\* The decoder has read and acknowledged whole blocks, and reads the next one:
\* the host has the ACK to come, or has sent a block.
Receiving ==
  /\ hpc = "ack" /\ served = <<>>
  /\ dpc = "body" /\ hdr = <<>> /\ outbox = <<>> /\ untold = <<>>
  /\ packet.opcode = request.opcode /\ packet.len = Len(request.body)
  /\ packet.body \o (toDecoder \o unsent) = request.body
  /\ Len(packet.body) < Len(request.body)
  /\ LET n == Len(packet.body) % BLOCK_LEN
         k == Len(toDecoder)
     IN \/ toDecoder = <<>> /\ n = 0 /\ (Listening(Ack) \/ AckHeld(<<>>))
        \/ toDecoder # <<>> /\ n + k <= BLOCK_LEN /\ (unsent # <<>> => n + k = BLOCK_LEN) /\ Listening(<<>>)

\* The answer a is about to be written, or its header h was written.
Writes(a, h) ==
  \/ /\ h = <<>> /\ dpc = "write" /\ untold = <<>>
     /\ outbox \in {<<a, Debug>>, <<Debug, a, Debug>>, <<Debug, Debug, a, Debug>>}
  \/ h = Hdr(a) /\ dpc = "ack" /\ untold = a.body /\ outbox = <<a, Debug>>

\* The host is going to get the ACK of the last block, unless it got it, and then h.
Awaits(h) ==
  \/ hpc = "ack" /\ \E d \in Chatter : Listening(Ack \o (d \o h)) \/ AckHeld(d \o h)
  \/ hpc = "response" /\ Listening(h)

\* The request is executed, and the host has not read the header of the answer.
Done(a) ==
  /\ hdr = <<>> /\ toDecoder = <<>> /\ packet = NoMessage
  /\ \E h \in {<<>>, Hdr(a)} : Writes(a, h) /\ Awaits(h)

\* The host reads the body of the answer: it has sent an ACK for what it has,
\* or a block is on its way.
Replied(a) ==
  /\ hpc = "response" /\ stream = <<>>
  /\ dpc = "ack" /\ outbox = <<a, Debug>> /\ packet = NoMessage
  /\ msg.opcode = a.opcode /\ msg.len = Len(a.body)
  /\ \/ Pending(Ack) /\ toHost = <<>> /\ msg.body \o untold = a.body /\ untold # <<>>
     \/ /\ hdr = <<>> /\ toDecoder = <<>> /\ toHost # <<>>
        /\ msg.body \o (toHost \o untold) = a.body
        /\ Len(toHost) <= BLOCK_LEN /\ (untold # <<>> => Len(toHost) = BLOCK_LEN)

\* The host has the whole answer.
Last(a) ==
  /\ hpc = "response" /\ stream = <<>>
  /\ msg = [opcode |-> a.opcode, len |-> Len(a.body), body |-> a.body]
  /\ toHost \in Chatter /\ Settled(<<>>)

\* The decoder has executed the request, once.
Answering ==
  \E a \in AnswersTo(request) :
    /\ served = <<[request |-> request, answer |-> a]>> /\ unsent = <<>>
    /\ Done(a) \/ Replied(a) \/ Last(a)

\* The inductive invariant: the two sides are in the same phase of the call,
\* and no byte is lost between what one has sent and what the other expects.
LinkInv ==
  /\ TypeOK
  /\ \/ Idle
     \/ request \in Requests /\ outcome = Nothing /\ (Called \/ Receiving \/ Answering)

-----------------------------------------------------------------------------
(* Steps between two calls and of a call that begins. *)

\* At first no call is made.
LEMMA InvInit == Init => LinkInv
<1> SUFFICES ASSUME Init PROVE LinkInv
  OBVIOUS
<1>1. TypeOK
  BY TypeInit
<1>2. Settled(<<>>)
  BY DEF Init, Settled
<1>3. <<>> \in Chatter
  BY ChatterBegins
<1> QED
  BY <1>1, <1>2, <1>3 DEF Init, LinkInv, Idle

\* The parts of the state that Exchange speaks of, more or less.
Unseen == UNCHANGED <<hpc, request, served, outcome>>

\* Between two calls the host reads nothing.
LEMMA IdleHost == Idle => ~HostStep
  BY DEF Idle, HostStep, HostReadByte, HostReadBlock, HostMessage

\* Between two calls the decoder only talks.
LEMMA IdleDecoder ==
  ASSUME TypeOK, Idle, DecoderStep
  PROVE  Idle' /\ Unseen
<1>1. <<>> \in B /\ Settled(<<>>)
  BY None DEF Idle
<1>2. /\ Settled(<<>>)' /\ UNCHANGED <<hostVars, served>>
      /\ toHost' = toHost \/ toHost' = toHost \o Dbg
  BY <1>1, SettledStep
<1>3. toHost' \in Chatter
  BY <1>2, ChatterMore DEF Idle
<1>4. UNCHANGED <<hpc, request, served, outcome, msg, stream>>
  BY <1>2 DEF hostVars
<1> QED
  BY <1>2, <1>3, <1>4 DEF Idle, Unseen

\* A call begins, on a new port or not.
LEMMA IdleCall ==
  ASSUME TypeOK, Idle, NEW r \in Requests, Call(r) \/ FirstCall(r)
  PROVE  Called' /\ request' = r /\ served' = <<>> /\ outcome' = Nothing /\ hpc' = "ack"
<1>1. Send(r) /\ stream' = <<>>
  BY DEF Call, FirstCall, Idle
<1>2. /\ toDecoder' = toDecoder \o Hdr(r)
      /\ hpc' = "ack" /\ request' = r /\ unsent' = r.body
      /\ outcome' = Nothing /\ served' = <<>>
      /\ msg' = msg /\ UNCHANGED decoderVars
  BY <1>1 DEF Send, Hdr
<1>3. Hdr(r) \in B
  BY Answers, SentHeader
<1>4. Settled(Hdr(r))'
  BY <1>2, <1>3, SettledMore DEF Idle
<1>5. \E j \in B, d \in Chatter : NoMagic(j) /\ toHost' = j \o d
  <2>1. CASE Call(r)
    <3>1. toHost' \in Chatter
      BY <2>1 DEF Call, Idle
    <3>2. <<>> \in B /\ NoMagic(<<>>) /\ toHost' = <<>> \o toHost'
      BY <3>1, ChatterBegins, None, NoMagicNone
    <3> QED
      BY <3>1, <3>2
  <2>2. CASE FirstCall(r)
    <3>1. PICK k \in 1..(Len(toHost) + 1) : toHost' = SubSeq(toHost, k, Len(toHost))
      BY <2>2 DEF FirstCall
    <3>2. Len(toHost) \in Nat
      BY Bytes DEF TypeOK
    <3>3. k - 1 \in 0..Len(toHost) /\ (k - 1) + 1 = k
      BY <3>1, <3>2
    <3>4. \E j \in B, d \in Chatter : NoMagic(j) /\ SubSeq(toHost, (k - 1) + 1, Len(toHost)) = j \o d
      BY <3>3, ChatterEnds DEF Idle
    <3> QED
      BY <3>1, <3>3, <3>4
  <2> QED
    BY <2>1, <2>2
<1>6. Listening(<<>>)'
  <2>1. PICK j \in B, d \in Chatter : NoMagic(j) /\ toHost' = j \o d
    BY <1>5
  <2>2. d \o <<>> = d
    BY ChatterBegins, None
  <2>3. msg' = NoMessage /\ stream' = <<>> /\ NoMagic(<<>>)
    BY <1>1, <1>2, NoMagicNone DEF Idle
  <2>4. Hears(msg', stream', toHost', d \o <<>>)
    BY <2>1, <2>2, <2>3 DEF Hears
  <2> QED
    BY <2>4 DEF Listening
<1> QED
  BY <1>2, <1>4, <1>6 DEF Called

\* A host that expects nothing skips what it reads.
LEMMA HostQuiet ==
  ASSUME TypeOK, HostStep, Listening(<<>>)
  PROVE  Quietly /\ UNCHANGED toDecoder /\ Listening(<<>>)'
<1>1. <<>> \in B /\ 0 \in 0..MaxLen /\ ACK \in Opcode
  BY None, AckHeader
<1> QED
  BY <1>1, HostHears

\* The host waits for the ACK of its header.
LEMMA CalledHost ==
  ASSUME TypeOK, Called, HostStep
  PROVE  Called' /\ Unseen
<1>1. Quietly /\ UNCHANGED toDecoder /\ Listening(<<>>)'
  BY HostQuiet DEF Called
<1>2. UNCHANGED <<hpc, request, unsent, outcome, served, dpc, hdr, packet, outbox, untold, toDecoder>>
  BY <1>1 DEF Quietly, decoderVars
<1>3. Settled(Hdr(request))'
  BY <1>2 DEF Called, Settled, Pending, Hdr
<1> QED
  BY <1>1, <1>2, <1>3 DEF Called, Unseen

\* What a command says is put before its answer.
LEMMA Joined ==
  \A a, b, c, d :
   /\ <<>> \o <<a, b>> = <<a, b>> /\ <<c>> \o <<a, b>> = <<c, a, b>>
   /\ <<c, d>> \o <<a, b>> = <<c, d, a, b>>
<1> SUFFICES ASSUME NEW a, NEW b, NEW c, NEW d
             PROVE  /\ <<>> \o <<a, b>> = <<a, b>> /\ <<c>> \o <<a, b>> = <<c, a, b>>
                    /\ <<c, d>> \o <<a, b>> = <<c, d, a, b>>
  OBVIOUS
<1> DEFINE S == {a, b, c, d}
<1>1. <<>> \in Seq(S) /\ <<c>> \in Seq(S) /\ <<c, d>> \in Seq(S) /\ <<a, b>> \in Seq(S)
  OBVIOUS
<1>2. <<c, a, b>> \in Seq(S) /\ <<c, d, a, b>> \in Seq(S)
  OBVIOUS
<1> HIDE DEF S
<1>3. <<c>> \o <<a, b>> = <<c, a, b>>
  <2> DEFINE t == <<c>> \o <<a, b>>
             u == <<c, a, b>>
  <2>1. t \in Seq(S) /\ Len(t) = Len(<<c>>) + Len(<<a, b>>)
        /\ \A i \in 1..Len(<<c>>) + Len(<<a, b>>) : t[i] = IF i <= Len(<<c>>) THEN <<c>>[i] ELSE <<a, b>>[i - Len(<<c>>)]
    BY <1>1, ConcatProperties
  <2>2. Len(<<c>>) = 1 /\ Len(<<a, b>>) = 2 /\ Len(u) = 3
    OBVIOUS
  <2>3. t[1] = c /\ t[2] = a /\ t[3] = b
    <3>1. t[1] = <<c>>[1] /\ t[2] = <<a, b>>[1] /\ t[3] = <<a, b>>[2]
      <4> HIDE DEF t
      <4> QED
        BY <2>1, <2>2
    <3> QED
      BY <3>1
  <2>4. u[1] = c /\ u[2] = a /\ u[3] = b
    OBVIOUS
  <2> HIDE DEF t, u
  <2>5. Len(t) = 3
    BY <2>1, <2>2
  <2>6. \A i \in 1..3 : t[i] = u[i]
    BY <2>3, <2>4
  <2> QED
    BY <2>1, <2>2, <2>5, <2>6, <1>2, SeqEqual DEF u, t
<1>4. <<c, d>> \o <<a, b>> = <<c, d, a, b>>
  <2> DEFINE t == <<c, d>> \o <<a, b>>
             u == <<c, d, a, b>>
  <2>1. t \in Seq(S) /\ Len(t) = Len(<<c, d>>) + Len(<<a, b>>)
        /\ \A i \in 1..Len(<<c, d>>) + Len(<<a, b>>) : t[i] = IF i <= Len(<<c, d>>) THEN <<c, d>>[i] ELSE <<a, b>>[i - Len(<<c, d>>)]
    BY <1>1, ConcatProperties
  <2>2. Len(<<c, d>>) = 2 /\ Len(<<a, b>>) = 2 /\ Len(u) = 4
    OBVIOUS
  <2>3. t[1] = c /\ t[2] = d /\ t[3] = a /\ t[4] = b
    <3>1. t[1] = <<c, d>>[1] /\ t[2] = <<c, d>>[2] /\ t[3] = <<a, b>>[1] /\ t[4] = <<a, b>>[2]
      <4> HIDE DEF t
      <4> QED
        BY <2>1, <2>2
    <3> QED
      BY <3>1
  <2>4. u[1] = c /\ u[2] = d /\ u[3] = a /\ u[4] = b
    OBVIOUS
  <2> HIDE DEF t, u
  <2>5. Len(t) = 4
    BY <2>1, <2>2
  <2>6. \A i \in 1..4 : t[i] = u[i]
    BY <2>3, <2>4
  <2> QED
    BY <2>1, <2>2, <2>5, <2>6, <1>2, SeqEqual DEF u, t
<1>5. <<>> \o <<a, b>> = <<a, b>>
  OBVIOUS
<1> QED
  BY <1>3, <1>4, <1>5

\* What a call is answered.
Serves(a) == served' = <<[request |-> request, answer |-> a]>>

\* The decoder has the whole request.
LEMMA Executes ==
  ASSUME TypeOK, request \in Requests, Execute(request), served = <<>>,
         UNCHANGED <<hostVars, untold>>, untold = <<>>, hpc = "ack",
         hdr' = <<>>, toDecoder' = <<>>, Listening(Ack)'
  PROVE  \E a \in AnswersTo(request) : Serves(a) /\ Done(a)'
<1>1. PICK a \in AnswersTo(request) :
        /\ outbox' = Remarks(request, a) \o <<a, Debug>>
        /\ dpc' = "write" /\ packet' = NoMessage
        /\ served' = Append(served, [request |-> request, answer |-> a])
  BY DEF Execute
<1>2. outbox' \in {<<a, Debug>>, <<Debug, a, Debug>>, <<Debug, Debug, a, Debug>>}
  <2>1. Remarks(request, a) \in {<<>>, <<Debug>>, <<Debug, Debug>>}
    BY DEF Remarks
  <2>2. /\ <<>> \o <<a, Debug>> = <<a, Debug>>
        /\ <<Debug>> \o <<a, Debug>> = <<Debug, a, Debug>>
        /\ <<Debug, Debug>> \o <<a, Debug>> = <<Debug, Debug, a, Debug>>
    BY Joined
  <2>3. PICK m \in {<<>>, <<Debug>>, <<Debug, Debug>>} : outbox' = m \o <<a, Debug>>
    BY <1>1, <2>1
  <2>4. CASE m = <<>>
    BY <2>2, <2>3, <2>4
  <2>5. CASE m = <<Debug>>
    BY <2>2, <2>3, <2>5
  <2>6. CASE m = <<Debug, Debug>>
    BY <2>2, <2>3, <2>6
  <2> QED
    BY <2>4, <2>5, <2>6
<1>3. Serves(a)
  BY <1>1 DEF Serves
<1>4. Writes(a, <<>>)'
  BY <1>1, <1>2 DEF Writes
<1>5. Awaits(<<>>)'
  <2>1. Ack \o (<<>> \o <<>>) = Ack /\ <<>> \in Chatter
    BY None, AckHeader, ChatterBegins
  <2>2. hpc' = "ack"
    BY DEF hostVars
  <2>3. Listening(Ack \o (<<>> \o <<>>))'
    BY <2>1
  <2> QED
    BY <2>1, <2>2, <2>3 DEF Awaits
<1> QED
  BY <1>1, <1>3, <1>4, <1>5 DEF Done

\* Opcodes tell requests and answers from ACK and DEBUG messages.
LEMMA Opcodes ==
  /\ \A r \in Requests : r = [opcode |-> r.opcode, body |-> r.body] /\ r.opcode # ACK
  /\ \A p : \A a \in AnswersTo(p) : a.opcode \notin {ACK, DEBUG, 0}
  /\ 0 % BLOCK_LEN = 0
<1>1. \A r \in Requests : r \in [opcode : Opcode, body : Seq(Byte)] /\ r.opcode \in {DECODE, SUBSCRIBE, LIST}
  BY HostLinkAssumption DEF Message
<1>2. \A r \in Requests : r = [opcode |-> r.opcode, body |-> r.body] /\ r.opcode # ACK
  BY <1>1 DEF ACK, DECODE, SUBSCRIBE, LIST
<1>3. \A p : \A a \in AnswersTo(p) : a.opcode \notin {ACK, DEBUG, 0}
  BY Answers DEF ACK, DEBUG, DECODE, SUBSCRIBE, LIST, ERROR
<1>4. 0 % BLOCK_LEN = 0
  BY HostLinkAssumption
<1> QED
  BY <1>2, <1>3, <1>4

\* The decoder reads the header, acknowledges it, and executes a request with no body.
LEMMA CalledDecoder ==
  ASSUME TypeOK, Called, request \in Requests, DecoderStep
  PROVE  /\ UNCHANGED hostVars
         /\ \/ Called' /\ UNCHANGED served
            \/ Receiving' /\ UNCHANGED served
            \/ unsent = <<>> /\ \E a \in AnswersTo(request) : Serves(a) /\ Done(a)'
<1>6. PICK h : h = Hdr(request)
  OBVIOUS
<1> DEFINE n == Len(request.body)
<1>1. /\ h \in B /\ request.opcode \in Opcode /\ n \in 0..MaxLen /\ h = Pack(request.opcode, n)
      /\ h[2] = request.opcode /\ Unpack(h[3], h[4]) = n /\ request.body \in B
  BY <1>6, Answers, SentHeader, Header DEF Hdr
<1>2. Settled(h)
  BY <1>6 DEF Called
<1> HIDE DEF n
<1>3. \/ /\ Settled(h)' /\ UNCHANGED <<hostVars, served>>
         /\ toHost' = toHost \/ toHost' = toHost \o Dbg
      \/ ReadPacket /\ dpc = "packet" /\ outbox = <<>> /\ hdr = h /\ toDecoder = <<>>
  BY <1>1, <1>2, SettledStep
<1>4. CASE /\ Settled(h)' /\ UNCHANGED <<hostVars, served>>
           /\ toHost' = toHost \/ toHost' = toHost \o Dbg
  <2>1. UNCHANGED <<hpc, request, unsent, served, msg, stream>>
    BY <1>4 DEF hostVars
  <2>2. Listening(<<>>)'
    <3>1. toHost' = toHost => Listening(<<>>)'
      BY <2>1 DEF Called, Listening
    <3>2. toHost' = toHost \o Dbg => Listening(<<>>)'
      BY <2>1, ListenChatter DEF Called
    <3> QED
      BY <1>4, <3>1, <3>2
  <2>3. Hdr(request)' = h
    BY <1>6, <2>1 DEF Hdr
  <2>4. Settled(Hdr(request))'
    BY <1>4, <2>3 DEF Settled, Pending
  <2> QED
    BY <1>4, <2>1, <2>2, <2>4 DEF Called
<1>5. CASE ReadPacket /\ dpc = "packet" /\ outbox = <<>> /\ hdr = h /\ toDecoder = <<>>
  <2>1. /\ hdr' = <<>> /\ toHost' = toHost \o Ack
        /\ UNCHANGED <<hostVars, toDecoder, untold>>
        /\ IF n = 0 THEN Execute([opcode |-> request.opcode, body |-> <<>>])
                    ELSE /\ dpc' = "body"
                         /\ packet' = [opcode |-> request.opcode, len |-> n, body |-> <<>>]
                         /\ UNCHANGED <<outbox, served>>
    <3>1. request.opcode # ACK
      BY Opcodes
    <3> QED
      BY <3>1, <1>1, <1>5 DEF ReadPacket
  <2>2. UNCHANGED <<hpc, request, unsent, msg, stream>>
    BY <2>1 DEF hostVars
  <2>3. Listening(Ack)'
    <3>1. Listening(<<>> \o Ack)'
      BY <2>1, <2>2, None, AckHeader, ListenMore DEF Called
    <3>2. <<>> \o Ack = Ack
      BY None, AckHeader
    <3> QED
      BY <3>1, <3>2
  <2>4. served = <<>> /\ untold = <<>> /\ hpc = "ack" /\ unsent = request.body
    BY DEF Called, Settled
  <2>5. CASE n = 0
    <3>1. request.body = <<>>
      BY <1>1, <2>5, Bytes DEF n
    <3>2. request = [opcode |-> request.opcode, body |-> <<>>]
      BY <3>1, Opcodes
    <3>3. Execute(request)
      BY <2>1, <2>5, <3>2
    <3>4. \E a \in AnswersTo(request) : Serves(a) /\ Done(a)'
      BY <1>5, <2>1, <2>3, <2>4, <3>3, Executes
    <3> QED
      BY <2>1, <2>4, <3>1, <3>4
  <2>6. CASE n # 0
    <3>1. /\ dpc' = "body" /\ packet' = [opcode |-> request.opcode, len |-> n, body |-> <<>>]
          /\ outbox' = <<>> /\ served' = <<>>
      BY <1>5, <2>1, <2>4, <2>6
    <3>2. packet'.opcode = request'.opcode /\ packet'.len = Len(request'.body) /\ packet'.body = <<>>
      BY <3>1, <2>2 DEF n
    <3>3. packet'.body \o (toDecoder' \o unsent') = request'.body
      <4>1. toDecoder' = <<>> /\ unsent' = request.body /\ request' = request
        BY <1>5, <2>1, <2>2, <2>4
      <4>2. <<>> \o (<<>> \o request.body) = request.body
        BY <1>1, None
      <4> QED
        BY <3>2, <4>1, <4>2
    <3>4. Len(packet'.body) = 0
      BY <3>2
    <3>5. Len(packet'.body) < Len(request'.body)
      <4>1. n \in Nat /\ n # 0 /\ Len(request'.body) = n
        BY <1>1, <2>2, <2>6, HostLinkAssumption DEF n
      <4> QED
        BY <3>4, <4>1
    <3>6. Len(packet'.body) % BLOCK_LEN = 0
      BY <3>4, Opcodes
    <3>7. hpc' = "ack" /\ hdr' = <<>> /\ untold' = <<>> /\ toDecoder' = <<>>
      BY <1>5, <2>1, <2>2, <2>4
    <3>8. Receiving'
      BY <2>3, <3>1, <3>2, <3>3, <3>5, <3>6, <3>7 DEF Receiving
    <3> QED
      BY <2>1, <2>4, <3>1, <3>8
  <2> QED
    BY <2>5, <2>6
<1> QED
  BY <1>3, <1>4, <1>5

-----------------------------------------------------------------------------
(* The body of the request. *)

\* A quotient and a rest are those of the division.
LEMMA RestOf ==
  ASSUME NEW c \in Nat, c > 0, NEW q \in Nat, NEW r \in 0..(c - 1)
  PROVE  (c * q + r) % c = r
<1> DEFINE a == c * q + r
           p == a \div c
           t == a % c
<1>1. c * q \in Nat /\ a \in Nat
  OBVIOUS
<1> HIDE DEF a
<1>2. p \in Nat /\ t \in 0..(c - 1) /\ a = c * p + t
  BY <1>1
<1> HIDE DEF p, t
<1>3. c * p \in Nat /\ c * q + r = c * p + t
  BY <1>2 DEF a
<1>4. p = q
  <2>1. ASSUME p > q PROVE FALSE
    <3>1. PICK d \in Nat : p = q + 1 + d
      <4>1. p - q - 1 \in Nat /\ p = q + 1 + (p - q - 1)
        BY <2>1, <1>2
      <4> QED BY <4>1
    <3>2. c * p = c * q + c + c * d /\ c * d \in Nat
      BY <3>1
    <3> QED BY <3>2, <1>1, <1>2, <1>3
  <2>2. ASSUME q > p PROVE FALSE
    <3>1. PICK d \in Nat : q = p + 1 + d
      <4>1. q - p - 1 \in Nat /\ q = p + 1 + (q - p - 1)
        BY <2>2, <1>2
      <4> QED BY <4>1
    <3>2. c * q = c * p + c + c * d /\ c * d \in Nat
      BY <3>1, <1>2
    <3> QED BY <3>2, <1>1, <1>2, <1>3
  <2> QED BY <2>1, <2>2, <1>2
<1>5. t = r
  BY <1>3, <1>4, <1>1, <1>2
<1> QED BY <1>5 DEF t, a

\* The rest goes up by one, or back to zero.
LEMMA RestNext ==
  ASSUME NEW c \in Nat, c > 0, NEW x \in Nat
  PROVE  /\ x % c \in 0..(c - 1)
         /\ (x + 1) % c = IF (x % c) + 1 = c THEN 0 ELSE (x % c) + 1
<1> DEFINE q == x \div c
           r == x % c
<1>1. q \in Nat /\ r \in 0..(c - 1) /\ x = c * q + r
  OBVIOUS
<1> HIDE DEF q
<1>2. CASE r + 1 = c
  <2>1. c * (q + 1) = c * q + c
    BY <1>1
  <2>2. c * (q + 1) + 0 = x + 1
    BY <2>1, <1>1, <1>2
  <2>3. (c * (q + 1) + 0) % c = 0
    <3>1. q + 1 \in Nat /\ 0 \in 0..(c - 1)
      BY <1>1
    <3> HIDE DEF r
    <3> QED BY <3>1, RestOf
  <2> QED BY <2>2, <2>3, <1>2
<1>3. CASE r + 1 # c
  <2>1. r + 1 \in 0..(c - 1)
    BY <1>1, <1>3
  <2>2. c * q + (r + 1) = x + 1
    BY <1>1
  <2>3. (c * q + (r + 1)) % c = r + 1
    <3> DEFINE r1 == r + 1
    <3>1. r1 \in 0..(c - 1)
      BY <2>1
    <3> HIDE DEF r1
    <3>2. (c * q + r1) % c = r1
      BY <3>1, <1>1, RestOf
    <3> QED BY <3>2 DEF r1
  <2> QED BY <2>2, <2>3, <1>3
<1> QED BY <1>2, <1>3

\* A wait for the ACK.
LEMMA AckComes ==
  ASSUME TypeOK, HostStep, NEW t \in B, Listening(Ack \o t)
  PROVE  Quietly /\ UNCHANGED toDecoder /\ (Listening(Ack \o t)' \/ AckHeld(t)')
<1>1. Ack \in B /\ Ack \o t \in B /\ Ack \o t = Pack(ACK, 0) \o t /\ ACK \in Opcode /\ 0 \in 0..MaxLen
  BY AckHeader, Bytes
<1>2. /\ Quietly
      /\ \/ UNCHANGED toDecoder /\ Listening(Ack \o t)'
         \/ /\ toHost' = t /\ stream' = <<>>
            /\ msg' = [opcode |-> ACK, len |-> 0, body |-> <<>>]
            /\ toDecoder' = toDecoder \o HostAck(ACK)
  <2> DEFINE w == Ack \o t
  <2>1. w \in B /\ w = Pack(ACK, 0) \o t /\ Listening(w)
    BY <1>1
  <2> HIDE DEF w
  <2>2. /\ Quietly
        /\ \/ UNCHANGED toDecoder /\ Listening(w)'
           \/ /\ w # <<>> /\ toHost' = t /\ stream' = <<>>
              /\ msg' = [opcode |-> ACK, len |-> 0, body |-> <<>>]
              /\ toDecoder' = toDecoder \o HostAck(ACK)
    BY <2>1, <1>1, HostHears
  <2> QED
    BY <2>2 DEF w
<1>3. toDecoder \o HostAck(ACK) = toDecoder
  BY None DEF HostAck, NACK_MSGS, TypeOK
<1> QED
  BY <1>2, <1>3 DEF AckHeld, AckMessage

\* The host has the ACK: the next block is sent, or the response awaited.
LEMMA AckTaken ==
  ASSUME TypeOK, HostStep, hpc = "ack", NEW t, AckHeld(t)
  PROVE  /\ UNCHANGED <<request, outcome, stream, toHost, decoderVars, served>> /\ msg' = NoMessage
         /\ IF unsent = <<>>
            THEN hpc' = "response" /\ UNCHANGED <<unsent, toDecoder>>
            ELSE hpc' = "ack" /\ toDecoder' = toDecoder \o BlockOf(unsent) /\ unsent' = AfterBlock(unsent)
<1>1. msg # NoMessage /\ msg.opcode = ACK /\ msg.len = 0 /\ msg.body = <<>> /\ stream = <<>>
  BY NotTold DEF AckHeld, AckMessage
<1>2. ~HostReadByte
  BY <1>1 DEF HostReadByte
<1>3. ~HostReadBlock
  <2>1. Len(msg.body) = 0
    BY <1>1
  <2> QED
    BY <1>1, <2>1 DEF HostReadBlock
<1>4. HostMessage
  BY <1>2, <1>3 DEF HostStep
<1>5. msg' = NoMessage /\ UNCHANGED <<request, stream, toHost, decoderVars, served>>
  BY <1>4 DEF HostMessage
<1>6. SendNext
  BY <1>1, <1>4 DEF HostMessage, BadAck, Response, ACK, DEBUG, ERROR
<1> QED
  BY <1>5, <1>6 DEF SendNext

\* The host reads an ACK and sends the next block.
LEMMA ReceivingHost ==
  ASSUME TypeOK, Receiving, HostStep
  PROVE  Receiving' /\ Unseen
<1> DEFINE n == Len(packet.body) % BLOCK_LEN
<1>1. \/ toDecoder = <<>> /\ n = 0 /\ Listening(Ack)
      \/ toDecoder = <<>> /\ n = 0 /\ AckHeld(<<>>)
      \/ /\ toDecoder # <<>> /\ n + Len(toDecoder) <= BLOCK_LEN
         /\ (unsent # <<>> => n + Len(toDecoder) = BLOCK_LEN) /\ Listening(<<>>)
  BY DEF Receiving
<1>2. /\ hpc = "ack" /\ served = <<>>
      /\ dpc = "body" /\ hdr = <<>> /\ outbox = <<>> /\ untold = <<>>
      /\ packet.opcode = request.opcode /\ packet.len = Len(request.body)
      /\ packet.body \o (toDecoder \o unsent) = request.body
      /\ Len(packet.body) < Len(request.body)
  BY DEF Receiving
<1> HIDE DEF n
<1>3. CASE toDecoder = <<>> /\ n = 0 /\ Listening(Ack)
  <2>1. Ack \o <<>> = Ack /\ <<>> \in B
    BY None, AckHeader
  <2>2. Listening(Ack \o <<>>)
    BY <1>3, <2>1
  <2>3. Quietly /\ UNCHANGED toDecoder /\ (Listening(Ack \o <<>>)' \/ AckHeld(<<>>)')
    BY <2>1, <2>2, AckComes
  <2>4. Listening(Ack)' \/ AckHeld(<<>>)'
    BY <2>1, <2>3
  <2>5. UNCHANGED <<hpc, request, unsent, outcome, served, dpc, hdr, packet, outbox, untold, toDecoder>>
    BY <2>3 DEF Quietly, decoderVars
  <2> QED
    BY <1>2, <1>3, <2>4, <2>5 DEF Receiving, Unseen, n
<1>4. CASE toDecoder = <<>> /\ n = 0 /\ AckHeld(<<>>)
  <2>1. unsent # <<>>
    <3>1. ASSUME unsent = <<>> PROVE FALSE
      <4>1. packet.body \in B
        BY DEF TypeOK
      <4>2. packet.body \o (<<>> \o <<>>) = packet.body
        BY <4>1, None
      <4>3. packet.body = request.body /\ Len(packet.body) \in Nat
        BY <1>2, <1>4, <3>1, <4>1, <4>2, Bytes
      <4> QED
        BY <4>3, <1>2
    <3> QED
      BY <3>1
  <2>2. /\ UNCHANGED <<request, outcome, stream, toHost, decoderVars, served>> /\ msg' = NoMessage
        /\ hpc' = "ack" /\ toDecoder' = toDecoder \o BlockOf(unsent) /\ unsent' = AfterBlock(unsent)
    BY <1>2, <1>4, <2>1, AckTaken
  <2>3. UNCHANGED <<dpc, hdr, packet, outbox, untold>>
    BY <2>2 DEF decoderVars
  <2>4. unsent \in B
    BY DEF TypeOK
  <2>5. /\ BlockOf(unsent) \in B /\ AfterBlock(unsent) \in B /\ BlockOf(unsent) \o AfterBlock(unsent) = unsent
        /\ Len(BlockOf(unsent)) <= BLOCK_LEN /\ BlockOf(unsent) # <<>>
        /\ AfterBlock(unsent) # <<>> => Len(BlockOf(unsent)) = BLOCK_LEN
    BY <2>1, <2>4, Block
  <2>6. toDecoder' = BlockOf(unsent)
    BY <1>4, <2>2, <2>5, None
  <2>7. toDecoder \o unsent = unsent
    BY <1>4, <2>4, None
  <2>8. packet'.body \o (toDecoder' \o unsent') = request'.body
    BY <1>2, <2>2, <2>3, <2>5, <2>6, <2>7
  <2>9. n' = n /\ n' + Len(toDecoder') = Len(BlockOf(unsent))
    <3>1. Len(BlockOf(unsent)) \in Nat
      BY <2>5, Bytes
    <3>2. n' = n
      BY <2>3 DEF n
    <3> QED
      BY <1>4, <2>6, <3>1, <3>2
  <2>10. Listening(<<>>)'
    <3>1. stream' = <<>> /\ toHost' = <<>> /\ msg' = NoMessage
      BY <1>4, <2>2 DEF AckHeld
    <3>2. <<>> \in Chatter /\ <<>> \in B /\ NoMagic(<<>>) /\ <<>> \o (<<>> \o <<>>) = <<>>
      BY ChatterBegins, None, NoMagicNone
    <3>3. Hears(msg', stream', toHost', <<>> \o <<>>)
      BY <3>1, <3>2 DEF Hears
    <3> QED
      BY <3>2, <3>3 DEF Listening
  <2>11. /\ toDecoder' # <<>> /\ n' + Len(toDecoder') <= BLOCK_LEN
         /\ (unsent' # <<>> => n' + Len(toDecoder') = BLOCK_LEN)
    BY <2>2, <2>5, <2>6, <2>9
  <2>12. Receiving'
    BY <1>2, <2>2, <2>3, <2>8, <2>10, <2>11 DEF Receiving, n
  <2> QED
    BY <1>2, <2>2, <2>12 DEF Unseen
<1>5. CASE /\ toDecoder # <<>> /\ n + Len(toDecoder) <= BLOCK_LEN
           /\ (unsent # <<>> => n + Len(toDecoder) = BLOCK_LEN) /\ Listening(<<>>)
  <2>1. Quietly /\ UNCHANGED toDecoder /\ Listening(<<>>)'
    BY <1>5, HostQuiet
  <2>2. UNCHANGED <<hpc, request, unsent, outcome, served, dpc, hdr, packet, outbox, untold, toDecoder>>
    BY <2>1 DEF Quietly, decoderVars
  <2> QED
    BY <1>2, <1>5, <2>1, <2>2 DEF Receiving, Unseen, n
<1> QED
  BY <1>1, <1>3, <1>4, <1>5

\* The decoder reads a byte of a block: the ACK comes at its end and at the
\* end of the body, and nowhere else.
LEMMA ReceivingDecoder ==
  ASSUME TypeOK, Receiving, request \in Requests, DecoderStep
  PROVE  /\ UNCHANGED hostVars
         /\ \/ Receiving' /\ UNCHANGED served
            \/ unsent = <<>> /\ \E a \in AnswersTo(request) : Serves(a) /\ Done(a)'
<1>1. ReadBodyByte
  BY DEF Receiving, DecoderStep, ReadHeaderByte, ReadPacket, WritePacket, ReadAck
<1> DEFINE body == Append(packet.body, Head(toDecoder))
           m == Len(body)
           n == Len(packet.body) % BLOCK_LEN
           k == Len(toDecoder)
           len == Len(request.body)
           t == Tail(toDecoder)
<1>2. /\ hpc = "ack" /\ served = <<>>
      /\ dpc = "body" /\ hdr = <<>> /\ outbox = <<>> /\ untold = <<>>
      /\ packet.opcode = request.opcode /\ packet.len = len
      /\ packet.body \o (toDecoder \o unsent) = request.body
      /\ Len(packet.body) < len
  BY DEF Receiving
<1>3. /\ toDecoder # <<>> /\ toDecoder' = t
      /\ toHost' = IF AckDue(m, len) THEN toHost \o Ack ELSE toHost
      /\ IF m = len THEN Execute([opcode |-> packet.opcode, body |-> body])
                    ELSE packet' = [packet EXCEPT !.body = body] /\ UNCHANGED <<dpc, outbox, served>>
      /\ UNCHANGED hostVars /\ UNCHANGED <<hdr, untold>>
  BY <1>1, <1>2 DEF ReadBodyByte
<1>4. Listening(<<>>) /\ n + k <= BLOCK_LEN /\ (unsent # <<>> => n + k = BLOCK_LEN)
  BY <1>3 DEF Receiving
<1>5. packet.body \in B /\ toDecoder \in B /\ unsent \in B /\ request.body \in B
  BY Answers, SentHeader DEF TypeOK
<1>6. body \in B /\ t \in B /\ body \o t = packet.body \o toDecoder /\ Len(t) = k - 1 /\ m = Len(packet.body) + 1
  BY <1>3, <1>5, Shift
<1>7. Len(packet.body) \in Nat /\ k \in Nat /\ Len(t) \in Nat /\ m \in Nat /\ len \in Nat /\ Len(unsent) \in Nat
  BY <1>5, <1>6, Bytes
<1> HIDE DEF body, t, m, n, k, len
<1>8. body \o (t \o unsent) = request.body
  <2>1. body \o (t \o unsent) = (body \o t) \o unsent
    <3>1. body \in B /\ t \in B /\ unsent \in B
      BY <1>5, <1>6
    <3> QED
      BY <3>1, Assoc
  <2>2. (packet.body \o toDecoder) \o unsent = packet.body \o (toDecoder \o unsent)
    BY <1>5, Assoc
  <2> QED
    BY <1>2, <1>6, <2>1, <2>2
<1>9. len = m + (Len(t) + Len(unsent))
  <2>1. t \o unsent \in B /\ Len(t \o unsent) = Len(t) + Len(unsent)
    BY <1>5, <1>6, Bytes
  <2>2. Len(body \o (t \o unsent)) = Len(body) + Len(t \o unsent)
    BY <1>6, <2>1, Bytes
  <2> QED
    BY <1>8, <2>1, <2>2 DEF m, len
<1>10. UNCHANGED <<hpc, request, unsent, msg, stream>>
  BY <1>3 DEF hostVars
<1>11. toHost' = toHost \o Ack => Listening(Ack)'
  <2>1. <<>> \in B /\ Ack \in B /\ <<>> \o Ack = Ack
    BY None, AckHeader
  <2>2. toHost' = toHost \o Ack => Listening(<<>> \o Ack)'
    BY <1>4, <1>10, <2>1, ListenMore
  <2> QED
    BY <2>1, <2>2
<1>12. CASE m = len
  <2>1. Len(t) = 0 /\ Len(unsent) = 0
    BY <1>7, <1>9, <1>12
  <2>2. t = <<>> /\ unsent = <<>>
    BY <2>1, <1>5, <1>6, Bytes
  <2>3. body = request.body
    <3>1. t \o unsent = <<>> /\ body \o <<>> = body
      BY <2>2, <1>6, None
    <3> QED
      BY <3>1, <1>8
  <2>4. Execute(request)
    <3>1. request = [opcode |-> packet.opcode, body |-> body]
      BY <1>2, <2>3, Opcodes
    <3> QED
      BY <3>1, <1>3, <1>12
  <2>5. Listening(Ack)'
    BY <1>3, <1>11, <1>12 DEF AckDue
  <2>6. \E a \in AnswersTo(request) : Serves(a) /\ Done(a)'
    <3>1. hdr' = <<>> /\ toDecoder' = <<>> /\ UNCHANGED <<hostVars, untold>>
      BY <1>2, <1>3, <2>2
    <3> QED
      BY <1>2, <2>4, <2>5, <3>1, Executes
  <2> QED
    BY <1>3, <2>2, <2>6
<1>13. CASE m # len
  <2>1. packet' = [packet EXCEPT !.body = body] /\ UNCHANGED <<dpc, outbox, served>>
    BY <1>3, <1>13
  <2>2. packet'.opcode = packet.opcode /\ packet'.len = packet.len /\ packet'.body = body
    BY <2>1 DEF TypeOK
  <2>3. m < len
    BY <1>7, <1>9, <1>13
  <2>4. packet'.body \o (toDecoder' \o unsent') = request'.body /\ Len(packet'.body) < Len(request'.body)
    BY <1>3, <1>8, <1>10, <2>2, <2>3 DEF m, len
  <2>5. Len(packet'.body) % BLOCK_LEN = m % BLOCK_LEN
    BY <2>2 DEF m
  <2>6. n \in 0..(BLOCK_LEN - 1) /\ m % BLOCK_LEN = IF n + 1 = BLOCK_LEN THEN 0 ELSE n + 1
    <3>1. BLOCK_LEN \in Nat /\ BLOCK_LEN > 0
      BY HostLinkAssumption
    <3> QED
      BY <3>1, <1>6, <1>7, RestNext DEF n
  <2>7. Len(unsent) = 0 <=> unsent = <<>>
    BY <1>5, Bytes
  <2>8. Len(t) = 0 <=> t = <<>>
    BY <1>6, Bytes
  <2>9. CASE m % BLOCK_LEN = 0
    <3>1. n + 1 = BLOCK_LEN
      BY <2>6, <2>9
    <3>2. Len(t) = 0
      <4>1. n \in Nat /\ BLOCK_LEN \in Nat /\ Len(t) = k - 1 /\ Len(t) \in Nat /\ k \in Nat
        BY <2>6, <1>6, <1>7, HostLinkAssumption
      <4>2. n + 1 = BLOCK_LEN /\ n + k <= BLOCK_LEN
        BY <3>1, <1>4
      <4> QED
        BY <4>1, <4>2
    <3>3. toDecoder' = <<>>
      BY <3>2, <2>8, <1>3
    <3>4. Listening(Ack)'
      BY <1>3, <1>11, <2>9 DEF AckDue
    <3>5. Receiving'
      BY <1>2, <1>3, <1>10, <2>1, <2>2, <2>4, <2>5, <2>9, <3>3, <3>4 DEF Receiving, len
    <3> QED
      BY <1>3, <2>1, <3>5
  <2>10. CASE m % BLOCK_LEN # 0
    <3>1. m % BLOCK_LEN = n + 1 /\ n + 1 # BLOCK_LEN
      BY <2>6, <2>10
    <3>2. n + 1 + Len(t) = n + k /\ n \in Nat
      BY <1>6, <1>7, <2>6
    <3>3. t # <<>>
      <4>1. ASSUME Len(t) = 0 PROVE FALSE
        <5>1. Len(unsent) # 0
          BY <4>1, <1>7, <1>9, <2>3
        <5>2. n + k = BLOCK_LEN
          BY <5>1, <2>7, <1>4
        <5> QED
          BY <5>2, <3>1, <3>2, <4>1
      <4> QED
        BY <4>1, <2>8
    <3>4. /\ (m % BLOCK_LEN) + Len(toDecoder') <= BLOCK_LEN
          /\ unsent # <<>> => (m % BLOCK_LEN) + Len(toDecoder') = BLOCK_LEN
      BY <1>3, <1>4, <3>1, <3>2
    <3>5. toHost' = toHost
      <4>1. ~AckDue(m, len)
        BY <1>13, <2>10 DEF AckDue
      <4> QED
        BY <4>1, <1>3
    <3>6. Listening(<<>>)'
      BY <1>4, <1>10, <3>5 DEF Listening
    <3>7. toDecoder' # <<>>
      BY <1>3, <3>3
    <3>8. Receiving'
      BY <1>2, <1>3, <1>10, <2>1, <2>2, <2>4, <2>5, <3>4, <3>6, <3>7 DEF Receiving, len
    <3> QED
      BY <1>3, <2>1, <3>8
  <2> QED
    BY <2>9, <2>10
<1> QED
  BY <1>12, <1>13

-----------------------------------------------------------------------------
(* The answer. *)

\* A host that has taken a message reads on behind it.
LEMMA ListenOn ==
  ASSUME NEW w \in B, NEW d \in Chatter, msg' = NoMessage, stream' = <<>>, toHost' = d \o w
  PROVE  Listening(w)'
<1>1. <<>> \in B /\ NoMagic(<<>>) /\ d \o w \in B
  BY None, NoMagicNone, ChatterBegins, Bytes
<1>2. toHost' = <<>> \o (d \o w)
  BY <1>1, None
<1>3. Hears(msg', stream', toHost', d \o w)
  BY <1>1, <1>2 DEF Hears
<1> QED
  BY <1>3 DEF Listening

\* The host gets the last ACK, or the header of the answer.
LEMMA AwaitsHost ==
  ASSUME TypeOK, HostStep, unsent = <<>>, NEW op \in Opcode, NEW n \in 0..MaxLen,
         NEW h \in {<<>>, Pack(op, n)}, Awaits(h)
  PROVE  /\ UNCHANGED <<request, outcome, decoderVars, served>> /\ unsent' = <<>>
         /\ \/ Awaits(h)' /\ UNCHANGED toDecoder /\ hpc # "idle" /\ hpc' # "idle"
            \/ /\ h # <<>> /\ hpc = "response" /\ hpc' = "response" /\ toHost' = <<>> /\ stream' = <<>>
               /\ msg' = [opcode |-> op, len |-> n, body |-> <<>>]
               /\ toDecoder' = toDecoder \o HostAck(op)
<1>1. h \in B /\ <<>> \in B /\ (h = <<>> \/ h = Pack(op, n) \o <<>>)
  BY None, Header
<1>2. ASSUME hpc = "ack", NEW d \in Chatter, Listening(Ack \o (d \o h))
      PROVE  /\ UNCHANGED <<request, outcome, decoderVars, served>> /\ unsent' = <<>>
             /\ Awaits(h)' /\ UNCHANGED toDecoder /\ hpc # "idle" /\ hpc' # "idle"
  <2>1. d \o h \in B
    BY <1>1, ChatterBegins, Bytes
  <2>2. Quietly /\ UNCHANGED toDecoder /\ (Listening(Ack \o (d \o h))' \/ AckHeld(d \o h)')
    BY <1>2, <2>1, AckComes
  <2>3. hpc' = "ack" /\ UNCHANGED <<request, unsent, outcome, decoderVars, served>>
    BY <1>2, <2>2 DEF Quietly
  <2>4. Awaits(h)'
    BY <2>2, <2>3 DEF Awaits
  <2> QED
    BY <1>2, <2>2, <2>3, <2>4
<1>3. ASSUME hpc = "ack", NEW d \in Chatter, AckHeld(d \o h)
      PROVE  /\ UNCHANGED <<request, outcome, decoderVars, served>> /\ unsent' = <<>>
             /\ Awaits(h)' /\ UNCHANGED toDecoder /\ hpc # "idle" /\ hpc' # "idle"
  <2>1. /\ UNCHANGED <<request, outcome, stream, toHost, decoderVars, served>> /\ msg' = NoMessage
        /\ hpc' = "response" /\ UNCHANGED <<unsent, toDecoder>>
    BY <1>3, AckTaken
  <2>2. stream' = <<>> /\ toHost' = d \o h
    BY <1>3, <2>1 DEF AckHeld
  <2>3. Listening(h)'
    BY <1>1, <2>1, <2>2, ListenOn
  <2>4. Awaits(h)'
    BY <2>1, <2>3 DEF Awaits
  <2> QED
    BY <1>3, <2>1, <2>4
<1>4. CASE hpc = "response" /\ Listening(h)
  <2>1. /\ Quietly
        /\ \/ UNCHANGED toDecoder /\ Listening(h)'
           \/ /\ h # <<>> /\ toHost' = <<>> /\ stream' = <<>>
              /\ msg' = [opcode |-> op, len |-> n, body |-> <<>>]
              /\ toDecoder' = toDecoder \o HostAck(op)
    BY <1>1, <1>4, HostHears
  <2>2. hpc' = "response" /\ UNCHANGED <<request, unsent, outcome, decoderVars, served>>
    BY <1>4, <2>1 DEF Quietly
  <2>3. Listening(h)' => Awaits(h)'
    BY <2>2 DEF Awaits
  <2> QED
    BY <1>4, <2>1, <2>2, <2>3
<1> QED
  BY <1>2, <1>3, <1>4 DEF Awaits

\* The decoder writes a remark, or the header of the answer.
LEMMA AwaitsMore ==
  ASSUME TypeOK, Awaits(<<>>), UNCHANGED <<hpc, msg, stream>>, NEW h \in B
  PROVE  /\ toHost' = toHost \o Dbg => Awaits(<<>>)'
         /\ toHost' = toHost \o h => Awaits(h)'
<1>1. \A d \in Chatter : d \in B /\ d \o <<>> = d
  BY ChatterBegins, None
<1>2. ASSUME hpc = "ack", NEW d \in Chatter, Listening(Ack \o d), NEW x \in B, toHost' = toHost \o x
      PROVE  Listening(Ack \o (d \o x))'
  <2>1. Ack \in B /\ Ack \o d \in B
    BY <1>1, AckHeader, Bytes
  <2>2. Listening((Ack \o d) \o x)'
    <3> DEFINE w == Ack \o d
    <3>1. w \in B /\ Listening(w)
      BY <1>2, <2>1
    <3> HIDE DEF w
    <3>2. Listening(w \o x)'
      BY <1>2, <3>1, ListenMore
    <3> QED
      BY <3>2 DEF w
  <2>3. (Ack \o d) \o x = Ack \o (d \o x)
    BY <1>1, <2>1, Assoc
  <2> QED
    BY <2>2, <2>3
<1>3. ASSUME hpc = "ack", NEW d \in Chatter, AckHeld(d), NEW x \in B, toHost' = toHost \o x
      PROVE  AckHeld(d \o x)'
  BY <1>3 DEF AckHeld
<1>4. ASSUME toHost' = toHost \o Dbg PROVE Awaits(<<>>)'
  <2>1. CASE hpc = "ack"
    <3>1. PICK d \in Chatter : Listening(Ack \o (d \o <<>>)) \/ AckHeld(d \o <<>>)
      BY <2>1 DEF Awaits
    <3>2. Listening(Ack \o d) \/ AckHeld(d)
      BY <1>1, <3>1
    <3>3. Listening(Ack \o (d \o Dbg))' \/ AckHeld(d \o Dbg)'
      BY <1>2, <1>3, <1>4, <2>1, <3>2, DbgBytes
    <3>4. d \o Dbg \in Chatter /\ (d \o Dbg) \o <<>> = d \o Dbg
      BY <1>1, ChatterMore
    <3>5. Listening(Ack \o ((d \o Dbg) \o <<>>))' \/ AckHeld((d \o Dbg) \o <<>>)'
      BY <3>3, <3>4
    <3> QED
      BY <2>1, <3>4, <3>5 DEF Awaits
  <2>2. CASE hpc = "response" /\ Listening(<<>>)
    BY <1>4, <2>2, ListenChatter DEF Awaits
  <2> QED
    BY <2>1, <2>2 DEF Awaits
<1>5. ASSUME toHost' = toHost \o h PROVE Awaits(h)'
  <2>1. CASE hpc = "ack"
    <3>1. PICK d \in Chatter : Listening(Ack \o (d \o <<>>)) \/ AckHeld(d \o <<>>)
      BY <2>1 DEF Awaits
    <3>2. Listening(Ack \o d) \/ AckHeld(d)
      BY <1>1, <3>1
    <3>3. Listening(Ack \o (d \o h))' \/ AckHeld(d \o h)'
      BY <1>2, <1>3, <1>5, <2>1, <3>2
    <3> QED
      BY <2>1, <3>3 DEF Awaits
  <2>2. CASE hpc = "response" /\ Listening(<<>>)
    <3>1. <<>> \in B /\ <<>> \o h = h
      BY None
    <3>2. Listening(<<>> \o h)'
      BY <1>5, <2>2, <3>1, ListenMore
    <3> QED
      BY <2>2, <3>1, <3>2 DEF Awaits
  <2> QED
    BY <2>1, <2>2 DEF Awaits
<1> QED
  BY <1>4, <1>5

\* A call that has been served goes on until the response is returned.
InCall == UNCHANGED <<request, outcome, served>> /\ unsent' = <<>> /\ hpc # "idle" /\ hpc' # "idle"

\* The answer to a request is one of these.
Reply == {a \in Sendable : a.opcode \notin {ACK, DEBUG, 0}}

\* An answer can be sent, and the host acknowledges it.
LEMMA Replies ==
  /\ \A p : AnswersTo(p) \subseteq Reply
  /\ \A a \in Reply : /\ a \in Sendable /\ a.opcode \in Opcode /\ a.body \in B /\ Len(a.body) \in 0..MaxLen
                      /\ Hdr(a) = Pack(a.opcode, Len(a.body)) /\ Hdr(a) \in B
                      /\ HostAck(a.opcode) = Ack
<1>1. \A p : AnswersTo(p) \subseteq Reply
  BY Answers, Opcodes DEF Reply
<1>2. ASSUME NEW a \in Reply
      PROVE  /\ a \in Sendable /\ a.opcode \in Opcode /\ a.body \in B /\ Len(a.body) \in 0..MaxLen
             /\ Hdr(a) = Pack(a.opcode, Len(a.body)) /\ Hdr(a) \in B
  BY SentHeader DEF Reply, Hdr
<1>3. ASSUME NEW a \in Reply PROVE HostAck(a.opcode) = Ack
  BY DEF Reply, HostAck, NACK_MSGS
<1> QED
  BY <1>1, <1>2, <1>3

\* The host answers what it has got with an ACK.
LEMMA AckSent ==
  ASSUME TypeOK, hdr = <<>>, toDecoder = <<>>, hdr' = <<>>, toDecoder' = toDecoder \o Ack
  PROVE  Pending(Ack)' /\ Pending(Ack \o <<>>)'
<1>1. <<>> \o Ack = Ack /\ Ack \o <<>> = Ack
  BY None, AckHeader
<1>2. Len(<<>>) <= 4
  OBVIOUS
<1>3. hdr' \o toDecoder' = Ack /\ Len(hdr') <= 4
  BY <1>1, <1>2
<1> QED
  BY <1>1, <1>3 DEF Pending

\* The host reads up to the header of the answer.
LEMMA DoneHost ==
  ASSUME TypeOK, HostStep, unsent = <<>>, NEW a \in Reply, Done(a)
  PROVE  InCall /\ (Done(a)' \/ Replied(a)' \/ Last(a)')
<1> DEFINE op == a.opcode
           n == Len(a.body)
<1>1. op \in Opcode /\ n \in 0..MaxLen /\ Hdr(a) = Pack(op, n) /\ a.body \in B /\ HostAck(op) = Ack /\ a \in Sendable
  BY Replies
<1>2. PICK h \in {<<>>, Pack(op, n)} : Writes(a, h) /\ Awaits(h)
  BY <1>1 DEF Done
<1> HIDE DEF op, n
<1>3. hdr = <<>> /\ toDecoder = <<>> /\ packet = NoMessage
  BY DEF Done
<1>4. /\ UNCHANGED <<request, outcome, decoderVars, served>> /\ unsent' = <<>>
      /\ \/ Awaits(h)' /\ UNCHANGED toDecoder /\ hpc # "idle" /\ hpc' # "idle"
         \/ /\ h # <<>> /\ hpc = "response" /\ hpc' = "response" /\ toHost' = <<>> /\ stream' = <<>>
            /\ msg' = [opcode |-> op, len |-> n, body |-> <<>>]
            /\ toDecoder' = toDecoder \o HostAck(op)
  BY <1>1, <1>2, AwaitsHost
<1>5. UNCHANGED <<request, outcome, served>> /\ unsent' = <<>> /\ UNCHANGED <<dpc, hdr, packet, outbox, untold>>
  BY <1>4 DEF decoderVars
<1>6. CASE Awaits(h)' /\ UNCHANGED toDecoder /\ hpc # "idle" /\ hpc' # "idle"
  <2>1. Writes(a, h)'
    BY <1>2, <1>5 DEF Writes
  <2>2. Done(a)'
    BY <1>1, <1>2, <1>3, <1>5, <1>6, <2>1 DEF Done
  <2> QED
    BY <1>5, <1>6, <2>2 DEF InCall
<1>7. CASE /\ h # <<>> /\ hpc = "response" /\ hpc' = "response" /\ toHost' = <<>> /\ stream' = <<>>
           /\ msg' = [opcode |-> op, len |-> n, body |-> <<>>]
           /\ toDecoder' = toDecoder \o HostAck(op)
  <2>1. InCall
    BY <1>5, <1>7 DEF InCall
  <2>2. dpc' = "ack" /\ untold' = a.body /\ outbox' = <<a, Debug>>
    BY <1>2, <1>5, <1>7 DEF Writes
  <2>3. Pending(Ack)' /\ Pending(Ack \o <<>>)'
    BY <1>1, <1>3, <1>5, <1>7, AckSent
  <2>4. packet' = NoMessage /\ stream' = <<>> /\ toHost' = <<>>
    BY <1>3, <1>5, <1>7
  <2>5. CASE a.body = <<>>
    <3>1. Settled(<<>>)'
      BY <1>1, <2>2, <2>3, <2>4, <2>5 DEF Settled
    <3>2. msg' = [opcode |-> a.opcode, len |-> Len(a.body), body |-> a.body]
      BY <1>7, <2>5 DEF op, n
    <3>3. toHost' \in Chatter
      BY <2>4, ChatterBegins
    <3>4. Last(a)'
      BY <1>7, <2>4, <3>1, <3>2, <3>3 DEF Last
    <3> QED
      BY <2>1, <3>4
  <2>6. CASE a.body # <<>>
    <3>1. msg'.opcode = a.opcode /\ msg'.len = Len(a.body) /\ msg'.body = <<>>
      BY <1>7 DEF op, n
    <3>2. msg'.body \o untold' = a.body
      <4>1. <<>> \o a.body = a.body
        BY <1>1, None
      <4> QED
        BY <2>2, <3>1, <4>1
    <3>3. Replied(a)'
      BY <1>7, <2>2, <2>3, <2>4, <2>6, <3>1, <3>2 DEF Replied
    <3> QED
      BY <2>1, <3>3
  <2> QED
    BY <2>5, <2>6
<1> QED
  BY <1>4, <1>6, <1>7

\* The decoder writes up to the header of the answer.
LEMMA DoneDecoder ==
  ASSUME TypeOK, DecoderStep, NEW a \in Reply, Done(a)
  PROVE  UNCHANGED hostVars /\ UNCHANGED served /\ Done(a)'
<1>1. a \in Sendable /\ Hdr(a) \in B /\ Hdr(a) = Pack(a.opcode, Len(a.body)) /\ a.opcode # DEBUG
  BY Replies DEF Reply
<1>2. PICK h \in {<<>>, Hdr(a)} : Writes(a, h) /\ Awaits(h)
  BY DEF Done
<1>3. hdr = <<>> /\ toDecoder = <<>> /\ packet = NoMessage
  BY DEF Done
<1>4. ~ReadHeaderByte /\ ~ReadBodyByte
  BY <1>3 DEF ReadHeaderByte, ReadBodyByte
<1>5. ~ReadPacket /\ ~ReadAck
  <2>1. Len(hdr) = 0
    BY <1>3
  <2> QED
    BY <2>1 DEF ReadPacket, ReadAck
<1>6. WritePacket
  BY <1>4, <1>5 DEF DecoderStep
<1>7. /\ h = <<>> /\ dpc = "write" /\ untold = <<>>
      /\ outbox \in {<<a, Debug>>, <<Debug, a, Debug>>, <<Debug, Debug, a, Debug>>}
  BY <1>2, <1>6 DEF Writes, WritePacket
<1>8. Awaits(<<>>)
  BY <1>2, <1>7
<1>9. CASE outbox \in {<<Debug, a, Debug>>, <<Debug, Debug, a, Debug>>}
  <2>1. Head(outbox) = Debug /\ Tail(outbox) \in {<<a, Debug>>, <<Debug, a, Debug>>}
    <3>1. CASE outbox = <<Debug, a, Debug>>
      BY <3>1, Pops
    <3>2. CASE outbox = <<Debug, Debug, a, Debug>>
      BY <3>2, Pops
    <3> QED
      BY <1>9, <3>1, <3>2
  <2>2. Tail(outbox) # <<>>
    <3>1. <<a, Debug>> # <<>> /\ <<Debug, a, Debug>> # <<>>
      BY Pops
    <3> QED
      BY <2>1, <3>1
  <2>3. /\ toHost' = toHost \o Dbg /\ outbox' = Tail(outbox)
        /\ dpc' = "write"
        /\ UNCHANGED <<hostVars, toDecoder, hdr, packet, served, untold>>
    BY <1>7, <2>1, <2>2, DebugWritten
  <2>4. UNCHANGED <<hpc, msg, stream>>
    BY <2>3 DEF hostVars
  <2>5. Awaits(<<>>)'
    BY <1>1, <1>8, <2>3, <2>4, AwaitsMore
  <2>6. Writes(a, <<>>)'
    BY <1>7, <2>1, <2>3 DEF Writes
  <2>7. Done(a)'
    BY <1>3, <2>3, <2>5, <2>6 DEF Done
  <2> QED
    BY <2>3, <2>7
<1>10. CASE outbox = <<a, Debug>>
  <2>1. Head(outbox) = a
    BY <1>10, Pops
  <2>2. /\ toHost' = toHost \o Hdr(a) /\ untold' = a.body /\ dpc' = "ack" /\ UNCHANGED outbox
        /\ UNCHANGED <<hostVars, toDecoder, hdr, packet, served>>
    BY <1>1, <1>6, <2>1 DEF WritePacket
  <2>3. UNCHANGED <<hpc, msg, stream>>
    BY <2>2 DEF hostVars
  <2>4. Awaits(Hdr(a))'
    BY <1>1, <1>8, <2>2, <2>3, AwaitsMore
  <2>5. Writes(a, Hdr(a))'
    BY <1>10, <2>2 DEF Writes
  <2>6. Done(a)'
    BY <1>3, <2>2, <2>4, <2>5 DEF Done
  <2> QED
    BY <2>2, <2>6
<1> QED
  BY <1>7, <1>9, <1>10

\* The host reads a whole block of the answer, and acknowledges it.
LEMMA RepliedHost ==
  ASSUME TypeOK, HostStep, unsent = <<>>, NEW a \in Reply, Replied(a)
  PROVE  InCall /\ (Replied(a)' \/ Last(a)')
<1>1. /\ hpc = "response" /\ stream = <<>>
      /\ dpc = "ack" /\ outbox = <<a, Debug>> /\ packet = NoMessage
      /\ msg.opcode = a.opcode /\ msg.len = Len(a.body)
  BY DEF Replied
<1>2. a \in Sendable /\ a.body \in B /\ HostAck(a.opcode) = Ack
  BY Replies
<1>3. msg # NoMessage
  BY <1>1, NotTold DEF Reply
<1>4. ~HostReadByte
  BY <1>3 DEF HostReadByte
<1>5. msg.body \in B /\ untold \in B /\ toHost \in B
  BY DEF TypeOK
<1>6. Len(msg.body) \in Nat /\ Len(untold) \in Nat /\ Len(toHost) \in Nat /\ Len(a.body) \in Nat /\ BLOCK_LEN \in Nat /\ BLOCK_LEN > 0
  BY <1>2, <1>5, Bytes, HostLinkAssumption
<1>7. CASE Pending(Ack) /\ toHost = <<>> /\ msg.body \o untold = a.body /\ untold # <<>>
  <2>1. Len(a.body) = Len(msg.body) + Len(untold) /\ Len(untold) # 0
    <3>1. Len(msg.body \o untold) = Len(msg.body) + Len(untold)
      BY <1>5, Bytes
    <3>2. Len(untold) # 0
      BY <1>5, <1>7, Bytes
    <3> QED
      BY <1>7, <3>1, <3>2
  <2>2. Len(toHost) = 0
    BY <1>7
  <2>3. msg.len - Len(msg.body) = Len(untold)
    BY <1>1, <1>6, <2>1
  <2>4. BlockLeft > 0
    BY <1>6, <2>1, <2>3 DEF BlockLeft
  <2>5. BlockLeft \in Nat
    BY <1>6, <2>3 DEF BlockLeft
  <2>6. ~HostReadBlock
    BY <2>2, <2>4, <2>5 DEF HostReadBlock
  <2>7. Len(msg.body) # msg.len
    BY <1>1, <1>6, <2>1
  <2> QED
    BY <1>4, <2>6, <2>7 DEF HostStep, HostMessage
<1>8. CASE /\ hdr = <<>> /\ toDecoder = <<>> /\ toHost # <<>>
           /\ msg.body \o (toHost \o untold) = a.body
           /\ Len(toHost) <= BLOCK_LEN /\ (untold # <<>> => Len(toHost) = BLOCK_LEN)
  <2>1. Len(a.body) = Len(msg.body) + (Len(toHost) + Len(untold)) /\ Len(toHost) # 0
    <3>1. toHost \o untold \in B /\ Len(toHost \o untold) = Len(toHost) + Len(untold) /\ Len(toHost) # 0
      BY <1>5, <1>8, Bytes
    <3>2. Len(msg.body \o (toHost \o untold)) = Len(msg.body) + Len(toHost \o untold)
      BY <1>5, <3>1, Bytes
    <3> QED
      BY <1>8, <3>1, <3>2
  <2>2. msg.len - Len(msg.body) = Len(toHost) + Len(untold)
    BY <1>1, <1>6, <2>1
  <2>3. untold = <<>> => Len(untold) = 0
    BY <1>5, Bytes
  <2>4. BlockLeft = Len(toHost)
    <3>1. CASE untold = <<>>
      <4>1. msg.len - Len(msg.body) = Len(toHost) /\ Len(toHost) <= BLOCK_LEN
        BY <1>6, <1>8, <2>2, <2>3, <3>1
      <4> QED
        BY <1>6, <4>1 DEF BlockLeft
    <3>2. CASE untold # <<>>
      <4>1. msg.len - Len(msg.body) = BLOCK_LEN + Len(untold) /\ Len(toHost) = BLOCK_LEN
        BY <1>8, <2>2, <3>2
      <4> QED
        BY <1>6, <4>1 DEF BlockLeft
    <3> QED
      BY <3>1, <3>2
  <2>5. HostReadBlock
    <3>1. Len(msg.body) # msg.len
      <4>1. Len(a.body) # Len(msg.body)
        <5> DEFINE x == Len(msg.body)
                   y == Len(toHost)
                   z == Len(untold)
        <5>1. x \in Nat /\ y \in Nat /\ z \in Nat /\ y # 0 /\ Len(a.body) = x + (y + z)
          BY <1>6, <2>1
        <5> HIDE DEF x, y, z
        <5>2. x + (y + z) # x
          BY <5>1
        <5> QED
          BY <5>1, <5>2 DEF x
      <4> QED
        BY <1>1, <4>1
    <3> QED
      BY <1>4, <3>1 DEF HostStep, HostMessage
  <2> DEFINE k == Len(toHost)
  <2>6. /\ msg' = [msg EXCEPT !.body = @ \o SubSeq(toHost, 1, k)]
        /\ toHost' = SubSeq(toHost, k + 1, Len(toHost))
        /\ toDecoder' = toDecoder \o Ack
        /\ UNCHANGED <<hpc, request, unsent, stream, outcome, decoderVars, served, faults>>
    BY <1>1, <1>2, <2>4, <2>5 DEF HostReadBlock
  <2>7. SubSeq(toHost, 1, k) = toHost /\ toHost' = <<>>
    <3>1. /\ SubSeq(toHost, 1, k) \in B /\ SubSeq(toHost, k + 1, Len(toHost)) \in B
          /\ Len(SubSeq(toHost, k + 1, Len(toHost))) = Len(toHost) - k
          /\ SubSeq(toHost, 1, k) \o SubSeq(toHost, k + 1, Len(toHost)) = toHost
      <4>1. k \in 0..Len(toHost)
        BY <1>6
      <4> HIDE DEF k
      <4> QED
        BY <1>5, <4>1, Cut
    <3>2. Len(toHost) - k = 0
      BY <1>6
    <3> HIDE DEF k
    <3>3. SubSeq(toHost, k + 1, Len(toHost)) = <<>>
      BY <3>1, <3>2, Bytes
    <3>4. SubSeq(toHost, 1, k) \o <<>> = SubSeq(toHost, 1, k)
      BY <3>1, None
    <3> QED
      BY <2>6, <3>1, <3>3, <3>4
  <2> HIDE DEF k
  <2>8. msg'.opcode = msg.opcode /\ msg'.len = msg.len /\ msg'.body = msg.body \o toHost
    BY <2>6, <2>7 DEF TypeOK
  <2>9. UNCHANGED <<hpc, request, unsent, stream, outcome, served, dpc, hdr, packet, outbox, untold>>
    BY <2>6 DEF decoderVars
  <2>10. Pending(Ack)' /\ Pending(Ack \o <<>>)'
    BY <1>8, <2>6, <2>9, AckSent
  <2>11. msg'.body \o untold' = a.body
    <3>1. (msg.body \o toHost) \o untold = msg.body \o (toHost \o untold)
      BY <1>5, Assoc
    <3> QED
      BY <1>8, <2>8, <2>9, <3>1
  <2>12. InCall
    BY <1>1, <2>9 DEF InCall
  <2>13. CASE untold # <<>>
    <3>1. Replied(a)'
      BY <1>1, <2>7, <2>8, <2>9, <2>10, <2>11, <2>13 DEF Replied
    <3> QED
      BY <2>12, <3>1
  <2>14. CASE untold = <<>>
    <3>1. msg'.body = a.body
      <4>1. msg.body \o toHost \in B
        BY <1>5, Bytes
      <4>2. (msg.body \o toHost) \o <<>> = msg.body \o toHost
        BY <4>1, None
      <4> QED
        BY <2>8, <2>9, <2>11, <2>14, <4>2
    <3>2. msg' = [opcode |-> a.opcode, len |-> Len(a.body), body |-> a.body]
      <4>1. msg' = [opcode |-> msg'.opcode, len |-> msg'.len, body |-> msg'.body]
        BY <2>6 DEF TypeOK
      <4> QED
        BY <1>1, <2>8, <3>1, <4>1
    <3>3. Settled(<<>>)'
      BY <1>1, <1>2, <2>9, <2>10, <2>14 DEF Settled
    <3>4. toHost' \in Chatter
      BY <2>7, ChatterBegins
    <3>5. Last(a)'
      BY <1>1, <2>9, <3>2, <3>3, <3>4 DEF Last
    <3> QED
      BY <2>12, <3>5
  <2> QED
    BY <2>13, <2>14
<1> QED
  BY <1>7, <1>8 DEF Replied

\* The decoder reads the ACK and writes the next block.
LEMMA RepliedDecoder ==
  ASSUME TypeOK, DecoderStep, NEW a \in Reply, Replied(a)
  PROVE  UNCHANGED hostVars /\ UNCHANGED served /\ Replied(a)'
<1>1. /\ hpc = "response" /\ stream = <<>>
      /\ dpc = "ack" /\ outbox = <<a, Debug>> /\ packet = NoMessage
      /\ msg.opcode = a.opcode /\ msg.len = Len(a.body)
  BY DEF Replied
<1>2. ReadHeaderByte \/ ReadAck
  BY <1>1 DEF DecoderStep, ReadBodyByte, WritePacket, ReadPacket
<1>3. Pending(Ack) /\ toHost = <<>> /\ msg.body \o untold = a.body /\ untold # <<>>
  <2>1. ASSUME hdr = <<>>, toDecoder = <<>> PROVE FALSE
    <3>1. ~ReadHeaderByte
      BY <2>1 DEF ReadHeaderByte
    <3>2. Len(hdr) = 0
      BY <2>1
    <3> QED
      BY <1>2, <3>1, <3>2 DEF ReadAck
  <2> QED
    BY <2>1 DEF Replied
<1>4. Ack \in B /\ Ack # <<>> /\ Len(Ack) = 4 /\ Ack[1] = MSG_MAGIC /\ Ack \o <<>> = Ack /\ <<>> \in B
  <2>1. Ack # <<>>
    BY DEF Ack, Pack
  <2> QED
    BY <2>1, AckHeader, None
<1>5. Pending(Ack \o <<>>)
  BY <1>3, <1>4
<1>6. CASE ReadHeaderByte
  <2>1. Pending(Ack \o <<>>)' /\ UNCHANGED <<hostVars, toHost, dpc, packet, outbox, untold, served>>
    BY <1>4, <1>5, <1>6, PendingByte
  <2>2. Pending(Ack)'
    BY <1>4, <2>1
  <2>3. UNCHANGED <<hpc, stream, msg>>
    BY <2>1 DEF hostVars
  <2>4. Replied(a)'
    BY <1>1, <1>3, <2>1, <2>2, <2>3 DEF Replied
  <2> QED
    BY <2>1, <2>4
<1>7. CASE ReadAck
  <2>1. Len(hdr) = 4
    BY <1>7 DEF ReadAck
  <2>2. hdr = Ack /\ toDecoder = <<>>
    BY <1>4, <1>5, <2>1, PendingHeader
  <2>3. /\ hdr' = <<>> /\ toHost' = toHost \o BlockOf(untold) /\ untold' = AfterBlock(untold)
        /\ UNCHANGED <<dpc, outbox>> /\ UNCHANGED <<hostVars, toDecoder, packet, served>>
    BY <1>3, <1>7 DEF ReadAck
  <2>4. untold \in B /\ msg.body \in B
    BY DEF TypeOK
  <2>5. /\ BlockOf(untold) \in B /\ AfterBlock(untold) \in B /\ BlockOf(untold) \o AfterBlock(untold) = untold
        /\ Len(BlockOf(untold)) <= BLOCK_LEN /\ BlockOf(untold) # <<>>
        /\ AfterBlock(untold) # <<>> => Len(BlockOf(untold)) = BLOCK_LEN
    BY <1>3, <2>4, Block
  <2>6. toHost' = BlockOf(untold)
    BY <1>3, <2>3, <2>5, None
  <2>7. UNCHANGED <<hpc, stream, msg>>
    BY <2>3 DEF hostVars
  <2>8. msg'.body \o (toHost' \o untold') = a.body
    BY <1>3, <2>3, <2>5, <2>6, <2>7
  <2>9. Replied(a)'
    BY <1>1, <2>2, <2>3, <2>5, <2>6, <2>7, <2>8 DEF Replied
  <2> QED
    BY <2>3, <2>9
<1> QED
  BY <1>2, <1>6, <1>7

\* The call returns what the decoder answered.
LEMMA LastHost ==
  ASSUME TypeOK, HostStep, request \in Requests, NEW a \in AnswersTo(request), Last(a)
  PROVE  Idle' /\ UNCHANGED <<request, served>> /\ outcome' = OutcomeOf(a)
<1>1. /\ hpc = "response" /\ stream = <<>>
      /\ msg = [opcode |-> a.opcode, len |-> Len(a.body), body |-> a.body]
      /\ toHost \in Chatter /\ Settled(<<>>)
  BY DEF Last
<1>2. a \in Reply /\ a.opcode \notin {ACK, DEBUG, 0} /\ a.body \in B /\ Len(a.body) \in Nat
  BY Replies, Opcodes, Bytes
<1>3. msg.opcode = a.opcode /\ msg.len = Len(a.body) /\ msg.body = a.body /\ msg # NoMessage
  BY <1>1, <1>2, NotTold
<1>4. HostMessage
  <2>1. ~HostReadByte
    BY <1>3 DEF HostReadByte
  <2>2. ~HostReadBlock
    BY <1>2, <1>3 DEF HostReadBlock
  <2> QED
    BY <2>1, <2>2 DEF HostStep
<1>5. msg' = NoMessage /\ UNCHANGED <<request, stream, toHost, decoderVars, served>>
  BY <1>4 DEF HostMessage
<1>6. /\ a = [opcode |-> a.opcode, body |-> a.body]
      /\ a.opcode # ERROR => a.opcode = request.opcode /\ (a.opcode = SUBSCRIBE => a.body = <<>>)
  <2>1. request.opcode \in {DECODE, SUBSCRIBE, LIST}
    BY HostLinkAssumption
  <2> QED
    BY <2>1 DEF AnswersTo, Error, DECODE, SUBSCRIBE, LIST, ERROR
<1>7. Return(OutcomeOf(a))
  <2>1. CASE a.opcode = ERROR
    <3>1. Return(Failed)
      BY <1>3, <1>4, <2>1 DEF HostMessage, DEBUG, ERROR
    <3> QED
      BY <3>1, <2>1 DEF OutcomeOf
  <2>2. CASE a.opcode # ERROR
    <3>1. Response
      BY <1>1, <1>2, <1>3, <1>4, <2>2 DEF HostMessage, SendNext, BadAck
    <3>2. Return(a)
      BY <1>3, <1>6, <2>2, <3>1 DEF Response
    <3> QED
      BY <3>2, <2>2 DEF OutcomeOf
  <2> QED
    BY <2>1, <2>2
<1>8. hpc' = "idle" /\ outcome' = OutcomeOf(a) /\ UNCHANGED toDecoder
  BY <1>7 DEF Return
<1>9. UNCHANGED <<dpc, hdr, packet, outbox, untold, toDecoder>>
  BY <1>5, <1>8 DEF decoderVars
<1>10. Settled(<<>>)'
  BY <1>1, <1>9 DEF Settled, Pending
<1> QED
  BY <1>1, <1>5, <1>8, <1>10 DEF Idle

\* The decoder reads the last ACK and says that it is ready.
LEMMA LastDecoder ==
  ASSUME TypeOK, DecoderStep, NEW a \in Reply, Last(a)
  PROVE  UNCHANGED hostVars /\ UNCHANGED served /\ Last(a)'
<1>1. <<>> \in B /\ Settled(<<>>)
  BY None DEF Last
<1>2. /\ Settled(<<>>)' /\ UNCHANGED <<hostVars, served>>
      /\ toHost' = toHost \/ toHost' = toHost \o Dbg
  BY <1>1, SettledStep
<1>3. toHost' \in Chatter
  BY <1>2, ChatterMore DEF Last
<1>4. UNCHANGED <<hpc, msg, stream>>
  BY <1>2 DEF hostVars
<1> QED
  BY <1>2, <1>3, <1>4 DEF Last

-----------------------------------------------------------------------------
(* Every step, and the theorems. *)

\* A call has been made and not yet returned.
InPhase == request \in Requests /\ outcome = Nothing

\* A host step while the answer is on its way.
LEMMA AnsweringHost ==
  ASSUME TypeOK, InPhase, HostStep, Answering
  PROVE  \/ InPhase' /\ Answering' /\ InCall
         \/ Idle' /\ Calls!Return
<1>1. PICK a \in AnswersTo(request) :
        /\ served = <<[request |-> request, answer |-> a]>> /\ unsent = <<>>
        /\ Done(a) \/ Replied(a) \/ Last(a)
  BY DEF Answering
<1>2. a \in Reply
  BY Replies
<1>3. CASE Done(a) \/ Replied(a)
  <2>1. InCall /\ (Done(a)' \/ Replied(a)' \/ Last(a)')
    BY <1>1, <1>2, <1>3, DoneHost, RepliedHost
  <2>2. InPhase' /\ request' = request /\ served' = served /\ unsent' = <<>>
    BY <2>1 DEF InCall, InPhase
  <2>3. a \in AnswersTo(request')
    BY <2>2
  <2>4. Answering'
    BY <1>1, <2>1, <2>2, <2>3 DEF Answering
  <2> QED
    BY <2>1, <2>2, <2>4
<1>4. CASE Last(a)
  <2>1. Idle' /\ UNCHANGED <<request, served>> /\ outcome' = OutcomeOf(a)
    BY <1>1, <1>4, LastHost DEF InPhase
  <2>2. served # <<>> /\ served[1].answer = a
    BY <1>1
  <2>3. hpc # "idle" /\ hpc' = "idle"
    BY <1>4, <2>1 DEF Last, Idle
  <2>4. Calls!Return
    BY <2>1, <2>2, <2>3 DEF Calls!Return
  <2> QED
    BY <2>1, <2>4
<1> QED
  BY <1>1, <1>3, <1>4

\* A decoder step while the answer is on its way.
LEMMA AnsweringDecoder ==
  ASSUME TypeOK, InPhase, DecoderStep, Answering
  PROVE  InPhase' /\ Answering' /\ Unseen
<1>1. PICK a \in AnswersTo(request) :
        /\ served = <<[request |-> request, answer |-> a]>> /\ unsent = <<>>
        /\ Done(a) \/ Replied(a) \/ Last(a)
  BY DEF Answering
<1>2. a \in Reply
  BY Replies
<1>3. UNCHANGED hostVars /\ UNCHANGED served /\ (Done(a)' \/ Replied(a)' \/ Last(a)')
  BY <1>1, <1>2, DoneDecoder, RepliedDecoder, LastDecoder
<1>4. UNCHANGED <<hpc, request, unsent, outcome, served>>
  BY <1>3 DEF hostVars
<1>5. a \in AnswersTo(request')
  BY <1>4
<1>6. Answering'
  BY <1>1, <1>3, <1>4, <1>5 DEF Answering
<1> QED
  BY <1>4, <1>6 DEF InPhase, Unseen

\* The request has been executed.
LEMMA NowServed ==
  ASSUME TypeOK, InPhase, hpc = "ack", served = <<>>, UNCHANGED hostVars, unsent = <<>>,
         \E a \in AnswersTo(request) : Serves(a) /\ Done(a)'
  PROVE  InPhase' /\ Answering' /\ Calls!Serve
<1>1. PICK a \in AnswersTo(request) : Serves(a) /\ Done(a)'
  OBVIOUS
<1>2. UNCHANGED <<hpc, request, unsent, outcome>>
  BY DEF hostVars
<1>3. served' = <<[request |-> request', answer |-> a]>> /\ a \in AnswersTo(request')
  BY <1>1, <1>2 DEF Serves
<1>4. Answering'
  BY <1>1, <1>2, <1>3 DEF Answering
<1>5. Calls!Serve
  BY <1>1, <1>2 DEF Calls!Serve, Serves
<1> QED
  BY <1>2, <1>4, <1>5 DEF InPhase

\* A step of LinkSpec is a step of Exchange, or none.
LEMMA LinkStep ==
  ASSUME LinkInv, LinkNext
  PROVE  LinkInv' /\ [Calls!Next]_(Calls!vars)
<1>1. TypeOK /\ TypeOK'
  BY TypeStep DEF LinkInv
<1>2. Unseen => UNCHANGED Calls!vars
  BY DEF Unseen, Calls!vars
<1>3. CASE Idle
  <2>1. CASE HostStep
    BY <1>3, <2>1, IdleHost
  <2>2. CASE DecoderStep
    <3>1. Idle' /\ Unseen
      BY <1>1, <1>3, <2>2, IdleDecoder
    <3> QED
      BY <1>1, <1>2, <3>1 DEF LinkInv
  <2>3. ASSUME NEW r \in Requests, Call(r) \/ FirstCall(r)
        PROVE  LinkInv' /\ Calls!Next
    <3>1. Called' /\ request' = r /\ served' = <<>> /\ outcome' = Nothing /\ hpc' = "ack"
      BY <1>1, <1>3, <2>3, IdleCall
    <3>2. Calls!Call
      <4>1. hpc = "idle"
        BY <1>3 DEF Idle
      <4> QED
        BY <3>1, <4>1 DEF Calls!Call
    <3> QED
      BY <1>1, <3>1, <3>2 DEF LinkInv, Calls!Next
  <2> QED
    BY <2>1, <2>2, <2>3 DEF LinkNext
<1>4. CASE InPhase /\ (Called \/ Receiving \/ Answering)
  <2>1. hpc # "idle"
    BY <1>4 DEF Called, Receiving, Answering, Done, Awaits, Replied, Last
  <2>2. HostStep \/ DecoderStep
    BY <2>1 DEF LinkNext, Call, FirstCall, Send
  <2>3. Unseen /\ InPhase => InPhase'
    BY DEF Unseen, InPhase
  <2>4. UNCHANGED hostVars /\ UNCHANGED served => Unseen
    BY DEF hostVars, Unseen
  <2>5. InPhase' /\ (Called' \/ Receiving' \/ Answering') => LinkInv'
    BY <1>1 DEF InPhase, LinkInv
  <2>6. CASE HostStep /\ Called
    BY <1>1, <1>2, <1>4, <2>3, <2>5, <2>6, CalledHost
  <2>7. CASE HostStep /\ Receiving
    BY <1>1, <1>2, <1>4, <2>3, <2>5, <2>7, ReceivingHost
  <2>8. CASE HostStep /\ Answering
    <3>1. \/ InPhase' /\ Answering' /\ InCall
          \/ Idle' /\ Calls!Return
      BY <1>1, <1>4, <2>8, AnsweringHost
    <3>2. InCall => UNCHANGED Calls!vars
      BY DEF InCall, Calls!vars
    <3>3. Idle' => LinkInv'
      BY <1>1 DEF LinkInv
    <3> QED
      BY <2>5, <3>1, <3>2, <3>3 DEF Calls!Next
  <2>9. CASE DecoderStep /\ Called
    <3>1. /\ UNCHANGED hostVars
          /\ \/ Called' /\ UNCHANGED served
             \/ Receiving' /\ UNCHANGED served
             \/ unsent = <<>> /\ \E a \in AnswersTo(request) : Serves(a) /\ Done(a)'
      BY <1>1, <1>4, <2>9, CalledDecoder DEF InPhase
    <3>2. CASE (Called' \/ Receiving') /\ UNCHANGED served
      BY <1>2, <1>4, <2>3, <2>4, <2>5, <3>1, <3>2
    <3>3. CASE unsent = <<>> /\ \E a \in AnswersTo(request) : Serves(a) /\ Done(a)'
      <4>1. hpc = "ack" /\ served = <<>>
        BY <2>9 DEF Called
      <4>2. InPhase' /\ Answering' /\ Calls!Serve
        BY <1>1, <1>4, <3>1, <3>3, <4>1, NowServed
      <4> QED
        BY <2>5, <4>2 DEF Calls!Next
    <3> QED
      BY <3>1, <3>2, <3>3
  <2>10. CASE DecoderStep /\ Receiving
    <3>1. /\ UNCHANGED hostVars
          /\ \/ Receiving' /\ UNCHANGED served
             \/ unsent = <<>> /\ \E a \in AnswersTo(request) : Serves(a) /\ Done(a)'
      BY <1>1, <1>4, <2>10, ReceivingDecoder DEF InPhase
    <3>2. CASE Receiving' /\ UNCHANGED served
      BY <1>2, <1>4, <2>3, <2>4, <2>5, <3>1, <3>2
    <3>3. CASE unsent = <<>> /\ \E a \in AnswersTo(request) : Serves(a) /\ Done(a)'
      <4>1. hpc = "ack" /\ served = <<>>
        BY <2>10 DEF Receiving
      <4>2. InPhase' /\ Answering' /\ Calls!Serve
        BY <1>1, <1>4, <3>1, <3>3, <4>1, NowServed
      <4> QED
        BY <2>5, <4>2 DEF Calls!Next
    <3> QED
      BY <3>1, <3>2, <3>3
  <2>11. CASE DecoderStep /\ Answering
    BY <1>1, <1>2, <1>4, <2>5, <2>11, AnsweringDecoder
  <2> QED
    BY <1>4, <2>2, <2>6, <2>7, <2>8, <2>9, <2>10, <2>11
<1> QED
  BY <1>3, <1>4 DEF LinkInv, InPhase

\* A step of LinkSpec, or a stutter, keeps the invariant and is a step of Exchange.
LEMMA LinkSteps == LinkInv /\ [LinkNext]_vars => LinkInv' /\ [Calls!Next]_(Calls!vars)
<1>1. ASSUME LinkInv, UNCHANGED vars PROVE LinkInv' /\ UNCHANGED Calls!vars
  <2>1. /\ UNCHANGED <<hpc, request, unsent, stream, msg, outcome>>
        /\ UNCHANGED <<dpc, hdr, packet, outbox, untold>>
        /\ UNCHANGED <<toDecoder, toHost, served>>
    BY <1>1 DEF vars, hostVars, decoderVars
  <2>2. TypeOK'
    BY <1>1, TypeStep DEF LinkInv
  <2>3. Idle => Idle'
    BY <2>1 DEF Idle, Settled, Pending
  <2>4. Called => Called'
    BY <2>1 DEF Called, Listening, Settled, Pending, Hdr
  <2>5. Receiving => Receiving'
    BY <2>1 DEF Receiving, Listening, AckHeld
  <2>6. Answering => Answering'
    BY <2>1 DEF Answering, Done, Writes, Awaits, Replied, Last, Settled, Pending, Listening, AckHeld
  <2>7. UNCHANGED Calls!vars
    BY <2>1 DEF Calls!vars
  <2> QED
    BY <1>1, <2>1, <2>2, <2>3, <2>4, <2>5, <2>6, <2>7 DEF LinkInv
<1> QED
  BY <1>1, LinkStep

\* While nothing fails host_messaging.c and decoder.py never lose step: whatever
\* the lengths of the bodies, the two sides are in the same phase of each call.
THEOREM LinkInvariant == LinkSpec => []LinkInv
<1>1. Init => LinkInv
  BY InvInit
<1>2. LinkInv /\ [LinkNext]_vars => LinkInv'
  BY LinkSteps
<1> QED
  BY <1>1, <1>2, PTL DEF LinkSpec

\* The serial protocol implements the safety part of Exchange, for any requests,
\* answers, printed text and block length: a call is executed by the decoder once
\* and as it was made, and returns what the decoder answered to it.
THEOREM SafeExchange == LinkSpec => Calls!SafeSpec
<1>1. Init => Calls!Init
  BY DEF Init, Calls!Init
<1>2. LinkInv /\ [LinkNext]_vars => [Calls!Next]_(Calls!vars)
  BY LinkSteps
<1> QED
  BY <1>1, <1>2, LinkInvariant, PTL DEF LinkSpec, Calls!SafeSpec

\* The invariant bounds what is on the wire.
LEMMA BlocksOnly == LinkInv => OneBlock
<1> SUFFICES ASSUME LinkInv PROVE OneBlock
  OBVIOUS
<1> DEFINE First == dpc = "body" => Len(toDecoder) <= BLOCK_LEN
           Quiet == msg = NoMessage \/ msg.opcode \in NACK_MSGS
           Second == msg # NoMessage /\ msg.opcode \notin NACK_MSGS /\ Len(msg.body) < msg.len
                     => Len(toHost) <= BLOCK_LEN
<1>1. TypeOK /\ BLOCK_LEN \in Nat
  BY HostLinkAssumption DEF LinkInv
<1>2. \A w : Settled(w) => dpc # "body"
  BY DEF Settled
<1>3. \A w : Listening(w) => Quiet
  BY DEF Listening, Hears, NACK_MSGS
<1>4. \A t : AckHeld(t) => Quiet
  BY DEF AckHeld, AckMessage, NACK_MSGS
<1>5. Quiet => Second
  OBVIOUS
<1>6. CASE Idle \/ Called
  <2>1. dpc # "body" /\ Quiet
    BY <1>2, <1>3, <1>6 DEF Idle, Called
  <2> QED
    BY <1>5, <2>1 DEF OneBlock
<1>7. CASE Receiving
  <2>1. Quiet
    BY <1>3, <1>4, <1>7 DEF Receiving
  <2>2. Len(toDecoder) <= BLOCK_LEN
    <3> DEFINE n == Len(packet.body) % BLOCK_LEN
    <3>1. Len(packet.body) \in Nat /\ Len(toDecoder) \in Nat
      BY <1>1, Bytes DEF TypeOK
    <3>2. BLOCK_LEN > 0
      BY HostLinkAssumption
    <3>3. n \in Nat
      <4>1. n \in 0..(BLOCK_LEN - 1)
        BY <1>1, <3>1, <3>2, RestNext
      <4> HIDE DEF n
      <4> QED
        BY <4>1
    <3>4. toDecoder = <<>> \/ n + Len(toDecoder) <= BLOCK_LEN
      BY <1>7 DEF Receiving
    <3>5. toDecoder = <<>> => Len(toDecoder) = 0
      OBVIOUS
    <3> HIDE DEF n
    <3> QED
      BY <1>1, <3>1, <3>3, <3>4, <3>5
  <2> QED
    BY <1>5, <2>1, <2>2 DEF OneBlock
<1>8. CASE Answering
  <2>1. PICK a \in AnswersTo(request) : Done(a) \/ Replied(a) \/ Last(a)
    BY <1>8 DEF Answering
  <2>2. CASE Done(a)
    <3>1. dpc # "body"
      BY <2>2 DEF Done, Writes
    <3>2. Quiet
      BY <1>3, <1>4, <2>2 DEF Done, Awaits
    <3> QED
      BY <1>5, <3>1, <3>2 DEF OneBlock
  <2>3. CASE Replied(a)
    <3>1. dpc # "body"
      BY <2>3 DEF Replied
    <3>2. toHost = <<>> \/ Len(toHost) <= BLOCK_LEN
      BY <2>3 DEF Replied
    <3>3. toHost = <<>> => Len(toHost) <= BLOCK_LEN
      <4>1. toHost = <<>> => Len(toHost) = 0
        OBVIOUS
      <4> QED
        BY <1>1, <4>1
    <3> QED
      BY <3>1, <3>2, <3>3 DEF OneBlock
  <2>4. CASE Last(a)
    <3>1. dpc # "body"
      BY <1>2, <2>4 DEF Last
    <3>2. ~(Len(msg.body) < msg.len)
      <4>1. msg.body = a.body /\ msg.len = Len(a.body) /\ Len(a.body) \in Nat
        BY <2>4, Replies, Bytes DEF Last
      <4> QED
        BY <4>1
    <3> QED
      BY <3>1, <3>2 DEF OneBlock
  <2> QED
    BY <2>1, <2>2, <2>3, <2>4
<1> QED
  BY <1>6, <1>7, <1>8 DEF LinkInv

\* In step with the host, the decoder reads nothing but an ACK where it waits for one.
LEMMA AcksOnly ==
  ASSUME LinkInv, dpc = "ack", Len(hdr) = 4
  PROVE  hdr = Ack
<1>1. TypeOK
  BY DEF LinkInv
<1>2. ASSUME NEW w \in B, Pending(Ack \o w) PROVE hdr = Ack
  BY <1>1, <1>2, AckHeader, PendingHeader
<1>3. hdr # <<>>
  <2>1. Len(hdr) # 0
    OBVIOUS
  <2> QED
    BY <2>1
<1>4. <<>> \in B /\ Ack \o <<>> = Ack
  BY None, AckHeader
<1>5. \A w \in B : Settled(w) => hdr = Ack
  BY <1>2 DEF Settled
<1>6. CASE Idle
  BY <1>4, <1>5, <1>6 DEF Idle
<1>7. CASE request \in Requests /\ Called
  <2>1. Hdr(request) \in B
    BY <1>7, Answers, SentHeader
  <2> QED
    BY <1>5, <1>7, <2>1 DEF Called
<1>8. CASE Answering
  <2>1. PICK a \in AnswersTo(request) : Done(a) \/ Replied(a) \/ Last(a)
    BY <1>8 DEF Answering
  <2>2. ~Done(a)
    BY <1>3 DEF Done
  <2>3. CASE Replied(a)
    <3>1. Pending(Ack \o <<>>)
      BY <1>3, <1>4, <2>3 DEF Replied
    <3> QED
      BY <1>2, <1>4, <3>1
  <2>4. CASE Last(a)
    BY <1>4, <1>5, <2>4 DEF Last
  <2> QED
    BY <2>1, <2>2, <2>3, <2>4
<1> QED
  BY <1>6, <1>7, <1>8 DEF LinkInv, Receiving

\* read_bytes() and write_bytes() acknowledge each block, so at most one of them
\* is on the wire in either direction.
THEOREM BlockByBlock == LinkSpec => []OneBlock
  BY BlocksOnly, LinkInvariant, PTL

\* While nothing fails write_packet() sends the bytes of a body only after an ACK,
\* although it does not look at what read_ack() returns.
THEOREM NoBodyUnasked == LinkSpec => BodyAfterAck
<1>1. LinkInv => (dpc = "ack" /\ Len(hdr) = 4 /\ Len(toHost') > Len(toHost) => hdr[2] = ACK)
  BY AcksOnly, AckHeader
<1> QED
  BY <1>1, LinkInvariant, PTL DEF BodyAfterAck
-----------------------------------------------------------------------------
(* Faults. *)

\* What of WithinHeader is inductive: a message that is being written is what was
\* written and what is not.
Bounds ==
  /\ Len(hdr) <= 4 /\ Len(msg.body) <= msg.len
  /\ dpc = "body" => Len(packet.body) < packet.len
  /\ dpc = "ack" => \E b \in B : b \o untold = Head(outbox).body

\* The end of a body is what WithinHeader says.
LEMMA BoundsHold == TypeOK /\ Bounds => WithinHeader
<1> SUFFICES ASSUME TypeOK, Bounds, dpc = "ack"
             PROVE  LET body == Head(outbox).body IN
                      /\ Len(untold) <= Len(body)
                      /\ untold = SubSeq(body, Len(body) - Len(untold) + 1, Len(body))
  BY DEF Bounds, WithinHeader
<1>1. PICK b \in B : b \o untold = Head(outbox).body
  BY DEF Bounds
<1> DEFINE body == Head(outbox).body
           n == Len(b)
<1>2. untold \in B /\ body = b \o untold
  BY <1>1 DEF TypeOK
<1> HIDE DEF body
<1>3. body \in B /\ Len(body) = n + Len(untold) /\ n \in Nat /\ Len(untold) \in Nat
  BY <1>2, Bytes
<1>4. n \in 0..Len(body) /\ Len(body) - Len(untold) = n /\ Len(untold) <= Len(body)
  BY <1>3
<1> DEFINE v == SubSeq(body, 1, n)
           w == SubSeq(body, n + 1, Len(body))
<1>5. v \in B /\ Len(v) = n /\ w \in B /\ v \o w = body
  BY <1>3, <1>4, Cut
<1> HIDE DEF v, w, n
<1>6. v \in B /\ b \in B /\ w \in B /\ untold \in B /\ v \o w = b \o untold /\ Len(v) = Len(b)
  BY <1>1, <1>2, <1>5 DEF n
<1>7. w = untold
  BY <1>6, SameCut
<1>8. untold = SubSeq(body, n + 1, Len(body))
  BY <1>7 DEF w
<1>9. untold = SubSeq(body, Len(body) - Len(untold) + 1, Len(body))
  BY <1>4, <1>8
<1> QED
  BY <1>4, <1>9 DEF body

\* At first no message is read or written.
LEMMA BoundsInit == Init => Bounds
<1>1. Len(<<>>) = 0
  OBVIOUS
<1> QED
  BY <1>1 DEF Init, Bounds, NoMessage

\* The host reads no more than the rest of a body.
LEMMA BoundsHost == TypeOK /\ Bounds /\ HostStep => Bounds'
<1> SUFFICES ASSUME TypeOK, Bounds, HostStep PROVE Bounds'
  OBVIOUS
<1> SUFFICES Len(msg'.body) <= msg'.len
  BY DEF HostStep, HostReadByte, HostReadBlock, HostMessage, decoderVars, Bounds
<1>1. \A lo, hi \in Byte : 0 <= Unpack(lo, hi)
  BY Unpacked, HostLinkAssumption
<1>2. CASE HostReadByte
  <2> DEFINE s == Append(stream, Head(toHost))
  <2>1. s \in B
    BY <1>2, Shift DEF HostReadByte, TypeOK
  <2>2. UNCHANGED msg \/ \E i \in Parsed(s) :
          msg' = [opcode |-> s[i + 1], len |-> Unpack(s[i + 2], s[i + 3]), body |-> <<>>]
    BY <1>2 DEF HostReadByte
  <2> HIDE DEF s
  <2>3. ASSUME NEW i \in Parsed(s),
               msg' = [opcode |-> s[i + 1], len |-> Unpack(s[i + 2], s[i + 3]), body |-> <<>>]
        PROVE  Len(msg'.body) <= msg'.len
    <3>1. Len(s) \in Nat /\ i \in 1..Len(s) /\ i + 3 <= Len(s)
      BY <2>1, Bytes DEF Parsed, HeaderAt
    <3>2. i + 2 \in 1..Len(s) /\ i + 3 \in 1..Len(s)
      BY <3>1
    <3>3. s[i + 2] \in Byte /\ s[i + 3] \in Byte
      BY <2>1, <3>2, ElementOfSeq DEF B
    <3>4. msg'.body = <<>> /\ 0 <= msg'.len
      BY <2>3, <3>3, <1>1
    <3>5. Len(<<>>) = 0
      OBVIOUS
    <3> QED
      BY <3>4, <3>5
  <2> QED
    BY <2>2, <2>3 DEF Bounds
<1>3. CASE HostReadBlock
  <2> DEFINE n == BlockLeft
             x == SubSeq(toHost, 1, n)
  <2>1. /\ Len(toHost) >= n /\ Len(msg.body) < msg.len
        /\ msg' = [msg EXCEPT !.body = @ \o x]
    BY <1>3 DEF HostReadBlock
  <2>2. msg.body \in B /\ msg.len \in Nat /\ Len(msg.body) \in Nat
    BY HostLinkAssumption, Bytes DEF TypeOK
  <2>3. n \in Nat /\ n <= msg.len - Len(msg.body)
    BY <2>1, <2>2, HostLinkAssumption DEF BlockLeft
  <2> HIDE DEF n
  <2>4. n \in 0..Len(toHost)
    BY <2>1, <2>3, Bytes DEF TypeOK
  <2>5. x \in B /\ Len(x) = n
    BY <2>4, Cut DEF TypeOK
  <2> HIDE DEF x
  <2>6. msg'.body = msg.body \o x /\ msg'.len = msg.len
    BY <2>1 DEF TypeOK
  <2>7. Len(msg.body \o x) = Len(msg.body) + Len(x)
    BY <2>2, <2>5, Bytes
  <2>8. Len(msg.body) + Len(x) <= msg.len
    BY <2>2, <2>3, <2>5
  <2> QED
    BY <2>6, <2>7, <2>8
<1>4. CASE HostMessage
  <2>1. Len(<<>>) = 0
    OBVIOUS
  <2>2. msg' = NoMessage
    BY <1>4 DEF HostMessage
  <2> QED
    BY <2>1, <2>2 DEF NoMessage
<1> QED
  BY <1>2, <1>3, <1>4 DEF HostStep

\* The decoder reads no more than the header told, and writes what is left.
LEMMA BoundsDecoder == TypeOK /\ Bounds /\ DecoderStep => Bounds'
<1> SUFFICES ASSUME TypeOK, Bounds, DecoderStep PROVE Bounds'
  OBVIOUS
<1>1. UNCHANGED msg
  BY DEF DecoderStep, ReadHeaderByte, ReadPacket, ReadBodyByte, WritePacket, ReadAck, hostVars
<1>2. Len(<<>>) = 0
  OBVIOUS
<1>3. Len(msg.body) <= msg.len
  BY DEF Bounds
<1>4. ASSUME Written PROVE dpc' \notin {"body", "ack"}
  BY <1>4 DEF Written
<1>5. CASE ReadHeaderByte
  <2>1. /\ Len(hdr) < 4 /\ toDecoder # <<>> /\ hdr' = HeaderWith(hdr, Head(toDecoder))
        /\ UNCHANGED <<dpc, packet, outbox, untold>>
    BY <1>5 DEF ReadHeaderByte
  <2>2. Len(Append(hdr, Head(toDecoder))) = Len(hdr) + 1
    BY <2>1, Shift DEF TypeOK
  <2>3. Len(hdr') <= 4
    <3>1. hdr' = <<>> \/ hdr' = Append(hdr, Head(toDecoder))
      BY <2>1 DEF HeaderWith
    <3>2. Len(hdr) \in Nat
      BY Bytes DEF TypeOK
    <3> QED
      BY <3>1, <3>2, <2>1, <2>2, <1>2
  <2> QED
    BY <2>1, <2>3, <1>1 DEF Bounds
<1>6. CASE ReadPacket
  <2> DEFINE op == hdr[2]
             len == Unpack(hdr[3], hdr[4])
  <2>1. /\ Len(hdr) = 4 /\ hdr' = <<>>
        /\ \/ Execute([opcode |-> op, body |-> <<>>])
           \/ dpc' = "body" /\ len # 0 /\ packet' = [opcode |-> op, len |-> len, body |-> <<>>]
    BY <1>6 DEF ReadPacket
  <2>2. len \in Nat
    <3>1. {3, 4} \subseteq 1..Len(hdr)
      BY <2>1
    <3>2. hdr[3] \in Byte /\ hdr[4] \in Byte
      BY <3>1, ElementOfSeq DEF TypeOK, B
    <3> QED
      BY <3>2, Unpacked, HostLinkAssumption
  <2> HIDE DEF op, len
  <2>3. Len(hdr') <= 4
    BY <2>1, <1>2
  <2>4. CASE Execute([opcode |-> op, body |-> <<>>])
    <3>1. dpc' = "write"
      BY <2>4, Executed
    <3> QED
      BY <3>1, <2>3, <1>1, <1>3 DEF Bounds
  <2>5. CASE dpc' = "body" /\ len # 0 /\ packet' = [opcode |-> op, len |-> len, body |-> <<>>]
    <3>1. packet'.body = <<>> /\ packet'.len = len
      BY <2>5
    <3>2. Len(packet'.body) < packet'.len
      BY <3>1, <2>2, <2>5, <1>2
    <3> QED
      BY <3>2, <2>5, <2>3, <1>1, <1>3 DEF Bounds
  <2> QED
    BY <2>1, <2>4, <2>5
<1>7. CASE ReadBodyByte
  <2> DEFINE body == Append(packet.body, Head(toDecoder))
             n == Len(body)
  <2>1. /\ dpc = "body" /\ toDecoder # <<>> /\ UNCHANGED hdr
        /\ \/ Execute([opcode |-> packet.opcode, body |-> body])
           \/ n # packet.len /\ packet' = [packet EXCEPT !.body = body] /\ UNCHANGED dpc
    BY <1>7 DEF ReadBodyByte
  <2>2. Len(hdr') <= 4
    BY <2>1 DEF Bounds
  <2>3. CASE Execute([opcode |-> packet.opcode, body |-> body])
    <3>1. dpc' = "write"
      BY <2>3, Executed
    <3> QED
      BY <3>1, <2>2, <1>1, <1>3 DEF Bounds
  <2>4. CASE n # packet.len /\ packet' = [packet EXCEPT !.body = body] /\ UNCHANGED dpc
    <3>1. n = Len(packet.body) + 1
      BY <2>1, Shift DEF TypeOK
    <3>2. Len(packet.body) < packet.len /\ Len(packet.body) \in Nat /\ packet.len \in Nat
      BY <2>1, Bytes, HostLinkAssumption DEF TypeOK, Bounds
    <3> HIDE DEF body
    <3>3. n < packet.len
      BY <3>1, <3>2, <2>4
    <3>4. packet'.body = body /\ packet'.len = packet.len
      BY <2>4 DEF TypeOK
    <3>5. Len(packet'.body) < packet'.len
      BY <3>3, <3>4
    <3> QED
      BY <3>5, <2>1, <2>4, <2>2, <1>1, <1>3 DEF Bounds
  <2> QED
    BY <2>1, <2>3, <2>4
<1>8. CASE WritePacket
  <2>1. /\ UNCHANGED hdr
        /\ \/ Written
           \/ untold' = Head(outbox).body /\ dpc' = "ack" /\ UNCHANGED outbox
    BY <1>8 DEF WritePacket
  <2>2. Len(hdr') <= 4
    BY <2>1 DEF Bounds
  <2>3. CASE Written
    BY <2>2, <2>3, <1>1, <1>3, <1>4 DEF Bounds
  <2>4. CASE untold' = Head(outbox).body /\ dpc' = "ack" /\ UNCHANGED outbox
    <3>1. untold' \in B
      BY <1>8, TypeDecoder DEF DecoderStep, TypeOK
    <3>2. <<>> \in B /\ <<>> \o untold' = Head(outbox').body
      BY <3>1, <2>4, None
    <3> QED
      BY <3>2, <2>2, <2>4, <1>1, <1>3 DEF Bounds
  <2> QED
    BY <2>1, <2>3, <2>4
<1>9. CASE ReadAck
  <2>1. /\ dpc = "ack" /\ hdr' = <<>>
        /\ \/ Written
           \/ untold' = AfterBlock(untold) /\ UNCHANGED <<dpc, outbox>>
    BY <1>9 DEF ReadAck
  <2>2. Len(hdr') <= 4
    BY <2>1, <1>2
  <2>3. CASE Written
    BY <2>2, <2>3, <1>1, <1>3, <1>4 DEF Bounds
  <2>4. CASE untold' = AfterBlock(untold) /\ UNCHANGED <<dpc, outbox>>
    <3>1. PICK b \in B : b \o untold = Head(outbox).body
      BY <2>1 DEF Bounds
    <3> DEFINE v == BlockOf(untold)
               w == AfterBlock(untold)
    <3>2. untold \in B /\ v \in B /\ w \in B /\ v \o w = untold
      BY Block DEF TypeOK
    <3> HIDE DEF v, w
    <3>3. (b \o v) \o w = b \o (v \o w)
      BY <3>2, Assoc
    <3>4. b \o v \in B /\ (b \o v) \o w = Head(outbox).body
      BY <3>1, <3>2, <3>3, Bytes
    <3>5. untold' = w /\ outbox' = outbox /\ dpc' = "ack"
      BY <2>1, <2>4 DEF w
    <3> QED
      BY <3>4, <3>5, <2>2, <1>1, <1>3 DEF Bounds
  <2> QED
    BY <2>1, <2>3, <2>4
<1> QED
  BY <1>5, <1>6, <1>7, <1>8, <1>9 DEF DecoderStep

\* A tool that ends in the middle of a call leaves no message, whatever is lost of
\* the bytes that it has sent.
LEMMA AbandonKeeps ==
  ASSUME TypeOK, Bounds, Abandon, toDecoder' \in B
  PROVE  TypeOK' /\ Bounds'
<1>1. /\ hpc' = "idle" /\ unsent' = <<>> /\ stream' = <<>> /\ msg' = NoMessage
      /\ UNCHANGED toHost /\ UNCHANGED <<dpc, hdr, packet, outbox, untold>>
  BY DEF Abandon, decoderVars
<1>2. TypeOK'
  BY <1>1, None, EmptyMessages DEF TypeOK
<1>3. Len(msg'.body) <= msg'.len
  <2>1. Len(<<>>) = 0
    OBVIOUS
  <2> QED
    BY <1>1, <2>1 DEF NoMessage
<1> QED
  BY <1>1, <1>2, <1>3 DEF Bounds

\* A tool is killed.
LEMMA KillKeeps == TypeOK /\ Bounds /\ Kill => TypeOK' /\ Bounds'
<1> SUFFICES ASSUME TypeOK, Bounds, Kill PROVE TypeOK' /\ Bounds'
  OBVIOUS
<1>1. PICK k \in 0..Len(toDecoder) : toDecoder' = SubSeq(toDecoder, 1, k)
  BY DEF Kill
<1>2. toDecoder' \in B
  BY <1>1, Cut DEF TypeOK
<1> QED
  BY <1>2, AbandonKeeps DEF Kill

\* A user gives up.
LEMMA GiveUpKeeps == TypeOK /\ Bounds /\ GiveUp => TypeOK' /\ Bounds'
  BY AbandonKeeps DEF GiveUp, TypeOK

\* The decoder loses power.
LEMMA PowerLossKeeps == TypeOK /\ Bounds /\ PowerLoss => TypeOK' /\ Bounds'
<1> SUFFICES ASSUME TypeOK, Bounds, PowerLoss PROVE TypeOK' /\ Bounds'
  OBVIOUS
<1>1. /\ toDecoder' = <<>> /\ dpc' = "write" /\ outbox' = <<Debug, Debug>>
      /\ hdr' = <<>> /\ packet' = NoMessage /\ untold' = <<>>
      /\ UNCHANGED <<hpc, unsent, stream, msg>>
  BY DEF PowerLoss, hostVars
<1>2. PICK k \in 0..Len(toHost) : toHost' = SubSeq(toHost, 1, k)
  BY DEF PowerLoss
<1>3. toHost' \in B
  BY <1>2, Cut DEF TypeOK
<1>4. outbox' \in Seq(Sendable) /\ outbox' # <<>>
  BY <1>1, Answers
<1>5. TypeOK'
  BY <1>1, <1>3, <1>4, None, EmptyMessages DEF TypeOK
<1>6. Len(hdr') <= 4
  <2>1. Len(<<>>) = 0
    OBVIOUS
  <2> QED
    BY <1>1, <2>1
<1> QED
  BY <1>1, <1>5, <1>6 DEF Bounds

\* A user tries again.
LEMMA RetryKeeps == ASSUME TypeOK, Bounds, NEW r \in Requests, Retry(r) PROVE TypeOK' /\ Bounds'
<1>1. /\ toDecoder' = toDecoder \o Hdr(r) /\ hpc' = "ack" /\ unsent' = r.body
      /\ stream' = <<>> /\ toHost' = <<>>
      /\ UNCHANGED msg /\ UNCHANGED <<dpc, hdr, packet, outbox, untold>>
  BY DEF Retry, Send, decoderVars, Hdr
<1>2. Hdr(r) \in B /\ r.body \in B
  BY Answers, SentHeader
<1>3. toDecoder' \in B
  BY <1>1, <1>2, Bytes DEF TypeOK
<1>4. TypeOK'
  BY <1>1, <1>2, <1>3, None DEF TypeOK
<1> QED
  BY <1>1, <1>4 DEF Bounds

\* Every step keeps both.
LEMMA FaultStep == TypeOK /\ Bounds /\ [FaultNext]_vars => TypeOK' /\ Bounds'
<1> SUFFICES ASSUME TypeOK, Bounds, [FaultNext]_vars PROVE TypeOK' /\ Bounds'
  OBVIOUS
<1>1. CASE UNCHANGED vars
  BY <1>1 DEF vars, hostVars, decoderVars, TypeOK, Bounds
<1>2. CASE HostStep
  BY <1>2, TypeHost, BoundsHost
<1>3. CASE DecoderStep
  BY <1>3, TypeDecoder, BoundsDecoder
<1>4. ASSUME NEW r \in Requests, Retry(r) PROVE TypeOK' /\ Bounds'
  BY <1>4, RetryKeeps
<1> QED
  BY <1>1, <1>2, <1>3, <1>4, KillKeeps, PowerLossKeeps, GiveUpKeeps DEF FaultNext

\* What holds whatever fails.
LEMMA FaultAlways == FaultSpec => [](TypeOK /\ Bounds)
<1>1. Init => TypeOK /\ Bounds
  BY TypeInit, BoundsInit
<1> QED
  BY <1>1, FaultStep, PTL DEF FaultSpec

\* Whatever is killed or loses power, at any byte, the variables keep their types:
\* the decoder writes only while it has a message to write, and no length exceeds
\* what a header can tell.
THEOREM TypeCorrect == FaultSpec => []TypeOK
  BY FaultAlways, PTL

\* Whatever is killed or loses power, at any byte, neither side reads more of a
\* body than the header told, and the decoder writes what is left of its message.
THEOREM InBounds == FaultSpec => []WithinHeader
  BY FaultAlways, BoundsHold, PTL
=============================================================================
