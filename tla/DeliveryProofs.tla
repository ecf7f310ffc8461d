--------------------------- MODULE DeliveryProofs --------------------------
(***************************************************************************)
(* Safety of Delivery, proved for every number of channels, frames,        *)
(* subscriptions, slots and values of a byte.                              *)
(***************************************************************************)
EXTENDS Delivery, WireProofs, FiniteSetTheorems

-----------------------------------------------------------------------------
(* Control: where the threads and the call are. *)

\* The call is open while the decode thread is in it, the threads are not started
\* out of order, and a frame taken late leads back to the test of the event.
ControlInv ==
  /\ main \in {"decode", "downlink", "poll", "finally", "ended"}
  /\ rx \in {"none", "connect", "check", "recv", "ended"}
  /\ dec \in {"none", "check", "look", "call", "ended"}
  /\ crash \in BOOLEAN /\ garbled \in BOOLEAN /\ port \in Ports
  /\ call \in {"none", "asked", "answered", "cut"}
  /\ call # "none" <=> dec = "call"
  /\ main = "decode" => dec = "none"
  /\ main \in {"decode", "downlink"} => rx = "none"
  /\ late \in {0, 1}
  /\ late = 1 => crash /\ dec \in {"call", "check", "ended"}

LEMMA ControlInit == DeliveryInit => ControlInv
<1> SUFFICES ASSUME DeliveryInit PROVE ControlInv
  OBVIOUS
<1>1. /\ main = "decode" /\ rx = "none" /\ dec = "none" /\ crash = FALSE /\ late = 0
      /\ port \in Ports /\ call = "none" /\ garbled = FALSE
  BY DEF DeliveryInit, Init
<1>2. crash \in BOOLEAN /\ garbled \in BOOLEAN
  BY <1>1
<1>3. late = 1 => crash /\ dec \in {"call", "check", "ended"}
  BY <1>1
<1>4. /\ main \in {"decode", "downlink", "poll", "finally", "ended"}
      /\ rx \in {"none", "connect", "check", "recv", "ended"}
      /\ dec \in {"none", "check", "look", "call", "ended"}
      /\ call \in {"none", "asked", "answered", "cut"}
      /\ call # "none" <=> dec = "call"
      /\ late \in {0, 1}
  BY <1>1
<1> QED BY <1>1, <1>2, <1>3, <1>4 DEF ControlInv

LEMMA ControlNext == ControlInv /\ [Next]_vars => ControlInv'
<1> SUFFICES ASSUME ControlInv, [Next]_vars PROVE ControlInv'
  OBVIOUS
<1> USE DEF ControlInv
<1>1. CASE UNCHANGED vars
  BY <1>1 DEF vars, tvVars
<1>2. ASSUME NEW r \in Requests, Subscribe(r) PROVE ControlInv'
  BY <1>2 DEF Subscribe, ToolsRun, tvVars
<1>3. CASE Subscribed \/ List
  BY <1>3 DEF Subscribed, List, ToolsRun, tvVars
<1>4. ASSUME NEW f \in Frames, Publish(f) PROVE ControlInv'
  BY <1>4 DEF Publish, tvVars
<1>5. CASE Send \/ Close
  BY <1>5 DEF Send, Close, tvVars
<1>6. CASE run \/ CtrlC
  BY <1>6 DEF run, CtrlC, Alone, StartDecode, StartDownlink, Poll, Interrupt, SetCrash
<1>7. CASE downlink
  BY <1>7 DEF downlink, Alone, Listen, Connect, CheckReceive, Receive, DownlinkFails
<1>8. CASE decode
  <2>1. CASE CheckDecode /\ Alone
    BY <2>1 DEF Alone, CheckDecode
  <2>2. CASE LookAgain /\ Alone
    BY <2>2 DEF Alone, LookAgain
  <2>3. CASE Ask
    BY <2>3 DEF Ask, Look, NextFrame
  <2>4. CASE Answered
    BY <2>4 DEF Answered, DecodeFails, Show
  <2> QED BY <1>8, <2>1, <2>2, <2>3, <2>4 DEF decode
<1>9. CASE Serve \/ PowerLoss
  BY <1>9 DEF Serve, PowerLoss, tvVars
<1>10. CASE CutCall
  BY <1>10 DEF CutCall, DecodeFails, Show
<1> QED BY <1>1, <1>2, <1>3, <1>4, <1>5, <1>6, <1>7, <1>8, <1>9, <1>10 DEF Next

\* Once the user or a failed thread has set the event `crash', the decode thread
\* gives the decoder at most the frame that it was about to take: it goes by the
\* test at the head of its loop before the next one.
THEOREM OneLate == Spec => []AtMostOneLate
<1>1. ControlInv => AtMostOneLate
  BY DEF ControlInv, AtMostOneLate
<1> QED BY ControlInit, ControlNext, <1>1, PTL DEF Spec

-----------------------------------------------------------------------------
(* What is on the way: packets of the channel of the port, and emergencies. *)

\* What the encoder puts into a packet is what the decoder takes out of it.
LEMMA Carried ==
  ASSUME NEW f \in Frames
  PROVE  /\ Line(f).channel = f.channel
         /\ Line(f).encoded \in Bytes /\ Len(Line(f).encoded) >= 12
         /\ FrameChannel(Line(f).encoded) = f.channel
         /\ FrameData(Line(f).encoded) = f.frame
         /\ f.frame \in Bytes
<1> DEFINE c == f.channel
           t == f.timestamp
           x == f.frame
<1>1. c \in 0..(Word32 - 1) /\ t \in Nat /\ x \in Bytes /\ Len(x) < 65524 /\ Len(x) \in Nat
  <2>1. f \in [channel : 0..(Word32 - 1), timestamp : 0..(Word32 * Word32 - 1),
               frame : {g \in Bytes : Len(g) <= 64}]
    BY DeliveryAssumption
  <2>2. c \in 0..(Word32 - 1) /\ t \in Nat /\ x \in Bytes /\ Len(x) <= 64
    BY <2>1, Word
  <2>3. Len(x) \in Nat
    BY <2>2, Concat
  <2> QED BY <2>2, <2>3
<1>2. Line(f).channel = c /\ Line(f).encoded = encode(c, x, t)
  BY DEF Line
<1> HIDE DEF c, t, x
<1>3. /\ encode(c, x, t) \in Bytes /\ Len(encode(c, x, t)) = 12 + Len(x)
      /\ FrameChannel(encode(c, x, t)) = c
      /\ FrameData(encode(c, x, t)) = x
  BY <1>1, FrameCarried
<1> QED BY <1>1, <1>2, <1>3 DEF c, x

MyFrames == {f \in Frames : f.channel \in {port, Emergency}}
MyLines == {Line(f) : f \in MyFrames}
Mine == {Line(f).encoded : f \in MyFrames}
Screens == Bytes \cup {Garbage}

\* A packet on its way is one of the channel of the port, or an emergency.
LEMMA MineCarried ==
  ASSUME NEW p \in Mine
  PROVE  /\ p \in Bytes /\ Len(p) >= 12 /\ FrameData(p) \in Bytes
         /\ FrameChannel(p) \in {port, Emergency}
<1>1. PICK f \in MyFrames : p = Line(f).encoded
  BY DEF Mine
<1> QED BY <1>1, Carried DEF MyFrames

\* Only packets of the port are on their way, at most one is in hand, and nothing
\* moves before the TV is connected.
SeqInv ==
  /\ tuned \in [{Tv} -> {{}, {port}}]
  /\ pending \in [{Tv} -> Seq(MyLines)]
  /\ socket \in Seq(Mine) /\ to_decode \in Seq(Mine) /\ hand \in Seq(Mine)
  /\ Len(hand) <= 1
  /\ dec = "call" => Len(hand) = 1
  /\ hand # <<>> => dec \in {"call", "ended"}
  /\ shown \in Seq(Screens) /\ since \in Seq(Screens)
  /\ tuned[Tv] = {} => pending[Tv] = <<>>
  /\ rx \in {"none", "connect"} =>
       tuned[Tv] = {} /\ since = <<>> /\ shown = <<>> /\ hand = <<>> /\ to_decode = <<>> /\ socket = <<>>

LEMMA TheOnly == ASSUME NEW s \in Seq(Mine), Len(s) = 1 PROVE s[1] \in Mine /\ s # <<>>
<1>1. \A k \in 1..Len(s) : s[k] \in Mine
  OBVIOUS
<1>2. s # <<>>
  <2>1. Len(<<>>) = 0
    OBVIOUS
  <2>2. Len(s) # 0
    OBVIOUS
  <2> QED BY ONLY <2>1, <2>2, Zenon
<1> QED BY <1>1, <1>2

LEMMA SeqInit == DeliveryInit => SeqInv
<1> SUFFICES ASSUME DeliveryInit PROVE SeqInv
  OBVIOUS
<1>1. /\ rx = "none" /\ dec = "none" /\ port \in Ports
      /\ socket = <<>> /\ to_decode = <<>> /\ hand = <<>> /\ shown = <<>> /\ since = <<>>
  BY DEF DeliveryInit, Init
<1>2. tuned = [t \in {Tv} |-> {}] /\ pending = [t \in {Tv} |-> <<>>]
  BY DEF DeliveryInit, Sat!Init
<1> HIDE DEF DeliveryInit
<1>3. tuned \in [{Tv} -> {{}, {port}}] /\ tuned[Tv] = {}
  BY <1>2
<1>4. pending \in [{Tv} -> Seq(MyLines)] /\ pending[Tv] = <<>>
  BY <1>2
<1> QED BY <1>1, <1>3, <1>4 DEF SeqInv

\* The port is chosen once.
LEMMA PortFixed == [Next]_vars => port' = port /\ Mine' = Mine /\ MyLines' = MyLines
<1> SUFFICES ASSUME [Next]_vars PROVE port' = port
  BY DEF Mine, MyLines, MyFrames
<1>1. CASE UNCHANGED vars
  BY <1>1 DEF vars
<1>2. CASE Next
  BY <1>2 DEF Next, Subscribe, Subscribed, List, ToolsRun, Publish, Send, Close, run, CtrlC, Alone,
    downlink, Listen, decode, Ask, Answered, Serve, PowerLoss, CutCall
<1> QED BY <1>1, <1>2

LEMMA SeqNext == ControlInv /\ SeqInv /\ [Next]_vars => SeqInv'
<1> SUFFICES ASSUME ControlInv, SeqInv, [Next]_vars PROVE SeqInv'
  OBVIOUS
<1> USE DEF SeqInv
<1>0. port' = port /\ Mine' = Mine /\ MyLines' = MyLines /\ Screens' = Screens
  BY PortFixed DEF Screens
<1>1. CASE UNCHANGED vars
  BY <1>0, <1>1 DEF vars, tvVars, satVars
<1>2. ASSUME NEW r \in Requests, Subscribe(r) PROVE SeqInv'
  BY <1>0, <1>2 DEF Subscribe, ToolsRun, tvVars, satVars
<1>3. CASE Subscribed \/ List
  BY <1>0, <1>3 DEF Subscribed, List, ToolsRun, tvVars, satVars
<1>4. ASSUME NEW f \in Frames, Publish(f) PROVE SeqInv'
  <2>1. tuned' = tuned /\ UNCHANGED tvVars
    BY <1>4 DEF Publish, Sat!Publish
  <2>2. CASE tuned[Tv] = {}
    <3>1. pending'[Tv] = pending[Tv] /\ pending' \in [{Tv} -> Seq(MyLines)] /\ since' = since
      BY <1>4, <2>2 DEF Publish, Sat!Publish
    <3> QED BY <1>0, <2>1, <2>2, <3>1 DEF tvVars
  <2>3. CASE tuned[Tv] = {port} /\ f.channel \in {port, Emergency}
    <3>1. Line(f) \in MyLines /\ f.frame \in Screens
      BY <2>3, Carried DEF MyLines, MyFrames, Screens
    <3>2. since' = Append(since, f.frame)
      BY <1>4, <2>3 DEF Publish
    <3>3. pending' = [t \in {Tv} |-> IF \E c \in tuned[t] : GoesTo(Line(f), c)
                                     THEN Append(pending[t], Line(f)) ELSE pending[t]]
      BY <1>4 DEF Publish, Sat!Publish
    <3>4. pending' \in [{Tv} -> Seq(MyLines)]
      BY <3>1, <3>3
    <3>5. since' \in Seq(Screens) /\ since' # <<>>
      BY <3>1, <3>2
    <3>6. rx \notin {"none", "connect"}
      BY <2>3
    <3> QED BY <1>0, <2>1, <2>3, <3>4, <3>5, <3>6 DEF tvVars
  <2>4. CASE tuned[Tv] = {port} /\ f.channel \notin {port, Emergency}
    <3>1. since' = since
      BY <1>4, <2>4 DEF Publish
    <3>2. Line(f).channel = f.channel
      BY Carried
    <3>3. pending' = [t \in {Tv} |-> IF \E c \in tuned[t] : GoesTo(Line(f), c)
                                     THEN Append(pending[t], Line(f)) ELSE pending[t]]
      BY <1>4 DEF Publish, Sat!Publish
    <3>4. ~ \E c \in tuned[Tv] : GoesTo(Line(f), c)
      BY <2>4, <3>2 DEF GoesTo
    <3>5. pending' \in [{Tv} -> Seq(MyLines)]
      BY <3>3, <3>4
    <3> QED BY <1>0, <2>1, <2>4, <3>1, <3>5 DEF tvVars
  <2> QED BY <2>2, <2>3, <2>4
<1>5. CASE Send
  <2>1. /\ pending[Tv] # <<>> /\ tuned' = tuned
        /\ pending' = [pending EXCEPT ![Tv] = Tail(@)]
        /\ socket' = Append(socket, Head(pending[Tv]).encoded)
    BY <1>5 DEF Send, Sat!Send
  <2>2. Head(pending[Tv]) \in MyLines /\ tuned[Tv] # {}
    BY <2>1
  <2>3. Head(pending[Tv]).encoded \in Mine
    BY <2>2 DEF Mine, MyLines
  <2>4. socket' \in Seq(Mine) /\ pending' \in [{Tv} -> Seq(MyLines)]
    BY <2>1, <2>3
  <2>5. rx \notin {"none", "connect"}
    BY <2>2
  <2> QED BY <1>0, <1>5, <2>1, <2>2, <2>4, <2>5 DEF Send
<1>6. CASE Close
  <2>1. /\ tuned' = [t \in {Tv} |-> {}] /\ pending' = [t \in {Tv} |-> <<>>]
        /\ UNCHANGED <<tvVars, since>>
    BY <1>6 DEF Close, Sat!Leave
  <2>2. tuned' \in [{Tv} -> {{}, {port}}] /\ tuned'[Tv] = {}
    BY <2>1
  <2>3. pending' \in [{Tv} -> Seq(MyLines)] /\ pending'[Tv] = <<>>
    BY <2>1
  <2> QED BY <1>0, <2>1, <2>2, <2>3 DEF tvVars
<1>7. CASE run \/ CtrlC
  <2>1. UNCHANGED <<satVars, since, socket, to_decode, hand, shown>>
    BY <1>7 DEF run, CtrlC, Alone, StartDecode, StartDownlink, Poll, Interrupt, SetCrash
  <2>2. \/ dec' = dec
        \/ dec' = "check" /\ dec = "none"
    BY <1>7 DEF run, CtrlC, StartDecode, StartDownlink, Poll, Interrupt, SetCrash, ControlInv
  <2>3. rx' \in {"none", "connect"} => rx \in {"none", "connect"}
    BY <1>7 DEF run, CtrlC, StartDecode, StartDownlink, Poll, Interrupt, SetCrash, ControlInv
  <2> QED BY <1>0, <2>1, <2>2, <2>3 DEF satVars
<1>8. CASE downlink
  <2>1. CASE Listen
    <3>1. /\ tuned' = [tuned EXCEPT ![Tv] = {port}] /\ pending' = pending
          /\ tuned[Tv] = {}
          /\ rx' = "check" /\ UNCHANGED <<since, socket, to_decode, hand, shown, dec>>
      BY <2>1 DEF Listen, Connect, Sat!Listen
    <3> QED BY <1>0, <3>1
  <2>2. CASE CheckReceive /\ Alone
    BY <1>0, <2>2 DEF CheckReceive, Alone, satVars
  <2>3. CASE Receive /\ Alone
    <3>1. socket # <<>> /\ Head(socket) \in Mine
      BY <2>3 DEF Receive
    <3>2. to_decode' = Append(to_decode, Head(socket)) /\ socket' = Tail(socket) /\ rx' = "check"
      BY <2>3 DEF Receive
    <3>3. to_decode' \in Seq(Mine) /\ socket' \in Seq(Mine)
      BY <3>1, <3>2
    <3> QED BY <1>0, <2>3, <3>2, <3>3 DEF Receive, Alone, satVars
  <2>4. CASE DownlinkFails /\ Alone
    BY <1>0, <2>4 DEF DownlinkFails, Alone, satVars
  <2> QED BY <1>8, <2>1, <2>2, <2>3, <2>4 DEF downlink
<1>9. CASE decode
  <2>1. CASE (CheckDecode \/ LookAgain) /\ Alone
    BY <1>0, <2>1 DEF CheckDecode, LookAgain, Alone, satVars
  <2>2. CASE Ask
    <3>1. to_decode # <<>> /\ Head(to_decode) \in Mine /\ rx' = rx /\ rx \notin {"none", "connect"}
      BY <2>2 DEF Ask, Look, Queued
    <3>2. to_decode' = Tail(to_decode) /\ hand' = <<Head(to_decode)>> /\ dec' = "call"
      BY <2>2 DEF Ask, Look, NextFrame
    <3>3. to_decode' \in Seq(Mine) /\ hand' \in Seq(Mine) /\ Len(hand') = 1
      BY <3>1, <3>2
    <3> QED BY <1>0, <2>2, <3>1, <3>2, <3>3 DEF Ask, Look, satVars
  <2>3. CASE Answered /\ DecodeFails
    BY <1>0, <2>3 DEF Answered, DecodeFails, satVars
  <2>4. CASE Answered /\ Show(FrameData(hand[1]))
    <3>0. dec = "call" /\ rx' = rx
      BY <2>4 DEF Show
    <3>1. Len(hand) = 1 /\ hand[1] \in Mine /\ hand # <<>>
      BY <3>0, TheOnly
    <3>5. rx \notin {"none", "connect"}
      BY <3>1
    <3>2. FrameData(hand[1]) \in Screens
      BY <3>1, MineCarried DEF Screens
    <3>3. shown' = Append(shown, FrameData(hand[1])) /\ hand' = <<>> /\ dec' = "check"
      BY <2>4 DEF Show
    <3>4. shown' \in Seq(Screens)
      BY <3>2, <3>3
    <3> QED BY <1>0, <2>4, <3>0, <3>3, <3>4, <3>5 DEF Answered, Show, satVars
  <2> QED BY <1>9, <2>1, <2>2, <2>3, <2>4 DEF decode, Answered
<1>10. CASE Serve \/ PowerLoss
  BY <1>0, <1>10 DEF Serve, PowerLoss, tvVars, satVars
<1>11. CASE CutCall
  <2>1. CASE DecodeFails
    BY <1>0, <1>11, <2>1 DEF CutCall, DecodeFails, satVars
  <2>2. CASE Show(Garbage)
    <3>1. shown' = Append(shown, Garbage) /\ hand' = <<>> /\ dec' = "check" /\ dec = "call" /\ rx' = rx
      BY <2>2 DEF Show
    <3>2. shown' \in Seq(Screens)
      BY <3>1 DEF Screens
    <3>3. rx \notin {"none", "connect"}
      BY <3>1
    <3> QED BY <1>0, <1>11, <2>2, <3>1, <3>2, <3>3 DEF CutCall, Show, satVars
  <2> QED BY <1>11, <2>1, <2>2 DEF CutCall
<1> QED BY <1>1, <1>2, <1>3, <1>4, <1>5, <1>6, <1>7, <1>8, <1>9, <1>10, <1>11 DEF Next

\* The type invariant of the TV with its satellite and its decoder; in particular
\* no packet that reaches decode() is so short that its frame_size wraps.
THEOREM TypeCorrect == Spec => []TypeOK
<1>1. ControlInv /\ SeqInv => TypeOK
  <2> SUFFICES ASSUME ControlInv, SeqInv PROVE TypeOK
    OBVIOUS
  <2> DEFINE Packets == {p \in Bytes : Len(p) >= 12}
  <2>1. Mine \subseteq Packets
    BY MineCarried
  <2> HIDE DEF Packets
  <2>2. socket \in Seq(Packets) /\ to_decode \in Seq(Packets) /\ hand \in Seq(Packets)
    BY <2>1 DEF SeqInv
  <2>3. shown \in Seq(Screens) /\ since \in Seq(Screens) /\ Len(hand) <= 1 /\ (hand # <<>> => dec \in {"call", "ended"})
    BY DEF SeqInv
  <2>4. dec = "call" => hand # <<>>
    BY TheOnly DEF SeqInv
  <2> QED BY <2>2, <2>3, <2>4 DEF TypeOK, ControlInv, Packets, Screens
<1> QED BY ControlInit, ControlNext, SeqInit, SeqNext, <1>1, PTL DEF Spec

-----------------------------------------------------------------------------
(* Where each part of the way stands in what was encoded. *)

P1 == Len(shown)
P2 == P1 + Len(hand)
P3 == P2 + Len(to_decode)
P4 == P3 + Len(socket)
P5 == P4 + Len(pending[Tv])

\* The frames q, those of the packets q, and of the lines q, stand after the
\* n-th place of w.
ShownAt(w, n, q) == \A k \in 1..Len(q) : q[k] = w[n + k]
PacketsAt(w, n, q) == \A k \in 1..Len(q) : FrameData(q[k]) = w[n + k]
LinesAt(w, n, q) == \A k \in 1..Len(q) : FrameData(q[k].encoded) = w[n + k]

\* What was shown, the frame in hand, the queue, the socket and what the satellite
\* still has for the TV stand one after the other in what was encoded.
FlowInv ==
  ~garbled =>
    /\ P5 <= Len(since) /\ (tuned[Tv] # {} => P5 = Len(since))
    /\ ShownAt(since, 0, shown)
    /\ PacketsAt(since, P1, hand)
    /\ PacketsAt(since, P2, to_decode)
    /\ PacketsAt(since, P3, socket)
    /\ LinesAt(since, P4, pending[Tv])

LEMMA FlowInit == DeliveryInit => FlowInv
<1> SUFFICES ASSUME DeliveryInit PROVE FlowInv
  OBVIOUS
<1>1. socket = <<>> /\ to_decode = <<>> /\ hand = <<>> /\ shown = <<>> /\ since = <<>>
  BY DEF DeliveryInit, Init
<1>2. tuned[Tv] = {} /\ pending[Tv] = <<>>
  BY DEF DeliveryInit, Sat!Init
<1> HIDE DEF DeliveryInit
<1> QED BY <1>1, <1>2 DEF FlowInv, P1, P2, P3, P4, P5, ShownAt, PacketsAt, LinesAt

flowVars == <<garbled, shown, hand, to_decode, socket, pending, tuned, since>>

LEMMA FlowStutter == FlowInv /\ UNCHANGED flowVars => FlowInv'
<1> SUFFICES ASSUME FlowInv, UNCHANGED flowVars PROVE FlowInv'
  OBVIOUS
<1>1. /\ garbled' = garbled /\ shown' = shown /\ hand' = hand /\ to_decode' = to_decode /\ socket' = socket
      /\ pending' = pending /\ tuned' = tuned /\ since' = since
  BY DEF flowVars
<1>2. P1' = P1 /\ P2' = P2 /\ P3' = P3 /\ P4' = P4 /\ P5' = P5
  BY <1>1 DEF P1, P2, P3, P4, P5
<1> QED BY <1>1, <1>2 DEF FlowInv

\* Append and Tail, element by element.
LEMMA AtEnd ==
  ASSUME NEW S, NEW q \in Seq(S), NEW x
  PROVE  /\ Len(q) \in Nat /\ Len(Append(q, x)) = Len(q) + 1
         /\ Append(q, x)[Len(q) + 1] = x
         /\ \A k \in 1..Len(q) : Append(q, x)[k] = q[k]
  OBVIOUS

LEMMA AtFront ==
  ASSUME NEW S, NEW q \in Seq(S), q # <<>>
  PROVE  /\ Len(q) \in Nat /\ Len(q) > 0 /\ Len(Tail(q)) = Len(q) - 1
         /\ Head(q) = q[1]
         /\ \A k \in 1..(Len(q) - 1) : Tail(q)[k] = q[k + 1]
  OBVIOUS

\* A queue grows at its end by the frame that is due there.
LEMMA Put ==
  ASSUME NEW w, NEW S, NEW n \in Nat, NEW q \in Seq(S), NEW x
  PROVE  /\ PacketsAt(w, n, q) /\ FrameData(x) = w[n + Len(q) + 1] => PacketsAt(w, n, Append(q, x))
         /\ ShownAt(w, n, q) /\ x = w[n + Len(q) + 1] => ShownAt(w, n, Append(q, x))
<1> DEFINE r == Append(q, x)
<1>1. /\ Len(q) \in Nat /\ Len(r) = Len(q) + 1 /\ r[Len(q) + 1] = x
      /\ \A k \in 1..Len(q) : r[k] = q[k]
  BY AtEnd
<1> HIDE DEF r
<1>2. \A k \in 1..Len(r) : k \in 1..Len(q) \/ k = Len(q) + 1
  BY <1>1
<1>3. n + (Len(q) + 1) = n + Len(q) + 1
  BY <1>1
<1>4. PacketsAt(w, n, q) /\ FrameData(x) = w[n + Len(q) + 1] => PacketsAt(w, n, r)
  BY <1>1, <1>2, <1>3 DEF PacketsAt
<1>5. ShownAt(w, n, q) /\ x = w[n + Len(q) + 1] => ShownAt(w, n, r)
  BY <1>1, <1>2, <1>3 DEF ShownAt
<1> QED BY <1>4, <1>5 DEF r

\* The head of a queue is the frame that is due after its place.
LEMMA Take ==
  ASSUME NEW w, NEW S, NEW n \in Nat, NEW q \in Seq(S), q # <<>>
  PROVE  /\ PacketsAt(w, n, q) => FrameData(Head(q)) = w[n + 1] /\ PacketsAt(w, n + 1, Tail(q))
         /\ LinesAt(w, n, q) => FrameData(Head(q).encoded) = w[n + 1] /\ LinesAt(w, n + 1, Tail(q))
<1> DEFINE r == Tail(q)
<1>1. /\ Len(q) \in Nat /\ Len(q) > 0 /\ Len(r) = Len(q) - 1 /\ Head(q) = q[1]
      /\ \A k \in 1..(Len(q) - 1) : r[k] = q[k + 1]
  BY AtFront
<1> HIDE DEF r
<1>2. \A k \in 1..Len(r) : k + 1 \in 1..Len(q) /\ r[k] = q[k + 1] /\ n + (k + 1) = (n + 1) + k
  BY <1>1
<1>3. PacketsAt(w, n, q) => FrameData(Head(q)) = w[n + 1] /\ PacketsAt(w, n + 1, r)
  BY <1>1, <1>2 DEF PacketsAt
<1>4. LinesAt(w, n, q) => FrameData(Head(q).encoded) = w[n + 1] /\ LinesAt(w, n + 1, r)
  BY <1>1, <1>2 DEF LinesAt
<1> QED BY <1>3, <1>4 DEF r

\* Another frame is encoded.
LEMMA Longer ==
  ASSUME NEW w, NEW S, NEW T, NEW g, w \in Seq(T), NEW n \in Nat, NEW q \in Seq(S), n + Len(q) <= Len(w)
  PROVE  /\ ShownAt(w, n, q) => ShownAt(Append(w, g), n, q)
         /\ PacketsAt(w, n, q) => PacketsAt(Append(w, g), n, q)
  BY DEF ShownAt, PacketsAt

\* The satellite takes the line of that frame.
LEMMA LongerLine ==
  ASSUME NEW w, NEW S, NEW T, NEW l, w \in Seq(T), NEW n \in Nat, NEW q \in Seq(S), n + Len(q) = Len(w),
         LinesAt(w, n, q)
  PROVE  LinesAt(Append(w, FrameData(l.encoded)), n, Append(q, l))
  BY DEF LinesAt

LEMMA FlowNext == ControlInv /\ SeqInv /\ FlowInv /\ [Next]_vars => FlowInv'
<1> SUFFICES ASSUME ControlInv, SeqInv, FlowInv, [Next]_vars PROVE FlowInv'
  OBVIOUS
<1>0. /\ shown \in Seq(Screens) /\ since \in Seq(Screens)
      /\ hand \in Seq(Mine) /\ to_decode \in Seq(Mine) /\ socket \in Seq(Mine)
      /\ pending[Tv] \in Seq(MyLines) /\ tuned[Tv] \in {{}, {port}}
  BY DEF SeqInv
<1>a. /\ P1 \in Nat /\ P2 \in Nat /\ P3 \in Nat /\ P4 \in Nat /\ P5 \in Nat
      /\ Len(hand) \in Nat /\ Len(to_decode) \in Nat /\ Len(socket) \in Nat /\ Len(pending[Tv]) \in Nat
      /\ Len(since) \in Nat
  <2>1. /\ Len(shown) \in Nat /\ Len(hand) \in Nat /\ Len(to_decode) \in Nat /\ Len(socket) \in Nat
        /\ Len(pending[Tv]) \in Nat /\ Len(since) \in Nat
    BY <1>0
  <2>2. P1 \in Nat /\ P2 \in Nat
    BY <2>1 DEF P1, P2
  <2>3. P3 \in Nat /\ P4 \in Nat
    BY <2>1, <2>2 DEF P3, P4
  <2> QED BY <2>1, <2>2, <2>3 DEF P5
<1>1. CASE UNCHANGED flowVars
  BY <1>1, FlowStutter
<1>2. ASSUME NEW f \in Frames, Publish(f), ~ UNCHANGED flowVars PROVE FlowInv'
  <2>1. /\ tuned' = tuned /\ garbled' = garbled
        /\ shown' = shown /\ hand' = hand /\ to_decode' = to_decode /\ socket' = socket
    BY <1>2 DEF Publish, Sat!Publish, tvVars
  <2>2. CASE tuned[Tv] = {port} /\ f.channel \in {port, Emergency}
    <3>1. /\ Line(f).channel = f.channel /\ FrameData(Line(f).encoded) = f.frame
      BY <2>2, Carried
    <3>2. since' = Append(since, f.frame)
      BY <1>2, <2>2 DEF Publish
    <3>3. \E c \in tuned[Tv] : GoesTo(Line(f), c)
      BY <2>2, <3>1 DEF GoesTo
    <3>4. pending'[Tv] = Append(pending[Tv], Line(f))
      BY <1>2, <3>3 DEF Publish, Sat!Publish
    <3>5. P1' = P1 /\ P2' = P2 /\ P3' = P3 /\ P4' = P4
      BY <2>1 DEF P1, P2, P3, P4
    <3>6. P5' = P5 + 1 /\ Len(since') = Len(since) + 1
      <4>1. Len(pending'[Tv]) = Len(pending[Tv]) + 1
        BY <1>0, <3>4, AtEnd
      <4>2. Len(since') = Len(since) + 1
        BY <1>0, <3>2, AtEnd
      <4> QED BY <1>a, <3>5, <4>1, <4>2 DEF P5
    <3> SUFFICES ASSUME ~garbled PROVE FlowInv'
      BY <2>1 DEF FlowInv
    <3>7. P5 = Len(since)
      BY <2>2 DEF FlowInv
    <3>8. P1 <= Len(since) /\ P2 <= Len(since) /\ P3 <= Len(since) /\ P4 <= Len(since)
      <4>1. P4 <= P5
        BY <1>a DEF P5
      <4>2. P3 <= P4
        BY <1>a DEF P4
      <4>3. P2 <= P3
        BY <1>a DEF P3
      <4>4. P1 <= P2
        BY <1>a DEF P2
      <4> HIDE DEF P1, P2, P3, P4, P5
      <4> QED BY <1>a, <3>7, <4>1, <4>2, <4>3, <4>4
    <3>9. ShownAt(since', 0, shown)
      <4> DEFINE n == 0
      <4>1. ShownAt(since, n, shown) /\ n + Len(shown) <= Len(since) /\ n \in Nat
        BY <1>a, <3>8 DEF FlowInv, P1
      <4> HIDE DEF n
      <4>2. ShownAt(since', n, shown)
        BY <1>0, <3>2, <4>1, Longer
      <4> QED BY <4>2 DEF n
    <3>10. PacketsAt(since', P1, hand)
      BY <1>0, <1>a, <3>2, <3>8, Longer DEF FlowInv, P2
    <3>11. PacketsAt(since', P2, to_decode)
      BY <1>0, <1>a, <3>2, <3>8, Longer DEF FlowInv, P3
    <3>12. PacketsAt(since', P3, socket)
      BY <1>0, <1>a, <3>2, <3>8, Longer DEF FlowInv, P4
    <3>13. LinesAt(since', P4, pending'[Tv])
      BY <1>0, <1>a, <3>1, <3>2, <3>4, <3>7, LongerLine DEF FlowInv, P5
    <3> QED BY <1>a, <2>1, <3>5, <3>6, <3>7, <3>9, <3>10, <3>11, <3>12, <3>13 DEF FlowInv
  <2>3. CASE tuned[Tv] = {} \/ f.channel \notin {port, Emergency}
    <3>1. Line(f).channel = f.channel
      BY Carried
    <3>2. ~ \E c \in tuned[Tv] : GoesTo(Line(f), c)
      BY <1>0, <2>3, <3>1 DEF GoesTo
    <3>3. ~ \E c \in tuned[Tv] : f.channel \in {c, Emergency}
      BY <1>0, <2>3
    <3>4. since' = since
      BY <1>2, <3>3 DEF Publish
    <3>5. pending'[Tv] = pending[Tv]
      BY <1>2, <3>2 DEF Publish, Sat!Publish
    <3>6. P1' = P1 /\ P2' = P2 /\ P3' = P3 /\ P4' = P4 /\ P5' = P5
      BY <2>1, <3>5 DEF P1, P2, P3, P4, P5
    <3> QED BY <2>1, <3>4, <3>5, <3>6 DEF FlowInv
  <2> QED BY <1>0, <2>2, <2>3
<1>3. CASE Send
  <2>1. /\ pending[Tv] # <<>> /\ tuned' = tuned /\ garbled' = garbled /\ since' = since
        /\ pending'[Tv] = Tail(pending[Tv])
        /\ socket' = Append(socket, Head(pending[Tv]).encoded)
        /\ shown' = shown /\ hand' = hand /\ to_decode' = to_decode
    BY <1>3 DEF Send, Sat!Send, SeqInv
  <2>2. /\ Len(socket') = Len(socket) + 1
        /\ Len(pending'[Tv]) = Len(pending[Tv]) - 1
    BY <1>0, <2>1, AtEnd, AtFront
  <2>3. P1' = P1 /\ P2' = P2 /\ P3' = P3
    BY <2>1 DEF P1, P2, P3
  <2>4. P4' = P4 + 1 /\ P5' = P5
    <3>1. P4' = P4 + 1
      BY <1>a, <2>2, <2>3 DEF P4
    <3>2. P5' = P5
      <4> DEFINE l == Len(pending[Tv])
                 m == Len(pending'[Tv])
      <4>1. P5 = P4 + l /\ P5' = P4' + m
        BY DEF P5
      <4>2. l \in Nat /\ m = l - 1 /\ P4 \in Nat
        BY <1>a, <2>2
      <4> HIDE DEF l, m
      <4> QED BY <3>1, <4>1, <4>2
    <3> QED BY <3>1, <3>2
  <2> SUFFICES ASSUME ~garbled PROVE FlowInv'
    BY <2>1 DEF FlowInv
  <2>5. FrameData(Head(pending[Tv]).encoded) = since[P4 + 1] /\ LinesAt(since, P4 + 1, pending'[Tv])
    BY <1>0, <1>a, <2>1, Take DEF FlowInv
  <2>6. PacketsAt(since, P3, socket')
    BY <1>0, <1>a, <2>1, <2>5, Put DEF FlowInv, P4
  <2> QED BY <2>1, <2>3, <2>4, <2>5, <2>6 DEF FlowInv
<1>4. CASE Close
  <2>1. tuned'[Tv] = {} /\ pending'[Tv] = <<>> /\ UNCHANGED <<tvVars, since, garbled>>
    BY <1>4 DEF Close, Sat!Leave
  <2>2. /\ since' = since /\ garbled' = garbled
        /\ shown' = shown /\ hand' = hand /\ to_decode' = to_decode /\ socket' = socket
    BY <2>1 DEF tvVars
  <2>3. P1' = P1 /\ P2' = P2 /\ P3' = P3 /\ P4' = P4
    BY <2>2 DEF P1, P2, P3, P4
  <2>4. Len(pending'[Tv]) = 0
    BY <2>1
  <2>5. P5' = P4 /\ P4 <= P5
    BY <1>a, <2>3, <2>4 DEF P5
  <2>6. LinesAt(since, P4, pending'[Tv])
    BY <2>4 DEF LinesAt
  <2>7. garbled \/ P5' <= Len(since)
    BY <1>a, <2>5 DEF FlowInv
  <2> QED BY <2>1, <2>2, <2>3, <2>6, <2>7 DEF FlowInv
<1>5. CASE Listen
  <2>1. /\ pending' = pending /\ rx = "connect"
        /\ UNCHANGED <<since, garbled, socket, to_decode, hand, shown>>
    BY <1>5 DEF Listen, Connect, Sat!Listen
  <2>2. /\ since = <<>> /\ shown = <<>> /\ hand = <<>> /\ to_decode = <<>> /\ socket = <<>>
        /\ pending[Tv] = <<>>
    BY <2>1 DEF SeqInv
  <2>3. P1' = P1 /\ P2' = P2 /\ P3' = P3 /\ P4' = P4 /\ P5' = P5
    BY <2>1 DEF P1, P2, P3, P4, P5
  <2>4. P5 = 0 /\ Len(since) = 0
    BY <2>2 DEF P1, P2, P3, P4, P5
  <2> QED BY <2>1, <2>3, <2>4 DEF FlowInv
<1>6. CASE Receive /\ Alone
  <2>1. /\ socket # <<>> /\ tuned' = tuned /\ garbled' = garbled /\ since' = since /\ pending' = pending
        /\ to_decode' = Append(to_decode, Head(socket)) /\ socket' = Tail(socket)
        /\ shown' = shown /\ hand' = hand
    BY <1>6 DEF Receive, Alone, satVars
  <2>2. Len(to_decode') = Len(to_decode) + 1 /\ Len(socket') = Len(socket) - 1
    BY <1>0, <2>1, AtEnd, AtFront
  <2>3. P1' = P1 /\ P2' = P2
    BY <2>1 DEF P1, P2
  <2>4. P3' = P3 + 1 /\ P4' = P4
    BY <1>a, <2>2, <2>3 DEF P3, P4
  <2>5. P5' = P5
    BY <2>1, <2>4 DEF P5
  <2> SUFFICES ASSUME ~garbled PROVE FlowInv'
    BY <2>1 DEF FlowInv
  <2>6. FrameData(Head(socket)) = since[P3 + 1] /\ PacketsAt(since, P3 + 1, socket')
    BY <1>0, <1>a, <2>1, Take DEF FlowInv
  <2>7. PacketsAt(since, P2, to_decode')
    BY <1>0, <1>a, <2>1, <2>6, Put DEF FlowInv, P3
  <2> QED BY <2>1, <2>3, <2>4, <2>5, <2>6, <2>7 DEF FlowInv
<1>7. CASE Ask
  <2>1. /\ to_decode # <<>> /\ tuned' = tuned /\ garbled' = garbled /\ since' = since /\ pending' = pending
        /\ to_decode' = Tail(to_decode) /\ hand' = <<Head(to_decode)>>
        /\ shown' = shown /\ socket' = socket
    BY <1>7 DEF Ask, Look, Queued, NextFrame, satVars
  <2>2. hand = <<>>
    BY <1>7 DEF Ask, Look, SeqInv
  <2>3. Len(hand) = 0 /\ Len(hand') = 1 /\ Len(to_decode') = Len(to_decode) - 1
    BY <1>0, <2>1, <2>2, AtFront
  <2>4. P1' = P1 /\ P2 = P1 /\ P2' = P1 + 1 /\ P3' = P3
    BY <1>a, <2>1, <2>3 DEF P1, P2, P3
  <2>5. P4' = P4 /\ P5' = P5
    BY <2>1, <2>4 DEF P4, P5
  <2> SUFFICES ASSUME ~garbled PROVE FlowInv'
    BY <2>1 DEF FlowInv
  <2>6. FrameData(Head(to_decode)) = since[P2 + 1] /\ PacketsAt(since, P2 + 1, to_decode')
    BY <1>0, <1>a, <2>1, Take DEF FlowInv
  <2>7. PacketsAt(since, P1, hand')
    BY <2>1, <2>3, <2>4, <2>6 DEF PacketsAt
  <2> QED BY <2>1, <2>4, <2>5, <2>6, <2>7 DEF FlowInv
<1>8. CASE Answered /\ Show(FrameData(hand[1]))
  <2>1. /\ dec = "call" /\ tuned' = tuned /\ garbled' = garbled /\ since' = since /\ pending' = pending
        /\ to_decode' = to_decode /\ socket' = socket
        /\ shown' = Append(shown, FrameData(hand[1])) /\ hand' = <<>>
    BY <1>8 DEF Answered, Show, satVars
  <2>2. Len(hand) = 1
    BY <2>1 DEF SeqInv
  <2>3. hand # <<>>
    BY <1>0, <2>2, TheOnly
  <2>4. hand[1] = Head(hand)
    BY <1>0, <2>3, AtFront
  <2>5. Len(shown') = Len(shown) + 1 /\ Len(hand') = 0 /\ Len(shown) \in Nat
    BY <1>0, <2>1, AtEnd
  <2>6. P1' = P1 + 1 /\ P2' = P2
    BY <1>a, <2>2, <2>5 DEF P1, P2
  <2>7. P3' = P3 /\ P4' = P4 /\ P5' = P5
    BY <2>1, <2>6 DEF P3, P4, P5
  <2> SUFFICES ASSUME ~garbled PROVE FlowInv'
    BY <2>1 DEF FlowInv
  <2>8. FrameData(hand[1]) = since[P1 + 1]
    <3>1. PacketsAt(since, P1, hand)
      BY DEF FlowInv
    <3> DEFINE n == Len(hand)
    <3>2. n = 1 /\ 1 \in 1..n
      BY <2>2
    <3> HIDE DEF n
    <3>3. \A k \in 1..n : FrameData(hand[k]) = since[P1 + k]
      BY <3>1 DEF PacketsAt, n
    <3> QED BY <3>2, <3>3
  <2>9. ShownAt(since, 0, shown')
    <3> DEFINE n == 0
    <3>1. ShownAt(since, n, shown) /\ n + Len(shown) + 1 = P1 + 1 /\ n \in Nat
      BY <2>5 DEF FlowInv, P1
    <3> HIDE DEF n
    <3>2. ShownAt(since, n, shown')
      BY <1>0, <2>1, <2>8, <3>1, Put
    <3> QED BY <3>2 DEF n
  <2>10. PacketsAt(since, P1', hand')
    BY <2>5 DEF PacketsAt
  <2> QED BY <2>1, <2>6, <2>7, <2>9, <2>10 DEF FlowInv
<1>9. CASE CutCall /\ Show(Garbage)
  <2>1. CASE garbled'
    BY <2>1 DEF FlowInv
  <2>2. CASE ~garbled'
    <3>1. dec' = "check" /\ DecodeFails
      BY <1>9, <2>2 DEF CutCall, Show
    <3> QED BY <3>1 DEF DecodeFails
  <2> QED BY <2>1, <2>2
<1>10. CASE CutCall /\ DecodeFails /\ UNCHANGED garbled
  BY <1>10, FlowStutter DEF CutCall, DecodeFails, satVars, flowVars
<1>11. CASE Answered /\ DecodeFails
  BY <1>11, FlowStutter DEF Answered, DecodeFails, satVars, flowVars
<1>12. CASE (\E r \in Requests : Subscribe(r)) \/ Subscribed \/ List
  BY <1>12, FlowStutter DEF Subscribe, Subscribed, List, ToolsRun, tvVars, satVars, flowVars
<1>13. CASE run \/ CtrlC
  BY <1>13, FlowStutter DEF run, CtrlC, Alone, StartDecode, StartDownlink, Poll, Interrupt, SetCrash,
    satVars, flowVars
<1>14. CASE (CheckReceive \/ DownlinkFails \/ CheckDecode \/ LookAgain) /\ Alone
  BY <1>14, FlowStutter DEF CheckReceive, DownlinkFails, CheckDecode, LookAgain, Alone, satVars, flowVars
<1>15. CASE Serve \/ PowerLoss
  BY <1>15, FlowStutter DEF Serve, PowerLoss, tvVars, satVars, flowVars
<1>16. CASE UNCHANGED vars
  BY <1>16, FlowStutter DEF vars, tvVars, satVars, flowVars
<1>17. CASE downlink
  BY <1>5, <1>6, <1>14, <1>17 DEF downlink
<1>18. CASE decode
  BY <1>7, <1>8, <1>11, <1>14, <1>18 DEF decode, Answered
<1>19. CASE CutCall
  BY <1>9, <1>10, <1>19 DEF CutCall
<1> QED BY <1>1, <1>2, <1>3, <1>4, <1>12, <1>13, <1>15, <1>16, <1>17, <1>18, <1>19 DEF Next

\* Two pieces that stand one after the other, together.
LEMMA Glue ==
  ASSUME NEW w, NEW S, NEW n \in Nat, NEW a \in Seq(S), NEW b \in Seq(S),
         ShownAt(w, n, a), ShownAt(w, n + Len(a), b)
  PROVE  ShownAt(w, n, a \o b) /\ a \o b \in Seq(S) /\ Len(a \o b) = Len(a) + Len(b)
<1> DEFINE c == a \o b
<1>1. /\ c \in Seq(S) /\ Len(c) = Len(a) + Len(b) /\ Len(a) \in Nat /\ Len(b) \in Nat
      /\ \A k \in 1..Len(a) : c[k] = a[k]
      /\ \A k \in 1..Len(b) : c[Len(a) + k] = b[k]
  OBVIOUS
<1> HIDE DEF c
<1>2. ASSUME NEW k \in 1..Len(c) PROVE c[k] = w[n + k]
  <2>1. CASE k <= Len(a)
    BY <1>1, <2>1 DEF ShownAt
  <2>2. CASE k > Len(a)
    <3>1. PICK j \in 1..Len(b) : k = Len(a) + j
      <4>1. k - Len(a) \in 1..Len(b) /\ k = Len(a) + (k - Len(a))
        BY <1>1, <2>2
      <4> QED BY <4>1
    <3>2. n + Len(a) + j = n + k
      BY <1>1, <3>1
    <3> QED BY <1>1, <3>1, <3>2 DEF ShownAt
  <2> QED BY <1>1, <2>1, <2>2
<1>3. ShownAt(w, n, c)
  BY <1>2 DEF ShownAt
<1> QED BY <1>1, <1>3 DEF c

\* The frames of a sequence of packets, and of lines, are sequences of frames.
LEMMA Opened ==
  ASSUME NEW w, NEW n \in Nat, NEW q \in Seq(Mine), PacketsAt(w, n, q)
  PROVE  ShownAt(w, n, FramesOf(q)) /\ FramesOf(q) \in Seq(Screens) /\ Len(FramesOf(q)) = Len(q)
<1>1. \A k \in 1..Len(q) : FrameData(q[k]) \in Screens
  BY MineCarried DEF Screens
<1>2. FramesOf(q) = [k \in 1..Len(q) |-> FrameData(q[k])]
  BY DEF FramesOf
<1>3. Len(q) \in Nat
  OBVIOUS
<1>4. FramesOf(q) \in [1..Len(q) -> Screens]
  BY <1>1, <1>2
<1>5. FramesOf(q) \in Seq(Screens) /\ Len(FramesOf(q)) = Len(q)
  BY <1>3, <1>4
<1> QED BY <1>2, <1>5 DEF ShownAt, PacketsAt

LEMMA OpenedLines ==
  ASSUME NEW w, NEW n \in Nat, NEW q \in Seq(MyLines), LinesAt(w, n, q), NEW x,
         x = [k \in DOMAIN q |-> FrameData(q[k].encoded)]
  PROVE  ShownAt(w, n, x) /\ x \in Seq(Screens) /\ Len(x) = Len(q)
<1>1. ASSUME NEW k \in 1..Len(q) PROVE FrameData(q[k].encoded) \in Screens
  <2>1. q[k] \in MyLines
    OBVIOUS
  <2>2. q[k].encoded \in Mine
    BY <2>1 DEF Mine, MyLines
  <2> QED BY <2>2, MineCarried DEF Screens
<1>2. x = [k \in 1..Len(q) |-> FrameData(q[k].encoded)]
  OBVIOUS
<1>3. Len(q) \in Nat
  OBVIOUS
<1>4. x \in [1..Len(q) -> Screens]
  BY <1>1, <1>2
<1>5. x \in Seq(Screens) /\ Len(x) = Len(q)
  BY <1>3, <1>4
<1> QED BY <1>2, <1>5 DEF ShownAt, LinesAt

\* What the TV shows is a prefix of what was encoded for its channel since it
\* listens, each frame once, whole and in order; and while it is connected the
\* queues and the frame in hand hold exactly the rest.
THEOREM AllDelivered == Spec => []Delivered
<1>1. SeqInv /\ FlowInv => Delivered
  <2> SUFFICES ASSUME SeqInv, FlowInv, ~garbled PROVE Delivered
    BY DEF Delivered
  <2> DEFINE A == FramesOf(hand)
             B == FramesOf(to_decode)
             C == FramesOf(socket)
             D == [k \in DOMAIN pending[Tv] |-> FrameData(pending[Tv][k].encoded)]
  <2>0. /\ shown \in Seq(Screens) /\ since \in Seq(Screens)
        /\ hand \in Seq(Mine) /\ to_decode \in Seq(Mine) /\ socket \in Seq(Mine)
        /\ pending[Tv] \in Seq(MyLines)
    BY DEF SeqInv
  <2>1. /\ Len(shown) \in Nat /\ Len(hand) \in Nat /\ Len(to_decode) \in Nat /\ Len(socket) \in Nat
        /\ Len(pending[Tv]) \in Nat /\ Len(since) \in Nat
    BY <2>0
  <2>2. P1 \in Nat /\ P2 \in Nat
    BY <2>1 DEF P1, P2
  <2>3. P3 \in Nat /\ P4 \in Nat
    BY <2>1, <2>2 DEF P3, P4
  <2>4. ShownAt(since, P1, A) /\ A \in Seq(Screens) /\ Len(A) = Len(hand)
    BY <2>0, <2>2, Opened DEF FlowInv
  <2>5. ShownAt(since, P2, B) /\ B \in Seq(Screens) /\ Len(B) = Len(to_decode)
    BY <2>0, <2>2, Opened DEF FlowInv
  <2>6. ShownAt(since, P3, C) /\ C \in Seq(Screens) /\ Len(C) = Len(socket)
    BY <2>0, <2>3, Opened DEF FlowInv
  <2>7. ShownAt(since, P4, D) /\ D \in Seq(Screens) /\ Len(D) = Len(pending[Tv])
    BY <2>0, <2>3, OpenedLines DEF FlowInv
  <2>8. InFlight = ((A \o B) \o C) \o D
    BY DEF InFlight
  <2> HIDE DEF A, B, C, D
  <2>9. ShownAt(since, P1, A \o B) /\ A \o B \in Seq(Screens) /\ P1 + Len(A \o B) = P3
    <3>1. P1 + Len(A) = P2
      BY <2>4 DEF P2
    <3>2. ShownAt(since, P1, A \o B) /\ A \o B \in Seq(Screens) /\ Len(A \o B) = Len(A) + Len(B)
      BY <2>2, <2>4, <2>5, <3>1, Glue
    <3>3. P1 + (Len(A) + Len(B)) = (P1 + Len(A)) + Len(B)
      BY <2>1, <2>2, <2>4, <2>5
    <3> QED BY <2>5, <3>1, <3>2, <3>3 DEF P3
  <2> DEFINE E == A \o B
  <2>10. ShownAt(since, P1, E) /\ E \in Seq(Screens) /\ P1 + Len(E) = P3
    BY <2>9
  <2> HIDE DEF E
  <2>11. ShownAt(since, P1, E \o C) /\ E \o C \in Seq(Screens) /\ P1 + Len(E \o C) = P4
    <3>1. ShownAt(since, P1, E \o C) /\ E \o C \in Seq(Screens) /\ Len(E \o C) = Len(E) + Len(C)
      BY <2>2, <2>6, <2>10, Glue
    <3>2. P1 + (Len(E) + Len(C)) = (P1 + Len(E)) + Len(C)
      BY <2>1, <2>2, <2>6, <2>10
    <3> QED BY <2>6, <2>10, <3>1, <3>2 DEF P4
  <2> DEFINE F == E \o C
  <2>12. ShownAt(since, P1, F) /\ F \in Seq(Screens) /\ P1 + Len(F) = P4
    BY <2>11
  <2> HIDE DEF F
  <2>13. ShownAt(since, P1, F \o D) /\ F \o D \in Seq(Screens) /\ P1 + Len(F \o D) = P5
    <3>1. ShownAt(since, P1, F \o D) /\ F \o D \in Seq(Screens) /\ Len(F \o D) = Len(F) + Len(D)
      BY <2>2, <2>7, <2>12, Glue
    <3>2. P1 + (Len(F) + Len(D)) = (P1 + Len(F)) + Len(D)
      <4>1. Len(F) \in Nat
        BY <2>12
      <4>2. Len(D) \in Nat
        BY <2>1, <2>7
      <4> QED BY <2>2, <4>1, <4>2
    <3> QED BY <2>7, <2>12, <3>1, <3>2 DEF P5
  <2> DEFINE G == F \o D
  <2>14. ShownAt(since, P1, G) /\ G \in Seq(Screens) /\ P1 + Len(G) = P5 /\ InFlight = G
    BY <2>8, <2>13 DEF E, F
  <2> HIDE DEF G
  <2>15. ShownAt(since, 0, shown \o G) /\ shown \o G \in Seq(Screens) /\ Len(shown \o G) = P5
    <3> DEFINE n == 0
    <3>1. n \in Nat /\ ShownAt(since, n, shown) /\ n + Len(shown) = P1
      BY <2>1 DEF FlowInv, P1
    <3> HIDE DEF n
    <3>2. ShownAt(since, n, shown \o G) /\ shown \o G \in Seq(Screens) /\ Len(shown \o G) = Len(shown) + Len(G)
      BY <2>0, <2>14, <3>1, Glue
    <3> QED BY <2>14, <3>2 DEF n, P1
  <2>16. SubSeq(since, 1, Len(shown)) = shown
    <3>1. Len(shown) <= Len(since)
      <4>1. P1 <= P2
        BY <2>1, <2>2 DEF P2
      <4>2. P2 <= P3
        BY <2>1, <2>2 DEF P3
      <4>3. P3 <= P4
        BY <2>1, <2>3 DEF P4
      <4>4. P4 <= P5 /\ P5 \in Nat
        BY <2>1, <2>3 DEF P5
      <4>5. P5 <= Len(since)
        BY DEF FlowInv
      <4>6. P1 <= Len(since)
        BY <2>1, <2>2, <2>3, <4>1, <4>2, <4>3, <4>4, <4>5
      <4> QED BY <4>6 DEF P1
    <3>2. \A k \in 1..Len(shown) : shown[k] = since[k]
      BY DEF FlowInv, ShownAt
    <3> QED BY <2>0, <2>1, <3>1, <3>2
  <2>17. ASSUME tuned[Tv] # {} PROVE shown \o InFlight = since
    <3> DEFINE H == shown \o G
    <3>1. ShownAt(since, 0, H) /\ H \in Seq(Screens) /\ Len(H) = P5
      BY <2>15
    <3> HIDE DEF H
    <3>2. P5 = Len(since)
      BY <2>17 DEF FlowInv
    <3>3. \A k \in 1..Len(H) : H[k] = since[k]
      BY <3>1 DEF ShownAt
    <3>4. H = since
      BY <2>0, <3>1, <3>2, <3>3
    <3> QED BY <2>14, <3>4 DEF H
  <2> QED BY <2>16, <2>17 DEF Delivered
<1> QED BY ControlInit, ControlNext, SeqInit, SeqNext, FlowInit, FlowNext, <1>1, PTL DEF Spec

-----------------------------------------------------------------------------
(* The subscriptions: the decoder holds what was requested. *)

\* The map of the decoder is the one that the accepted requests make, and its
\* numbers fit their fields.
MapInv ==
  /\ subs = wanted
  /\ subs \in [DOMAIN subs -> [start : Stamps, end : Stamps]]
  /\ DOMAIN subs \subseteq 0..(Word32 - 1)
  /\ IsFiniteSet(DOMAIN subs) /\ Cardinality(DOMAIN subs) <= Capacity
  /\ ListTells

LEMMA MapInit == DeliveryInit => MapInv
<1> SUFFICES ASSUME DeliveryInit PROVE MapInv
  OBVIOUS
<1>1. subs = [c \in {} |-> c] /\ wanted = [c \in {} |-> c] /\ listed = {}
  BY DEF DeliveryInit, Decoder!Init
<1>2. DOMAIN subs = {}
  BY <1>1
<1>3. IsFiniteSet(DOMAIN subs) /\ Cardinality(DOMAIN subs) = 0
  BY <1>2, FS_EmptySet
<1>4. Cardinality(DOMAIN subs) <= Capacity
  BY <1>3, DeliveryAssumption
<1>5. subs \in [DOMAIN subs -> [start : Stamps, end : Stamps]]
  BY <1>1
<1>6. ListTells
  BY <1>1 DEF ListTells
<1> QED BY <1>1, <1>2, <1>3, <1>4, <1>5, <1>6 DEF MapInv

\* A generated subscription arrives as it was requested.
LEMMA Requested ==
  ASSUME NEW r \in Requests
  PROVE  /\ UpdateOf(gen_subscription(r)) = [channel |-> r.channel, start |-> r.start, end |-> r.end]
         /\ r.channel \in 0..(Word32 - 1) /\ r.start \in Stamps /\ r.end \in Stamps
<1>1. r \in [device_id : 0..(Word32 - 1), channel : 0..(Word32 - 1),
             start : 0..(Word32 * Word32 - 1), end : 0..(Word32 * Word32 - 1)]
  BY DeliveryAssumption
<1>2. r \in [device_id : Nat, start : Stamps, end : Stamps, channel : 0..(Word32 - 1)]
  BY <1>1, Word DEF Stamps
<1> QED BY <1>2, WindowCarried

mapVars == <<subs, wanted, listed>>

LEMMA MapStutter == MapInv /\ UNCHANGED mapVars => MapInv'
<1> SUFFICES ASSUME MapInv, UNCHANGED mapVars PROVE MapInv'
  OBVIOUS
<1>1. subs' = subs /\ wanted' = wanted /\ listed' = listed
  BY DEF mapVars
<1>2. ListTells'
  BY <1>1 DEF MapInv, ListTells
<1> QED BY <1>1, <1>2 DEF MapInv

\* The operator of the instance is that of FiniteSets.
LEMMA SameCardinality == ASSUME NEW S PROVE Decoder!Cardinality(S) = Cardinality(S)
  BY DEF Cardinality, Decoder!Cardinality

\* tv.subscribe: the slots are counted by the decoder as the requests are here.
LEMMA MapAccept ==
  ASSUME NEW r \in Requests, Subscribe(r), MapInv
  PROVE  MapInv'
<1> DEFINE u == UpdateOf(gen_subscription(r))
<1>1. /\ u = [channel |-> r.channel, start |-> r.start, end |-> r.end]
      /\ r.channel \in 0..(Word32 - 1) /\ r.start \in Stamps /\ r.end \in Stamps
  BY Requested
<1>2. CASE Decoder!Refuse(u) /\ UNCHANGED <<wanted, listed>>
  BY <1>2, MapStutter DEF Decoder!Refuse, mapVars
<1>3. CASE /\ Decoder!Accept(u) /\ listed' = {}
           /\ wanted' = [c \in DOMAIN wanted \cup {r.channel} |->
                          IF c = r.channel THEN [start |-> r.start, end |-> r.end] ELSE wanted[c]]
  <2>1. /\ Decoder!Acceptable(u)
        /\ subs' = [c \in DOMAIN subs \cup {u.channel} |->
                      IF c = u.channel THEN [start |-> u.start, end |-> u.end] ELSE subs[c]]
    BY <1>3 DEF Decoder!Accept
  <2> HIDE DEF u
  <2>2. u.channel = r.channel /\ u.start = r.start /\ u.end = r.end
    BY <1>1
  <2>3. subs' = wanted'
    BY <1>3, <2>1, <2>2 DEF MapInv
  <2>4. DOMAIN subs' = DOMAIN subs \cup {r.channel}
    BY <2>1, <2>2
  <2>5. DOMAIN subs' \subseteq 0..(Word32 - 1)
    BY <1>1, <2>4 DEF MapInv
  <2>6. subs' \in [DOMAIN subs' -> [start : Stamps, end : Stamps]]
    <3>1. ASSUME NEW c \in DOMAIN subs'
          PROVE  subs'[c] \in [start : Stamps, end : Stamps]
      <4>1. CASE c = r.channel
        BY <1>1, <2>1, <2>2, <4>1
      <4>2. CASE c # r.channel
        BY <2>1, <2>2, <2>4, <4>2 DEF MapInv
      <4> QED BY <4>1, <4>2
    <3>2. subs' = [c \in DOMAIN subs' |-> subs'[c]]
      BY <2>1
    <3> QED BY <3>1, <3>2
  <2>7. IsFiniteSet(DOMAIN subs') /\ Cardinality(DOMAIN subs') <= Capacity
    <3> DEFINE S == DOMAIN subs
               c == r.channel
    <3>1. IsFiniteSet(S) /\ Cardinality(S) <= Capacity /\ Cardinality(S) \in Nat /\ Capacity \in Nat
      BY FS_CardinalityType, DeliveryAssumption, Word DEF MapInv
    <3>2. c \in S \/ Cardinality(S) < Capacity
      <4>1. u.channel \in DOMAIN subs \/ Cardinality(DOMAIN subs) < Capacity
        BY <2>1, SameCardinality DEF Decoder!Acceptable
      <4> QED BY <4>1, <2>2
    <3> HIDE DEF S, c
    <3>3. /\ IsFiniteSet(S \cup {c})
          /\ Cardinality(S \cup {c}) = IF c \in S THEN Cardinality(S) ELSE Cardinality(S) + 1
      BY <3>1, FS_AddElement
    <3>4. IsFiniteSet(S \cup {c}) /\ Cardinality(S \cup {c}) <= Capacity
      BY <3>1, <3>2, <3>3
    <3> QED BY <2>4, <3>4 DEF S, c
  <2>8. ListTells'
    BY <1>3 DEF ListTells
  <2> QED BY <2>3, <2>5, <2>6, <2>7, <2>8 DEF MapInv
<1> QED BY <1>2, <1>3 DEF Subscribe

\* tv.list: the number of slots fits the first field, and the list comes through.
LEMMA MapList ==
  ASSUME List, MapInv
  PROVE  MapInv'
<1>1. subs' = subs /\ wanted' = wanted
  BY DEF List, Decoder!List
<1> DEFINE S == DOMAIN subs
           n == Cardinality(S)
           Info(c) == [channel |-> c, start |-> subs[c].start, end |-> subs[c].end]
<1>2. n \in Nat /\ n < Word32
  BY FS_CardinalityType, DeliveryAssumption, Word DEF MapInv
<1>3. PICK order \in Orders(S) :
        listed' = {UnpackList(ListResponse([k \in DOMAIN order |->
                     [channel |-> order[k], start |-> subs[order[k]].start, end |-> subs[order[k]].end]]))}
  BY DEF List
<1>4. order \in [1..n -> S] /\ \A c \in S : \E k \in 1..n : order[k] = c
  BY <1>3 DEF Orders
<1> DEFINE infos == [k \in 1..n |-> Info(order[k])]
<1>5. \A c \in S : Info(c) \in Infos
  BY DEF Infos, MapInv
<1>6. infos \in [1..n -> Infos]
  BY <1>4, <1>5
<1>7. listed' = {UnpackList(ListResponse(infos))}
  BY <1>3, <1>4
<1>8. infos \in Seq(Infos) /\ Len(infos) = n
  <2> HIDE DEF infos, n
  <2> QED BY <1>2, <1>6
<1>9. listed' = {infos}
  <2> HIDE DEF infos, n
  <2> QED BY <1>2, <1>7, <1>8, ListCarried
<1>10. {infos[k] : k \in 1..n} = {Info(c) : c \in S}
  BY <1>4
<1>11. S = DOMAIN wanted /\ \A c \in S : Info(c) = [channel |-> c, start |-> wanted[c].start, end |-> wanted[c].end]
  BY DEF MapInv
<1>12. ListTells'
  <2>1. {Info(c) : c \in S} = {[channel |-> c, start |-> wanted[c].start, end |-> wanted[c].end] : c \in DOMAIN wanted}
    BY <1>11
  <2>2. Len(infos) = Cardinality(DOMAIN wanted)
    BY <1>8, <1>11
  <2>3. {infos[k] : k \in 1..Len(infos)} =
          {[channel |-> c, start |-> wanted[c].start, end |-> wanted[c].end] : c \in DOMAIN wanted}
    <3> HIDE DEF infos, Info, n, S
    <3> QED BY <1>8, <1>10, <2>1
  <2> HIDE DEF infos
  <2>4. \A list \in listed' :
          /\ Len(list) = Cardinality(DOMAIN wanted)
          /\ {list[k] : k \in 1..Len(list)} =
               {[channel |-> c, start |-> wanted[c].start, end |-> wanted[c].end] : c \in DOMAIN wanted}
    BY <1>9, <2>2, <2>3
  <2> QED BY <1>1, <2>4 DEF ListTells
<1> QED BY <1>1, <1>12 DEF MapInv

LEMMA MapNext == MapInv /\ [Next]_vars => MapInv'
<1> SUFFICES ASSUME MapInv, [Next]_vars PROVE MapInv'
  OBVIOUS
<1>1. CASE UNCHANGED vars
  BY <1>1, MapStutter DEF vars, decoderVars, mapVars
<1>2. ASSUME NEW r \in Requests, Subscribe(r) PROVE MapInv'
  BY <1>2, MapAccept
<1>3. CASE List
  BY <1>3, MapList
<1>4. CASE Subscribed
  BY <1>4, MapStutter DEF Subscribed, Decoder!Confirm, mapVars
<1>5. CASE (\E f \in Frames : Publish(f)) \/ Send \/ Close \/ run \/ CtrlC \/ downlink \/ decode \/ CutCall
  BY <1>5, MapStutter DEF Publish, Send, Close, run, CtrlC, downlink, Listen, decode, Ask, Answered, CutCall,
    Alone, decoderVars, mapVars
<1>6. CASE Serve \/ PowerLoss
  BY <1>6, MapStutter DEF Serve, PowerLoss, Decoder!Decode, Decoder!Restart, mapVars
<1> QED BY <1>1, <1>2, <1>3, <1>4, <1>5, <1>6 DEF Next

\* tv.list prints each accepted subscription, once, as it was given to
\* gen_subscription, however many the decoder has slots for.
THEOREM ListsTell == Spec => []ListTells
<1>1. MapInv => ListTells
  BY DEF MapInv
<1> QED BY MapInit, MapNext, <1>1, PTL DEF Spec

-----------------------------------------------------------------------------
(* Which frames are decoded: the decoder looks up the channel that the     *)
(* satellite used.                                                         *)

\* Only a call looks the channel up, and tools and calls do not run together.
LEMMA ChannelNext ==
  ControlInv /\ SeqInv /\ MapInv /\ ChannelDecides /\ [Next]_vars => ChannelDecides'
<1> SUFFICES ASSUME ControlInv, SeqInv, MapInv, ChannelDecides, [Next]_vars
             PROVE  ChannelDecides'
  OBVIOUS
<1> DEFINE same == UNCHANGED <<port, call, answer, wanted, hand>>
<1>1. CASE same
  BY <1>1 DEF ChannelDecides, Decoder!Failure
<1>2. CASE call' # "answered"
  BY <1>2 DEF ChannelDecides
<1>3. CASE UNCHANGED vars
  BY <1>1, <1>3 DEF vars, decoderVars, tvVars
<1>4. CASE (\E r \in Requests : Subscribe(r)) \/ Subscribed \/ List
  <2>1. main = "decode" /\ call' = call
    BY <1>4 DEF Subscribe, Subscribed, List, ToolsRun
  <2>2. call' # "answered"
    BY <2>1 DEF ControlInv
  <2> QED BY <1>2, <2>2
<1>5. CASE (\E f \in Frames : Publish(f)) \/ Send \/ Close \/ run \/ CtrlC \/ downlink
  <2>1. same
    BY <1>5 DEF Publish, Send, Close, run, CtrlC, downlink, Listen, Alone, decoderVars, tvVars, StartDecode,
         StartDownlink, Poll, SetCrash, Interrupt, Connect, CheckReceive, Receive, DownlinkFails
  <2> QED BY <1>1, <2>1
<1>6. CASE decode
  <2>1. same \/ call' # "answered"
    BY <1>6 DEF decode, Ask, Answered, Alone, decoderVars, CheckDecode, LookAgain
  <2> QED BY <1>1, <1>2, <2>1
<1>7. CASE PowerLoss \/ CutCall
  BY <1>2, <1>7 DEF PowerLoss, CutCall
<1>8. CASE Serve
  <2> DEFINE c == FrameChannel(hand[1])
  <2>1. /\ call = "asked" /\ port' = port /\ wanted' = wanted /\ hand' = hand
        /\ answer' = IF c \in DOMAIN subs \cup {Emergency} THEN Decoder!Frame(c) ELSE Decoder!Failure
    BY <1>8 DEF Serve, Decoder!Decode, tvVars
  <2>2. c \in {port, Emergency}
    <3>1. Len(hand) = 1 /\ hand \in Seq(Mine)
      BY <2>1 DEF ControlInv, SeqInv
    <3> QED BY <3>1, TheOnly, MineCarried
  <2>3. subs = wanted
    BY DEF MapInv
  <2>8. c' = c
    BY <2>1
  <2> HIDE DEF c
  <2>4. Decoder!Frame(c) # Decoder!Failure
    BY DEF Decoder!Frame, Decoder!Failure
  <2>5. Decoder!Failure' = Decoder!Failure
    BY DEF Decoder!Failure
  <2>6. CASE answer' = Decoder!Failure
    <3>1. c \notin DOMAIN subs \cup {Emergency}
      BY <2>1, <2>4, <2>6
    <3> QED BY <2>1, <2>2, <2>3, <3>1 DEF ChannelDecides
  <2>7. CASE answer' # Decoder!Failure
    <3>1. c \in DOMAIN subs \cup {Emergency}
      BY <2>1, <2>7
    <3>2. port \in DOMAIN wanted \/ c = Emergency
      BY <2>2, <2>3, <3>1
    <3>3. port' \in DOMAIN wanted' \/ c' = Emergency
      BY <2>1, <2>8, <3>2
    <3> QED BY <2>5, <2>7, <3>3 DEF ChannelDecides, c
  <2> QED BY <2>6, <2>7
<1> QED BY <1>3, <1>4, <1>5, <1>6, <1>7, <1>8 DEF Next

\* The channel that a frame is encoded for is the one that the satellite sends
\* it for, that gen_subscription names and that the decoder looks up: whether the
\* decoder was subscribed to it decides what becomes of the frame, and nothing else.
THEOREM OnlyTheChannel == Spec => []ChannelDecides
<1>1. DeliveryInit => ChannelDecides
  BY DEF DeliveryInit, ChannelDecides
<1> QED BY ControlInit, ControlNext, SeqInit, SeqNext, MapInit, MapNext, ChannelNext, <1>1, PTL DEF Spec
=============================================================================
