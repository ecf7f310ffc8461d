----------------------------- MODULE BenchProofs ----------------------------
(***************************************************************************)
(* Safety of the utilities of Bench, for any images, block sizes, inputs,  *)
(* windows and numbers of rounds: each utility has an invariant of its own *)
(* that its steps keep, and the steps of the others do not touch.          *)
(***************************************************************************)
EXTENDS Bench, Integers, FiniteSetTheorems, SequenceTheorems, TLAPS

-----------------------------------------------------------------------------
(* The update client and the bootloader. *)

\* A piece of a sequence and the piece behind it.
LEMMA Adjacent ==
  ASSUME NEW p \in Seq(Nat), NEW m \in 0..Len(p), NEW n \in m..Len(p)
  PROVE  /\ SubSeq(p, 1, m) \o SubSeq(p, m + 1, n) = SubSeq(p, 1, n)
         /\ SubSeq(p, m + 1, n) \in Seq(Nat) /\ Len(SubSeq(p, m + 1, n)) = n - m
<1>1. Len(p) \in Nat /\ 1 \in 1..(Len(p) + 1) /\ m \in 0..Len(p) /\ n \in m..Len(p)  OBVIOUS
<1>2. SubSeq(p, 1, m) \o SubSeq(p, m + 1, n) = SubSeq(p, 1, n)
  BY <1>1, ConcatAdjacentSubSeq
<1>3. \A i \in (m + 1)..n : p[i] \in Nat
  BY <1>1, ElementOfSeq
<1>4. /\ SubSeq(p, m + 1, n) \in Seq(Nat)
      /\ Len(SubSeq(p, m + 1, n)) = IF m + 1 <= n THEN n - (m + 1) + 1 ELSE 0
  <2>1. m + 1 \in Int /\ n \in Int  BY <1>1
  <2> QED BY <1>3, <2>1, SubSeqProperties
<1> QED BY <1>1, <1>2, <1>4

\* The padded image has the size that the bootloader waits for.
LEMMA Padded ==
  ASSUME NEW img \in Images
  PROVE  Updater!Pad(img) \in Seq(Nat) /\ Len(Updater!Pad(img)) = TOTAL_SIZE
<1>1. img \in Seq(Nat) /\ Len(img) \in Nat /\ Len(img) <= TOTAL_SIZE /\ TOTAL_SIZE \in Nat /\ FF \in Nat
  BY BenchAssumption, ImagesFit
<1> DEFINE n == TOTAL_SIZE - Len(img)
           filler == [k \in 1..n |-> FF]
<1>2. n \in Nat  BY <1>1
<1>3. filler \in Seq(Nat) /\ Len(filler) = n  BY <1>1, <1>2
<1> HIDE DEF filler
<1>4. img \o filler \in Seq(Nat) /\ Len(img \o filler) = Len(img) + n  BY <1>1, <1>3, ConcatProperties
<1>5. Updater!Pad(img) = img \o filler  BY DEF Updater!Pad, filler
<1> QED BY <1>4, <1>5, <1>1

\* How much of the padded image the client has sent.
Sent == IF idx < TOTAL_SIZE THEN idx ELSE TOTAL_SIZE
Exits == {"exit(-1)", "exit(-2)"}

\* While the board loads, what it has and what is on the wire is what was sent: the
\* two responses to the command come first, and then one response to each block.
Loading ==
  /\ loaded \o toBoard = SubSeq(padded, 1, Sent)
  /\ Len(loaded) < TOTAL_SIZE /\ Len(toBoard) <= BLOCK_SIZE
  /\ \/ /\ client = "start" /\ idx = 0 /\ toBoard = <<>> 
        /\ (awaited = 2 /\ toClient = <<1, 2>>) \/ (awaited = 1 /\ toClient = <<2>>)
     \/ client = "send" /\ toBoard = <<>> /\ toClient = <<>>
     \/ /\ client = "block" /\ awaited = 1
        /\ (toBoard # <<>> /\ toClient = <<>>) \/ (toBoard = <<>> /\ toClient = <<7>>)

\* The types, and what the client sends.
FlashType ==
  /\ client \in {"off", "start", "send", "block", "install", "done"} \cup Exits
  /\ board \in {"ready", "loading", "installing", "installed", "refused"}
  /\ idx \in Nat /\ loaded \in Seq(Nat) /\ toBoard \in Seq(Nat) /\ toClient \in Seq(Nat)
  /\ client # "off" => image \in Images /\ padded = Updater!Pad(image)

\* The board waits for the command; it has all of the image; it has given up,
\* at any place that the client may then be in.
Ready ==
  /\ loaded = <<>> /\ idx = 0 /\ toClient = <<>>
  /\ (client = "off" /\ toBoard = <<>>) \/ (client = "start" /\ awaited = 2 /\ toBoard = Updater!UPDATE_COMMAND)
Complete == loaded = padded /\ toBoard = <<>> /\ idx >= TOTAL_SIZE /\ client \notin {"off", "start"}
Refused ==
  /\ Len(toBoard) <= BLOCK_SIZE
  /\ \/ idx >= TOTAL_SIZE /\ client \notin {"off", "start"}
     \/ client \in Exits
     \/ client = "block" /\ toClient \in {<<0>>, <<6>>}
     \/ client = "start" /\ awaited = 2 /\ toClient \in {<<0>>, <<6>>, <<1, 0>>, <<1, 6>>}
     \/ client = "start" /\ awaited = 1 /\ toClient \in {<<0>>, <<6>>}
\* The board has not told that the update is complete.
NotDone == client # "done" /\ \A k \in 1..Len(toClient) : toClient[k] # Updater!COMPLETE_CODE

\* The inductive invariant of an update, by the states of the board.
FlashInv ==
  /\ FlashType
  /\ board = "ready" => Ready
  /\ board = "loading" => Loading
  /\ board \in {"installing", "installed"} => Complete
  /\ board = "refused" => Refused
  /\ board # "installed" => NotDone

\* Before it is started the client has sent nothing.
LEMMA FlashInit == Updater!Init => FlashInv
  BY DEF Updater!Init, FlashInv, FlashType, Ready, NotDone

\* The other utilities leave the update alone.
LEMMA FlashStill == FlashInv /\ UNCHANGED flashVars => FlashInv'
  BY DEF flashVars, FlashInv, FlashType, Ready, Loading, Sent, Complete, Refused, NotDone

\* What the invariant says of the responses and of the image in the board.
LEMMA FlashHolds == FlashInv => InStep /\ Installed
<1> SUFFICES ASSUME FlashInv PROVE InStep /\ Installed
  OBVIOUS
<1>0. BLOCK_SIZE \in Nat /\ BLOCK_SIZE >= 1 /\ TOTAL_SIZE \in Nat /\ TOTAL_SIZE >= 1
  BY BenchAssumption
<1>1. FlashType /\ Len(toBoard) \in Nat /\ Len(loaded) \in Nat
  BY DEF FlashInv, FlashType
<1>2. CASE board = "ready"
  <2>1. Ready /\ NotDone  BY <1>2 DEF FlashInv
  <2>2. Len(toBoard) <= 1
    <3>1. CASE toBoard = <<>>
      <4>1. Len(toBoard) = 0
        BY <3>1
      <4> QED BY <4>1
    <3>2. CASE toBoard = <<0>>
      <4>1. Len(toBoard) = 1
        BY <3>2
      <4> QED BY <4>1
    <3> QED BY <2>1, <3>1, <3>2 DEF Ready, Updater!UPDATE_COMMAND
  <2> QED BY <1>0, <1>1, <1>2, <2>1, <2>2 DEF InStep, Installed, Updater!InStep, Updater!Installed, NotDone
<1>3. CASE board = "loading"
  <2>1. Loading /\ NotDone  BY <1>3 DEF FlashInv
  <2>2. padded \in Seq(Nat) /\ Len(padded) = TOTAL_SIZE
    <3>1. client # "off"  BY <2>1 DEF Loading
    <3> QED BY <1>1, <3>1, Padded DEF FlashType
  <2>3. Sent \in 0..Len(padded)
    BY <1>0, <1>1, <2>2 DEF Sent, FlashType
  <2>4. Len(loaded \o toBoard) = Len(loaded) + Len(toBoard)
    BY <1>1, ConcatProperties DEF FlashType
  <2>5. Len(SubSeq(padded, 1, Sent)) = Sent
    <3>1. Len(SubSeq(padded, 0 + 1, Sent)) = Sent - 0
      BY <2>2, <2>3, Adjacent
    <3> QED BY <3>1, <2>3
  <2>6. Sent = Len(loaded) + Len(toBoard)
    BY <2>1, <2>4, <2>5 DEF Loading
  <2> QED BY <2>1, <2>6, <1>3 DEF InStep, Installed, Updater!InStep, Updater!Installed, NotDone, Loading
<1>4. CASE board \in {"installing", "installed"}
  <2>1. Complete  BY <1>4 DEF FlashInv
  <2>2. image \in Images /\ padded = Updater!Pad(image) /\ padded \in Seq(Nat) /\ Len(padded) = TOTAL_SIZE
    BY <1>1, <2>1, Padded DEF FlashType, Complete
  <2>3. Len(toBoard) = 0
    BY <2>1 DEF Complete
  <2>4. loaded \o toBoard = loaded
    BY <2>1, <1>1, ConcatEmptySeq DEF Complete, FlashType
  <2>5. SubSeq(padded, 1, Len(loaded) + Len(toBoard)) = padded
    BY <2>1, <2>2, <2>3, <1>0, SubSeqFull DEF Complete
  <2>6. InStep
    BY <1>0, <2>1, <2>3, <2>4, <2>5 DEF InStep, Updater!InStep, Complete
  <2>7. client = "done" => board = "installed"
    BY <1>4 DEF FlashInv, NotDone
  <2>8. Installed
    BY <2>1, <2>2, <2>7 DEF Installed, Updater!Installed, Updater!Pad, Complete
  <2> QED BY <2>6, <2>8
<1>5. CASE board = "refused"
  BY <1>5 DEF FlashInv, Refused, NotDone, InStep, Installed, Updater!InStep, Updater!Installed
<1> QED BY <1>1, <1>2, <1>3, <1>4, <1>5 DEF FlashType

\* request_update(): the padded image is ready and the command is on its way.
LEMMA Requested == \A img \in Images : FlashInv /\ Updater!Request(img) => FlashInv'
<1> SUFFICES ASSUME NEW img \in Images, FlashInv, Updater!Request(img) PROVE FlashInv'
  OBVIOUS
<1>1. board = "ready" /\ Ready /\ FlashType /\ NotDone
  BY DEF FlashInv, Updater!Request, Ready, Complete, Refused, Loading, FlashType, Exits
<1>2. Updater!UPDATE_COMMAND \in Seq(Nat)
  BY DEF Updater!UPDATE_COMMAND
<1>3. /\ client' = "start" /\ awaited' = 2 /\ image' = img /\ padded' = Updater!Pad(img)
      /\ toBoard' = Updater!UPDATE_COMMAND
      /\ UNCHANGED <<idx, toClient, board, loaded>>
  BY DEF Updater!Request
<1> QED BY <1>1, <1>2, <1>3 DEF FlashInv, FlashType, Ready, NotDone

\* send_update_file(): one more block is written and a response awaited.
LEMMA BlockSent == FlashInv /\ Updater!SendBlock => FlashInv'
<1> SUFFICES ASSUME FlashInv, Updater!SendBlock PROVE FlashInv'
  OBVIOUS
<1>0. BLOCK_SIZE \in Nat /\ BLOCK_SIZE >= 1 /\ TOTAL_SIZE \in Nat /\ TOTAL_SIZE >= 1
  BY BenchAssumption
<1>1. FlashType /\ client = "send" /\ image \in Images /\ padded = Updater!Pad(image)
  BY DEF FlashInv, FlashType, Updater!SendBlock
<1>2. padded \in Seq(Nat) /\ Len(padded) = TOTAL_SIZE
  BY <1>1, Padded
<1>3. idx < TOTAL_SIZE /\ idx \in Nat
  BY <1>1, <1>2 DEF Updater!SendBlock, FlashType
<1>4. board = "loading" /\ Loading /\ toBoard = <<>> /\ toClient = <<>> /\ NotDone
  <2>1. board # "ready"
    BY <1>1 DEF FlashInv, Ready
  <2>2. ~(idx >= TOTAL_SIZE)
    BY <1>0, <1>3
  <2>3. board \notin {"installing", "installed"}
    BY <2>2 DEF FlashInv, Complete
  <2>4. board # "refused"
    BY <2>2, <1>1 DEF FlashInv, Refused, Exits
  <2>5. board = "loading"
    BY <2>1, <2>3, <2>4, <1>1 DEF FlashType
  <2> QED BY <2>5, <1>1 DEF FlashInv, Loading
<1> DEFINE end == IF idx + BLOCK_SIZE < Len(padded) THEN idx + BLOCK_SIZE ELSE Len(padded)
           block == SubSeq(padded, idx + 1, end)
<1>5. /\ client' = "block" /\ awaited' = 1 /\ idx' = idx + BLOCK_SIZE
      /\ toBoard' = toBoard \o block
      /\ UNCHANGED <<image, padded, toClient, board, loaded>>
  BY DEF Updater!SendBlock
<1>6. idx \in 0..Len(padded) /\ end \in idx..Len(padded)
  BY <1>0, <1>2, <1>3
<1>7. end - idx >= 1 /\ end - idx <= BLOCK_SIZE /\ end = Sent' /\ Sent = idx
  BY <1>0, <1>2, <1>3, <1>5 DEF Sent
<1> HIDE DEF end
<1>8. /\ SubSeq(padded, 1, idx) \o block = SubSeq(padded, 1, end)
      /\ block \in Seq(Nat) /\ Len(block) = end - idx
  BY <1>2, <1>6, Adjacent
<1> HIDE DEF block
<1>9. toBoard' = block
  BY <1>4, <1>5, <1>8, ConcatEmptySeq
<1>10. loaded = SubSeq(padded, 1, idx)
  <2>1. loaded \o <<>> = SubSeq(padded, 1, idx)
    BY <1>4, <1>7 DEF Loading
  <2> QED BY <2>1, <1>1, ConcatEmptySeq DEF FlashType
<1>11. block # <<>>
  <2>1. Len(block) >= 1
    BY <1>7, <1>8
  <2>2. block = <<>> => Len(block) = 0
    OBVIOUS
  <2> QED BY <2>1, <2>2
<1>12. loaded' \o toBoard' = SubSeq(padded', 1, Sent')
  BY <1>5, <1>7, <1>8, <1>9, <1>10
<1>13. Len(toBoard') <= BLOCK_SIZE
  BY <1>7, <1>8, <1>9
<1>14. Len(loaded') < TOTAL_SIZE
  BY <1>4, <1>5 DEF Loading
<1>15. Loading'
  BY <1>4, <1>5, <1>9, <1>11, <1>12, <1>13, <1>14 DEF Loading
<1>16. FlashType'
  BY <1>0, <1>1, <1>5, <1>8, <1>9 DEF FlashType
<1>17. NotDone'
  BY <1>4, <1>5 DEF NotDone
<1> QED BY <1>4, <1>5, <1>15, <1>16, <1>17 DEF FlashInv

\* send_update_file() returns when the whole image was sent.
LEMMA SendingEnds == FlashInv /\ Updater!AllSent => FlashInv'
<1> SUFFICES ASSUME FlashInv, Updater!AllSent PROVE FlashInv'
  OBVIOUS
<1>0. TOTAL_SIZE \in Nat
  BY BenchAssumption
<1>1. FlashType /\ client = "send" /\ image \in Images /\ padded = Updater!Pad(image)
  BY DEF FlashInv, FlashType, Updater!AllSent
<1>2. padded \in Seq(Nat) /\ Len(padded) = TOTAL_SIZE
  BY <1>1, Padded
<1>3. idx >= TOTAL_SIZE /\ idx \in Nat
  BY <1>1, <1>2 DEF Updater!AllSent, FlashType
<1>4. board # "loading"
  <2> SUFFICES ASSUME board = "loading" PROVE FALSE
    OBVIOUS
  <2>1. Loading /\ toBoard = <<>>
    BY <1>1 DEF FlashInv, Loading
  <2>2. Sent = TOTAL_SIZE
    BY <1>0, <1>3 DEF Sent
  <2>3. loaded = SubSeq(padded, 1, TOTAL_SIZE)
    <3>1. loaded \o <<>> = SubSeq(padded, 1, TOTAL_SIZE)
      BY <2>1, <2>2 DEF Loading
    <3> QED BY <3>1, <1>1, ConcatEmptySeq DEF FlashType
  <2>4. loaded = padded
    BY <2>3, <1>2, SubSeqFull
  <2> QED BY <2>4, <2>1, <1>2, <1>0 DEF Loading
<1>5. /\ client' = "install" /\ awaited' = 1
      /\ UNCHANGED <<image, padded, idx, toBoard, toClient, board, loaded>>
  BY DEF Updater!AllSent
<1>6. board # "ready"
  BY <1>1 DEF FlashInv, Ready
<1>7. FlashType'
  BY <1>1, <1>5 DEF FlashType
<1>8. board \in {"installing", "installed"} => Complete'
  BY <1>1, <1>5 DEF FlashInv, Complete
<1>9. board = "refused" => Refused'
  BY <1>1, <1>3, <1>5 DEF FlashInv, Refused
<1>10. board # "installed" => NotDone'
  BY <1>1, <1>5 DEF FlashInv, NotDone
<1> QED BY <1>4, <1>5, <1>6, <1>7, <1>8, <1>9, <1>10 DEF FlashInv

\* verify_resp(): the right byte goes on, any other one exits.
LEMMA ResponseVerified == FlashInv /\ Updater!VerifyResponse => FlashInv'
<1> SUFFICES ASSUME FlashInv, Updater!VerifyResponse PROVE FlashInv'
  OBVIOUS
<1> DEFINE code == Head(toClient)
<1>1. FlashType /\ client \in {"start", "block", "install"} /\ toClient # <<>> /\ toClient \in Seq(Nat)
  BY DEF FlashInv, FlashType, Updater!VerifyResponse
<1>2. /\ toClient' = Tail(toClient)
      /\ client' = IF code \in Updater!ERROR_CODES THEN "exit(-1)"
                   ELSE IF code \notin Updater!SUCCESS_CODES THEN "exit(-2)"
                   ELSE Updater!After(code)
      /\ awaited' = IF client = "start" THEN awaited - 1 ELSE awaited
      /\ UNCHANGED <<image, padded, idx, toBoard, board, loaded>>
  BY DEF Updater!VerifyResponse
<1> HIDE DEF code
<1>3. /\ Tail(toClient) \in Seq(Nat) /\ Len(Tail(toClient)) = Len(toClient) - 1
      /\ \A i \in 1..Len(Tail(toClient)) : Tail(toClient)[i] = toClient[i + 1]
  BY <1>1, HeadTailProperties
<1>4. Len(toClient) \in Nat /\ Len(toClient) >= 1 /\ code = toClient[1]
  BY <1>1, EmptySeq, LenProperties DEF code
<1>5. client' \in {"start", "block", "install", "send", "done"} \cup Exits
  BY <1>1, <1>2 DEF Updater!After, Exits
<1>6. FlashType'
  BY <1>1, <1>2, <1>3, <1>5 DEF FlashType
<1>7. board # "ready"
  BY <1>1 DEF FlashInv, Ready
<1>8. client' = "start" => client = "start"
  BY <1>1, <1>2 DEF Updater!After, Exits
<1>9. board # "installed" => NotDone'
  <2> SUFFICES ASSUME board # "installed" PROVE NotDone'
    OBVIOUS
  <2>1. NotDone
    BY DEF FlashInv
  <2>2. code # Updater!COMPLETE_CODE
    BY <2>1, <1>4 DEF NotDone
  <2>3. client' # "done"
    BY <2>2, <1>1, <1>2 DEF Updater!After, Exits
  <2>4. \A k \in 1..Len(toClient') : toClient'[k] # Updater!COMPLETE_CODE
    BY <2>1, <1>2, <1>3, <1>4 DEF NotDone
  <2> QED BY <2>3, <2>4 DEF NotDone
<1>10. board \in {"installing", "installed"} => Complete'
  BY <1>1, <1>2, <1>5, <1>8 DEF FlashInv, Complete, Exits
<1>11. board = "refused" => Refused'
  <2> SUFFICES ASSUME board = "refused" PROVE Refused'
    OBVIOUS
  <2>1. Refused
    BY DEF FlashInv
  <2>2. CASE idx >= TOTAL_SIZE /\ client \notin {"off", "start"}
    BY <2>1, <2>2, <1>2, <1>5, <1>8 DEF Refused, Exits
  <2>3. CASE client \in {"start", "block"} /\ toClient \in {<<0>>, <<6>>}
    <3>1. code = 0 \/ code = 6
      BY <2>3 DEF code
    <3>2. client' \in Exits
      BY <3>1, <1>2 DEF Exits, Updater!ERROR_CODES, Updater!SUCCESS_CODES, Updater!COMPLETE_CODE
    <3> QED BY <3>2, <2>1, <1>2 DEF Refused
  <2>4. CASE client = "start" /\ awaited = 2 /\ toClient \in {<<1, 0>>, <<1, 6>>}
    <3>1. code = 1 /\ toClient' \in {<<0>>, <<6>>}
      <4>1. CASE toClient = <<1, 0>>
        <5>1. code = 1 /\ toClient' = <<0>>
          BY <4>1, <1>2 DEF code
        <5> QED BY <5>1
      <4>2. CASE toClient = <<1, 6>>
        <5>1. code = 1 /\ toClient' = <<6>>
          BY <4>2, <1>2 DEF code
        <5> QED BY <5>1
      <4> QED BY <2>4, <4>1, <4>2
    <3>2. client' = "start" /\ awaited' = 1
      BY <2>4, <3>1, <1>2 DEF Updater!After, Updater!ERROR_CODES, Updater!SUCCESS_CODES, Updater!COMPLETE_CODE
    <3> QED BY <3>1, <3>2, <2>1, <1>2 DEF Refused
  <2> QED BY <2>1, <2>2, <2>3, <2>4, <1>1 DEF Refused, Exits
<1>12. board = "loading" => Loading'
  <2> SUFFICES ASSUME board = "loading" PROVE Loading'
    OBVIOUS
  <2>1. Loading
    BY DEF FlashInv
  <2>2. loaded' \o toBoard' = SubSeq(padded', 1, Sent') /\ Len(loaded') < TOTAL_SIZE /\ Len(toBoard') <= BLOCK_SIZE
    BY <2>1, <1>2 DEF Loading, Sent
  <2>3. CASE client = "start" /\ idx = 0 /\ toBoard = <<>> /\ awaited = 2 /\ toClient = <<1, 2>>
    <3>1. code = 1 /\ toClient' = <<2>>
      BY <2>3, <1>2 DEF code
    <3>2. client' = "start"
      BY <2>3, <3>1, <1>2 DEF Updater!After, Updater!ERROR_CODES, Updater!SUCCESS_CODES, Updater!COMPLETE_CODE
    <3> QED BY <2>2, <2>3, <3>1, <3>2, <1>2 DEF Loading
  <2>4. CASE client = "start" /\ idx = 0 /\ toBoard = <<>> /\ awaited = 1 /\ toClient = <<2>>
    <3>1. code = 2 /\ toClient' = <<>>
      BY <2>4, <1>2 DEF code
    <3>2. client' = "send"
      BY <2>4, <3>1, <1>2 DEF Updater!After, Updater!ERROR_CODES, Updater!SUCCESS_CODES, Updater!COMPLETE_CODE
    <3> QED BY <2>2, <2>4, <3>1, <3>2, <1>2 DEF Loading
  <2>5. CASE client = "block" /\ awaited = 1 /\ toBoard = <<>> /\ toClient = <<7>>
    <3>1. code = 7 /\ toClient' = <<>>
      BY <2>5, <1>2 DEF code
    <3>2. client' = "send"
      BY <2>5, <3>1, <1>2 DEF Updater!After, Updater!ERROR_CODES, Updater!SUCCESS_CODES, Updater!COMPLETE_CODE
    <3> QED BY <2>2, <2>5, <3>1, <3>2, <1>2 DEF Loading
  <2> QED BY <2>1, <2>3, <2>4, <2>5, <1>1 DEF Loading
<1> QED BY <1>2, <1>6, <1>7, <1>9, <1>10, <1>11, <1>12 DEF FlashInv

\* What the bootloader answers stands behind what it has answered before.
LEMMA Responded ==
  ASSUME FlashType, NEW code \in Nat
  PROVE  /\ toClient \o <<code>> \in Seq(Nat)
         /\ toClient = <<>> => toClient \o <<code>> = <<code>>
         /\ \A k \in 1..Len(toClient \o <<code>>) :
               (toClient \o <<code>>)[k] = code \/ \E j \in 1..Len(toClient) : (toClient \o <<code>>)[k] = toClient[j]
<1>1. toClient \in Seq(Nat) /\ <<code>> \in Seq(Nat)
  BY DEF FlashType
<1>2. Len(<<code>>) = 1 /\ <<code>>[1] = code
  OBVIOUS
<1> DEFINE c == <<code>>
<1>3. c \in Seq(Nat) /\ Len(c) = 1 /\ c[1] = code
  BY <1>1, <1>2
<1> HIDE DEF c
<1>4. /\ toClient \o c \in Seq(Nat) /\ Len(toClient) \in Nat
      /\ Len(toClient \o c) = Len(toClient) + 1
      /\ \A i \in 1..(Len(toClient) + 1) :
           (toClient \o c)[i] = IF i <= Len(toClient) THEN toClient[i] ELSE c[i - Len(toClient)]
  <2>1. toClient \o c \in Seq(Nat) /\ Len(toClient \o c) = Len(toClient) + Len(c) /\ Len(toClient) \in Nat
    BY <1>1, <1>3, ConcatProperties, LenProperties
  <2>2. \A i \in 1..(Len(toClient) + Len(c)) :
           (toClient \o c)[i] = IF i <= Len(toClient) THEN toClient[i] ELSE c[i - Len(toClient)]
    BY <1>1, <1>3, ConcatProperties
  <2> QED BY <2>1, <2>2, <1>3
<1>5. toClient = <<>> => toClient \o c = c
  BY <1>3, ConcatEmptySeq
<1>6. \A k \in 1..Len(toClient \o c) :
        (toClient \o c)[k] = code \/ \E j \in 1..Len(toClient) : (toClient \o c)[k] = toClient[j]
  <2> TAKE k \in 1..Len(toClient \o c)
  <2>1. CASE k <= Len(toClient)
    BY <2>1, <1>4
  <2>2. CASE ~(k <= Len(toClient))
    <3>1. k - Len(toClient) = 1 /\ k \in 1..(Len(toClient) + 1)
      BY <2>2, <1>4
    <3> QED BY <3>1, <2>2, <1>3, <1>4
  <2> QED BY <2>1, <2>2
<1> QED BY <1>4, <1>5, <1>6 DEF c

\* The bootloader takes what was written and answers.
LEMMA BoardSteps == FlashInv /\ Updater!Bootloader => FlashInv'
<1> SUFFICES ASSUME FlashInv, Updater!Bootloader PROVE FlashInv'
  OBVIOUS
<1>0. BLOCK_SIZE \in Nat /\ BLOCK_SIZE >= 1 /\ TOTAL_SIZE \in Nat /\ TOTAL_SIZE >= 1
  BY BenchAssumption
<1>1. FlashType /\ UNCHANGED <<client, awaited, image, padded, idx>>
  BY DEF FlashInv, Updater!Bootloader, Updater!BoardStarts, Updater!BoardLoads, Updater!BoardReports,
         Updater!BoardCompletes, Updater!BoardRefuses, Updater!Keep
<1>2. CASE Updater!BoardStarts
  <2>1. /\ board = "ready" /\ toBoard = Updater!UPDATE_COMMAND /\ toBoard' = <<>> /\ board' = "loading"
        /\ toClient' = toClient \o <<1, 2>> /\ UNCHANGED loaded
    BY <1>2 DEF Updater!BoardStarts, Updater!Respond
  <2>2. Ready /\ NotDone
    BY <2>1 DEF FlashInv
  <2>3. <<0>> # <<>>
    OBVIOUS
  <2>4. client = "start" /\ awaited = 2 /\ idx = 0 /\ loaded = <<>> /\ toClient = <<>>
    BY <2>1, <2>2, <2>3 DEF Ready, Updater!UPDATE_COMMAND
  <2>5. toClient' = <<1, 2>> /\ <<1, 2>> \in Seq(Nat)
    <3>1. <<1, 2>> \in Seq(Nat)
      OBVIOUS
    <3> QED BY <3>1, <2>1, <2>4, ConcatEmptySeq
  <2>6. padded \in Seq(Nat) /\ Len(padded) = TOTAL_SIZE
    BY <1>1, <2>4, Padded DEF FlashType
  <2>7. loaded' \o toBoard' = SubSeq(padded', 1, Sent')
    <3>1. Sent' = 0
      BY <1>0, <1>1, <2>4 DEF Sent
    <3>2. SubSeq(padded, 1, 0) = <<>>
      BY SubSeqEmpty
    <3>3. <<>> \o <<>> = <<>>
      OBVIOUS
    <3> QED BY <3>1, <3>2, <3>3, <1>1, <2>1, <2>4
  <2>8. Len(loaded') = 0 /\ Len(toBoard') = 0
    <3>1. Len(<<>>) = 0
      OBVIOUS
    <3> QED BY <3>1, <2>1, <2>4
  <2>9. Loading'
    BY <1>0, <1>1, <2>1, <2>4, <2>5, <2>7, <2>8 DEF Loading
  <2>10. FlashType'
    BY <1>1, <2>1, <2>4, <2>5 DEF FlashType
  <2>11. NotDone'
    <3>1. \A k \in 1..Len(<<1, 2>>) : <<1, 2>>[k] # 20
      OBVIOUS
    <3> QED BY <3>1, <1>1, <2>4, <2>5 DEF NotDone, Updater!COMPLETE_CODE
  <2> QED BY <2>1, <2>9, <2>10, <2>11 DEF FlashInv
<1>3. CASE Updater!BoardLoads
  <2>1. /\ board = "loading" /\ toBoard # <<>> /\ toBoard' = <<>>
        /\ loaded' = loaded \o toBoard
        /\ board' = IF Len(loaded') = TOTAL_SIZE THEN "installing" ELSE board
        /\ toClient' = toClient \o <<7>>
    BY <1>3 DEF Updater!BoardLoads, Updater!Respond
  <2>2. Loading /\ NotDone /\ client = "block" /\ awaited = 1 /\ toClient = <<>>
    BY <2>1 DEF FlashInv, Loading
  <2>3. toClient' = <<7>> /\ <<7>> \in Seq(Nat)
    BY <2>1, <2>2, <1>1, Responded
  <2>4. padded \in Seq(Nat) /\ Len(padded) = TOTAL_SIZE
    BY <1>1, <2>2, Padded DEF FlashType
  <2>5. Sent \in 0..Len(padded) /\ Sent' = Sent
    BY <1>0, <1>1, <2>4 DEF Sent, FlashType
  <2>6. loaded' \in Seq(Nat) /\ loaded' = SubSeq(padded, 1, Sent) /\ Len(loaded') = Sent
    <3>1. Len(SubSeq(padded, 0 + 1, Sent)) = Sent - 0 /\ SubSeq(padded, 0 + 1, Sent) \in Seq(Nat)
      BY <2>4, <2>5, Adjacent
    <3>2. loaded' = SubSeq(padded, 1, Sent)
      BY <2>1, <2>2 DEF Loading
    <3> QED BY <3>1, <3>2, <2>5
  <2>7. FlashType'
    BY <1>1, <2>1, <2>3, <2>6 DEF FlashType
  <2>8. NotDone'
    <3>1. \A k \in 1..Len(<<7>>) : <<7>>[k] # 20
      OBVIOUS
    <3> QED BY <3>1, <1>1, <2>2, <2>3 DEF NotDone, Updater!COMPLETE_CODE
  <2>9. Len(toBoard') = 0
    BY <2>1
  <2>10. CASE Sent = TOTAL_SIZE
    <3>1. board' = "installing"
      BY <2>1, <2>6, <2>10
    <3>2. loaded' = padded
      BY <2>4, <2>6, <2>10, SubSeqFull
    <3>3. idx >= TOTAL_SIZE
      BY <2>10, <1>0, <1>1 DEF Sent, FlashType
    <3>4. Complete'
      BY <3>2, <3>3, <1>1, <2>1, <2>2 DEF Complete
    <3> QED BY <3>1, <3>4, <2>7, <2>8 DEF FlashInv
  <2>11. CASE Sent # TOTAL_SIZE
    <3>1. board' = "loading"
      BY <2>1, <2>6, <2>11
    <3>2. loaded' \o toBoard' = SubSeq(padded', 1, Sent')
      BY <2>1, <2>5, <2>6, <1>1, ConcatEmptySeq
    <3>3. Len(loaded') < TOTAL_SIZE
      BY <2>4, <2>5, <2>6, <2>11, <1>0
    <3>4. Len(toBoard') <= BLOCK_SIZE
      BY <1>0, <2>9
    <3>5. client' = "block" /\ awaited' = 1 /\ toBoard' = <<>> /\ toClient' = <<7>>
      BY <1>1, <2>1, <2>2, <2>3
    <3>6. Loading'
      BY <3>2, <3>3, <3>4, <3>5 DEF Loading
    <3> QED BY <3>1, <3>6, <2>7, <2>8 DEF FlashInv
  <2> QED BY <2>10, <2>11
<1>4. CASE Updater!BoardReports \/ Updater!BoardCompletes
  <2>1. /\ board = "installing" /\ Complete /\ NotDone
        /\ UNCHANGED <<toBoard, loaded>> /\ board' \in {"installing", "installed"}
    BY <1>4 DEF FlashInv, Updater!BoardReports, Updater!BoardCompletes
  <2>2. \E code \in Nat : toClient' = toClient \o <<code>> /\ (code = 18 \/ board' = "installed")
    BY <1>4 DEF Updater!BoardReports, Updater!BoardCompletes, Updater!Respond, Updater!COMPLETE_CODE
  <2>3. PICK code \in Nat : toClient' = toClient \o <<code>> /\ (code = 18 \/ board' = "installed")
    BY <2>2
  <2>4. /\ toClient' \in Seq(Nat)
        /\ \A k \in 1..Len(toClient') : toClient'[k] = code \/ \E j \in 1..Len(toClient) : toClient'[k] = toClient[j]
    BY <2>3, <1>1, Responded
  <2>5. board' # "installed" => NotDone'
    BY <2>1, <2>3, <2>4, <1>1 DEF NotDone, Updater!COMPLETE_CODE
  <2>6. Complete' /\ FlashType'
    BY <1>1, <2>1, <2>4 DEF Complete, FlashType
  <2> QED BY <2>1, <2>5, <2>6 DEF FlashInv
<1>5. CASE Updater!BoardRefuses
  <2>1. /\ board = "installing" \/ (board \in {"ready", "loading"} /\ toBoard # <<>>)
        /\ board' = "refused" /\ UNCHANGED <<toBoard, loaded>>
    BY <1>5 DEF Updater!BoardRefuses
  <2>2. NotDone
    BY <2>1 DEF FlashInv
  <2>3. CASE board = "ready" /\ \E code \in {6, 0} : toClient' = toClient \o <<1, code>>
    <3>1. PICK code \in {6, 0} : toClient' = toClient \o <<1, code>>
      BY <2>3
    <3>2. client = "start" /\ awaited = 2 /\ toClient = <<>> /\ toBoard = <<0>>
      BY <2>1, <2>3 DEF FlashInv, Ready, Updater!UPDATE_COMMAND
    <3>3. <<1, code>> \in Seq(Nat) /\ \A k \in 1..Len(<<1, code>>) : <<1, code>>[k] # 20
      OBVIOUS
    <3>4. toClient' = <<1, code>>
      BY <3>1, <3>2, <3>3, ConcatEmptySeq
    <3>5. NotDone' /\ FlashType'
      BY <3>2, <3>3, <3>4, <2>1, <1>1 DEF NotDone, FlashType, Updater!COMPLETE_CODE
    <3>6. Len(toBoard) = 1
      BY <3>2
    <3>7. toClient' \in {<<1, 0>>, <<1, 6>>}
      BY <3>4
    <3>8. Refused'
      BY <3>2, <3>6, <3>7, <2>1, <1>0, <1>1 DEF Refused
    <3> QED BY <3>5, <3>8, <2>1 DEF FlashInv
  <2>4. CASE \E code \in {6, 0} : toClient' = toClient \o <<code>>
    <3>1. PICK code \in {6, 0} : toClient' = toClient \o <<code>>
      BY <2>4
    <3>2. code \in Nat
      OBVIOUS
    <3>3. /\ toClient' \in Seq(Nat)
          /\ toClient = <<>> => toClient' = <<code>>
          /\ \A k \in 1..Len(toClient') : toClient'[k] = code \/ \E j \in 1..Len(toClient) : toClient'[k] = toClient[j]
      BY <3>1, <3>2, <1>1, Responded
    <3>4. NotDone'
      BY <3>1, <3>3, <2>2, <1>1 DEF NotDone, Updater!COMPLETE_CODE
    <3>5. FlashType'
      BY <1>1, <2>1, <3>3 DEF FlashType
    <3>6. ASSUME board = "installing" PROVE Refused'
      <4>1. Complete
        BY <3>6 DEF FlashInv
      <4>2. Len(toBoard) = 0
        BY <4>1 DEF Complete
      <4> QED BY <4>1, <4>2, <1>0, <1>1, <2>1 DEF Complete, Refused
    <3>7. ASSUME board = "loading", toBoard # <<>> PROVE Refused'
      <4>1. Loading /\ client = "block" /\ toClient = <<>>
        BY <3>7 DEF FlashInv, Loading
      <4> QED BY <4>1, <1>1, <2>1, <3>1, <3>3 DEF Loading, Refused
    <3>8. ASSUME board = "ready", toBoard # <<>> PROVE Refused'
      <4>1. client = "start" /\ awaited = 2 /\ toClient = <<>> /\ toBoard = <<0>>
        BY <3>8 DEF FlashInv, Ready, Updater!UPDATE_COMMAND
      <4>2. Len(toBoard) = 1
        BY <4>1
      <4>3. toClient' \in {<<0>>, <<6>>}
        BY <4>1, <3>3
      <4> QED BY <4>1, <4>2, <4>3, <1>0, <1>1, <2>1 DEF Refused
    <3>9. Refused'
      BY <2>1, <3>6, <3>7, <3>8
    <3> QED BY <3>4, <3>5, <3>9, <2>1 DEF FlashInv
  <2> QED BY <1>5, <2>3, <2>4 DEF Updater!BoardRefuses, Updater!Respond
<1> QED BY <1>2, <1>3, <1>4, <1>5 DEF Updater!Bootloader

\* Every step of the update client or the bootloader keeps the invariant.
LEMMA FlashSteps == FlashInv /\ Updater!Next => FlashInv'
  BY Requested, BlockSent, SendingEnds, ResponseVerified, BoardSteps DEF Updater!Next, Updater!update

-----------------------------------------------------------------------------
(* Numbers. *)

\* A quotient and a rest are those of the division.
LEMMA Rest ==
  ASSUME NEW c \in Nat, c > 0, NEW q \in Nat, NEW r \in 0..(c - 1)
  PROVE  (c * q + r) % c = r
<1> DEFINE a == c * q + r
           p == a \div c
           t == a % c
<1>1. c * q \in Nat /\ a \in Nat
  OBVIOUS
<1> HIDE DEF a
<1>2. p \in Nat /\ t \in 0..(c - 1) /\ a = c * p + t
  BY <1>1
<1> HIDE DEF p, t
<1>3. c * p \in Nat /\ c * q + r = c * p + t
  BY <1>2 DEF a
<1>4. p = q
  <2>1. ASSUME p > q PROVE FALSE
    <3>1. PICK d \in Nat : p = q + 1 + d
      <4>1. p - q - 1 \in Nat /\ p = q + 1 + (p - q - 1)
        BY <2>1, <1>2
      <4> QED BY <4>1
    <3>2. c * p = c * q + c + c * d /\ c * d \in Nat
      BY <3>1
    <3> QED BY <3>2, <1>1, <1>2, <1>3
  <2>2. ASSUME q > p PROVE FALSE
    <3>1. PICK d \in Nat : q = p + 1 + d
      <4>1. q - p - 1 \in Nat /\ q = p + 1 + (q - p - 1)
        BY <2>2, <1>2
      <4> QED BY <4>1
    <3>2. c * q = c * p + c + c * d /\ c * d \in Nat
      BY <3>1, <1>2
    <3> QED BY <3>2, <1>1, <1>2, <1>3
  <2> QED BY <2>1, <2>2, <1>2
<1>5. t = r
  BY <1>3, <1>4, <1>1, <1>2
<1> QED BY <1>5 DEF t, a

\* A number below the divisor is its own rest, and the divisor has none.
LEMMA Small ==
  ASSUME NEW c \in Nat, c > 0
  PROVE  (\A r \in 0..(c - 1) : r % c = r) /\ c % c = 0
<1>1. ASSUME NEW r \in 0..(c - 1) PROVE r % c = r
  <2>1. (c * 0 + r) % c = r
    BY Rest
  <2>2. c * 0 + r = r
    OBVIOUS
  <2> QED BY <2>1, <2>2
<1>2. c % c = 0
  <2>1. (c * 1 + 0) % c = 0
    BY Rest
  <2>2. c * 1 + 0 = c
    OBVIOUS
  <2> QED BY <2>1, <2>2
<1> QED BY <1>1, <1>2

\* Two numbers that are the same in a cycle are so one step later.
LEMMA Cycle ==
  ASSUME NEW c \in Nat, c > 0, NEW n \in Nat, NEW b \in Nat, n % c = b % c
  PROVE  (n + 1) % c = (b + 1) % c
<1> DEFINE Next1(x) == IF (x % c) + 1 = c THEN 0 ELSE (x % c) + 1
<1>1. ASSUME NEW x \in Nat PROVE (x + 1) % c = Next1(x)
  <2> DEFINE q == x \div c
             r == x % c
  <2>1. q \in Nat /\ r \in 0..(c - 1) /\ x = c * q + r
    OBVIOUS
  <2> HIDE DEF q
  <2>2. CASE r + 1 = c
    <3>1. c * (q + 1) = c * q + c
      BY <2>1
    <3>2. c * (q + 1) + 0 = x + 1
      BY <3>1, <2>1, <2>2
    <3>3. (c * (q + 1) + 0) % c = 0
      <4>1. q + 1 \in Nat /\ 0 \in 0..(c - 1)
        BY <2>1
      <4> HIDE DEF r
      <4> QED BY <4>1, Rest
    <3> QED BY <3>2, <3>3, <2>2
  <2>3. CASE r + 1 # c
    <3>1. r + 1 \in 0..(c - 1)
      BY <2>1, <2>3
    <3>2. c * q + (r + 1) = x + 1
      BY <2>1
    <3>3. (c * q + (r + 1)) % c = r + 1
      <4> DEFINE r1 == r + 1
      <4>1. r1 \in 0..(c - 1)
        BY <3>1
      <4> HIDE DEF r1
      <4>2. (c * q + r1) % c = r1
        BY <4>1, <2>1, Rest
      <4> QED BY <4>2 DEF r1
    <3> QED BY <3>2, <3>3, <2>3
  <2> QED BY <2>2, <2>3
<1> QED BY <1>1

-----------------------------------------------------------------------------
(* The good entries of an input. *)

\* The operator of the instance is that of FiniteSets.
LEMMA ToolCardinality == ASSUME NEW S PROVE Tool!Cardinality(S) = Cardinality(S)
  BY DEF Cardinality, Tool!Cardinality

Entries == Good \cup {Skipped, Broken}

\* How many good entries there are before each position.
LEMMA Counts ==
  ASSUME input \in Seq(Entries)
  PROVE  LET n == Len(input)
             B(i) == Tool!GoodBefore(i)
             lap == Cardinality(Tool!GoodAt) IN
         /\ n \in Nat /\ lap \in Nat
         /\ \A i \in 1..(n + 1) : B(i) \in Nat /\ B(i) <= lap
         /\ B(1) = 0 /\ B(n + 1) = lap
         /\ \A i \in 1..n : /\ input[i] \in Good => B(i + 1) = B(i) + 1 /\ B(i) < lap
                            /\ input[i] \notin Good => B(i + 1) = B(i)
         /\ \A i, j \in Tool!GoodAt : B(i) = B(j) => i = j
<1> DEFINE n == Len(input)
           G == Tool!GoodAt
           Bef(i) == {j \in G : j < i}
           B(i) == Tool!GoodBefore(i)
           lap == Cardinality(G)
<1>1. n \in Nat
  BY LenProperties
<1>2. G \subseteq 1..n /\ \A i \in 1..n : i \in G <=> input[i] \in Good
  BY DEF Tool!GoodAt
<1>3. IsFiniteSet(1..n)
  BY <1>1, FS_Interval
<1>4. IsFiniteSet(G) /\ lap \in Nat
  BY <1>2, <1>3, FS_Subset, FS_CardinalityType
<1>5. \A i : B(i) = Cardinality(Bef(i))
  BY ToolCardinality DEF Tool!GoodBefore
<1> HIDE DEF n, G, B, lap
<1>6. \A i : IsFiniteSet(Bef(i)) /\ Cardinality(Bef(i)) \in Nat /\ Cardinality(Bef(i)) <= lap
  BY <1>4, FS_Subset, FS_CardinalityType DEF lap
<1>7. B(1) = 0
  <2>0. \A j \in G : ~(j < 1)
    BY <1>1, <1>2
  <2>1. Bef(1) = {}
    BY <2>0
  <2> QED BY <2>1, <1>5, FS_EmptySet
<1>8. B(n + 1) = lap
  <2>1. \A j \in G : j < n + 1
    BY <1>1, <1>2
  <2>2. Bef(n + 1) = G
    BY <2>1
  <2> QED BY <2>2, <1>5 DEF lap
<1>9. ASSUME NEW i \in 1..n, i \in G PROVE B(i + 1) = B(i) + 1
  <2>1. \A j \in G : j < i + 1 <=> j < i \/ j = i
    BY <1>1, <1>2
  <2>0. ~(i < i)
    BY <1>1
  <2>2. Bef(i + 1) = Bef(i) \cup {i} /\ i \notin Bef(i)
    BY <2>0, <2>1, <1>9
  <2> HIDE DEF Bef
  <2>3. Cardinality(Bef(i) \cup {i}) = Cardinality(Bef(i)) + 1
    BY <2>2, <1>6, FS_AddElement
  <2> QED BY <2>2, <2>3, <1>5
<1>10. ASSUME NEW i \in 1..n, i \notin G PROVE B(i + 1) = B(i)
  <2>1. \A j \in G : j < i + 1 <=> j < i
    BY <1>1, <1>2, <1>10
  <2>2. Bef(i + 1) = Bef(i)
    BY <2>1
  <2> QED BY <2>2, <1>5
<1>11. ASSUME NEW i \in 1..n, i \in G PROVE B(i) < lap
  <2>1. B(i + 1) <= lap /\ B(i) \in Nat /\ lap \in Nat
    BY <1>4, <1>5, <1>6
  <2> QED BY <2>1, <1>9, <1>11
<1>12. ASSUME NEW i \in G, NEW j \in G, i < j PROVE B(i) # B(j)
  <2>1. \A k \in G : k < i => k < j
    BY <1>1, <1>2, <1>12
  <2>2. ~(i < i)
    BY <1>1, <1>2
  <2>3. Bef(i) \in SUBSET Bef(j) /\ i \in Bef(j) /\ i \notin Bef(i)
    BY <2>1, <2>2, <1>12
  <2>4. Bef(i) # Bef(j)
    BY <2>3
  <2> HIDE DEF Bef
  <2>5. Cardinality(Bef(i)) # Cardinality(Bef(j))
    BY <2>3, <2>4, <1>6, FS_Subset
  <2> QED BY <2>5, <1>5
<1>13. \A i, j \in G : B(i) = B(j) => i = j
  <2> SUFFICES ASSUME NEW i \in G, NEW j \in G, i # j PROVE B(i) # B(j)
    OBVIOUS
  <2>1. i < j \/ j < i
    BY <1>1, <1>2
  <2> QED BY <2>1, <1>12
<1>14. \A i \in 1..(n + 1) : B(i) \in Nat /\ B(i) <= lap
  BY <1>5, <1>6
<1>15. \A i \in 1..n : /\ input[i] \in Good => B(i + 1) = B(i) + 1 /\ B(i) < lap
                       /\ input[i] \notin Good => B(i + 1) = B(i)
  BY <1>2, <1>9, <1>10, <1>11
<1> QED BY <1>1, <1>4, <1>7, <1>8, <1>13, <1>14, <1>15 DEF n, G, B, lap

\* The entry that comes next in a pass is the one at the position reached.
LEMMA YieldedNext ==
  ASSUME input \in Seq(Entries), NEW i \in 1..Len(input), input[i] \in Good
  PROVE  /\ Tool!GoodBefore(i) + 1 \in 1..Cardinality(Tool!GoodAt)
         /\ Tool!Yielded[Tool!GoodBefore(i) + 1] = input[i]
<1> DEFINE k == Tool!GoodBefore(i) + 1
<1>1. i \in Tool!GoodAt
  BY DEF Tool!GoodAt
<1>2. Tool!GoodBefore(i) \in Nat /\ Tool!GoodBefore(i) < Cardinality(Tool!GoodAt) /\ Cardinality(Tool!GoodAt) \in Nat
  <2>1. i \in 1..(Len(input) + 1)
    BY LenProperties
  <2> QED BY <2>1, Counts
<1>3. k \in 1..Cardinality(Tool!GoodAt) /\ k - 1 = Tool!GoodBefore(i)
  BY <1>2
<1>4. \A j \in Tool!GoodAt : Tool!GoodBefore(j) = Tool!GoodBefore(i) <=> j = i
  BY <1>1, Counts
<1>5. (CHOOSE j \in Tool!GoodAt : Tool!GoodBefore(j) = Tool!GoodBefore(i)) = i
  BY <1>1, <1>4
<1> HIDE DEF k
<1>6. Tool!Yielded[k] = input[CHOOSE j \in Tool!GoodAt : Tool!GoodBefore(j) = k - 1]
  BY <1>3, ToolCardinality DEF Tool!Yielded
<1> QED BY <1>3, <1>5, <1>6 DEF k

\* A pass yields as many frames as there are good entries.
LEMMA YieldedLen ==
  ASSUME input \in Seq(Entries)
  PROVE  Len(Tool!Yielded) = Cardinality(Tool!GoodAt)
<1>1. Cardinality(Tool!GoodAt) \in Nat
  BY Counts
<1> QED BY <1>1, ToolCardinality DEF Tool!Yielded

-----------------------------------------------------------------------------
(* The frames of the three stages. *)

Frame == [plain : Good] \cup [packet : Good]
Result == [plain : Good] \cup [packet : Good] \cup [garbage : Good]
Phases == {"next", "encode", "decode"}
Dumps == {"raw", "encoded", "decoded"}
\* How many frames one pass over the input yields.
Lap == Cardinality(Tool!GoodAt)

\* The types, and what holds before the tester is started.
TesterType ==
  /\ tester \in {"off", "done"} \cup Phases \cup Dumps
  /\ tester # "off" => args \in Tool!Args /\ input \in Seq(Entries) /\ pos \in 1..(Len(input) + 1)
  /\ raw_frames \in Seq(Good) /\ encoded_frames \in Seq(Frame) /\ decoded_frames \in Seq(Result)
  /\ clean \in BOOLEAN
  /\ tester = "off" => pos = 1 /\ alarms = {} /\ erred = {} /\ raw_frames = <<>> /\ encoded_frames = <<>> /\ decoded_frames = <<>>

\* The k-th frame of each stage is made from the k-th of the stage before, unless the
\* decoder got it wrong, and the k-th of all from the next good entry in turn.
Aligned ==
  /\ \A k \in 1..Len(raw_frames) : Lap > 0 /\ raw_frames[k] = Tool!Yielded[((k - 1) % Lap) + 1]
  /\ \A k \in 1..Len(encoded_frames) : encoded_frames[k] = Tool!Encoded(raw_frames[k])
  /\ \A k \in 1..Len(decoded_frames) : k \in erred \/ decoded_frames[k] = Tool!Decoded(Tool!Encoded(raw_frames[k]))

\* Each list is at most one frame behind, and which one tells the stage.
Stages ==
  /\ Len(encoded_frames) \in {Len(raw_frames), Len(raw_frames) - 1}
  /\ Len(decoded_frames) \in {Len(raw_frames), Len(raw_frames) - 1}
  /\ Len(decoded_frames) <= Len(encoded_frames)
  /\ tester \in {"off", "next"} => Len(decoded_frames) = Len(raw_frames)
  /\ tester = "encode" => Len(encoded_frames) # Len(raw_frames)
  /\ tester = "decode" => Len(encoded_frames) = Len(raw_frames) /\ Len(decoded_frames) # Len(raw_frames)

\* How many frames were yielded tells where the generator is in its pass.
Counted ==
  tester \in Phases =>
    /\ Lap = 0 => Len(raw_frames) = 0
    /\ Lap > 0 => Len(raw_frames) % Lap = Tool!GoodBefore(pos) % Lap
    /\ ~args.loop => Len(raw_frames) = Tool!GoodBefore(pos)

\* The dumps are what the lists were, and a clean end comes after a whole pass.
Written ==
  /\ tester \notin Dumps \cup {"done"} => DOMAIN files = {}
  /\ DOMAIN files \subseteq Dumps /\ \A d \in DOMAIN files : files[d] = Tool!Contents(d)
  /\ tester \in Dumps \cup {"done"} /\ clean => Len(decoded_frames) = Lap

\* The inductive invariant of the tester.
TesterInv == TesterType /\ Aligned /\ Stages /\ Counted /\ Written /\ RightAlarms

\* What the invariant says of the dumps, of a clean end and of the reports.
LEMMA TesterHolds == TesterInv => DumpsAligned /\ AllTested /\ RightAlarms
<1> SUFFICES ASSUME TesterInv PROVE DumpsAligned /\ AllTested /\ RightAlarms
  OBVIOUS
<1>1. RightAlarms
  BY DEF TesterInv
<1>2. AllTested
  <2> SUFFICES ASSUME tester = "done", clean PROVE Len(decoded_frames) = Len(Tool!Yielded)
    BY DEF AllTested, Tool!AllTested
  <2>1. Len(decoded_frames) = Lap
    BY DEF TesterInv, Written
  <2>2. input \in Seq(Entries)
    BY DEF TesterInv, TesterType
  <2> QED BY <2>1, <2>2, YieldedLen DEF Lap
<1>3. DumpsAligned
  <2> SUFFICES ASSUME NEW d \in DOMAIN files
               PROVE  /\ Len(files[d]) \in {Len(raw_frames), Len(raw_frames) - 1}
                      /\ \A k \in 1..Len(files[d]) :
                           LET f == Tool!Yielded[((k - 1) % Len(Tool!Yielded)) + 1] IN
                             \/ d = "decoded" /\ k \in erred
                             \/ files[d][k] = CASE d = "raw" -> f
                                                [] d = "encoded" -> Tool!Encoded(f)
                                                [] OTHER -> Tool!Decoded(Tool!Encoded(f))
    BY DEF DumpsAligned, Tool!DumpsAligned
  <2>1. d \in Dumps /\ files[d] = Tool!Contents(d) /\ tester # "off"
    BY DEF TesterInv, Written, Phases, Dumps
  <2>2. Len(Tool!Yielded) = Lap
    BY <2>1, YieldedLen DEF TesterInv, TesterType, Lap
  <2>3. Aligned /\ Stages
    BY DEF TesterInv
  <2>4. Len(raw_frames) \in Nat /\ Len(encoded_frames) \in Nat /\ Len(decoded_frames) \in Nat
    BY LenProperties DEF TesterInv, TesterType
  <2>5. Len(encoded_frames) <= Len(raw_frames) /\ Len(decoded_frames) <= Len(raw_frames)
    BY <2>3, <2>4 DEF Stages
  <2>6. CASE d = "raw"
    <3>1. files[d] = raw_frames
      BY <2>1, <2>6 DEF Tool!Contents
    <3> QED BY <3>1, <2>2, <2>3, <2>6 DEF Aligned
  <2>7. CASE d = "encoded"
    <3>1. files[d] = encoded_frames
      BY <2>1, <2>7 DEF Tool!Contents
    <3>2. \A k \in 1..Len(encoded_frames) : k \in 1..Len(raw_frames)
      BY <2>4, <2>5
    <3>3. \A k \in 1..Len(encoded_frames) : encoded_frames[k] = Tool!Encoded(Tool!Yielded[((k - 1) % Lap) + 1])
      BY <3>2, <2>3 DEF Aligned
    <3> QED BY <3>1, <3>3, <2>2, <2>3, <2>7 DEF Stages
  <2>8. CASE d = "decoded"
    <3>1. files[d] = decoded_frames
      BY <2>1, <2>8 DEF Tool!Contents
    <3>2. \A k \in 1..Len(decoded_frames) : k \in 1..Len(raw_frames)
      BY <2>4, <2>5
    <3>3. \A k \in 1..Len(decoded_frames) :
            k \in erred \/ decoded_frames[k] = Tool!Decoded(Tool!Encoded(Tool!Yielded[((k - 1) % Lap) + 1]))
      BY <3>2, <2>3 DEF Aligned
    <3> QED BY <3>1, <3>3, <2>2, <2>3, <2>8 DEF Stages
  <2> QED BY <2>1, <2>6, <2>7, <2>8 DEF Dumps
<1> QED BY <1>1, <1>2, <1>3

\* Before its start the tester has no frames.
LEMMA TesterInit == Tool!Init => TesterInv
<1> SUFFICES ASSUME Tool!Init PROVE TesterInv
  OBVIOUS
<1>1. /\ tester = "off" /\ pos = 1 /\ raw_frames = <<>> /\ encoded_frames = <<>> /\ decoded_frames = <<>>
      /\ alarms = {} /\ erred = {} /\ clean = TRUE /\ files = Tool!NoFiles
  BY DEF Tool!Init
<1>2. Len(raw_frames) = 0 /\ Len(encoded_frames) = 0 /\ Len(decoded_frames) = 0
  BY <1>1
<1>3. TesterType
  BY <1>1 DEF TesterType
<1>4. Aligned /\ Stages /\ Counted
  BY <1>1, <1>2 DEF Aligned, Stages, Counted, Phases
<1>5. DOMAIN files = {}
  BY <1>1 DEF Tool!NoFiles
<1>6. Written
  BY <1>1, <1>5 DEF Written, Dumps
<1>7. RightAlarms
  BY <1>1 DEF RightAlarms, Tool!RightAlarms
<1> QED BY <1>3, <1>4, <1>6, <1>7 DEF TesterInv

\* A pass through the input means the same as long as the input is the same.
LEMMA SamePass ==
  ASSUME UNCHANGED input
  PROVE  /\ Lap' = Lap /\ Tool!Yielded' = Tool!Yielded
         /\ \A i : Tool!GoodBefore(i)' = Tool!GoodBefore(i)
  BY DEF Lap, Tool!Yielded, Tool!GoodBefore, Tool!GoodAt

\* The other utilities leave the tester alone.
LEMMA TesterStill == TesterInv /\ UNCHANGED testerVars => TesterInv'
<1> SUFFICES ASSUME TesterInv, UNCHANGED testerVars PROVE TesterInv'
  OBVIOUS
<1>1. /\ UNCHANGED <<tester, args, input, pos, clean, alarms, erred, files>>
      /\ UNCHANGED <<raw_frames, encoded_frames, decoded_frames>>
  BY DEF testerVars
<1>2. Aligned'
  BY <1>1, SamePass DEF TesterInv, Aligned, Tool!Encoded, Tool!Decoded
<1>3. Counted'
  BY <1>1, SamePass DEF TesterInv, Counted
<1>4. Written'
  <2>1. \A d : Tool!Contents(d)' = Tool!Contents(d)
    BY <1>1 DEF Tool!Contents
  <2>2. Lap' = Lap
    BY <1>1, SamePass
  <2> QED BY <1>1, <2>1, <2>2 DEF TesterInv, Written
<1>5. TesterType' /\ Stages'
  BY <1>1 DEF TesterInv, TesterType, Stages
<1>6. RightAlarms'
  BY <1>1 DEF TesterInv, RightAlarms, Tool!RightAlarms
<1> QED BY <1>2, <1>3, <1>4, <1>5, <1>6 DEF TesterInv

\* Begin: the arguments are parsed and the generator is at its first entry.
LEMMA Begun == TesterInv /\ Tool!Begin => TesterInv'
<1> SUFFICES ASSUME TesterInv, Tool!Begin PROVE TesterInv'
  OBVIOUS
<1>1. PICK a \in Tool!Args : \E in \in Tool!Inputs(a) : Tool!Start(a, in)
  BY DEF Tool!Begin
<1>2. PICK in \in Tool!Inputs(a) : Tool!Start(a, in)
  BY <1>1
<1>3. /\ tester = "off" /\ tester' = "next" /\ args' = a /\ input' = in
      /\ UNCHANGED <<pos, raw_frames, encoded_frames, decoded_frames, alarms, erred, clean, files>>
  BY <1>2 DEF Tool!Begin, Tool!Start
<1>4. /\ pos = 1 /\ alarms = {} /\ erred = {} /\ raw_frames = <<>> /\ encoded_frames = <<>> /\ decoded_frames = <<>>
      /\ clean \in BOOLEAN /\ DOMAIN files = {}
  BY <1>3 DEF TesterInv, TesterType, Written, Dumps
<1>5. input' \in Seq(Entries)
  <2>1. PICK n \in 0..MaxEntries :
          in \in [1..n -> Good \cup (IF a.generator = "rand" THEN {} ELSE {Skipped})
                                \cup (IF a.generator = "json" THEN {Broken} ELSE {})]
    BY <1>2 DEF Tool!Inputs
  <2>2. in \in [1..n -> Entries] /\ n \in Nat
    BY <2>1 DEF Entries
  <2>3. in \in Seq(Entries)
    BY <2>2
  <2> QED BY <2>3, <1>3
<1>6. /\ Len(raw_frames') = 0 /\ Len(encoded_frames') = 0 /\ Len(decoded_frames') = 0
  BY <1>3, <1>4
<1>7. pos' \in 1..(Len(input') + 1)
  <2>1. Len(input') \in Nat
    BY <1>5, LenProperties
  <2> QED BY <2>1, <1>3, <1>4
<1>8. TesterType'
  BY <1>1, <1>3, <1>4, <1>5, <1>7 DEF TesterType, Phases
<1>9. Aligned'
  BY <1>6 DEF Aligned
<1>10. Stages'
  BY <1>3, <1>6 DEF Stages
<1>11. Tool!GoodBefore(1)' = 0
  <2>1. Len(input') \in Nat
    BY <1>5, LenProperties
  <2>2. \A j \in 1..Len(input') : ~(j < 1)
    BY <2>1
  <2>3. {j \in Tool!GoodAt' : j < 1} = {}
    BY <2>2 DEF Tool!GoodAt
  <2>4. Tool!GoodBefore(1)' = Cardinality({j \in Tool!GoodAt' : j < 1})
    BY ToolCardinality DEF Tool!GoodBefore
  <2> QED BY <2>3, <2>4, FS_EmptySet
<1>12. Counted'
  BY <1>3, <1>4, <1>6, <1>11 DEF Counted
<1>13. Written'
  BY <1>3, <1>4 DEF Written, Dumps
<1>14. RightAlarms'
  <2>1. 1..Len(decoded_frames') = {}
    BY <1>6
  <2> QED BY <2>1, <1>3, <1>4 DEF RightAlarms, Tool!RightAlarms
<1> QED BY <1>8, <1>9, <1>10, <1>12, <1>13, <1>14 DEF TesterInv

\* NextFrame: the generator yields the frame that is due in its pass.
LEMMA FrameYielded == TesterInv /\ Tool!NextFrame => TesterInv'
<1> SUFFICES ASSUME TesterInv, Tool!NextFrame PROVE TesterInv'
  OBVIOUS
<1> DEFINE n == Len(raw_frames)
           e == input[pos]
<1>1. /\ tester = "next" /\ tester' = "encode" /\ pos <= Len(input) /\ e \in Good
      /\ raw_frames' = Append(raw_frames, e) /\ pos' = pos + 1
      /\ UNCHANGED <<args, input, encoded_frames, decoded_frames, alarms, erred, clean, files>>
  BY DEF Tool!NextFrame
<1>2. /\ args \in Tool!Args /\ input \in Seq(Entries) /\ pos \in 1..(Len(input) + 1)
      /\ raw_frames \in Seq(Good) /\ encoded_frames \in Seq(Frame) /\ decoded_frames \in Seq(Result)
  BY <1>1 DEF TesterInv, TesterType
<1>3. Len(input) \in Nat /\ pos \in 1..Len(input) /\ n \in Nat
  BY <1>1, <1>2, LenProperties
<1> HIDE DEF e
<1>4. /\ raw_frames' \in Seq(Good) /\ Len(raw_frames') = n + 1
      /\ (\A k \in 1..n : raw_frames'[k] = raw_frames[k]) /\ raw_frames'[n + 1] = e
  BY <1>1, <1>2, AppendProperties
<1> HIDE DEF n
<1>5. Lap' = Lap /\ Tool!Yielded' = Tool!Yielded /\ \A i : Tool!GoodBefore(i)' = Tool!GoodBefore(i)
  BY <1>1, SamePass
<1> DEFINE b == Tool!GoodBefore(pos)
<1>6. b \in Nat /\ b < Lap /\ Lap \in Nat /\ Tool!GoodBefore(pos + 1) = b + 1
  <2>1. b \in Nat /\ Lap \in Nat
    BY <1>2, Counts DEF Lap
  <2>2. b < Lap /\ Tool!GoodBefore(pos + 1) = b + 1
    BY <1>1, <1>2, <1>3, Counts DEF Lap, e
  <2> QED BY <2>1, <2>2
<1>7. b + 1 \in 1..Lap /\ Tool!Yielded[b + 1] = e
  BY <1>1, <1>2, <1>3, YieldedNext DEF Lap, e
<1>8. n % Lap = b % Lap /\ (~args.loop => n = b)
  BY <1>1, <1>6 DEF TesterInv, Counted, Phases, n
<1> HIDE DEF b
<1>9. b % Lap = b
  BY <1>6, Small
<1>10. TesterType'
  BY <1>1, <1>2, <1>3, <1>4 DEF TesterInv, TesterType, Phases
<1>11. \A k \in 1..(n + 1) : Lap > 0 /\ raw_frames'[k] = Tool!Yielded[((k - 1) % Lap) + 1]
  <2> TAKE k \in 1..(n + 1)
  <2>1. CASE k = n + 1
    <3>1. k - 1 = n
      BY <2>1, <1>3
    <3>2. (k - 1) % Lap = b
      BY <3>1, <1>8, <1>9
    <3> QED BY <3>2, <2>1, <1>4, <1>6, <1>7
  <2>2. CASE k # n + 1
    <3>1. k \in 1..n
      BY <2>2, <1>3
    <3> QED BY <3>1, <1>4 DEF TesterInv, Aligned, n
  <2> QED BY <2>1, <2>2
<1>12. Len(encoded_frames) = n /\ Len(decoded_frames) = n
  <2>1. Len(encoded_frames) \in Nat /\ Len(decoded_frames) \in Nat
    BY <1>2, LenProperties
  <2> QED BY <2>1, <1>1, <1>3 DEF TesterInv, Stages, n
<1>13. \A k \in 1..n : /\ encoded_frames[k] = Tool!Encoded(raw_frames[k])
                       /\ k \in erred \/ decoded_frames[k] = Tool!Decoded(Tool!Encoded(raw_frames[k]))
  BY <1>12 DEF TesterInv, Aligned
<1>14. Aligned'
  <2>1. \A k \in 1..n : /\ encoded_frames'[k] = Tool!Encoded(raw_frames'[k])
                        /\ k \in erred' \/ decoded_frames'[k] = Tool!Decoded(Tool!Encoded(raw_frames'[k]))
    BY <1>1, <1>4, <1>13
  <2>2. /\ args' = args /\ erred' = erred
        /\ Len(encoded_frames') = n /\ Len(decoded_frames') = n /\ Len(raw_frames') = n + 1
    BY <1>1, <1>4, <1>12
  <2>3. \A k \in 1..(n + 1) : Lap' > 0 /\ raw_frames'[k] = Tool!Yielded'[((k - 1) % Lap') + 1]
    BY <1>5, <1>11
  <2>5. \A k \in 1..n : encoded_frames'[k] = Tool!Encoded(raw_frames[k])'
    BY <1>1, <1>4, <1>13, <2>2 DEF Tool!Encoded
  <2>6. \A k \in 1..n : k \in erred' \/ decoded_frames'[k] = Tool!Decoded(Tool!Encoded(raw_frames[k]))'
    BY <2>1, <2>2 DEF Tool!Encoded, Tool!Decoded
  <2> QED BY <2>2, <2>3, <2>5, <2>6 DEF Aligned
<1>15. Stages'
  BY <1>1, <1>3, <1>4, <1>12 DEF Stages
<1>16. (n + 1) % Lap = (b + 1) % Lap
  <2> DEFINE c == Lap
  <2>1. c \in Nat /\ c > 0 /\ b \in Nat /\ n \in Nat /\ n % c = b % c
    <3>1. c \in Nat /\ c > 0 /\ b \in Nat /\ n \in Nat
      BY <1>3, <1>6
    <3>2. n % c = b % c
      BY <1>8
    <3> QED BY <3>1, <3>2
  <2> HIDE DEF c
  <2>2. (n + 1) % c = (b + 1) % c
    BY <2>1, Cycle
  <2> QED BY <2>2 DEF c
<1>17. Counted'
  BY <1>1, <1>4, <1>5, <1>6, <1>8, <1>16 DEF Counted
<1>18. Written'
  BY <1>1 DEF TesterInv, Written, Dumps
<1>19. RightAlarms'
  BY <1>1 DEF TesterInv, RightAlarms, Tool!RightAlarms
<1> QED BY <1>10, <1>14, <1>15, <1>17, <1>18, <1>19 DEF TesterInv

\* The frames of all stages, and what was said of them, are left as they are.
FramesKept == UNCHANGED <<args, input, raw_frames, encoded_frames, decoded_frames, alarms, erred>>

\* Frames that are left as they are stay aligned, and the reports stay right.
LEMMA AlignedKept ==
  TesterInv /\ FramesKept /\ tester # "off" /\ tester' # "off" => Aligned' /\ Lap' = Lap /\ RightAlarms'
<1> SUFFICES ASSUME TesterInv, FramesKept, tester # "off", tester' # "off"
             PROVE  Aligned' /\ Lap' = Lap /\ RightAlarms'
  OBVIOUS
<1>1. UNCHANGED <<args, input>> /\ UNCHANGED <<raw_frames, encoded_frames, decoded_frames, alarms, erred>>
  BY DEF FramesKept
<1>2. RightAlarms'
  BY <1>1 DEF TesterInv, RightAlarms, Tool!RightAlarms
<1> QED BY <1>1, <1>2, SamePass DEF TesterInv, Aligned, Tool!Encoded, Tool!Decoded

\* SkipEntry: an entry without a frame does not count.
LEMMA EntrySkipped == TesterInv /\ Tool!SkipEntry => TesterInv'
<1> SUFFICES ASSUME TesterInv, Tool!SkipEntry PROVE TesterInv'
  OBVIOUS
<1>1. /\ tester = "next" /\ pos <= Len(input) /\ input[pos] = Skipped
      /\ pos' = pos + 1 /\ FramesKept
      /\ UNCHANGED <<tester, args, input, raw_frames, encoded_frames, decoded_frames>>
      /\ UNCHANGED <<alarms, erred, clean, files>>
  BY DEF Tool!SkipEntry, FramesKept
<1>2. input \in Seq(Entries) /\ pos \in 1..(Len(input) + 1)
  BY <1>1 DEF TesterInv, TesterType
<1>3. Len(input) \in Nat /\ pos \in 1..Len(input) /\ pos + 1 \in 1..(Len(input) + 1)
  BY <1>1, <1>2, LenProperties
<1>4. input[pos] \notin Good
  BY <1>1, EntriesDiffer
<1>5. Tool!GoodBefore(pos + 1) = Tool!GoodBefore(pos)
  BY <1>2, <1>3, <1>4, Counts
<1>6. Lap' = Lap /\ \A i : Tool!GoodBefore(i)' = Tool!GoodBefore(i)
  BY <1>1, SamePass
<1>7. TesterType'
  BY <1>1, <1>3 DEF TesterInv, TesterType
<1>8. Counted'
  BY <1>1, <1>5, <1>6 DEF TesterInv, Counted
<1>9. Stages'
  BY <1>1 DEF TesterInv, Stages
<1>10. Written'
  BY <1>1 DEF TesterInv, Written, Dumps
<1> QED BY <1>1, <1>7, <1>8, <1>9, <1>10, AlignedKept DEF TesterInv

\* The loop is left for the dumps, by an exception or at the end of the input.
LEMMA Left ==
  ASSUME TesterInv, tester \in Phases, FramesKept, UNCHANGED <<pos, files>>, NEW ok \in BOOLEAN,
         Tool!Leave(ok), ok => Len(decoded_frames) = Lap
  PROVE  TesterInv'
<1>1. /\ tester' = "raw" /\ clean' = ok /\ UNCHANGED <<pos, alarms, erred, files, args, input>>
      /\ UNCHANGED <<raw_frames, encoded_frames, decoded_frames>>
  BY DEF Tool!Leave, FramesKept
<1>2. TesterType'
  BY <1>1 DEF TesterInv, TesterType, Phases, Dumps
<1>3. Aligned' /\ Lap' = Lap /\ RightAlarms'
  BY <1>1, AlignedKept DEF Phases
<1>4. Stages'
  BY <1>1 DEF TesterInv, Stages
<1>5. Counted'
  BY <1>1 DEF Counted, Phases
<1>6. DOMAIN files = {}
  BY DEF TesterInv, Written, Phases, Dumps
<1>7. Written'
  <2>1. clean' => Len(decoded_frames') = Lap'
    BY <1>1, <1>3
  <2>2. DOMAIN files' = {}
    BY <1>1, <1>6
  <2> QED BY <2>1, <2>2, <1>1 DEF TesterInv, Written
<1> QED BY <1>2, <1>3, <1>4, <1>5, <1>7 DEF TesterInv

\* An exception or Ctrl-C leaves the loop, and the run is not a clean one.
LEMMA Stopped ==
  TesterInv /\ (Tool!BrokenEntry \/ Tool!EncodeFails \/ Tool!DecodeFails \/ Tool!CtrlC) => TesterInv'
<1> SUFFICES ASSUME TesterInv, Tool!BrokenEntry \/ Tool!EncodeFails \/ Tool!DecodeFails \/ Tool!CtrlC
             PROVE  TesterInv'
  OBVIOUS
<1>1. tester \in Phases /\ FramesKept /\ UNCHANGED <<pos, files>> /\ Tool!Leave(FALSE)
  BY DEF Tool!BrokenEntry, Tool!EncodeFails, Tool!DecodeFails, Tool!CtrlC, Phases, FramesKept
<1> QED BY <1>1, Left

\* EndOfInput: the pass starts over, or the loop is left with all frames tested.
LEMMA InputEnded == TesterInv /\ Tool!EndOfInput => TesterInv'
<1> SUFFICES ASSUME TesterInv, Tool!EndOfInput PROVE TesterInv'
  OBVIOUS
<1> DEFINE n == Len(raw_frames)
<1>1. /\ tester = "next" /\ pos > Len(input) /\ FramesKept /\ UNCHANGED <<alarms, erred, files>>
      /\ IF args.loop THEN pos' = 1 /\ UNCHANGED <<tester, clean>>
         ELSE Tool!Leave(args.generator # "stdin") /\ UNCHANGED pos
  BY DEF Tool!EndOfInput, FramesKept
<1>2. input \in Seq(Entries) /\ pos \in 1..(Len(input) + 1) /\ raw_frames \in Seq(Good) /\ decoded_frames \in Seq(Result)
  BY <1>1 DEF TesterInv, TesterType
<1>3. pos = Len(input) + 1 /\ Len(input) \in Nat /\ n \in Nat
  BY <1>1, <1>2, LenProperties
<1>4. Tool!GoodBefore(pos) = Lap /\ Lap \in Nat /\ Tool!GoodBefore(1) = 0
  BY <1>2, <1>3, Counts DEF Lap
<1>5. CASE args.loop
  <2>1. pos' = 1 /\ UNCHANGED <<tester, clean, args, input, alarms, erred, files>>
    BY <1>1, <1>5 DEF FramesKept
  <2>2. UNCHANGED <<raw_frames, encoded_frames, decoded_frames>>
    BY <1>1 DEF FramesKept
  <2>3. Lap' = Lap /\ \A i : Tool!GoodBefore(i)' = Tool!GoodBefore(i)
    BY <2>1, SamePass
  <2>4. Lap > 0 => n % Lap = 0 % Lap
    <3> SUFFICES ASSUME Lap > 0 PROVE n % Lap = 0 % Lap
      OBVIOUS
    <3>1. n % Lap = Lap % Lap
      BY <1>1, <1>4 DEF TesterInv, Counted, Phases
    <3>2. Lap % Lap = 0 /\ 0 % Lap = 0
      <4>1. 0 \in 0..(Lap - 1)
        BY <1>4
      <4> QED BY <4>1, <1>4, Small
    <3> QED BY <3>1, <3>2
  <2>5. TesterType'
    BY <2>1, <2>2, <1>3 DEF TesterInv, TesterType
  <2>6. Lap = 0 => n = 0
    BY <1>1 DEF TesterInv, Counted, Phases
  <2>7. Counted'
    BY <2>1, <2>2, <2>3, <2>4, <2>6, <1>4, <1>5 DEF Counted
  <2>8. Stages'
    BY <2>1, <2>2 DEF TesterInv, Stages
  <2>9. Written'
    BY <1>1, <2>1, <2>2 DEF TesterInv, Written, Dumps
  <2>10. Aligned' /\ RightAlarms'
    <3>1. tester # "off" /\ tester' # "off" /\ FramesKept
      BY <1>1, <2>1
    <3> QED BY <3>1, AlignedKept
  <2> QED BY <2>5, <2>7, <2>8, <2>9, <2>10 DEF TesterInv
<1>6. CASE ~args.loop
  <2>1. Tool!Leave(args.generator # "stdin") /\ UNCHANGED <<pos, files>>
    BY <1>1, <1>6
  <2>2. Len(decoded_frames) = Lap
    <3>1. n = Lap
      BY <1>1, <1>4, <1>6 DEF TesterInv, Counted, Phases
    <3>2. Len(decoded_frames) = n
      BY <1>1 DEF TesterInv, Stages
    <3> QED BY <3>1, <3>2
  <2> QED BY <2>1, <2>2, <1>1, Left DEF Phases
<1> QED BY <1>5, <1>6

\* A stage that is stubbed out hands on what it is given; with both stages or neither
\* stubbed out the frame comes back unless the decoder errs, with one it never does.
LEMMA Stubbed ==
  ASSUME NEW f \in Good, args \in Tool!Args
  PROVE  /\ Tool!Encoded(f) \in Frame
         /\ \A d \in Tool!Decodings(Tool!Encoded(f)) :
              /\ d \in Result
              /\ args.stub_encoder = args.stub_decoder =>
                   (d = [plain |-> f] <=> d = Tool!Decoded(Tool!Encoded(f)))
              /\ args.stub_encoder # args.stub_decoder => d # [plain |-> f]
<1>1. "packet" \in DOMAIN [packet |-> f] /\ "packet" \notin DOMAIN [plain |-> f]
  OBVIOUS
<1>2. [packet |-> f].packet = f /\ [plain |-> f].plain = f
  OBVIOUS
<1>3. [packet |-> f] # [plain |-> f] /\ [garbage |-> f] # [plain |-> f]
  <2>1. DOMAIN [packet |-> f] # DOMAIN [plain |-> f] /\ DOMAIN [garbage |-> f] # DOMAIN [plain |-> f]
    OBVIOUS
  <2> QED BY <2>1
<1>4. args.stub_encoder \in BOOLEAN /\ args.stub_decoder \in BOOLEAN
  BY DEF Tool!Args
<1>5. CASE args.stub_encoder
  <2>1. Tool!Encoded(f) = [plain |-> f]
    BY <1>5 DEF Tool!Encoded
  <2>2. Tool!Decodings([plain |-> f]) = {Tool!Decoded([plain |-> f])}
    BY <1>1 DEF Tool!Decodings
  <2>3. Tool!Decoded([plain |-> f]) = IF args.stub_decoder THEN [plain |-> f] ELSE [garbage |-> f]
    BY <1>1, <1>2 DEF Tool!Decoded
  <2>4. {[plain |-> f], [garbage |-> f]} \subseteq Result /\ [plain |-> f] \in Frame
    BY DEF Frame, Result
  <2> DEFINE right == Tool!Decoded([plain |-> f])
  <2>5. \A d \in Tool!Decodings([plain |-> f]) : d = right
    BY <2>2
  <2>6. right \in Result /\ (args.stub_decoder <=> right = [plain |-> f])
    BY <2>3, <2>4, <1>3
  <2> HIDE DEF right
  <2>7. \A d \in Tool!Decodings([plain |-> f]) :
          /\ d \in Result
          /\ args.stub_encoder = args.stub_decoder => (d = [plain |-> f] <=> d = right)
          /\ args.stub_encoder # args.stub_decoder => d # [plain |-> f]
    BY <1>4, <1>5, <2>5, <2>6
  <2> QED BY <2>1, <2>4, <2>7 DEF right
<1>6. CASE ~args.stub_encoder
  <2>1. Tool!Encoded(f) = [packet |-> f]
    BY <1>6 DEF Tool!Encoded
  <2>2. Tool!Decodings([packet |-> f]) =
          IF args.stub_decoder THEN {[packet |-> f]} ELSE {[plain |-> f]} \cup [plain : Good] \cup {[garbage |-> f]}
    BY <1>1, <1>2 DEF Tool!Decodings, Tool!Decoded
  <2>3. Tool!Decoded([packet |-> f]) = IF args.stub_decoder THEN [packet |-> f] ELSE [plain |-> f]
    BY <1>1, <1>2 DEF Tool!Decoded
  <2> QED BY <1>3, <1>4, <1>6, <2>1, <2>2, <2>3 DEF Frame, Result
<1> QED BY <1>5, <1>6

\* Encode: the frame enters the second stage.
LEMMA FrameEncoded == TesterInv /\ Tool!Encode => TesterInv'
<1> SUFFICES ASSUME TesterInv, Tool!Encode PROVE TesterInv'
  OBVIOUS
<1> DEFINE n == Len(raw_frames)
           m == Len(encoded_frames)
           f == raw_frames[n]
           e == Tool!Encoded(f)
<1>1. /\ tester = "encode" /\ tester' = "decode" /\ encoded_frames' = Append(encoded_frames, e)
      /\ UNCHANGED <<args, input, pos, raw_frames, decoded_frames>>
      /\ UNCHANGED <<alarms, erred, clean, files>>
  BY DEF Tool!Encode, Tool!Last
<1>2. raw_frames \in Seq(Good) /\ encoded_frames \in Seq(Frame) /\ decoded_frames \in Seq(Result)
  BY DEF TesterInv, TesterType
<1>3. n \in Nat /\ m \in Nat /\ m = n - 1 /\ Len(decoded_frames) = n - 1
  <2>1. n \in Nat /\ m \in Nat /\ Len(decoded_frames) \in Nat
    BY <1>2, LenProperties
  <2> QED BY <2>1, <1>1 DEF TesterInv, Stages
<1>4. f \in Good
  BY <1>2, <1>3
<1>5. e \in Frame
  <2>1. args \in Tool!Args
    BY <1>1 DEF TesterInv, TesterType
  <2> QED BY <1>4, <2>1, Stubbed
<1> HIDE DEF e
<1>6. /\ encoded_frames' \in Seq(Frame) /\ Len(encoded_frames') = m + 1
      /\ (\A k \in 1..m : encoded_frames'[k] = encoded_frames[k]) /\ encoded_frames'[m + 1] = e
  BY <1>1, <1>2, <1>5, AppendProperties
<1>7. Len(encoded_frames') = n
  BY <1>3, <1>6
<1>8. \A k \in 1..n : encoded_frames'[k] = Tool!Encoded(raw_frames[k])
  <2> TAKE k \in 1..n
  <2>1. CASE k = n
    BY <2>1, <1>3, <1>6 DEF e
  <2>2. CASE k # n
    <3>1. k \in 1..m
      BY <2>2, <1>3
    <3> QED BY <3>1, <1>6 DEF TesterInv, Aligned
  <2> QED BY <2>1, <2>2
<1>9. Lap' = Lap /\ Tool!Yielded' = Tool!Yielded /\ \A i : Tool!GoodBefore(i)' = Tool!GoodBefore(i)
  BY <1>1, SamePass
<1>10. Aligned'
  BY <1>1, <1>7, <1>8, <1>9 DEF TesterInv, Aligned, Tool!Encoded, Tool!Decoded
<1>11. TesterType'
  BY <1>1, <1>6 DEF TesterInv, TesterType, Phases
<1>12. Stages'
  BY <1>1, <1>3, <1>7 DEF Stages
<1>13. Counted'
  BY <1>1, <1>9 DEF TesterInv, Counted, Phases
<1>14. Written'
  BY <1>1 DEF TesterInv, Written, Dumps
<1>15. RightAlarms'
  BY <1>1 DEF TesterInv, RightAlarms, Tool!RightAlarms
<1> QED BY <1>10, <1>11, <1>12, <1>13, <1>14, <1>15 DEF TesterInv

\* Decode: the frame leaves the third stage and is compared with the first.
LEMMA FrameCompared == TesterInv /\ Tool!Decode => TesterInv'
<1> SUFFICES ASSUME TesterInv, Tool!Decode PROVE TesterInv'
  OBVIOUS
<1> DEFINE n == Len(raw_frames)
           m == Len(decoded_frames)
           f == raw_frames[n]
           e == Tool!Encoded(f)
<1>1. /\ raw_frames \in Seq(Good) /\ encoded_frames \in Seq(Frame) /\ decoded_frames \in Seq(Result)
      /\ tester = "decode" /\ args \in Tool!Args
  BY DEF TesterInv, TesterType, Tool!Decode
<1>2. n \in Nat /\ m \in Nat /\ n >= 1 /\ m = n - 1 /\ Len(encoded_frames) = n
  <2>1. n \in Nat /\ m \in Nat /\ Len(encoded_frames) \in Nat
    BY <1>1, LenProperties
  <2> QED BY <2>1, <1>1 DEF TesterInv, Stages
<1>3. encoded_frames[Len(encoded_frames)] = e /\ f \in Good
  <2>1. n \in 1..Len(encoded_frames)
    BY <1>2
  <2> QED BY <2>1, <1>1, <1>2 DEF TesterInv, Aligned
<1>4. PICK d \in Tool!Decodings(e) : decoded_frames' = Append(decoded_frames, d) /\ Tool!Judge(d)
  BY <1>3 DEF Tool!Decode, Tool!Last
<1>5. /\ tester' = "next" /\ decoded_frames' = Append(decoded_frames, d)
      /\ alarms' = IF d = [plain |-> f] THEN alarms ELSE alarms \cup {n}
      /\ erred' = IF d = Tool!Decoded(e) THEN erred ELSE erred \cup {n}
      /\ UNCHANGED <<args, input, pos, raw_frames, encoded_frames>>
      /\ UNCHANGED <<clean, files>>
  BY <1>3, <1>4 DEF Tool!Decode, Tool!Last, Tool!Same, Tool!Judge
<1>6. /\ d \in Result
      /\ args.stub_encoder = args.stub_decoder => (d = [plain |-> f] <=> d = Tool!Decoded(e))
      /\ args.stub_encoder # args.stub_decoder => d # [plain |-> f]
  BY <1>1, <1>3, Stubbed
<1> DEFINE right == Tool!Decoded(e)
           same == d = [plain |-> f]
<1> HIDE DEF e, right, same
<1>7. /\ decoded_frames' \in Seq(Result) /\ Len(decoded_frames') = m + 1
      /\ (\A k \in 1..m : decoded_frames'[k] = decoded_frames[k]) /\ decoded_frames'[m + 1] = d
  BY <1>5, <1>1, <1>6, AppendProperties
<1>8. Len(decoded_frames') = n
  BY <1>2, <1>7
<1>9. \A k \in 1..n : k \in erred' \/ decoded_frames'[k] = Tool!Decoded(Tool!Encoded(raw_frames[k]))
  <2> TAKE k \in 1..n
  <2>1. CASE k = n
    <3>1. k = m + 1 /\ decoded_frames'[k] = d
      BY <2>1, <1>2, <1>7
    <3>2. d = right \/ k \in erred'
      BY <2>1, <1>5 DEF right
    <3> QED BY <3>1, <3>2, <2>1 DEF e, right
  <2>2. CASE k # n
    <3>1. k \in 1..m
      BY <2>2, <1>2
    <3>2. k \in erred \/ decoded_frames[k] = Tool!Decoded(Tool!Encoded(raw_frames[k]))
      BY <3>1 DEF TesterInv, Aligned
    <3> QED BY <3>1, <3>2, <1>5, <1>7
  <2> QED BY <2>1, <2>2
<1>10. Lap' = Lap /\ Tool!Yielded' = Tool!Yielded /\ \A i : Tool!GoodBefore(i)' = Tool!GoodBefore(i)
  BY <1>5, SamePass
<1>11. Aligned'
  BY <1>5, <1>8, <1>9, <1>10 DEF TesterInv, Aligned, Tool!Encoded, Tool!Decoded
<1>12. TesterType'
  BY <1>5, <1>1, <1>7 DEF TesterInv, TesterType, Phases
<1>13. Stages'
  BY <1>5, <1>2, <1>8 DEF Stages
<1>14. Counted'
  BY <1>5, <1>1, <1>10 DEF TesterInv, Counted, Phases
<1>15. DOMAIN files = {}
  BY <1>1 DEF TesterInv, Written, Dumps
<1>16. Written'
  BY <1>5, <1>15 DEF Written, Dumps
<1>17. RightAlarms'
  <2>0. /\ alarms' = IF same THEN alarms ELSE alarms \cup {n}
        /\ erred' = IF d = right THEN erred ELSE erred \cup {n}
        /\ args.stub_encoder = args.stub_decoder => (same <=> d = right)
        /\ args.stub_encoder # args.stub_decoder => ~same
        /\ args' = args
    BY <1>5, <1>6 DEF same, right
  <2>1. alarms = IF args.stub_encoder = args.stub_decoder THEN erred ELSE 1..m
    BY <1>1 DEF TesterInv, RightAlarms, Tool!RightAlarms
  <2>2. CASE args.stub_encoder = args.stub_decoder
    <3>1. alarms' = erred'
      BY <2>0, <2>1, <2>2
    <3> QED BY <3>1, <2>0, <2>2 DEF RightAlarms, Tool!RightAlarms
  <2>3. CASE args.stub_encoder # args.stub_decoder
    <3>1. alarms' = (1..m) \cup {n}
      BY <2>0, <2>1, <2>3
    <3>2. (1..m) \cup {n} = 1..n
      BY <1>2
    <3> QED BY <3>1, <3>2, <2>0, <2>3, <1>8 DEF RightAlarms, Tool!RightAlarms
  <2> QED BY <2>2, <2>3
<1> QED BY <1>11, <1>12, <1>13, <1>14, <1>16, <1>17 DEF TesterInv

\* Dump, DumpFails: a stage is written to its file, or the tester ends.
LEMMA Dumped == TesterInv /\ (Tool!Dump \/ Tool!DumpFails) => TesterInv'
<1> SUFFICES ASSUME TesterInv, Tool!Dump \/ Tool!DumpFails PROVE TesterInv'
  OBVIOUS
<1>1. /\ tester \in Dumps /\ tester' \in {"encoded", "decoded", "done"}
      /\ FramesKept /\ UNCHANGED <<args, input, pos, alarms, erred>>
      /\ UNCHANGED <<raw_frames, encoded_frames, decoded_frames>>
      /\ clean' = clean \/ clean' = FALSE
      /\ files' = files \/ files' = [d \in DOMAIN files \cup {tester} |-> Tool!Contents(d)]
  BY DEF Tool!Dump, Tool!DumpFails, Tool!AfterDump, Dumps, FramesKept
<1>2. Aligned' /\ Lap' = Lap /\ RightAlarms'
  BY <1>1, AlignedKept DEF Dumps
<1>3. TesterType'
  BY <1>1 DEF TesterInv, TesterType, Dumps
<1>4. Stages'
  BY <1>1 DEF TesterInv, Stages
<1>5. Counted'
  BY <1>1 DEF Counted, Phases
<1>6. \A d : Tool!Contents(d)' = Tool!Contents(d)
  BY <1>1 DEF Tool!Contents
<1>7. DOMAIN files' \subseteq Dumps /\ \A d \in DOMAIN files' : files'[d] = Tool!Contents(d)
  BY <1>1 DEF TesterInv, Written
<1>8. clean' => Len(decoded_frames') = Lap'
  BY <1>1, <1>2 DEF TesterInv, Written
<1>9. tester' \in Dumps \cup {"done"}
  BY <1>1 DEF Dumps
<1>10. Written'
  BY <1>6, <1>7, <1>8, <1>9 DEF Written
<1> QED BY <1>2, <1>3, <1>4, <1>5, <1>10 DEF TesterInv

\* Every step of the tester keeps its invariant.
LEMMA TesterSteps == TesterInv /\ (Tool!Begin \/ Tool!Step \/ Tool!CtrlC) => TesterInv'
  BY Begun, FrameYielded, EntrySkipped, Stopped, InputEnded, FrameEncoded, FrameCompared, Dumped DEF Tool!Step

-----------------------------------------------------------------------------
(* The stability test: rates. *)

Half == Times \cup {0}
Round == [enc : Half, dec : Half]
Running == {"loop", "decode", "check encoder", "check decoder"}

\* Rounds whose decodes are timed, and those for which a check has been passed.
DecRounds == IF stability = "decode" THEN Len(rounds) - 1 ELSE Len(rounds)
EncChecked == IF stability \in {"decode", "check encoder"} THEN Len(rounds) - 1 ELSE Len(rounds)
DecChecked == IF stability \in {"decode", "check encoder", "check decoder"} THEN Len(rounds) - 1 ELSE Len(rounds)

\* The times that are kept are those of the last of m rounds: n of them, if there are as many.
Recent(times, rs, stage, m, n) ==
  /\ times \in Seq(Half)
  /\ Len(times) = IF m < n THEN m ELSE n
  /\ \A i \in 1..Len(times) : times[i] = rs[m - Len(times) + i][stage]

\* A list is one entry longer until the check has removed the oldest one.
Slots(waiting) == IF waiting THEN ROLLING_TIME_SECONDS ELSE ROLLING_TIME_SECONDS - 1

\* The window after the first k rounds; the windows of m rounds were fast enough.
WindowOf(rs, k, stage) == [i \in 1..ROLLING_TIME_SECONDS |-> rs[k + i][stage]]
Fast(rs, m, stage) ==
  \A k \in 0..(m - ROLLING_TIME_SECONDS) : ~Test!TooSlow(WindowOf(rs, k, stage))

\* The inductive invariant of the rates.
RatesInv ==
  /\ stability \in {"off", "TimingError", "DecoderError", "ZeroDivisionError", "returned"} \cup Running
  /\ rounds \in Seq(Round)
  /\ stability = "off" => rounds = <<>> /\ enc_times = <<>> /\ dec_times = <<>>
  /\ stability \in {"decode", "check encoder", "check decoder"} => rounds # <<>>
  /\ stability \in Running =>
       /\ Recent(enc_times, rounds, "enc", Len(rounds), Slots(stability \in {"decode", "check encoder"}))
       /\ Recent(dec_times, rounds, "dec", DecRounds, Slots(stability \in {"check encoder", "check decoder"}))
  /\ stability \in Running \cup {"returned"} =>
       Fast(rounds, EncChecked, "enc") /\ Fast(rounds, DecChecked, "dec")
  /\ stability = "TimingError" => 
       LET k == Len(rounds) - ROLLING_TIME_SECONDS IN
         k >= 0 /\ (Test!TooSlow(WindowOf(rounds, k, "enc")) \/ Test!TooSlow(WindowOf(rounds, k, "dec")))

\* A window has at least one round.
LEMMA Sizes ==
  /\ ROLLING_TIME_SECONDS \in Nat /\ ROLLING_TIME_SECONDS >= 1
  /\ \A rs \in Seq(Round) : Len(rs) \in Nat
  BY BenchAssumption

\* What the invariant says of the rates of a test that has ended.
LEMMA RatesHold == RatesInv => RatesEnforced
<1> SUFFICES ASSUME RatesInv PROVE RatesEnforced
  OBVIOUS
<1>1. \A k, stage : WindowOf(rounds, k, stage) = Test!Window(k, stage)
  BY DEF WindowOf, Test!Window
<1>2. stability = "returned" =>
        \A k \in Test!Windows : ~Test!TooSlow(Test!Window(k, "enc")) /\ ~Test!TooSlow(Test!Window(k, "dec"))
  BY <1>1 DEF RatesInv, Fast, EncChecked, DecChecked, Test!Windows
<1>3. stability = "TimingError" =>
        LET k == Len(rounds) - ROLLING_TIME_SECONDS IN
          k >= 0 /\ (Test!TooSlow(Test!Window(k, "enc")) \/ Test!TooSlow(Test!Window(k, "dec")))
  BY <1>1 DEF RatesInv
<1> QED BY <1>2, <1>3 DEF RatesEnforced, Test!RatesEnforced

\* A time for each of so many rounds is their window.
LEMMA RecentWindow ==
  ASSUME NEW rs \in Seq(Round), NEW times, NEW stage \in {"enc", "dec"}, NEW m \in 0..Len(rs),
         Recent(times, rs, stage, m, ROLLING_TIME_SECONDS), Len(times) >= ROLLING_TIME_SECONDS
  PROVE  /\ m - ROLLING_TIME_SECONDS >= 0
         /\ times = WindowOf(rs, m - ROLLING_TIME_SECONDS, stage)
<1> DEFINE R == ROLLING_TIME_SECONDS
<1>0. R \in Nat /\ R >= 1 /\ m \in Nat
  BY Sizes
<1>1. times \in Seq(Half) /\ Len(times) = R /\ m >= R
  BY <1>0 DEF Recent
<1>2. times \in [1..R -> Half]
  BY <1>1, LenProperties
<1>3. \A i \in 1..R : times[i] = rs[m - R + i][stage]
  BY <1>1 DEF Recent
<1> HIDE DEF R
<1>4. times = [i \in 1..R |-> rs[m - R + i][stage]]
  BY <1>2, <1>3
<1> QED BY <1>0, <1>1, <1>4 DEF WindowOf, R

\* One more round, and its time.
LEMMA RecentAppend ==
  ASSUME NEW rs \in Seq(Round), NEW new \in Seq(Round), NEW times, NEW stage \in {"enc", "dec"},
         NEW m \in 0..Len(rs), m < Len(new), NEW t \in Half,
         \A i \in 1..m : new[i][stage] = rs[i][stage], new[m + 1][stage] = t,
         Recent(times, rs, stage, m, ROLLING_TIME_SECONDS - 1)
  PROVE  Recent(Append(times, t), new, stage, m + 1, ROLLING_TIME_SECONDS)
<1> DEFINE R == ROLLING_TIME_SECONDS
           n == Len(times)
           a == Append(times, t)
<1>0. R \in Nat /\ R >= 1 /\ m \in Nat /\ m <= Len(rs)
  BY Sizes
<1>1. times \in Seq(Half) /\ n = IF m < R - 1 THEN m ELSE R - 1
  BY DEF Recent
<1>2. a \in Seq(Half) /\ Len(a) = n + 1 /\ (\A i \in 1..n : a[i] = times[i]) /\ a[n + 1] = t
  BY <1>1, AppendProperties
<1>3. \A i \in 1..n : times[i] = rs[m - n + i][stage]
  BY DEF Recent
<1>4. n \in Nat /\ n <= m /\ Len(a) = IF m + 1 < R THEN m + 1 ELSE R
  BY <1>0, <1>1, <1>2
<1> HIDE DEF n, a, R
<1>5. ASSUME NEW i \in 1..(n + 1) PROVE a[i] = new[(m + 1) - (n + 1) + i][stage]
  <2>1. (m + 1) - (n + 1) + i = m - n + i
    BY <1>0, <1>4
  <2>2. CASE i = n + 1
    <3>1. m - n + i = m + 1
      BY <2>2, <1>0, <1>4
    <3> QED BY <3>1, <2>1, <2>2, <1>2
  <2>3. CASE i # n + 1
    <3>1. i \in 1..n /\ m - n + i \in 1..m
      BY <2>3, <1>0, <1>4
    <3> QED BY <3>1, <2>1, <1>2, <1>3
  <2> QED BY <2>2, <2>3
<1> QED BY <1>2, <1>4, <1>5 DEF Recent, a, R

\* The oldest time is dropped when there are enough.
LEMMA RecentRoll ==
  ASSUME NEW rs \in Seq(Round), NEW times, NEW stage \in {"enc", "dec"}, NEW m \in 0..Len(rs),
         Recent(times, rs, stage, m, ROLLING_TIME_SECONDS)
  PROVE  Recent(Test!Roll(times), rs, stage, m, ROLLING_TIME_SECONDS - 1)
<1> DEFINE R == ROLLING_TIME_SECONDS
           n == Len(times)
<1>0. R \in Nat /\ R >= 1 /\ m \in Nat
  BY Sizes
<1>1. times \in Seq(Half) /\ n \in Nat /\ n = IF m < R THEN m ELSE R
  BY <1>0 DEF Recent
<1>2. \A i \in 1..n : times[i] = rs[m - n + i][stage]
  BY DEF Recent
<1>3. CASE n >= R
  <2>1. Test!Roll(times) = Tail(times) /\ n = R /\ m >= R
    BY <1>0, <1>1, <1>3 DEF Test!Roll
  <2>2. times # <<>>
    BY <2>1, <1>0, EmptySeq
  <2> DEFINE b == Tail(times)
  <2>3. b \in Seq(Half) /\ Len(b) = n - 1 /\ \A i \in 1..(n - 1) : b[i] = times[i + 1]
    BY <1>1, <2>2, HeadTailProperties
  <2> HIDE DEF n, b, R
  <2>4. ASSUME NEW i \in 1..(n - 1) PROVE b[i] = rs[m - (n - 1) + i][stage]
    <3>1. i + 1 \in 1..n /\ m - (n - 1) + i = m - n + (i + 1)
      BY <1>1, <1>0
    <3> QED BY <3>1, <2>3, <1>2
  <2>5. Len(b) = IF m < R - 1 THEN m ELSE R - 1
    BY <2>1, <2>3, <1>0
  <2> QED BY <2>1, <2>3, <2>4, <2>5 DEF Recent, b, R
<1>4. CASE ~(n >= R)
  <2>1. Test!Roll(times) = times /\ n = m /\ m <= R - 1
    BY <1>0, <1>1, <1>4 DEF Test!Roll
  <2>2. n = IF m < R - 1 THEN m ELSE R - 1
    BY <2>1, <1>0
  <2> QED BY <1>1, <1>2, <2>1, <2>2 DEF Recent
<1> QED BY <1>3, <1>4

\* Windows behind which a round is added, or its time of decoding noted, stay as they are.
LEMMA FastStill ==
  ASSUME NEW rs, NEW new, NEW stage \in {"enc", "dec"}, NEW m \in Int,
         \A i \in 1..m : new[i][stage] = rs[i][stage], Fast(rs, m, stage)
  PROVE  Fast(new, m, stage)
<1> SUFFICES ASSUME NEW k \in 0..(m - ROLLING_TIME_SECONDS)
             PROVE  ~Test!TooSlow(WindowOf(new, k, stage))
  BY DEF Fast
<1>1. \A i \in 1..ROLLING_TIME_SECONDS : k + i \in 1..m
  BY Sizes
<1>2. WindowOf(new, k, stage) = WindowOf(rs, k, stage)
  BY <1>1 DEF WindowOf
<1> QED BY <1>2 DEF Fast

\* One more window.
LEMMA FastMore ==
  ASSUME NEW rs, NEW stage \in {"enc", "dec"}, NEW m \in Nat,
         Fast(rs, m - 1, stage), 
         m >= ROLLING_TIME_SECONDS => ~Test!TooSlow(WindowOf(rs, m - ROLLING_TIME_SECONDS, stage))
  PROVE  Fast(rs, m, stage)
<1> SUFFICES ASSUME NEW k \in 0..(m - ROLLING_TIME_SECONDS)
             PROVE  ~Test!TooSlow(WindowOf(rs, k, stage))
  BY DEF Fast
<1>1. CASE k = m - ROLLING_TIME_SECONDS
  BY <1>1, Sizes
<1>2. CASE k # m - ROLLING_TIME_SECONDS
  <2>1. k \in 0..(m - 1 - ROLLING_TIME_SECONDS)
    BY <1>2, Sizes
  <2> QED BY <2>1 DEF Fast
<1> QED BY <1>1, <1>2

\* No round is made before the start.
LEMMA RatesInit == Test!Init => RatesInv
<1> SUFFICES ASSUME Test!Init PROVE RatesInv
  OBVIOUS
<1> QED BY DEF Test!Init, RatesInv, Running

\* The other utilities leave the stability test alone.
LEMMA RatesStill == RatesInv /\ UNCHANGED stabilityVars => RatesInv'
<1> SUFFICES ASSUME RatesInv, UNCHANGED stabilityVars PROVE RatesInv'
  OBVIOUS
<1>1. UNCHANGED <<stability, rounds, enc_times, dec_times>>
  BY DEF stabilityVars
<1> QED BY <1>1 DEF RatesInv, DecRounds, EncChecked, DecChecked

\* The test begins with empty windows, or ends when it cannot subscribe.
LEMMA Started == RatesInv /\ (Test!Start \/ Test!SubscribeFails) => RatesInv'
<1> SUFFICES ASSUME RatesInv, Test!Start \/ Test!SubscribeFails PROVE RatesInv'
  OBVIOUS
<1>1. /\ rounds = <<>> /\ enc_times = <<>> /\ dec_times = <<>>
      /\ UNCHANGED <<rounds, enc_times, dec_times>> /\ stability' \in {"loop", "DecoderError"}
  BY DEF RatesInv, Test!Start, Test!SubscribeFails
<1>2. Len(rounds') = 0 /\ rounds' \in Seq(Round)
  BY <1>1
<1>0. rounds' = <<>> /\ enc_times' = <<>> /\ dec_times' = <<>>
  BY <1>1
<1>3. ROLLING_TIME_SECONDS \in Nat /\ ROLLING_TIME_SECONDS >= 1
  BY Sizes
<1>4. Fast(rounds', 0, "enc") /\ Fast(rounds', 0, "dec")
  BY <1>3 DEF Fast
<1>5. stability' = "loop" => 
         /\ Recent(enc_times', rounds', "enc", 0, ROLLING_TIME_SECONDS - 1)
         /\ Recent(dec_times', rounds', "dec", 0, ROLLING_TIME_SECONDS - 1)
  <2>1. <<>> \in Seq(Half) /\ Len(<<>>) = 0
    OBVIOUS
  <2> QED BY <2>1, <1>1, <1>3 DEF Recent
<1>7. CASE stability' = "loop"
  <2>1. DecRounds' = 0 /\ EncChecked' = 0 /\ DecChecked' = 0
    BY <1>2, <1>7 DEF DecRounds, EncChecked, DecChecked
  <2> QED BY <1>2, <1>4, <1>5, <1>7, <2>1 DEF RatesInv, Slots, Running
<1>8. CASE stability' = "DecoderError"
  BY <1>2, <1>8 DEF RatesInv, Running
<1> QED BY <1>1, <1>7, <1>8

\* A round of encoding adds its time to the window, which is one longer until the check.
LEMMA Encoded == \A time \in Times : RatesInv /\ Test!Encode(time) => RatesInv'
<1> SUFFICES ASSUME NEW time \in Times, RatesInv, Test!Encode(time) PROVE RatesInv'
  OBVIOUS
<1> DEFINE n == Len(rounds)
           r == [enc |-> time, dec |-> 0]
<1>1. /\ stability = "loop" /\ stability' = "decode"
      /\ enc_times' = Append(enc_times, time) /\ dec_times' = dec_times
      /\ rounds' = Append(rounds, r)
  BY DEF Test!Encode
<1>2. rounds \in Seq(Round) /\ n \in Nat /\ r \in Round /\ time \in Half
  BY Sizes DEF RatesInv, Round, Half
<1>3. r.enc = time
  OBVIOUS
<1> HIDE DEF r
<1>4. /\ rounds' \in Seq(Round) /\ Len(rounds') = n + 1 /\ rounds' # <<>>
      /\ (\A i \in 1..n : rounds'[i] = rounds[i]) /\ rounds'[n + 1] = r
  BY <1>1, <1>2, AppendProperties
<1>5. /\ Recent(enc_times, rounds, "enc", n, ROLLING_TIME_SECONDS - 1)
      /\ Recent(dec_times, rounds, "dec", n, ROLLING_TIME_SECONDS - 1)
      /\ Fast(rounds, n, "enc") /\ Fast(rounds, n, "dec")
  BY <1>1 DEF RatesInv, DecRounds, EncChecked, DecChecked, Slots, Running
<1>6. /\ n \in 0..Len(rounds) /\ n < Len(rounds') /\ n \in Int
      /\ \A i \in 1..n : rounds'[i]["enc"] = rounds[i]["enc"] /\ rounds'[i]["dec"] = rounds[i]["dec"]
      /\ rounds'[n + 1]["enc"] = time
  BY <1>2, <1>3, <1>4
<1>7. Recent(enc_times', rounds', "enc", n + 1, ROLLING_TIME_SECONDS)
  BY <1>1, <1>2, <1>4, <1>5, <1>6, RecentAppend
<1>8. Fast(rounds', n, "enc") /\ Fast(rounds', n, "dec")
  BY <1>5, <1>6, FastStill
<1>9. Recent(dec_times', rounds', "dec", n, ROLLING_TIME_SECONDS - 1)
  <2>1. \A i \in 1..Len(dec_times) : n - Len(dec_times) + i \in 1..n
    BY <1>5, <1>2, Sizes DEF Recent
  <2> QED BY <2>1, <1>1, <1>5, <1>6 DEF Recent
<1>10. Len(rounds') - 1 = n
  BY <1>2, <1>4
<1> QED BY <1>1, <1>4, <1>7, <1>8, <1>9, <1>10 DEF RatesInv, DecRounds, EncChecked, DecChecked, Slots, Running

\* Decoding one frame times nothing yet.
LEMMA DecodedOne == RatesInv /\ (Test!DecodeFrame \/ Test!DecoderFails) => RatesInv'
  BY DEF RatesInv, Test!DecodeFrame, Test!DecoderFails, Recent, Fast, WindowOf, DecRounds, EncChecked, DecChecked, Running

\* The comparison that ends the decoding adds its time.
LEMMA Compared == \A time \in Times : RatesInv /\ Test!Compare(time) => RatesInv'
<1> SUFFICES ASSUME NEW time \in Times, RatesInv, Test!Compare(time) PROVE RatesInv'
  OBVIOUS
<1> DEFINE n == Len(rounds)
<1>1. /\ stability = "decode" /\ stability' \in {"DecoderError", "check encoder"}
      /\ dec_times' = Append(dec_times, time) /\ enc_times' = enc_times
      /\ rounds' = [rounds EXCEPT ![n].dec = time]
  BY DEF Test!Compare
<1>2. rounds \in Seq(Round) /\ n \in Nat /\ n >= 1 /\ time \in Half
  <2>1. rounds \in Seq(Round) /\ rounds # <<>> /\ time \in Half
    BY <1>1 DEF RatesInv, Half
  <2>2. n \in Nat \ {0}
    BY <2>1, EmptySeq
  <2> QED BY <2>1, <2>2
<1>3. rounds[n] \in Round
  BY <1>2, ElementOfSeq
<1> DEFINE r == [rounds[n] EXCEPT !.dec = time]
<1>4. r \in Round /\ r.enc = rounds[n].enc /\ r.dec = time
  BY <1>2, <1>3 DEF Round
<1>5. rounds' = [rounds EXCEPT ![n] = r]
  BY <1>1
<1> HIDE DEF r
<1>6. /\ rounds' \in Seq(Round) /\ Len(rounds') = n
      /\ \A j \in 1..n : rounds'[j] = IF j = n THEN r ELSE rounds[j]
  BY <1>2, <1>4, <1>5, ExceptSeq
<1>7. /\ n - 1 \in 0..Len(rounds) /\ n - 1 < Len(rounds') /\ n - 1 \in Int /\ (n - 1) + 1 = n
      /\ \A i \in 1..n : rounds'[i]["enc"] = rounds[i]["enc"]
      /\ \A i \in 1..(n - 1) : rounds'[i]["enc"] = rounds[i]["enc"] /\ rounds'[i]["dec"] = rounds[i]["dec"]
      /\ rounds'[n]["dec"] = time
  BY <1>2, <1>4, <1>6
<1>8. /\ Recent(enc_times, rounds, "enc", n, ROLLING_TIME_SECONDS)
      /\ Recent(dec_times, rounds, "dec", n - 1, ROLLING_TIME_SECONDS - 1)
      /\ Fast(rounds, n - 1, "enc") /\ Fast(rounds, n - 1, "dec")
  BY <1>1 DEF RatesInv, DecRounds, EncChecked, DecChecked, Slots, Running
<1>9. Recent(dec_times', rounds', "dec", n, ROLLING_TIME_SECONDS)
  <2>1. Recent(Append(dec_times, time), rounds', "dec", (n - 1) + 1, ROLLING_TIME_SECONDS)
    <3> HIDE DEF n
    <3> DEFINE m == n - 1
    <3>1. rounds'[m + 1]["dec"] = time /\ m \in 0..Len(rounds) /\ m < Len(rounds')
      BY <1>7
    <3>2. (\A i \in 1..m : rounds'[i]["dec"] = rounds[i]["dec"]) /\ Recent(dec_times, rounds, "dec", m, ROLLING_TIME_SECONDS - 1)
      BY <1>7, <1>8
    <3> HIDE DEF m
    <3>3. Recent(Append(dec_times, time), rounds', "dec", m + 1, ROLLING_TIME_SECONDS)
      BY <1>2, <1>6, <3>1, <3>2, RecentAppend
    <3> QED BY <3>3 DEF m
  <2> QED BY <2>1, <1>1, <1>7
<1>10. Fast(rounds', n - 1, "enc") /\ Fast(rounds', n - 1, "dec")
  BY <1>7, <1>8, FastStill
<1>11. Recent(enc_times', rounds', "enc", n, ROLLING_TIME_SECONDS)
  <2>1. \A i \in 1..Len(enc_times) : n - Len(enc_times) + i \in 1..n
    BY <1>8, <1>2, Sizes DEF Recent
  <2> QED BY <2>1, <1>1, <1>7, <1>8 DEF Recent
<1>12. rounds' # <<>>
  BY <1>6, <1>2, EmptySeq
<1> QED BY <1>1, <1>6, <1>9, <1>10, <1>11, <1>12 DEF RatesInv, DecRounds, EncChecked, DecChecked, Slots, Running

\* The check of the encoder passes a full window or raises, and drops its oldest time.
LEMMA EncoderChecked == RatesInv /\ Test!CheckEncoder => RatesInv'
<1> SUFFICES ASSUME RatesInv, Test!CheckEncoder PROVE RatesInv'
  OBVIOUS
<1> DEFINE n == Len(rounds)
           R == ROLLING_TIME_SECONDS
<1>1. /\ stability = "check encoder"
      /\ stability' = IF Len(enc_times) >= R /\ Test!TooSlow(enc_times) THEN "TimingError" ELSE "check decoder"
      /\ enc_times' = Test!Roll(enc_times) /\ UNCHANGED <<dec_times, rounds>>
  BY DEF Test!CheckEncoder, Test!Check
<1>2. rounds \in Seq(Round) /\ n \in Nat /\ n \in 0..Len(rounds) /\ R \in Nat /\ R >= 1 /\ rounds # <<>>
  <2>1. rounds \in Seq(Round) /\ rounds # <<>>
    BY <1>1 DEF RatesInv
  <2> QED BY <2>1, Sizes
<1>3. /\ Recent(enc_times, rounds, "enc", n, R)
      /\ Recent(dec_times, rounds, "dec", n, R)
      /\ Fast(rounds, n - 1, "enc") /\ Fast(rounds, n - 1, "dec")
  BY <1>1 DEF RatesInv, DecRounds, EncChecked, DecChecked, Slots, Running
<1>4. Recent(enc_times', rounds, "enc", n, R - 1)
  BY <1>1, <1>2, <1>3, RecentRoll
<1>5. Len(enc_times) >= R => n - R >= 0 /\ enc_times = WindowOf(rounds, n - R, "enc")
  BY <1>2, <1>3, RecentWindow
<1>6. n >= R => Len(enc_times) >= R
  BY <1>2, <1>3 DEF Recent
<1>7. CASE stability' = "TimingError"
  BY <1>1, <1>2, <1>5, <1>7 DEF RatesInv, Running
<1>8. CASE stability' = "check decoder"
  <2>1. n >= R => ~Test!TooSlow(WindowOf(rounds, n - R, "enc"))
    BY <1>1, <1>5, <1>6, <1>8
  <2>2. Fast(rounds, n, "enc")
    BY <2>1, <1>2, <1>3, FastMore
  <2> QED BY <2>2, <1>1, <1>2, <1>3, <1>4, <1>8 DEF RatesInv, DecRounds, EncChecked, DecChecked, Slots, Running
<1> QED BY <1>1, <1>7, <1>8

\* The check of the decoder passes a full window or raises, and drops its oldest time.
LEMMA DecoderChecked == RatesInv /\ Test!CheckDecoder => RatesInv'
<1> SUFFICES ASSUME RatesInv, Test!CheckDecoder PROVE RatesInv'
  OBVIOUS
<1> DEFINE n == Len(rounds)
           R == ROLLING_TIME_SECONDS
<1>1. /\ stability = "check decoder"
      /\ stability' = IF Len(dec_times) >= R /\ Test!TooSlow(dec_times) THEN "TimingError" ELSE "loop"
      /\ dec_times' = Test!Roll(dec_times) /\ UNCHANGED <<enc_times, rounds>>
  BY DEF Test!CheckDecoder, Test!Check
<1>2. rounds \in Seq(Round) /\ n \in Nat /\ n \in 0..Len(rounds) /\ R \in Nat /\ R >= 1
  <2>1. rounds \in Seq(Round)
    BY DEF RatesInv
  <2> QED BY <2>1, Sizes
<1>3. /\ Recent(enc_times, rounds, "enc", n, R - 1)
      /\ Recent(dec_times, rounds, "dec", n, R)
      /\ Fast(rounds, n, "enc") /\ Fast(rounds, n - 1, "dec")
  BY <1>1 DEF RatesInv, DecRounds, EncChecked, DecChecked, Slots, Running
<1>4. Recent(dec_times', rounds, "dec", n, R - 1)
  BY <1>1, <1>2, <1>3, RecentRoll
<1>5. Len(dec_times) >= R => n - R >= 0 /\ dec_times = WindowOf(rounds, n - R, "dec")
  BY <1>2, <1>3, RecentWindow
<1>6. n >= R => Len(dec_times) >= R
  BY <1>2, <1>3 DEF Recent
<1>7. CASE stability' = "TimingError"
  BY <1>1, <1>2, <1>5, <1>7 DEF RatesInv, Running
<1>8. CASE stability' = "loop"
  <2>1. n >= R => ~Test!TooSlow(WindowOf(rounds, n - R, "dec"))
    BY <1>1, <1>5, <1>6, <1>8
  <2>2. Fast(rounds, n, "dec")
    BY <2>1, <1>2, <1>3, FastMore
  <2> QED BY <2>2, <1>1, <1>2, <1>3, <1>4, <1>8 DEF RatesInv, DecRounds, EncChecked, DecChecked, Slots, Running
<1> QED BY <1>1, <1>7, <1>8

\* The test returns between two rounds.
LEMMA Finished == RatesInv /\ Test!Finish => RatesInv'
<1> SUFFICES ASSUME RatesInv, Test!Finish PROVE RatesInv'
  OBVIOUS
<1>1. stability = "loop" /\ stability' \in {"returned", "ZeroDivisionError"} /\ UNCHANGED <<rounds, enc_times, dec_times>>
  BY DEF Test!Finish
<1> QED BY <1>1 DEF RatesInv, EncChecked, DecChecked, Running

\* Every step of the stability test keeps the invariant of its rates.
LEMMA RatesSteps == RatesInv /\ Test!Next => RatesInv'
  BY Started, Encoded, DecodedOne, Compared, EncoderChecked, DecoderChecked, Finished DEF Test!Next

-----------------------------------------------------------------------------
(* The stability test: the comparison of a round. *)

\* The operator of the instance is that of FiniteSets.
LEMMA TestCardinality == ASSUME NEW S PROVE Test!Cardinality(S) = Cardinality(S)
  BY DEF Cardinality, Test!Cardinality

\* Every place in a finite set of numbers is taken by one of them: counting the
\* members up to each is one to one, and there are as many places as members.
LEMMA Ranks ==
  ASSUME NEW S \in SUBSET Int, IsFiniteSet(S)
  PROVE  \A k \in 1..Cardinality(S) : \E x \in S : Cardinality({y \in S : y <= x}) = k
<1> DEFINE n == Cardinality(S)
           UpTo(x) == {y \in S : y <= x}
           rank == [x \in S |-> Cardinality(UpTo(x))]
<1>1. n \in Nat
  BY FS_CardinalityType
<1>2. \A x \in S : IsFiniteSet(UpTo(x)) /\ Cardinality(UpTo(x)) \in Nat /\ Cardinality(UpTo(x)) <= n
  BY FS_Subset, FS_CardinalityType
<1>3. \A x \in S : Cardinality(UpTo(x)) >= 1
  <2> TAKE x \in S
  <2>1. x \in UpTo(x)
    OBVIOUS
  <2>2. Cardinality(UpTo(x)) # 0
    BY <2>1, <1>2, FS_EmptySet
  <2> QED BY <2>2, <1>2
<1>4. \A x, z \in S : x < z => Cardinality(UpTo(x)) # Cardinality(UpTo(z))
  <2> TAKE x, z \in S
  <2> SUFFICES ASSUME x < z, Cardinality(UpTo(x)) = Cardinality(UpTo(z)) PROVE FALSE
    OBVIOUS
  <2>0. x \in Int /\ z \in Int /\ \A y \in S : y \in Int
    OBVIOUS
  <2>1. UpTo(x) \in SUBSET UpTo(z) /\ z \in UpTo(z) /\ z \notin UpTo(x)
    <3>1. \A y \in S : y <= x => y <= z
      BY <2>0
    <3>2. z <= z /\ ~(z <= x)
      BY <2>0
    <3> QED BY <3>1, <3>2
  <2>2. UpTo(x) = UpTo(z)
    BY <2>1, <1>2, FS_Subset
  <2> QED BY <2>1, <2>2
<1>5. rank \in [S -> 1..n]
  BY <1>1, <1>2, <1>3
<1>6. \A x, z \in S : x # z => rank[x] # rank[z]
  BY <1>4
<1>7. rank \in Injection(S, 1..n)
  BY <1>5, <1>6 DEF Injection, IsInjective
<1>8. IsFiniteSet(1..n) /\ Cardinality(1..n) = n
  BY <1>1, FS_Interval
<1>9. rank \in Surjection(S, 1..n)
  BY <1>7, <1>8, FS_Injection
<1>10. \A k \in 1..n : \E x \in S : rank[x] = k
  BY <1>9 DEF Surjection
<1> QED BY <1>10

\* sorted() lists the members of the set.
LEMMA SortedMembers ==
  ASSUME NEW S \in SUBSET Int, IsFiniteSet(S)
  PROVE  /\ Test!sorted(S) \in Seq(S) /\ Len(Test!sorted(S)) = Cardinality(S)
         /\ \A k \in 1..Cardinality(S) : Test!sorted(S)[k] \in S
<1> DEFINE n == Cardinality(S)
           s == [k \in 1..n |-> CHOOSE x \in S : Test!Cardinality({y \in S : y <= x}) = k]
<1>1. Test!sorted(S) = s
  BY TestCardinality DEF Test!sorted
<1>2. \A k \in 1..n : (CHOOSE x \in S : Test!Cardinality({y \in S : y <= x}) = k) \in S
  <2> TAKE k \in 1..n
  <2>1. PICK x \in S : Cardinality({y \in S : y <= x}) = k
    BY Ranks
  <2>2. Test!Cardinality({y \in S : y <= x}) = k
    BY <2>1, TestCardinality
  <2> QED BY <2>2
<1>3. n \in Nat
  BY FS_CardinalityType
<1>4. s \in [1..n -> S]
  BY <1>2
<1> HIDE DEF s
<1>5. s \in Seq(S) /\ Len(s) = n
  BY <1>3, <1>4
<1> QED BY <1>1, <1>4, <1>5

\* The frames of the round that were decoded, or late, and those that are to come.
InRound ==
  /\ subset \in SUBSET (1..ENC_TEST_SIZE)
  /\ todo \in Seq(Int) /\ dec_frames \in Seq(Int)
  /\ \A i \in 1..Len(todo) : todo[i] = Test!sorted(subset)[Len(dec_frames) + i]
  /\ Len(dec_frames) + Len(todo) = Cardinality(subset)
  /\ \A k \in 1..Len(dec_frames) : dec_frames[k] \in {Test!sorted(subset)[k], Test!Late, Test!Other}
  /\ wrong <=> \E k \in 1..Len(dec_frames) : dec_frames[k] = Test!Other

\* The inductive invariant of the comparison.
CompareInv ==
  /\ wrong \in BOOLEAN
  /\ stability = "decode" => InRound
  /\ stability \in {"off", "loop", "check encoder", "check decoder", "returned"} => ~wrong
  /\ stability = "DecoderError" => wrong

\* What the invariant says of the comparisons made so far.
LEMMA CompareHolds == CompareInv => RightComparison
  BY DEF CompareInv, RightComparison, Test!RightComparison

\* Nothing is compared before the start.
LEMMA CompareInit == Test!Init => CompareInv
  BY DEF CompareInv, Test!Init

\* The other utilities leave the comparison alone.
LEMMA CompareStill == CompareInv /\ UNCHANGED stabilityVars => CompareInv'
<1> SUFFICES ASSUME CompareInv, UNCHANGED stabilityVars PROVE CompareInv'
  OBVIOUS
<1>1. UNCHANGED <<stability, subset, todo, dec_frames, wrong>>
  BY DEF stabilityVars
<1>2. InRound => InRound'
  BY <1>1 DEF InRound
<1> QED BY <1>1, <1>2 DEF CompareInv

\* The numbers that are chosen, none of which stands for a frame that failed.
LEMMA Chosen ==
  ASSUME NEW S \in SUBSET (1..ENC_TEST_SIZE)
  PROVE  /\ Test!sorted(S) \in Seq(Int) /\ Len(Test!sorted(S)) = Cardinality(S)
         /\ Cardinality(S) \in Nat
         /\ \A k \in 1..Cardinality(S) : Test!sorted(S)[k] # Test!Other /\ Test!sorted(S)[k] # Test!Late
<1>1. ENC_TEST_SIZE \in Nat
  BY BenchAssumption
<1>2. IsFiniteSet(S) /\ S \in SUBSET Int
  <2>1. IsFiniteSet(1..ENC_TEST_SIZE)
    BY <1>1, FS_Interval
  <2>2. S \in SUBSET Int
    BY <1>1
  <2> QED BY <2>1, <2>2, FS_Subset
<1>3. Test!sorted(S) \in Seq(S) /\ Len(Test!sorted(S)) = Cardinality(S)
      /\ \A k \in 1..Cardinality(S) : Test!sorted(S)[k] \in S
  BY <1>2, SortedMembers
<1>4. Test!sorted(S) \in Seq(Int)
  BY <1>2, <1>3, SeqMonotonic
<1>5. \A k \in 1..Cardinality(S) : Test!sorted(S)[k] >= 1 /\ Test!sorted(S)[k] \in Int
  <2>1. \A x \in S : x >= 1 /\ x \in Int
    BY <1>1
  <2> QED BY <2>1, <1>3
<1> QED BY <1>2, <1>3, <1>4, <1>5, FS_CardinalityType DEF Test!Other, Test!Late

\* Encode: the chosen frames are queued for the decoder in the order of their indices.
LEMMA ChosenToDecode == \A time \in Times : CompareInv /\ Test!Encode(time) => CompareInv'
<1> SUFFICES ASSUME NEW time \in Times, CompareInv, Test!Encode(time) PROVE CompareInv'
  OBVIOUS
<1>1. /\ stability = "loop" /\ stability' = "decode" /\ ~wrong /\ wrong' = wrong
      /\ subset' \in Test!kSubset(DEC_TEST_SIZE, 1..ENC_TEST_SIZE)
      /\ todo' = Test!sorted(subset') /\ dec_frames' = <<>>
  BY DEF Test!Encode, CompareInv
<1>2. subset' \in SUBSET (1..ENC_TEST_SIZE)
  BY <1>1 DEF Test!kSubset
<1>3. /\ Test!sorted(subset') \in Seq(Int) /\ Len(Test!sorted(subset')) = Cardinality(subset')
      /\ Cardinality(subset') \in Nat
  BY <1>2, Chosen
<1>4. dec_frames' \in Seq(Int) /\ Len(dec_frames') = 0
  BY <1>1
<1>5. Len(dec_frames') + Len(todo') = Cardinality(subset')
  BY <1>1, <1>3, <1>4
<1>6. \A i \in 1..Len(todo') : todo'[i] = Test!sorted(subset')[Len(dec_frames') + i]
  BY <1>1, <1>3, <1>4
<1>7. InRound'
  BY <1>1, <1>2, <1>3, <1>4, <1>5, <1>6 DEF InRound
<1> QED BY <1>1, <1>7 DEF CompareInv

\* DecodeFrame: the next frame that is decoded is the next one that is expected.
LEMMA FrameDecoded == CompareInv /\ Test!DecodeFrame => CompareInv'
<1> SUFFICES ASSUME CompareInv, Test!DecodeFrame PROVE CompareInv'
  OBVIOUS
<1>1. /\ stability = "decode" /\ todo # <<>> /\ todo' = Tail(todo) /\ UNCHANGED <<stability, subset>>
      /\ InRound /\ wrong \in BOOLEAN
  BY DEF Test!DecodeFrame, CompareInv
<1>2. PICK f \in {Head(todo), Test!Other, Test!Late} :
         dec_frames' = Append(dec_frames, f) /\ wrong' = (wrong \/ f = Test!Other)
  BY DEF Test!DecodeFrame, Test!Result
<1> DEFINE s == Test!sorted(subset)
           n == Len(dec_frames)
           m == Len(todo)
           c == Cardinality(subset)
<1>3. c \in Nat /\ todo \in Seq(Int) /\ dec_frames \in Seq(Int)
      /\ \A k \in 1..c : s[k] # Test!Other
  BY <1>1, Chosen DEF InRound
<1>4. n \in Nat /\ m \in Nat /\ m >= 1 /\ n + m = c /\ todo[1] = s[n + 1] /\ Head(todo) = todo[1]
  <2>1. n \in Nat /\ m \in Nat \ {0}
    BY <1>1, <1>3, EmptySeq, LenProperties
  <2>2. n + m = c
    BY <1>1 DEF InRound
  <2>3. todo[1] = s[n + 1]
    BY <1>1, <2>1 DEF InRound
  <2> QED BY <2>1, <2>2, <2>3, <1>3
<1>5. /\ Tail(todo) \in Seq(Int) /\ Len(Tail(todo)) = m - 1
      /\ \A i \in 1..(m - 1) : Tail(todo)[i] = todo[i + 1]
  BY <1>1, <1>3, HeadTailProperties
<1>6. f \in Int
  BY <1>3, <1>1, <1>2, HeadTailProperties DEF Test!Other, Test!Late
<1>7. /\ dec_frames' \in Seq(Int) /\ Len(dec_frames') = n + 1
      /\ (\A k \in 1..n : dec_frames'[k] = dec_frames[k]) /\ dec_frames'[n + 1] = f
  BY <1>2, <1>3, <1>6, AppendProperties
<1>8. (\A i \in 1..m : todo[i] = s[n + i]) /\ (\A k \in 1..n : dec_frames[k] \in {s[k], Test!Late, Test!Other})
      /\ (wrong <=> \E k \in 1..n : dec_frames[k] = Test!Other)
  BY <1>1 DEF InRound
<1>9. subset' = subset /\ Test!sorted(subset') = s /\ Cardinality(subset') = c
  BY <1>1
<1> HIDE DEF s, n, m, c
<1>10. \A i \in 1..Len(todo') : todo'[i] = s[(n + 1) + i]
  BY <1>1, <1>4, <1>5, <1>8
<1>11. (n + 1) + Len(todo') = c
  BY <1>1, <1>4, <1>5
<1>12. f \in {s[n + 1], Test!Late, Test!Other}
  BY <1>2, <1>4
<1>13. \A k \in 1..(n + 1) : dec_frames'[k] \in {s[k], Test!Late, Test!Other}
  <2> TAKE k \in 1..(n + 1)
  <2>1. CASE k = n + 1
    BY <2>1, <1>7, <1>12
  <2>2. CASE k # n + 1
    <3>1. k \in 1..n
      BY <2>2, <1>4
    <3> QED BY <3>1, <1>7, <1>8
  <2> QED BY <2>1, <2>2
<1>14. wrong' <=> \E k \in 1..(n + 1) : dec_frames'[k] = Test!Other
  <2>1. n + 1 \in 1..(n + 1) /\ (\A k \in 1..n : k \in 1..(n + 1)) /\ \A k \in 1..(n + 1) : k \in 1..n \/ k = n + 1
    BY <1>4
  <2>2. wrong' <=> wrong \/ f = Test!Other
    BY <1>2
  <2> QED BY <2>1, <2>2, <1>7, <1>8
<1>15. InRound'
  BY <1>1, <1>5, <1>7, <1>9, <1>10, <1>11, <1>13, <1>14 DEF InRound
<1>16. wrong' \in BOOLEAN
  BY <1>2
<1> QED BY <1>1, <1>15, <1>16 DEF CompareInv

\* Compare: a right decoder gives what the comparison expects.
LEMMA RoundCompared == \A time \in Times : CompareInv /\ Test!Compare(time) => CompareInv'
<1> SUFFICES ASSUME NEW time \in Times, CompareInv, Test!Compare(time) PROVE CompareInv'
  OBVIOUS
<1>1. /\ InRound /\ todo = <<>> /\ wrong' = wrong /\ wrong \in BOOLEAN
      /\ stability' = IF Test!Mismatch THEN "DecoderError" ELSE "check encoder"
  BY DEF Test!Compare, CompareInv
<1>2. Test!Mismatch <=> wrong
  <2> DEFINE s == Test!sorted(subset)
             n == Len(dec_frames)
             c == Cardinality(subset)
  <2>1. n = c /\ \A k \in 1..c : s[k] # Test!Other
    <3>1. Len(todo) = 0
      BY <1>1
    <3>2. n + Len(todo) = c /\ n \in Nat
      BY <1>1, LenProperties DEF InRound
    <3>3. n = c
      BY <3>1, <3>2
    <3> QED BY <3>3, <1>1, Chosen DEF InRound
  <2>2. Test!Mismatch <=> \E k \in 1..n : dec_frames[k] # Test!Late /\ dec_frames[k] # s[k]
    BY DEF Test!Mismatch
  <2>3. (\A k \in 1..n : dec_frames[k] \in {s[k], Test!Late, Test!Other})
        /\ (wrong <=> \E k \in 1..n : dec_frames[k] = Test!Other)
    BY <1>1 DEF InRound
  <2>4. Test!Other # Test!Late
    BY DEF Test!Other, Test!Late
  <2> HIDE DEF s, n, c
  <2> QED BY <2>1, <2>2, <2>3, <2>4
<1>3. stability' = "DecoderError" <=> wrong'
  BY <1>1, <1>2
<1>4. stability' \in {"DecoderError", "check encoder"}
  BY <1>1
<1> QED BY <1>1, <1>3, <1>4 DEF CompareInv

\* Every step of the stability test keeps the invariant of its comparison.
LEMMA CompareSteps == CompareInv /\ Test!Next => CompareInv'
<1> SUFFICES ASSUME CompareInv, Test!Next PROVE CompareInv'
  OBVIOUS
<1>1. CASE Test!Start
  BY <1>1 DEF CompareInv, Test!Start
<1>7. CASE Test!SubscribeFails
  BY <1>7 DEF CompareInv, Test!SubscribeFails
<1>2. CASE \E time \in Times : Test!Encode(time) \/ Test!Compare(time)
  BY <1>2, ChosenToDecode, RoundCompared
<1>3. CASE Test!DecodeFrame
  BY <1>3, FrameDecoded
<1>4. CASE Test!DecoderFails
  BY <1>4 DEF CompareInv, Test!DecoderFails
<1>5. CASE Test!CheckEncoder \/ Test!CheckDecoder
  <2>1. stability \in {"check encoder", "check decoder"} /\ wrong' = wrong
    BY <1>5 DEF Test!CheckEncoder, Test!CheckDecoder
  <2>2. stability' \in {"check decoder", "loop", "TimingError"}
    BY <1>5 DEF Test!CheckEncoder, Test!CheckDecoder, Test!Check
  <2> QED BY <2>1, <2>2 DEF CompareInv
<1>6. CASE Test!Finish
  BY <1>6 DEF CompareInv, Test!Finish
<1> QED BY <1>1, <1>2, <1>3, <1>4, <1>5, <1>6, <1>7 DEF Test!Next

-----------------------------------------------------------------------------
(* The bench. *)

\* All utilities at once.
BenchInv == FlashInv /\ TesterInv /\ RatesInv /\ CompareInv

\* No utility has been started.
LEMMA BenchInit == Init => BenchInv
  BY FlashInit, TesterInit, RatesInit, CompareInit DEF Init, BenchInv

\* The port is with one utility at a time, and the others stay as they are.
LEMMA BenchStep == BenchInv /\ [Next]_vars => BenchInv'
<1> SUFFICES ASSUME BenchInv, [Next]_vars PROVE BenchInv'
  OBVIOUS
<1>1. FlashInv /\ TesterInv /\ RatesInv /\ CompareInv
  BY DEF BenchInv
<1>2. ASSUME UNCHANGED flashVars PROVE FlashInv'
  BY <1>1, <1>2, FlashStill
<1>3. ASSUME UNCHANGED testerVars PROVE TesterInv'
  BY <1>1, <1>3, TesterStill
<1>4. ASSUME UNCHANGED stabilityVars PROVE RatesInv' /\ CompareInv'
  BY <1>1, <1>4, RatesStill, CompareStill
<1>5. CASE UseFlash
  <2>1. Updater!Next /\ UNCHANGED testerVars /\ UNCHANGED stabilityVars
    BY <1>5 DEF UseFlash
  <2> QED
    BY <2>1, <1>1, <1>3, <1>4, FlashSteps DEF BenchInv
<1>6. CASE UseTester
  <2>1. /\ Tool!Begin \/ Tool!Step \/ Tool!CtrlC
        /\ UNCHANGED flashVars /\ UNCHANGED stabilityVars
    BY <1>6 DEF UseTester, TesterStep
  <2> QED
    BY <2>1, <1>1, <1>2, <1>4, TesterSteps DEF BenchInv
<1>7. CASE UseStability
  <2>1. Test!Next /\ UNCHANGED flashVars /\ UNCHANGED testerVars
    BY <1>7 DEF UseStability
  <2> QED
    BY <2>1, <1>1, <1>2, <1>3, RatesSteps, CompareSteps DEF BenchInv
<1>8. CASE UNCHANGED vars
  <2>1. UNCHANGED flashVars /\ UNCHANGED testerVars /\ UNCHANGED stabilityVars
    BY <1>8 DEF vars
  <2> QED
    BY <2>1, <1>2, <1>3, <1>4 DEF BenchInv
<1> QED
  BY <1>5, <1>6, <1>7, <1>8 DEF Next

\* The invariant holds in every state.
LEMMA BenchAlways == Spec => []BenchInv
  BY BenchInit, BenchStep, PTL DEF Spec

\* The update client never runs ahead of the board: at most one block is on the
\* wire, and it continues what the bootloader has of the padded image.
THEOREM OneBlockAhead == Spec => []InStep
<1>1. BenchInv => InStep
  BY FlashHolds DEF BenchInv
<1> QED
  BY <1>1, BenchAlways, PTL

\* An update that the client calls complete has installed the image, padded to
\* the size of the flash, and nothing else.
THEOREM ImageInstalled == Spec => []Installed
<1>1. BenchInv => Installed
  BY FlashHolds DEF BenchInv
<1> QED
  BY <1>1, BenchAlways, PTL

\* Wherever the tester was stopped, the k-th entries of all its dumps belong to
\* the k-th frame of its input, and one frame at most misses its last stages.
THEOREM DumpsMatch == Spec => []DumpsAligned
<1>1. BenchInv => DumpsAligned
  BY TesterHolds DEF BenchInv
<1> QED
  BY <1>1, BenchAlways, PTL

\* A run of the tester that ends by itself has passed every frame of its input
\* through all stages, those behind an entry that was skipped as well.
THEOREM NothingLeftOut == Spec => []AllTested
<1>1. BenchInv => AllTested
  BY TesterHolds DEF BenchInv
<1> QED
  BY <1>1, BenchAlways, PTL

\* The tester never reports a decoder that works: the two stages undo each other
\* unless exactly one of them is stubbed out.
THEOREM AlarmsRight == Spec => []RightAlarms
<1>1. BenchInv => RightAlarms
  BY TesterHolds DEF BenchInv
<1> QED
  BY <1>1, BenchAlways, PTL

\* A stability test that returns has met both rates in every window of rounds,
\* and one that raises TimingError has not in the window of the last round.
THEOREM RatesAreKept == Spec => []RatesEnforced
<1>1. BenchInv => RatesEnforced
  BY RatesHold DEF BenchInv
<1> QED
  BY <1>1, BenchAlways, PTL

\* The stability test compares every frame with its own plaintext: it fails with
\* a DecoderError only if the decoder erred, and does not succeed if it did.
THEOREM FairComparison == Spec => []RightComparison
<1>1. BenchInv => RightComparison
  BY CompareHolds DEF BenchInv
<1> QED
  BY <1>1, BenchAlways, PTL
=============================================================================
