-------------------------------- MODULE Flash ------------------------------
(***************************************************************************)
(* The update client (tools/ectf25/utils/flash.py) and the bootloader it   *)
(* talks to.  The bootloader is not in the repository: it is modelled from *)
(* the responses that the client expects; it may refuse the command, its   *)
(* second response to it, a block, or the installation.                    *)
(***************************************************************************)
EXTENDS Naturals, Sequences

CONSTANTS
  TOTAL_SIZE,    \* bytes of an image with its padding
  BLOCK_SIZE,    \* bytes that are sent at once
  Images,        \* images to be programmed
  FF,            \* the padding
  MaxReports     \* bound: progress reports of an installation

COMPLETE_CODE == 20
SUCCESS_CODES == {1, 2, 3, 4, 5, 7, 8, 10, 11, 13, 16, 18, 19, COMPLETE_CODE}
ERROR_CODES == {6, 9, 12, 14, 15, 17}
UPDATE_COMMAND == <<0>>

VARIABLES
  client,      \* the line of update() that the client has come to
  awaited,     \* responses that it still wants before it goes on
  image,       \* the image that the user gave, and with its padding
  padded,
  idx,         \* how much of it was sent
  toBoard, toClient,    \* what is on the wire
  board,       \* "ready", "loading", "installing", "installed" or "refused"
  loaded,      \* the bytes that the bootloader has received
  reports      \* progress reports so far

flashVars == <<client, awaited, image, padded, idx, toBoard, toClient, board, loaded, reports>>

Init ==
  /\ client = "off" /\ awaited = 0 /\ image = <<>> /\ padded = <<>> /\ idx = 0
  /\ toBoard = <<>> /\ toClient = <<>>
  /\ board = "ready" /\ loaded = <<>> /\ reports = 0

-----------------------------------------------------------------------------
(* The client. *)

\* A mutant: the image is padded to whole blocks only.
Pad_Blocks(img) == img \o [k \in 1..(BLOCK_SIZE - 1 - ((Len(img) - 1) % BLOCK_SIZE)) |-> FF]
Pad(img) == img \o [k \in 1..(TOTAL_SIZE - Len(img)) |-> FF]

\* The update command is sent; two responses must follow.
Request(img) ==
  /\ client = "off"
  /\ image' = img /\ padded' = Pad(img)
  /\ toBoard' = UPDATE_COMMAND
  /\ client' = "start" /\ awaited' = 2
  /\ UNCHANGED <<idx, toClient, board, loaded, reports>>

SendBlock ==
  /\ client = "send" /\ idx < Len(padded)
  /\ toBoard' = toBoard \o
       SubSeq(padded, idx + 1, IF idx + BLOCK_SIZE < Len(padded) THEN idx + BLOCK_SIZE ELSE Len(padded))
  /\ idx' = idx + BLOCK_SIZE
  /\ client' = "block" /\ awaited' = 1
  /\ UNCHANGED <<image, padded, toClient, board, loaded, reports>>

AllSent ==
  /\ client = "send" /\ idx >= Len(padded)
  /\ client' = "install" /\ awaited' = 1
  /\ UNCHANGED <<image, padded, idx, toBoard, toClient, board, loaded, reports>>

\* Mutants: any success ends the update; one response to the command is enough.
After_AnySuccess(code) == IF client = "install" THEN "done" ELSE IF awaited > 1 THEN client ELSE "send"
After_OneResponse(code) ==
  IF client = "install" THEN (IF code = COMPLETE_CODE THEN "done" ELSE "install") ELSE "send"

\* Where the client goes on with a response that is a success.
After(code) ==
  IF client = "install" THEN (IF code = COMPLETE_CODE THEN "done" ELSE "install")
  ELSE IF awaited > 1 THEN client ELSE "send"

\* _verify_resp(), and what follows it.
VerifyResponse ==
  /\ client \in {"start", "block", "install"} /\ toClient # <<>>
  /\ toClient' = Tail(toClient)
  /\ LET code == Head(toClient) IN
       /\ client' = IF code \in ERROR_CODES THEN "exit(-1)"
                    ELSE IF code \notin SUCCESS_CODES THEN "exit(-2)"
                    ELSE After(code)
       /\ awaited' = IF client = "start" THEN awaited - 1 ELSE awaited
  /\ UNCHANGED <<image, padded, idx, toBoard, board, loaded, reports>>

update == (\E img \in Images : Request(img)) \/ SendBlock \/ AllSent \/ VerifyResponse

-----------------------------------------------------------------------------
(* The bootloader. *)

Respond(codes) == toClient' = toClient \o codes
Keep == UNCHANGED <<client, awaited, image, padded, idx>>

BoardStarts ==
  /\ board = "ready" /\ toBoard = UPDATE_COMMAND /\ toBoard' = <<>>
  /\ board' = "loading"
  /\ Respond(<<1, 2>>)
  /\ Keep /\ UNCHANGED <<loaded, reports>>

BoardLoads ==
  /\ board = "loading" /\ toBoard # <<>> /\ toBoard' = <<>>
  /\ loaded' = loaded \o toBoard
  /\ board' = IF Len(loaded') = TOTAL_SIZE THEN "installing" ELSE board
  /\ Respond(<<7>>)
  /\ Keep /\ UNCHANGED reports

BoardReports ==
  /\ board = "installing" /\ reports < MaxReports
  /\ reports' = reports + 1
  /\ Respond(<<18>>)
  /\ Keep /\ UNCHANGED <<toBoard, board, loaded>>

BoardCompletes ==
  /\ board = "installing"
  /\ board' = "installed"
  /\ Respond(<<COMPLETE_CODE>>)
  /\ Keep /\ UNCHANGED <<toBoard, loaded, reports>>

\* An error, or a byte that is no response at all, possibly after the first of
\* the two responses to the command.
BoardRefuses ==
  /\ board = "installing" \/ (board \in {"ready", "loading"} /\ toBoard # <<>>)
  /\ board' = "refused"
  /\ \E code \in {6, 0} : Respond(<<code>>) \/ (board = "ready" /\ Respond(<<1, code>>))
  /\ Keep /\ UNCHANGED <<toBoard, loaded, reports>>

Bootloader == BoardStarts \/ BoardLoads \/ BoardReports \/ BoardCompletes \/ BoardRefuses

Next == update \/ Bootloader

-----------------------------------------------------------------------------
(* Properties. *)

\* The client never runs ahead of the board: what is on the wire is one block
\* at most, and the board has the image up to the block in flight.
InStep ==
  /\ Len(toBoard) <= BLOCK_SIZE
  /\ board \notin {"ready", "refused"} => loaded \o toBoard = SubSeq(padded, 1, Len(loaded) + Len(toBoard))

\* An update that the client calls complete has installed the whole image.
Installed ==
  client = "done" => board = "installed" /\ loaded = image \o [k \in 1..(TOTAL_SIZE - Len(image)) |-> FF]
=============================================================================
