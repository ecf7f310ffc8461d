------------------------------- MODULE Tester ------------------------------
(***************************************************************************)
(* The tester tool (tools/ectf25/utils/tester.py): frames from one of      *)
(* three generators are encoded and decoded one by one, with either step   *)
(* stubbed out on request, and compared with the original; whatever stops  *)
(* the loop, the frames of each stage are dumped at the end.               *)
(***************************************************************************)
EXTENDS Naturals, Sequences, SequencesExt

CONSTANTS
  Good,         \* entries that a generator yields
  Skipped,      \* an entry at which it logs a ValueError and goes on
  Broken,       \* an entry at which it raises
  MaxEntries,   \* bound: entries of an input
  MaxRaw        \* bound: frames of an endless input

\* The arguments; rand without --num-frames is an endless input as well.
Args == {a \in [generator : {"rand", "stdin", "json"}, loop : BOOLEAN, stub_encoder : BOOLEAN,
                 stub_decoder : BOOLEAN, dump : SUBSET {"raw", "encoded", "decoded"}] :
           a.generator = "stdin" => ~a.loop}

\* What the generators may meet: rand makes frames only, and an exception
\* other than ValueError can only come from the contents of a JSON file.
Inputs(args) ==
  UNION {[1..n -> Good \cup (IF args.generator = "rand" THEN {} ELSE {Skipped})
                       \cup (IF args.generator = "json" THEN {Broken} ELSE {})] : n \in 0..MaxEntries}

VARIABLES
  tester,      \* the line of main() that the tester has come to
  args,
  input, pos,  \* what the generator reads, and the entry it comes to next
  raw_frames, encoded_frames, decoded_frames,
  alarms,      \* history: which frames were reported as different
  erred,       \* history: at which frames the decoder returned a wrong one
  clean,       \* history: no exception has stopped the loop
  files        \* the dumps that were written

testerVars == <<tester, args, input, pos, raw_frames, encoded_frames, decoded_frames, alarms, erred, clean, files>>

NoFiles == [d \in {} |-> <<>>]

Init ==
  /\ tester = "off" /\ args = [generator |-> "none"] /\ input = <<>> /\ pos = 1
  /\ raw_frames = <<>> /\ encoded_frames = <<>> /\ decoded_frames = <<>>
  /\ alarms = {} /\ erred = {} /\ clean = TRUE /\ files = NoFiles

Start(a, in) ==
  /\ tester' = "next"
  /\ args' = a /\ input' = in
  /\ UNCHANGED <<pos, raw_frames, encoded_frames, decoded_frames, alarms, erred, clean, files>>

\* The `finally' clause begins.
Leave(ok) == tester' = "raw" /\ clean' = ok

-----------------------------------------------------------------------------
(* The generators. *)

NextFrame ==
  /\ tester = "next" /\ pos <= Len(input) /\ input[pos] \in Good
  /\ Len(raw_frames) < MaxRaw
  /\ raw_frames' = Append(raw_frames, input[pos])
  /\ pos' = pos + 1 /\ tester' = "encode"
  /\ UNCHANGED <<args, input, encoded_frames, decoded_frames, alarms, erred, clean, files>>

\* A mutant: the warning ends the generator.
SkipEntry_Stops ==
  /\ tester = "next" /\ pos <= Len(input) /\ input[pos] = Skipped
  /\ Leave(TRUE)
  /\ UNCHANGED <<pos, args, input, raw_frames, encoded_frames, decoded_frames, alarms, erred, files>>

SkipEntry ==
  /\ tester = "next" /\ pos <= Len(input) /\ input[pos] = Skipped
  /\ pos' = pos + 1
  /\ UNCHANGED <<tester, args, input, raw_frames, encoded_frames, decoded_frames, alarms, erred, clean, files>>

BrokenEntry ==
  /\ tester = "next" /\ pos <= Len(input) /\ input[pos] = Broken
  /\ Leave(FALSE)
  /\ UNCHANGED <<args, input, pos, raw_frames, encoded_frames, decoded_frames, alarms, erred, files>>

\* The input is exhausted: it starts over, ends, or (stdin) raises EOFError.
EndOfInput ==
  /\ tester = "next" /\ pos > Len(input)
  /\ IF args.loop
     THEN pos' = 1 /\ UNCHANGED <<tester, clean>>
     ELSE Leave(args.generator # "stdin") /\ UNCHANGED pos
  /\ UNCHANGED <<args, input, raw_frames, encoded_frames, decoded_frames, alarms, erred, files>>

-----------------------------------------------------------------------------
(* The loop of main(). *)

Encoded(f) == IF args.stub_encoder THEN [plain |-> f] ELSE [packet |-> f]

\* What a decoder that works makes of a packet; of anything else it makes garbage.
Decoded(e) ==
  IF args.stub_decoder THEN e ELSE IF "packet" \in DOMAIN e THEN [plain |-> e.packet] ELSE [garbage |-> e.plain]

\* The decoder under test may also return another frame, or what is no frame.
Decodings(e) ==
  {Decoded(e)} \cup (IF args.stub_decoder \/ "packet" \notin DOMAIN e THEN {}
                    ELSE [plain : Good] \cup {[garbage |-> e.packet]})

Encode ==
  /\ tester = "encode" /\ tester' = "decode"
  /\ encoded_frames' = Append(encoded_frames, Encoded(Last(raw_frames)))
  /\ UNCHANGED <<args, input, pos, raw_frames, decoded_frames, alarms, erred, clean, files>>

\* struct.error: the channel or the timestamp does not fit.
EncodeFails ==
  /\ tester = "encode" /\ ~args.stub_encoder
  /\ Leave(FALSE)
  /\ UNCHANGED <<args, input, pos, raw_frames, encoded_frames, decoded_frames, alarms, erred, files>>

\* A mutant: the packet, and not the frame, is what must come back.
Same_Packet(d) == d = Last(encoded_frames)
Same(d) == d = [plain |-> Last(raw_frames)]

\* The error is logged under the number of the frame.
Judge(d) ==
  /\ alarms' = IF Same(d) THEN alarms ELSE alarms \cup {Len(raw_frames)}
  /\ erred' = IF d = Decoded(Last(encoded_frames)) THEN erred ELSE erred \cup {Len(raw_frames)}

\* A mutant: a frame that differs is not kept.
Decode_SameOnly ==
  /\ tester = "decode" /\ tester' = "next"
  /\ \E d \in Decodings(Last(encoded_frames)) :
       /\ decoded_frames' = IF Same(d) THEN Append(decoded_frames, d) ELSE decoded_frames
       /\ Judge(d)
  /\ UNCHANGED <<args, input, pos, raw_frames, encoded_frames, clean, files>>

Decode ==
  /\ tester = "decode" /\ tester' = "next"
  /\ \E d \in Decodings(Last(encoded_frames)) : decoded_frames' = Append(decoded_frames, d) /\ Judge(d)
  /\ UNCHANGED <<args, input, pos, raw_frames, encoded_frames, clean, files>>

\* DecoderError.
DecodeFails ==
  /\ tester = "decode" /\ ~args.stub_decoder
  /\ Leave(FALSE)
  /\ UNCHANGED <<args, input, pos, raw_frames, encoded_frames, decoded_frames, alarms, erred, files>>

CtrlC ==
  /\ tester \in {"next", "encode", "decode"}
  /\ Leave(FALSE)
  /\ UNCHANGED <<args, input, pos, raw_frames, encoded_frames, decoded_frames, alarms, erred, files>>

-----------------------------------------------------------------------------
(* The `finally' clause. *)

Contents(d) == IF d = "raw" THEN raw_frames ELSE IF d = "encoded" THEN encoded_frames ELSE decoded_frames
AfterDump(d) == IF d = "raw" THEN "encoded" ELSE IF d = "encoded" THEN "decoded" ELSE "done"

Dump ==
  /\ tester \in {"raw", "encoded", "decoded"}
  /\ files' = IF tester \in args.dump
              THEN [d \in DOMAIN files \cup {tester} |-> Contents(d)] ELSE files
  /\ tester' = AfterDump(tester)
  /\ UNCHANGED <<args, input, pos, raw_frames, encoded_frames, decoded_frames, alarms, erred, clean>>

\* A file cannot be opened: the later ones are not written.
DumpFails ==
  /\ tester \in {"raw", "encoded", "decoded"} /\ tester \in args.dump
  /\ tester' = "done" /\ clean' = FALSE
  /\ UNCHANGED <<args, input, pos, raw_frames, encoded_frames, decoded_frames, alarms, erred, files>>

Step ==
  \/ NextFrame \/ SkipEntry \/ BrokenEntry \/ EndOfInput
  \/ Encode \/ EncodeFails \/ Decode \/ DecodeFails \/ Dump \/ DumpFails
Begin == tester = "off" /\ \E a \in Args : \E in \in Inputs(a) : Start(a, in)
Next == Begin \/ Step \/ CtrlC

-----------------------------------------------------------------------------
(* Properties. *)

\* What a pass through the input yields: its good entries, in their order.
GoodAt == {i \in 1..Len(input) : input[i] \in Good}
GoodBefore(i) == Cardinality({j \in GoodAt : j < i})
Yielded == [k \in 1..Cardinality(GoodAt) |-> input[CHOOSE i \in GoodAt : GoodBefore(i) = k - 1]]

\* Wherever the loop was stopped, the k-th entries of all dumps belong to the
\* k-th frame of the input, also behind frames that the decoder got wrong, and at
\* most one frame misses its last stages.
DumpsAligned ==
  \A d \in DOMAIN files :
    /\ Len(files[d]) \in {Len(raw_frames), Len(raw_frames) - 1}
    /\ \A k \in 1..Len(files[d]) :
         LET f == Yielded[((k - 1) % Len(Yielded)) + 1] IN
           \/ d = "decoded" /\ k \in erred
           \/ files[d][k] = CASE d = "raw" -> f
                              [] d = "encoded" -> Encoded(f)
                              [] OTHER -> Decoded(Encoded(f))

\* A run that ends by itself has passed every frame of its input through all
\* stages, those behind a bad entry as well.
AllTested == tester = "done" /\ clean => Len(decoded_frames) = Len(Yielded)

\* With both stages or neither stubbed out the frames reported as different are
\* those that the decoder got wrong: it misses none, and blames no other.  With
\* one stage stubbed out a packet is compared with its frame, or the decoder is
\* given what is no packet, and every frame is reported.
RightAlarms ==
  tester # "off" =>
    alarms = IF args.stub_encoder = args.stub_decoder THEN erred ELSE 1..Len(decoded_frames)
=============================================================================
