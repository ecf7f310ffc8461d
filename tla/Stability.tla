------------------------------ MODULE Stability ----------------------------
(***************************************************************************)
(* The stability test (tools/ectf25/utils/stability_test.py): rounds that  *)
(* encode many frames and decode a random few of them, with a limit on the *)
(* time of each decode and on rolling sums of the times of the rounds.     *)
(* Times are in half seconds.                                              *)
(***************************************************************************)
EXTENDS Integers, Sequences, SequencesExt, FiniteSetsExt

CONSTANTS
  ROLLING_TIME_SECONDS,    \* rounds that are averaged
  ENC_TEST_SIZE,           \* frames encoded in a round, required per second
  DEC_TEST_SIZE,           \* frames decoded in a round, required per second
  Times,                   \* how long a stage of a round may take
  MaxRounds                \* bound: rounds within the duration of the test

VARIABLES
  stability,    \* the line of run() that the test has come to
  subset,       \* the numbers of the frames of the round that are decoded
  todo,         \* those that are still to be decoded
  dec_frames,   \* what was decoded
  enc_times, dec_times,
  total_decodes, timing_fails,
  rounds,       \* history: the times of all rounds
  wrong         \* history: the decoder failed, or returned another frame in time

stabilityVars == <<stability, subset, todo, dec_frames, enc_times, dec_times,
                   total_decodes, timing_fails, rounds, wrong>>

Late == 0      \* None, for a frame that took too long
Other == -1    \* a frame that was not encoded

Init ==
  /\ stability = "off" /\ subset = {} /\ todo = <<>> /\ dec_frames = <<>>
  /\ enc_times = <<>> /\ dec_times = <<>> /\ total_decodes = 0 /\ timing_fails = 0
  /\ rounds = <<>> /\ wrong = FALSE

Start ==
  /\ stability = "off" /\ stability' = "loop"
  /\ UNCHANGED <<subset, todo, dec_frames, enc_times, dec_times, total_decodes, timing_fails, rounds, wrong>>

\* _subscribe() fails, and so does the test before it has begun.
SubscribeFails ==
  /\ stability = "off" /\ stability' = "DecoderError" /\ wrong' = TRUE
  /\ UNCHANGED <<subset, todo, dec_frames, enc_times, dec_times, total_decodes, timing_fails, rounds>>

sorted(S) == [k \in 1..Cardinality(S) |-> CHOOSE x \in S : Cardinality({y \in S : y <= x}) = k]

\* The frames are encoded, and some of them chosen.
Encode(time) ==
  /\ stability = "loop" /\ Len(rounds) < MaxRounds
  /\ stability' = "decode"
  /\ enc_times' = Append(enc_times, time)
  /\ rounds' = Append(rounds, [enc |-> time, dec |-> 0])
  /\ subset' \in kSubset(DEC_TEST_SIZE, 1..ENC_TEST_SIZE)
  /\ todo' = sorted(subset') /\ dec_frames' = <<>>
  /\ UNCHANGED <<dec_times, total_decodes, timing_fails, wrong>>

\* A mutant: a frame that took too long is left out.
Result_Dropped(f) == IF f = Late THEN dec_frames ELSE Append(dec_frames, f)
Result(f) == Append(dec_frames, f)

\* decode() counts a frame that took too long, and goes on.
DecodeFrame ==
  /\ stability = "decode" /\ todo # <<>>
  /\ total_decodes' = total_decodes + 1
  /\ \E f \in {Head(todo), Other, Late} :
       /\ dec_frames' = Result(f)
       /\ timing_fails' = IF f = Late THEN timing_fails + 1 ELSE timing_fails
       /\ wrong' = (wrong \/ f = Other)
  /\ todo' = Tail(todo)
  /\ UNCHANGED <<stability, subset, enc_times, dec_times, rounds>>

DecoderFails ==
  /\ stability = "decode" /\ todo # <<>>
  /\ total_decodes' = total_decodes + 1
  /\ stability' = "DecoderError" /\ wrong' = TRUE
  /\ UNCHANGED <<subset, todo, dec_frames, enc_times, dec_times, timing_fails, rounds>>

\* zip(sorted(subset), dec_frames): each decoded frame is compared.
Mismatch == \E k \in 1..Len(dec_frames) : dec_frames[k] # Late /\ dec_frames[k] # sorted(subset)[k]

Compare(time) ==
  /\ stability = "decode" /\ todo = <<>>
  /\ dec_times' = Append(dec_times, time)
  /\ rounds' = [rounds EXCEPT ![Len(rounds)].dec = time]
  /\ stability' = IF Mismatch THEN "DecoderError" ELSE "check encoder"
  /\ UNCHANGED <<subset, todo, dec_frames, enc_times, total_decodes, timing_fails, wrong>>

Total(times) == FoldSeq(+, 0, times)
TooSlow(times) == 2 * Len(times) < Total(times)

\* A mutant: the times start over after a check.
Roll_Restart(times) == IF Len(times) >= ROLLING_TIME_SECONDS THEN <<>> ELSE times
Roll(times) == IF Len(times) >= ROLLING_TIME_SECONDS THEN Tail(times) ELSE times

Check(times, next) ==
  stability' = IF Len(times) >= ROLLING_TIME_SECONDS /\ TooSlow(times) THEN "TimingError" ELSE next

CheckEncoder ==
  /\ stability = "check encoder"
  /\ Check(enc_times, "check decoder")
  /\ enc_times' = Roll(enc_times)
  /\ UNCHANGED <<subset, todo, dec_frames, dec_times, total_decodes, timing_fails, rounds, wrong>>

CheckDecoder ==
  /\ stability = "check decoder"
  /\ Check(dec_times, "loop")
  /\ dec_times' = Roll(dec_times)
  /\ UNCHANGED <<subset, todo, dec_frames, enc_times, total_decodes, timing_fails, rounds, wrong>>

\* The duration is over: the rate of failures cannot be computed for no decode.
Finish ==
  /\ stability = "loop"
  /\ stability' = IF total_decodes = 0 THEN "ZeroDivisionError" ELSE "returned"
  /\ UNCHANGED <<subset, todo, dec_frames, enc_times, dec_times, total_decodes, timing_fails, rounds, wrong>>

Next ==
  \/ Start \/ SubscribeFails
  \/ \E time \in Times : Encode(time) \/ Compare(time)
  \/ DecodeFrame \/ DecoderFails \/ CheckEncoder \/ CheckDecoder \/ Finish

-----------------------------------------------------------------------------
(* Properties. *)

Window(k, stage) == [i \in 1..ROLLING_TIME_SECONDS |-> rounds[k + i][stage]]
Windows == 0..(Len(rounds) - ROLLING_TIME_SECONDS)

\* run() says "If the function returns, the test was successful": then every
\* window of consecutive rounds has met both rates; and a TimingError is raised
\* for the window that ends with the last round.
RatesEnforced ==
  /\ stability = "returned" =>
       \A k \in Windows : ~TooSlow(Window(k, "enc")) /\ ~TooSlow(Window(k, "dec"))
  /\ stability = "TimingError" =>
       LET k == Len(rounds) - ROLLING_TIME_SECONDS IN
         k >= 0 /\ (TooSlow(Window(k, "enc")) \/ TooSlow(Window(k, "dec")))

\* A frame is compared with its own plaintext, whatever frames around it came
\* too late: the test fails with a DecoderError only if the decoder erred, and
\* does not succeed if it did.
RightComparison ==
  /\ stability = "DecoderError" => wrong
  /\ stability = "returned" => ~wrong
=============================================================================
