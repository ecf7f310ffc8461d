-------------------------------- MODULE Bench ------------------------------
(***************************************************************************)
(* The utilities that take a board by its serial port, one at a time: the  *)
(* update client (Flash), the tester (Tester) and the stability test       *)
(* (Stability).                                                            *)
(***************************************************************************)
EXTENDS Naturals, Sequences

CONSTANTS
  TOTAL_SIZE, BLOCK_SIZE, Images, FF, MaxReports,
  Good, Skipped, Broken, MaxEntries, MaxRaw,
  ROLLING_TIME_SECONDS, ENC_TEST_SIZE, DEC_TEST_SIZE, Times, MaxRounds

ASSUME BenchAssumption ==
  /\ {TOTAL_SIZE, BLOCK_SIZE, ROLLING_TIME_SECONDS} \subseteq Nat \ {0}
  /\ {ENC_TEST_SIZE, DEC_TEST_SIZE} \subseteq Nat /\ DEC_TEST_SIZE <= ENC_TEST_SIZE

\* The linker gives an image no more room than the bootloader has.
ASSUME ImagesFit ==
  /\ FF \in Nat /\ Images \subseteq Seq(Nat)
  /\ \A img \in Images : Len(img) <= TOTAL_SIZE

\* An entry is yielded, or skipped, or ends the generator.
ASSUME EntriesDiffer == Skipped \notin Good /\ Broken \notin Good

VARIABLES
  client, awaited, image, padded, idx, toBoard, toClient, board, loaded, reports,
  tester, args, input, pos, raw_frames, encoded_frames, decoded_frames, alarms, erred, clean, files,
  stability, subset, todo, dec_frames, enc_times, dec_times, total_decodes, timing_fails, rounds, wrong

Updater == INSTANCE Flash
Tool == INSTANCE Tester
Test == INSTANCE Stability

flashVars == <<client, awaited, image, padded, idx, toBoard, toClient, board, loaded, reports>>
testerVars == <<tester, args, input, pos, raw_frames, encoded_frames, decoded_frames, alarms, erred, clean, files>>
stabilityVars ==
  <<stability, subset, todo, dec_frames, enc_times, dec_times, total_decodes, timing_fails, rounds, wrong>>
vars == <<flashVars, testerVars, stabilityVars>>

Init == Updater!Init /\ Tool!Init /\ Test!Init

UseFlash ==
  /\ tester = "off" /\ stability = "off"
  /\ Updater!Next /\ UNCHANGED <<testerVars, stabilityVars>>
TesterStep == Tool!Step /\ UNCHANGED <<flashVars, stabilityVars>>
UseTester ==
  /\ client = "off" /\ stability = "off"
  /\ TesterStep \/ ((Tool!Begin \/ Tool!CtrlC) /\ UNCHANGED <<flashVars, stabilityVars>>)
UseStability ==
  /\ client = "off" /\ tester = "off"
  /\ Test!Next /\ UNCHANGED <<flashVars, testerVars>>

Next == UseFlash \/ UseTester \/ UseStability

\* A program goes on as long as nothing is missing, the board answers.
Fairness ==
  /\ WF_vars(client # "off" /\ UseFlash)
  /\ WF_vars(TesterStep)
  /\ WF_vars(stability # "off" /\ UseStability)
Spec == Init /\ [][Next]_vars /\ Fairness

-----------------------------------------------------------------------------
(* Properties. *)

InStep == Updater!InStep
Installed == Updater!Installed
DumpsAligned == Tool!DumpsAligned
AllTested == Tool!AllTested
RightAlarms == Tool!RightAlarms
RatesEnforced == Test!RatesEnforced
RightComparison == Test!RightComparison

\* An update of an image that fits ends, and a tester whose input ends does so
\* too and leaves its dumps, or what there was room for.
UtilitiesEnd ==
  /\ client # "off" ~> client \in {"done", "exit(-1)", "exit(-2)"}
  /\ (tester # "off" /\ ~args.loop) ~> (tester = "done")
=============================================================================
