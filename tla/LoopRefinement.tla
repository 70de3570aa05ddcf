--------------------------- MODULE LoopRefinement ---------------------------
(***************************************************************************)
(* Proof that the convergence loop does only what LoopContract promises:   *)
(* each of its steps is a step of the contract, or none a caller sees.     *)
(***************************************************************************)
EXTENDS LoopGitProofs

(* A run begins as the contract does.                                      *)
LEMMA InitMaps == TypeOK /\ Init => Contract!Init
  BY SetupTypes DEF Init, TypeOK, Phase, Running, Contract!Init, Contract!Running

(* Steps no caller sees.                                                   *)
LEMMA HiddenMaps ==
  ASSUME TypeOK,
         \/ FirstRound \/ RunPreflight \/ ReviewerWrites \/ ReviewerStages
         \/ ReviewerCommits \/ TamperReport
         \/ StartMergeAgent \/ MergeAgentEdits \/ MergeAgentSucceeds
         \/ GitCommit \/ OrphanEdits \/ UNCHANGED vars
  PROVE  UNCHANGED Contract!vars
<1> USE DEF Contract!vars, mainVars, gitVars, roundVars, otherVars, historyVars
<1>1. /\ Phase' = Phase
      /\ UNCHANGED <<setup, run, round, blocking, previous_fp, exit_code, upstream>>
  BY DEF Phase, FirstRound, RunPreflight, ReviewerWrites, ReviewerStages,
         ReviewerCommits, TamperReport,
         StartMergeAgent, MergeAgentEdits, MergeAgentSucceeds, GitCommit, OrphanEdits,
         vars
<1> QED
  BY <1>1

(* An action that ends the run, as the contract's Ends.                    *)
LEMMA EndMaps ==
  ASSUME NEW code, End(code),
         UNCHANGED <<mainVars, blocking, upstream>>
  PROVE  Contract!Ends(code)
  BY DEF End, Phase, Contract!Ends, mainVars

(* Up to the verdict.                                                      *)
LEMMA ReviewMaps ==
  ASSUME TypeOK,
         \/ NoBackend \/ NoRounds \/ CollectRaises \/ CollectDiff \/ PreflightRaises
         \/ ReviewersFinish \/ LaunchRaises
  PROVE  [Contract!Next]_(Contract!vars)
<1> USE DEF mainVars, gitVars, roundVars, otherVars, historyVars
<1>1. CASE NoBackend \/ NoRounds \/ CollectRaises \/ PreflightRaises \/ LaunchRaises
  <2>1. Phase = "review"
    BY <1>1 DEF Phase, NoBackend, NoRounds, CollectRaises, PreflightRaises, LaunchRaises
  <2>2. Contract!Ends(1) \/ Contract!Ends(6)
    BY <1>1, EndMaps DEF NoBackend, NoRounds, CollectRaises, PreflightRaises,
       LaunchRaises, Traceback
  <2> QED
    BY <2>1, <2>2 DEF Contract!Next, Contract!Step, Contract!Refuse
<1>2. CASE CollectDiff
  <2>1. Phase = "review" /\ UNCHANGED <<mainVars, blocking, upstream>>
    BY <1>2 DEF Phase, CollectDiff
  <2>2. CASE pc' = "run_preflight" /\ UNCHANGED exit_code
    BY <2>1, <2>2 DEF Phase, Contract!vars
  <2>3. CASE End(0) \/ End(8) \/ End(9)
    <3>1. Contract!Ends(0) \/ Contract!Ends(8) \/ Contract!Ends(9)
      BY <2>1, <2>3, EndMaps
    <3> QED
      BY <2>1, <3>1 DEF Contract!Next, Contract!Step, Contract!Refuse
  <2> QED
    BY <1>2, <2>2, <2>3 DEF CollectDiff
<1>3. CASE ReviewersFinish
  <2>1. Phase = "review" /\ Phase' = "verdict" /\ blocking' \in SUBSET Keys
        /\ UNCHANGED <<setup, run, round, previous_fp, exit_code, upstream>>
    BY <1>3 DEF Phase, ReviewersFinish
  <2> QED
    BY <2>1 DEF Contract!Next, Contract!Step, Contract!Review
<1> QED
  BY <1>1, <1>2, <1>3

(* The verdict.                                                            *)
LEMMA VerdictMaps ==
  ASSUME TypeOK, Deciding
  PROVE  [Contract!Next]_(Contract!vars)
<1> USE DEF mainVars, gitVars, roundVars, otherVars, historyVars
<1>1. Phase = "verdict"
  BY DEF Phase, Deciding, EndTampered, EndNoResults, EndTouched, EndIncomplete,
         EndConverged, FingerprintRaises, EndStuck, EndReportOnly, ProceedToFixes
<1>2. ASSUME NEW code, Stops(code) PROVE Contract!Ends(code)
  BY <1>2, EndMaps DEF Stops
<1>3. CASE EndTampered \/ EndNoResults \/ EndTouched \/ EndIncomplete
  <2>1. Contract!Ends(7) \/ Contract!Ends(11) \/ Contract!Ends(12)
    BY <1>2, <1>3 DEF EndTampered, EndNoResults, EndTouched, EndIncomplete
  <2> QED
    BY <1>1, <2>1 DEF Contract!Next, Contract!Step, Contract!Distrust
<1>4. CASE EndConverged
  <2>1. Contract!Ends(0) /\ blocking = {}
    BY <1>2, <1>4 DEF EndConverged, Clean
  <2> QED
    BY <1>1, <2>1 DEF Contract!Next, Contract!Step, Contract!Converge
<1>5. CASE FingerprintRaises
  <2>1. Contract!Ends(1)
    BY <1>2, <1>5 DEF FingerprintRaises, Traceback
  <2> QED
    BY <1>1, <2>1 DEF Contract!Next, Contract!Break
<1>6. CASE EndStuck
  <2>1. Contract!Ends(2) /\ blocking # {} /\ blocking = previous_fp
    BY <1>2, <1>6 DEF EndStuck, Blocked, Stuck
  <2> QED
    BY <1>1, <2>1 DEF Contract!Next, Contract!Step, Contract!GiveUp
<1>7. CASE EndReportOnly
  <2>1. Contract!Ends(10) /\ blocking # {}
    BY <1>2, <1>7 DEF EndReportOnly, Blocked
  <2> QED
    BY <1>1, <2>1 DEF Contract!Next, Contract!Step, Contract!Report
<1>8. CASE ProceedToFixes
  <2>1. /\ Phase' = "repair" /\ blocking # {} /\ blocking # previous_fp
        /\ UNCHANGED <<setup, run, round, blocking, previous_fp, exit_code, upstream>>
    BY <1>8 DEF Phase, ProceedToFixes, Blocked, Stuck
  <2> QED
    BY <1>1, <2>1 DEF Contract!Next, Contract!Step, Contract!Repair
<1> QED
  BY <1>3, <1>4, <1>5, <1>6, <1>7, <1>8 DEF Deciding

(* The repair.                                                             *)
LEMMA RepairMaps ==
  ASSUME TypeOK,
         \/ NoMergeAgent \/ MergeAgentFails \/ MergeAgentTimesOut \/ RunGate
         \/ NothingToCommit \/ GitCommitFails \/ GitPush \/ GitPushFails
  PROVE  [Contract!Next]_(Contract!vars)
<1> USE DEF mainVars, gitVars, roundVars, otherVars, historyVars
<1>1. Phase = "repair"
  BY DEF Phase, NoMergeAgent, MergeAgentFails, MergeAgentTimesOut, RunGate,
         NothingToCommit, GitCommitFails, GitPush, GitPushFails
<1>2. CASE NoMergeAgent \/ MergeAgentFails \/ MergeAgentTimesOut \/ GitCommitFails
           \/ GitPushFails
  <2>1. Contract!Ends(3) \/ Contract!Ends(5)
    BY <1>2, EndMaps DEF NoMergeAgent, MergeAgentFails, MergeAgentTimesOut,
       GitCommitFails, GitPushFails, Stops
  <2> QED
    BY <1>1, <2>1 DEF Contract!Next, Contract!Step, Contract!RepairFails
<1>3. CASE RunGate
  <2>1. UNCHANGED <<setup, run, round, blocking, previous_fp, upstream>>
    BY <1>3 DEF RunGate
  <2>2. CASE End(4)
    <3>1. Contract!Ends(4)
      BY <2>1, <2>2, EndMaps
    <3> QED
      BY <1>1, <3>1 DEF Contract!Next, Contract!Step, Contract!RepairFails
  <2>3. CASE pc' = "git_commit" /\ UNCHANGED exit_code
    BY <1>1, <2>1, <2>3 DEF Phase, Contract!vars
  <2>4. CASE pc' = "next_round" /\ UNCHANGED exit_code
    <3>1. Phase' = "repaired" /\ upstream' \in SUBSET Marks
      BY <2>1, <2>4 DEF Phase, TypeOK
    <3> QED
      BY <1>1, <2>1, <2>4, <3>1 DEF Contract!Next, Contract!Step, Contract!Settle
  <2> QED
    BY <1>3, <2>2, <2>3, <2>4 DEF RunGate
<1>4. CASE NothingToCommit \/ GitPush
  <2>1. /\ Phase' = "repaired" /\ upstream' \in SUBSET Marks
        /\ UNCHANGED <<setup, run, round, blocking, previous_fp, exit_code>>
    BY <1>4 DEF Phase, NothingToCommit, GitPush, TypeOK
  <2> QED
    BY <1>1, <2>1 DEF Contract!Next, Contract!Step, Contract!Settle
<1> QED
  BY <1>2, <1>3, <1>4

(* The next round, the end of the last, a signal, and a new start.         *)
LEMMA AroundMaps ==
  ASSUME TypeOK, FindingsInv, NextRound \/ EndMaxRounds \/ Killed \/ StartAgain
  PROVE  [Contract!Next]_(Contract!vars)
<1> USE DEF mainVars, gitVars, roundVars, otherVars, historyVars
<1>1. CASE NextRound
  <2>1. /\ Phase = "repaired" /\ Phase' = "review" /\ round < setup.max_rounds
        /\ round' = round + 1 /\ previous_fp' = blocking /\ blocking' = {}
        /\ UNCHANGED <<setup, run, exit_code, upstream>>
    BY <1>1 DEF Phase, NextRound, NewRound, RoundsLeft, Counted
  <2> QED
    BY <2>1 DEF Contract!Next, Contract!Step, Contract!Again
<1>2. CASE EndMaxRounds
  <2>1. Phase = "repaired" /\ Contract!Ends(6)
    BY <1>2, EndMaps DEF Phase, EndMaxRounds, Stops
  <2>2. setup.max_rounds \in Nat /\ round \in 1..setup.max_rounds
        /\ ~(round < setup.max_rounds)
    BY <1>2, SetupTypes DEF EndMaxRounds, FindingsInv, RoundsLeft, TypeOK
  <2>3. round = setup.max_rounds
    BY <2>2
  <2> QED
    BY <2>1, <2>3 DEF Contract!Next, Contract!Step, Contract!Exhaust
<1>3. CASE Killed
  <2>1. Phase # "ended"
    BY <1>3 DEF Killed, Phase
  <2>2. Contract!Ends(143)
    BY <1>3, EndMaps DEF Killed, SIGTERM
  <2> QED
    BY <2>1, <2>2 DEF Contract!Next, Contract!Break
<1>4. CASE StartAgain
  <2>1. /\ Phase = "ended" /\ Phase' = "review" /\ run < MaxRuns
        /\ run' = run + 1 /\ round' = 1 /\ blocking' = {} /\ previous_fp' = {}
        /\ exit_code' = Contract!Running
        /\ UNCHANGED <<setup, upstream>>
    BY <1>4 DEF Phase, StartAgain, NewRound, Running, Contract!Running
  <2> QED
    BY <2>1 DEF Contract!Next, Contract!Restart
<1> QED
  BY <1>1, <1>2, <1>3, <1>4

(* Every step of the loop is a step of the contract, or hidden by it.      *)
LEMMA StepMaps ==
  ASSUME TypeOK, FindingsInv, [Next]_vars
  PROVE  [Contract!Next]_(Contract!vars)
  BY HiddenMaps, ReviewMaps, VerdictMaps, RepairMaps, AroundMaps
     DEF Next, LoopStep, Reviewing, Merging, Committing

(* A caller of the loop sees only what the contract allows: one verdict a  *)
(* review, a repair only of new findings, a push only as a repair settles, *)
(* and the exit code of the phase the run ended in.                        *)
THEOREM StepsAreTheContracts == Spec => ContractSteps
<1>1. Init => Contract!Init
  BY InitType, InitMaps
<1>2. TypeOK /\ FindingsInv /\ [Next]_vars => [Contract!Next]_(Contract!vars)
  BY StepMaps
<1> QED
  BY <1>1, <1>2, LoopInvariant, PTL DEF Spec, ContractSteps
=============================================================================
