----------------------------- MODULE LoopProofs -----------------------------
(***************************************************************************)
(* Proofs about the convergence loop, for every set of slots, findings,    *)
(* changes and command lines, and every number of rounds, runs and kills.  *)
(***************************************************************************)
EXTENDS LoopProperties, TLAPS

(* What the assumptions say of a command line and its repository.          *)
LEMMA SetupTypes ==
  ASSUME NEW s \in Setups
  PROVE  /\ s \in SetupType
         /\ s.max_rounds \in 0..MaxRounds /\ MaxRounds \in Nat
         /\ s.report_only \in BOOLEAN /\ s.auto_commit \in BOOLEAN
         /\ s.merge_base \in BOOLEAN /\ s.base \in {"default", "named", "unresolved"}
         /\ s.claude \in BOOLEAN
  BY LoopAssumption DEF SetupType

(* What somebody writes, in a run and a round, is a mark.                  *)
LEMMA MarkType ==
  ASSUME run \in Nat, round \in Nat, NEW kind \in Kinds
  PROVE  Mark(kind) \in Marks
  BY DEF Mark, Marks, Kinds

(* A run begins with values of every kind.                                 *)
LEMMA InitType == Init => TypeOK
<1> SUFFICES ASSUME Init PROVE TypeOK
  OBVIOUS
<1> USE LoopAssumption DEF Init, TypeOK
<1>1. Changes \subseteq Marks
  BY DEF Marks
<1>2. tree \in SUBSET Marks /\ head \in SUBSET Marks /\ staged \in SUBSET Marks
      /\ parent \in SUBSET Marks /\ upstream \in SUBSET Marks
  BY <1>1
<1>3. began \in SUBSET Marks
  BY <1>2 DEF Base
<1>4. found \in [0..MaxRounds -> SUBSET Keys]
  OBVIOUS
<1> QED
  BY <1>2, <1>3, <1>4 DEF Pcs, ExitCodes, Running, NoStatus

(* The actions that only move the loop on, or end it.                      *)
LEMMA DecidingType ==
  ASSUME TypeOK, Deciding \/ TamperReport \/ LaunchRaises
  PROVE  TypeOK'
<1> USE DEF TypeOK, Pcs, ExitCodes, mainVars, gitVars, roundVars, otherVars,
            historyVars, Stops, End, Running, Traceback
<1>1. CASE TamperReport
  BY <1>1 DEF TamperReport
<1>2. CASE LaunchRaises
  BY <1>2 DEF LaunchRaises
<1>3. CASE Deciding
  BY <1>3 DEF Deciding, EndTampered, EndNoResults, EndTouched, EndIncomplete,
              EndConverged, FingerprintRaises, EndStuck, EndReportOnly, ProceedToFixes
<1> QED
  BY <1>1, <1>2, <1>3

(* Those up to the reviewers.                                              *)
LEMMA ReviewingType ==
  ASSUME TypeOK,
         \/ NoBackend \/ NoRounds \/ FirstRound \/ CollectRaises \/ CollectDiff
         \/ RunPreflight \/ PreflightRaises \/ ReviewerWrites \/ ReviewerStages
         \/ ReviewerCommits \/ ReviewersFinish
  PROVE  TypeOK'
<1> USE DEF TypeOK, mainVars, gitVars, roundVars, otherVars, historyVars
<1>0. /\ Mark("packet") \in Marks /\ Mark("tests") \in Marks
      /\ Mark("reviewer") \in Marks /\ Mark("orphan") \in Marks
  BY MarkType DEF Kinds
<1>1. CASE NoBackend \/ NoRounds \/ FirstRound \/ CollectRaises
  <2>1. pc' \in Pcs /\ exit_code' \in ExitCodes
    BY <1>1 DEF NoBackend, NoRounds, FirstRound, CollectRaises, End, Pcs, ExitCodes,
                Traceback
  <2> QED
    BY <1>1, <2>1 DEF NoBackend, NoRounds, FirstRound, CollectRaises
<1>2. CASE CollectDiff
  <2>1. InputDiff \in SUBSET Marks
    BY DEF InputDiff
  <2>2. pc' \in Pcs /\ exit_code' \in ExitCodes
    BY <1>2 DEF CollectDiff, End, Pcs, ExitCodes
  <2> QED
    BY <1>0, <1>2, <2>1, <2>2 DEF CollectDiff
<1>3. CASE RunPreflight
  <2>1. tree' \in SUBSET Marks
    BY <1>0, <1>3 DEF RunPreflight, TestsWrite
  <2>2. Status(tree') \in [listed : SUBSET Marks, staged : SUBSET Marks]
    BY <2>1 DEF Status
  <2> QED
    BY <1>3, <2>1, <2>2 DEF RunPreflight, Pcs
<1>4. CASE PreflightRaises
  BY <1>0, <1>4 DEF PreflightRaises, TestsWrite, TestsLeftRunning, End, Pcs,
                    ExitCodes, Traceback
<1>5. CASE ReviewerWrites \/ ReviewerStages \/ ReviewerCommits
  BY <1>0, <1>5 DEF ReviewerWrites, ReviewerStages, ReviewerCommits
<1>6. CASE ReviewersFinish
  BY <1>6 DEF ReviewersFinish, Pcs
<1> QED
  BY <1>1, <1>2, <1>3, <1>4, <1>5, <1>6

(* Those of a repair: the merge agent, the gate and git.                   *)
LEMMA RepairType ==
  ASSUME TypeOK, Merging \/ RunGate \/ Committing
  PROVE  TypeOK'
<1> USE DEF TypeOK, mainVars, gitVars, roundVars, otherVars, historyVars
<1>0. Mark("fix") \in Marks /\ Mark("tests") \in Marks /\ Mark("orphan") \in Marks
  BY MarkType DEF Kinds
<1>1. CASE NoMergeAgent \/ StartMergeAgent \/ MergeAgentSucceeds \/ MergeAgentFails
  BY <1>1 DEF NoMergeAgent, StartMergeAgent, MergeAgentSucceeds, MergeAgentFails,
              Stops, End, Pcs, ExitCodes
<1>2. CASE MergeAgentEdits
  BY <1>0, <1>2 DEF MergeAgentEdits
<1>3. CASE MergeAgentTimesOut
  BY <1>0, <1>3 DEF MergeAgentTimesOut, End, Pcs, ExitCodes
<1>4. CASE RunGate
  <2>1. tree' \in SUBSET Marks
    BY <1>0, <1>4 DEF RunGate, TestsWrite
  <2>2. orphans' \in SUBSET Marks
    BY <1>0, <1>4 DEF RunGate, TestsLeftRunning
  <2>3. /\ gate' \in {"none", "passed", "failed"}
        /\ pc' \in Pcs /\ exit_code' \in ExitCodes
    BY <1>4 DEF RunGate, End, Pcs, ExitCodes
  <2> QED
    BY <1>4, <2>1, <2>2, <2>3 DEF RunGate
<1>5. CASE NothingToCommit \/ GitCommitFails \/ GitPush \/ GitPushFails
  BY <1>5 DEF NothingToCommit, GitCommitFails, GitPush, GitPushFails, Stops, End,
              Pcs, ExitCodes
<1>6. CASE GitCommit
  BY <1>6 DEF GitCommit, Pcs
<1> QED
  BY <1>1, <1>2, <1>3, <1>4, <1>5, <1>6 DEF Merging, Committing

(* The next round, the end, and what happens around the loop.              *)
LEMMA AroundType ==
  ASSUME TypeOK, NextRound \/ EndMaxRounds \/ OrphanEdits \/ Killed \/ StartAgain
  PROVE  TypeOK'
<1> USE DEF TypeOK, mainVars, gitVars, roundVars, otherVars, historyVars
<1>0. Mark("orphan") \in Marks
  BY MarkType DEF Kinds
<1>1. CASE NextRound
  <2>1. setup \in Setups /\ setup.max_rounds \in Nat
    BY SetupTypes
  <2>2. round' \in Nat /\ round' \in 1..setup'.max_rounds
    BY <1>1, <2>1 DEF NextRound, RoundsLeft, Counted
  <2> QED
    BY <1>1, <2>1, <2>2 DEF NextRound, NewRound, NoStatus, Pcs
<1>2. CASE EndMaxRounds
  BY <1>2 DEF EndMaxRounds, Stops, End, Pcs, ExitCodes
<1>3. CASE OrphanEdits
  BY <1>3 DEF OrphanEdits
<1>4. CASE Killed
  BY <1>0, <1>4 DEF Killed, TestsLeftRunning, End, Pcs, ExitCodes, SIGTERM
<1>5. CASE StartAgain
  <2>1. began' \in SUBSET Marks
    BY <1>5 DEF StartAgain, Base
  <2>2. found' \in [0..MaxRounds -> SUBSET Keys]
    BY <1>5 DEF StartAgain
  <2>3. run' \in Nat /\ round' = 1 /\ previous_fp' \in SUBSET Keys /\ seen' \in SUBSET Marks
    BY <1>5 DEF StartAgain
  <2>4. /\ shown' \in SUBSET Marks /\ scrubber' = 0
        /\ untouched' \in [listed : SUBSET Marks, staged : SUBSET Marks]
        /\ touched' \in BOOLEAN /\ answered' \in SUBSET Slots
        /\ blocking' \in SUBSET Keys /\ gate' = "none"
        /\ gated' \in SUBSET Marks /\ collected' \in SUBSET Marks
    BY <1>5 DEF StartAgain, NewRound, NoStatus
  <2>5. pc' \in Pcs /\ exit_code' \in ExitCodes
    BY <1>5 DEF StartAgain, Pcs, ExitCodes
  <2>6. UNCHANGED <<setup, tree, staged, head, parent, upstream, orphans, kills>>
    BY <1>5 DEF StartAgain
  <2> QED
    BY <2>1, <2>2, <2>3, <2>4, <2>5, <2>6
<1> QED
  BY <1>1, <1>2, <1>3, <1>4, <1>5

(* No step leaves the types: none counts a round past --max-rounds, and    *)
(* none writes anything but a mark.                                        *)
LEMMA StepType ==
  ASSUME TypeOK, [Next]_vars
  PROVE  TypeOK'
<1>1. CASE Next
  BY <1>1, DecidingType, ReviewingType, RepairType, AroundType
     DEF Next, LoopStep, Reviewing
<1>2. CASE UNCHANGED vars
  BY <1>2 DEF TypeOK, vars, mainVars, gitVars, roundVars, otherVars, historyVars
<1> QED
  BY <1>1, <1>2

(* Every state of the loop is well typed: no round is counted past         *)
(* --max-rounds, main returns only its own exit codes, and the tree holds  *)
(* only what somebody wrote.                                               *)
THEOREM TypeCorrect == Spec => []TypeOK
<1>1. Init => TypeOK
  BY InitType
<1>2. TypeOK /\ [Next]_vars => TypeOK'
  BY StepType
<1> QED
  BY <1>1, <1>2, PTL DEF Spec

-----------------------------------------------------------------------------
(* Stuck: the fingerprint carried from round to round *)

(* A run begins with no fingerprint and no findings.                       *)
LEMMA InitFindings == Init => FindingsInv
<1> SUFFICES ASSUME Init PROVE FindingsInv
  OBVIOUS
<1>1. 0 \in 0..MaxRounds
  BY LoopAssumption
<1>2. found[0] = {}
  BY <1>1 DEF Init
<1>3. round = 1 /\ round - 1 = 0 /\ previous_fp = {}
  BY DEF Init
<1>4. pc = "main" /\ exit_code = Running /\ exit_code # 2
  BY DEF Init, Running
<1>5. previous_fp = found[round - 1]
  BY <1>2, <1>3
<1> QED
  BY <1>2, <1>4, <1>5 DEF FindingsInv, Repairing

(* Until the reviewers' findings are in, a step leaves them, and the       *)
(* fingerprint, alone.                                                     *)
LEMMA ReviewingFindings ==
  ASSUME TypeOK, FindingsInv,
         \/ NoBackend \/ NoRounds \/ FirstRound \/ CollectRaises \/ CollectDiff
         \/ RunPreflight \/ PreflightRaises \/ ReviewerWrites \/ ReviewerStages
         \/ ReviewerCommits \/ ReviewersFinish
         \/ LaunchRaises
  PROVE  FindingsInv'
<1> USE DEF FindingsInv, Repairing, Running, mainVars, gitVars, roundVars, otherVars,
            historyVars
<1>1. CASE FirstRound
  <2>1. setup.max_rounds \in Nat /\ setup.max_rounds > 0 /\ round \in Nat
    BY <1>1, SetupTypes DEF FirstRound, TypeOK
  <2>2. round' \in 1..setup'.max_rounds
    BY <1>1, <2>1 DEF FirstRound, TypeOK
  <2> QED
    BY <1>1, <2>2 DEF FirstRound
<1>2. CASE NoBackend \/ NoRounds \/ CollectRaises
  BY <1>2 DEF NoBackend, NoRounds, CollectRaises, End, Traceback
<1>3. CASE CollectDiff
  BY <1>3 DEF CollectDiff, End
<1>4. CASE RunPreflight \/ PreflightRaises \/ ReviewerWrites \/ ReviewerStages
           \/ ReviewerCommits \/ LaunchRaises
  BY <1>4 DEF RunPreflight, PreflightRaises, ReviewerWrites, ReviewerStages,
              ReviewerCommits, LaunchRaises, End, Traceback
<1>5. CASE ReviewersFinish
  <2>1. round \in 1..setup.max_rounds /\ setup.max_rounds \in 0..MaxRounds
        /\ MaxRounds \in Nat
    BY <1>5, SetupTypes DEF ReviewersFinish, TypeOK
  <2>2. round \in 0..MaxRounds /\ round # 0 /\ round - 1 # round
    BY <2>1
  <2>3. /\ found'[0] = {} /\ found'[round] = blocking'
        /\ found'[round - 1] = found[round - 1]
    BY <1>5, <2>2 DEF ReviewersFinish, TypeOK
  <2> QED
    BY <1>5, <2>3 DEF ReviewersFinish
<1> QED
  BY <1>1, <1>2, <1>3, <1>4, <1>5

(* A repair begins only with findings the round before did not have.       *)
LEMMA DecidingFindings ==
  ASSUME TypeOK, FindingsInv, TamperReport \/ Deciding
  PROVE  FindingsInv'
<1> USE DEF FindingsInv, Repairing, Running, mainVars, gitVars, roundVars, otherVars,
            historyVars
<1>1. CASE TamperReport
  BY <1>1 DEF TamperReport
<1>2. CASE EndTampered \/ EndNoResults \/ EndTouched \/ EndIncomplete
           \/ EndConverged \/ FingerprintRaises \/ EndReportOnly
  BY <1>2 DEF EndTampered, EndNoResults, EndTouched, EndIncomplete, EndConverged,
              FingerprintRaises, EndReportOnly, Stops, End, Traceback
<1>3. CASE EndStuck
  BY <1>3 DEF EndStuck, Blocked, Stuck, Stops, End
<1>4. CASE ProceedToFixes
  BY <1>4 DEF ProceedToFixes, Blocked, Stuck
<1> QED
  BY <1>1, <1>2, <1>3, <1>4 DEF Deciding

(* A repair goes on with the findings it began with.                       *)
LEMMA RepairFindings ==
  ASSUME TypeOK, FindingsInv, Merging \/ RunGate \/ Committing
  PROVE  FindingsInv'
<1> USE DEF FindingsInv, Repairing, Running, mainVars, gitVars, roundVars, otherVars,
            historyVars
<1>1. CASE Merging
  BY <1>1 DEF Merging, NoMergeAgent, StartMergeAgent, MergeAgentEdits,
              MergeAgentSucceeds, MergeAgentFails, MergeAgentTimesOut, Stops, End
<1>2. CASE RunGate
  BY <1>2 DEF RunGate, End
<1>3. CASE Committing
  BY <1>3 DEF Committing, NothingToCommit, GitCommit, GitCommitFails, GitPush,
              GitPushFails, Stops, End
<1> QED
  BY <1>1, <1>2, <1>3

(* The next round carries this round's findings; a new start carries none. *)
LEMMA AroundFindings ==
  ASSUME TypeOK, FindingsInv,
         NextRound \/ EndMaxRounds \/ OrphanEdits \/ Killed \/ StartAgain
  PROVE  FindingsInv'
<1> USE DEF FindingsInv, Repairing, Running, mainVars, gitVars, roundVars, otherVars,
            historyVars
<1>1. CASE NextRound
  <2>1. round \in Nat /\ setup.max_rounds \in Nat
    BY SetupTypes DEF TypeOK
  <2>2. round' = round + 1 /\ round' \in 1..setup'.max_rounds /\ round' - 1 = round
    BY <1>1, <2>1 DEF NextRound, RoundsLeft, Counted
  <2>3. previous_fp' = found'[round' - 1]
    BY <1>1, <2>2 DEF NextRound
  <2> QED
    BY <1>1, <2>2, <2>3 DEF NextRound
<1>2. CASE EndMaxRounds
  BY <1>2 DEF EndMaxRounds, Stops, End
<1>3. CASE OrphanEdits
  BY <1>3 DEF OrphanEdits
<1>4. CASE Killed
  BY <1>4 DEF Killed, End, SIGTERM
<1>5. CASE StartAgain
  <2>1. 0 \in 0..MaxRounds
    BY LoopAssumption
  <2>2. found'[0] = {} /\ round' = 1 /\ previous_fp' = {}
    BY <1>5, <2>1 DEF StartAgain
  <2>3. previous_fp' = found'[round' - 1]
    BY <2>2
  <2>4. pc' = "main" /\ exit_code' = Running /\ exit_code' # 2
    BY <1>5 DEF StartAgain
  <2> QED
    BY <2>2, <2>3, <2>4
<1> QED
  BY <1>1, <1>2, <1>3, <1>4, <1>5

(* No step breaks the fingerprint's invariant.                             *)
LEMMA StepFindings ==
  ASSUME TypeOK, FindingsInv, [Next]_vars
  PROVE  FindingsInv'
<1>1. CASE Next
  BY <1>1, ReviewingFindings, DecidingFindings, RepairFindings, AroundFindings
     DEF Next, LoopStep, Reviewing
<1>2. CASE UNCHANGED vars
  BY <1>2 DEF FindingsInv, vars, mainVars, gitVars, roundVars, otherVars, historyVars
<1> QED
  BY <1>1, <1>2

(* The invariant is strong enough: exit 2, and each repair, come from it.  *)
LEMMA FindingsSuffice == TypeOK /\ FindingsInv => StuckIsRepeat
<1> SUFFICES ASSUME TypeOK, FindingsInv PROVE StuckIsRepeat
  OBVIOUS
<1>1. round \in Nat /\ round >= 1
  BY SetupTypes DEF TypeOK
<1>2. exit_code = 2 => round > 1
  <2>1. round = 1 => found[round - 1] = {}
    BY DEF FindingsInv
  <2> QED
    BY <1>1, <2>1 DEF FindingsInv
<1> QED
  BY <1>2 DEF FindingsInv, StuckIsRepeat, Repairing

(* "Stuck" is two rounds running with the same blocking findings, for any  *)
(* findings and any number of rounds; and no findings are repaired twice   *)
(* running.                                                                *)
THEOREM StuckCorrect == Spec => []StuckIsRepeat
<1>1. Init => TypeOK /\ FindingsInv
  BY InitType, InitFindings
<1>2. TypeOK /\ FindingsInv /\ [Next]_vars => TypeOK' /\ FindingsInv'
  BY StepType, StepFindings
<1>3. TypeOK /\ FindingsInv => StuckIsRepeat
  BY FindingsSuffice
<1> QED
  BY <1>1, <1>2, <1>3, PTL DEF Spec

-----------------------------------------------------------------------------
(* A reviewer's writes *)

(* A reviewer's mark is nobody else's: not a change of the user's, and not *)
(* one of the loop's other writers'.                                       *)
LEMMA ReviewerMark ==
  ASSUME run \in Nat, round \in Nat
  PROVE  /\ Mark("reviewer") \in Of({"reviewer"})
         /\ Mark("reviewer") = <<"reviewer", run, round>>
         /\ Mark("reviewer")[2] = run
         /\ \A kind \in Kinds \ {"reviewer"} : Mark(kind) \notin Of({"reviewer"})
<1>1. Mark("reviewer") \in Marks \ Changes
  BY LoopAssumption DEF Mark, Marks, Kinds
<1> QED
  BY <1>1 DEF Of, Mark

(* A run begins with the user's changes only.                              *)
LEMMA InitWrites == Init => WritesInv
<1> SUFFICES ASSUME Init PROVE WritesInv
  OBVIOUS
<1>1. tree \subseteq Changes
  BY DEF Init
<1>2. Changes \cap Of({"reviewer"}) = {}
  BY DEF Of
<1>3. Left = {}
  BY <1>1, <1>2 DEF Left
<1>4. orphans = {} /\ pc = "main"
  BY DEF Init
<1> QED
  BY <1>3, <1>4 DEF WritesInv

(* A mark of another kind adds no reviewer's write.                        *)
LEMMA OtherMark ==
  ASSUME run \in Nat, round \in Nat, NEW kind \in Kinds \ {"reviewer"},
         tree' \in {tree, tree \cup {Mark(kind)}}, head' = head
  PROVE  Left' = Left
  BY ReviewerMark DEF Left

(* Up to the verdict, only a reviewer adds a reviewer's write, and only    *)
(* after the snapshot.                                                     *)
LEMMA ReviewingWrites ==
  ASSUME TypeOK, FindingsInv, WritesInv,
         \/ NoBackend \/ NoRounds \/ FirstRound \/ CollectRaises \/ CollectDiff
         \/ RunPreflight \/ PreflightRaises \/ ReviewerWrites \/ ReviewerStages
         \/ ReviewerCommits \/ ReviewersFinish
         \/ LaunchRaises
  PROVE  WritesInv'
<1> USE DEF WritesInv, mainVars, gitVars, roundVars, otherVars, historyVars
<1>0. run \in Nat /\ round \in Nat
  BY DEF TypeOK
<1>m. run' = run /\ round' = round => Mark("reviewer")' = Mark("reviewer")
  BY DEF Mark
<1>1. CASE NoBackend \/ NoRounds \/ FirstRound \/ CollectRaises
  BY <1>1, <1>m DEF NoBackend, NoRounds, FirstRound, CollectRaises, Left, End
<1>2. CASE CollectDiff
  <2>1. tree' \in {tree, tree \cup {Mark("packet")}}
    BY <1>2 DEF CollectDiff
  <2>2. Left' = Left /\ Mark("reviewer") \notin Left'
    BY <1>0, <1>2, <2>1, OtherMark DEF CollectDiff, Kinds
  <2>3. UNCHANGED <<run, round, head, orphans, untouched>>
        /\ pc' \in {"run_preflight", "done"}
    BY <1>2 DEF CollectDiff, End
  <2> QED
    BY <1>m, <2>2, <2>3
<1>3. CASE RunPreflight
  <2>1. tree' \in {tree, tree \cup {Mark("tests")}}
    BY <1>3 DEF RunPreflight, TestsWrite
  <2>2. Left' = Left /\ Mark("reviewer") \notin Left'
    BY <1>0, <1>3, <2>1, OtherMark DEF RunPreflight, Kinds
  <2>3. /\ UNCHANGED <<run, round, head, orphans>>
        /\ untouched'.listed \subseteq tree' \ head'
    BY <1>3 DEF RunPreflight, Status
  <2>4. Mark("reviewer") \notin untouched'.listed
    BY <1>0, <2>2, <2>3, ReviewerMark DEF Left
  <2> QED
    BY <1>m, <2>2, <2>3, <2>4
<1>4. CASE PreflightRaises
  <2>1. tree' \in {tree, tree \cup {Mark("tests")}}
    BY <1>4 DEF PreflightRaises, TestsWrite
  <2>2. Left' = Left /\ Mark("reviewer") \notin Left'
    BY <1>0, <1>4, <2>1, OtherMark DEF PreflightRaises, Kinds
  <2>3. UNCHANGED <<run, round, head>> /\ pc' = "done"
    BY <1>4 DEF PreflightRaises, End
  <2>4. orphans' \subseteq {"orphan"} \X Nat \X Nat
    BY <1>0, <1>4 DEF PreflightRaises, TestsLeftRunning, Mark
  <2> QED
    BY <1>m, <2>2, <2>3, <2>4
<1>5. CASE ReviewerWrites
  <2>1. exit_code = Running /\ exit_code \notin {0, 7, 11}
    BY <1>5 DEF ReviewerWrites, FindingsInv, Running
  <2> QED
    BY <1>5, <1>m, <2>1 DEF ReviewerWrites, Left
<1>6. CASE ReviewerStages \/ ReviewerCommits
  <2>1. Left' \subseteq Left
    BY <1>6 DEF ReviewerStages, ReviewerCommits, Left
  <2> QED
    BY <1>6, <1>m, <2>1 DEF ReviewerStages, ReviewerCommits
<1>7. CASE ReviewersFinish
  BY <1>7, <1>m DEF ReviewersFinish, Left
<1>8. CASE LaunchRaises
  BY <1>8, <1>m DEF LaunchRaises, Left, End, Traceback
<1> QED
  BY <1>1, <1>2, <1>3, <1>4, <1>5, <1>6, <1>7, <1>8

(* The tree is not as it was before the reviewers, so the round is touched *)
(* and ends, or is only reported on.                                       *)
LEMMA DecidingWrites ==
  ASSUME TypeOK, FindingsInv, WritesInv, TamperReport \/ Deciding
  PROVE  WritesInv'
<1> USE DEF WritesInv, mainVars, gitVars, roundVars, otherVars, historyVars
<1>m. run' = run /\ round' = round => Mark("reviewer")' = Mark("reviewer")
  BY DEF Mark
<1>1. CASE TamperReport
  <2>1. Mark("reviewer") \in Left => Mark("reviewer") \in Status(tree).listed
    BY DEF Left, Status, Mark
  <2>2. Mark("reviewer") \in Left => touched'
    BY <1>1, <2>1 DEF TamperReport
  <2> QED
    BY <1>1, <1>m, <2>2 DEF TamperReport, Left
<1>2. CASE EndTampered \/ EndTouched \/ FingerprintRaises \/ EndStuck \/ EndReportOnly
  BY <1>2, <1>m DEF EndTampered, EndTouched, FingerprintRaises, EndStuck, EndReportOnly,
                    Left, Stops, End, Traceback
<1>3. CASE EndNoResults \/ EndIncomplete \/ EndConverged
  BY <1>3, <1>m DEF EndNoResults, EndIncomplete, EndConverged, NoResults, Left, Stops, End
<1>4. CASE ProceedToFixes
  <2>1. Mark("reviewer") \notin Left
    BY <1>4 DEF ProceedToFixes, Blocked, Tampered, MayFix
  <2> QED
    BY <1>4, <1>m, <2>1 DEF ProceedToFixes, Left
<1> QED
  BY <1>1, <1>2, <1>3, <1>4 DEF Deciding

(* In a repair no reviewer's write of this run is left in the tree, and a  *)
(* commit leaves no more of them than there were.                          *)
LEMMA RepairWrites ==
  ASSUME TypeOK, FindingsInv, WritesInv, Merging \/ RunGate \/ Committing
  PROVE  WritesInv'
<1> USE DEF WritesInv, mainVars, gitVars, roundVars, otherVars, historyVars
<1>0. run \in Nat /\ round \in Nat
  BY DEF TypeOK
<1>m. run' = run /\ round' = round => Mark("reviewer")' = Mark("reviewer")
  BY DEF Mark
<1>1. CASE NoMergeAgent \/ StartMergeAgent \/ MergeAgentSucceeds \/ MergeAgentFails
  BY <1>1, <1>m DEF NoMergeAgent, StartMergeAgent, MergeAgentSucceeds,
                    MergeAgentFails, Left, Stops, End
<1>2. CASE MergeAgentEdits
  <2>1. tree' \in {tree, tree \cup {Mark("fix")}}
    BY <1>2 DEF MergeAgentEdits
  <2>2. Left' = Left /\ Mark("reviewer") \notin Left'
    BY <1>0, <1>2, <2>1, OtherMark DEF MergeAgentEdits, Kinds
  <2> QED
    BY <1>2, <1>m, <2>2 DEF MergeAgentEdits
<1>3. CASE MergeAgentTimesOut
  <2>1. orphans' \subseteq {"orphan"} \X Nat \X Nat
    BY <1>0, <1>3 DEF MergeAgentTimesOut, Mark
  <2> QED
    BY <1>3, <1>m, <2>1 DEF MergeAgentTimesOut, Left, End
<1>4. CASE RunGate
  <2>1. tree' \in {tree, tree \cup {Mark("tests")}}
    BY <1>4 DEF RunGate, TestsWrite
  <2>2. Left' = Left /\ Mark("reviewer") \notin Left'
    BY <1>0, <1>4, <2>1, OtherMark DEF RunGate, Kinds
  <2>3. orphans' \subseteq {"orphan"} \X Nat \X Nat
    BY <1>0, <1>4 DEF RunGate, TestsLeftRunning, Mark
  <2>4. UNCHANGED <<run, round, head>>
        /\ pc' \in {"git_commit", "next_round", "done"}
    BY <1>4 DEF RunGate, End
  <2> QED
    BY <1>m, <2>2, <2>3, <2>4
<1>5. CASE NothingToCommit \/ GitCommitFails \/ GitPush \/ GitPushFails
  BY <1>5, <1>m DEF NothingToCommit, GitCommitFails, GitPush, GitPushFails, Left, Stops,
                    End
<1>6. CASE GitCommit
  <2>1. Left' \subseteq Left
    BY <1>6 DEF GitCommit, Left
  <2> QED
    BY <1>6, <1>m, <2>1 DEF GitCommit
<1> QED
  BY <1>1, <1>2, <1>3, <1>4, <1>5, <1>6 DEF Merging, Committing

(* A new start makes every write one of an earlier run.                    *)
LEMMA AroundWrites ==
  ASSUME TypeOK, FindingsInv, WritesInv,
         NextRound \/ EndMaxRounds \/ OrphanEdits \/ Killed \/ StartAgain
  PROVE  WritesInv'
<1> USE DEF WritesInv, mainVars, gitVars, roundVars, otherVars, historyVars
<1>0. run \in Nat /\ round \in Nat
  BY DEF TypeOK
<1>m. run' = run /\ round' = round => Mark("reviewer")' = Mark("reviewer")
  BY DEF Mark
<1>1. CASE NextRound
  <2>1. run' = run /\ round' = round + 1 /\ pc' = "collect_diff"
        /\ UNCHANGED <<tree, head, orphans>>
    BY <1>1 DEF NextRound, Counted
  <2>2. Left' = Left /\ \A m \in Left : m[2] < run
    BY <1>1, <2>1 DEF NextRound, Left
  <2>3. Mark("reviewer")' \in Of({"reviewer"}) /\ Mark("reviewer")'[2] = run
    <3>1. Mark("reviewer")' = <<"reviewer", run, round + 1>>
      BY <2>1 DEF Mark
    <3>2. <<"reviewer", run, round + 1>> \in Marks \ Changes
      BY <1>0, LoopAssumption DEF Marks, Kinds
    <3> QED
      BY <3>1, <3>2 DEF Of
  <2>4. Mark("reviewer")' \notin Left'
    BY <1>0, <2>1, <2>2, <2>3
  <2> QED
    BY <2>1, <2>2, <2>4
<1>2. CASE EndMaxRounds
  BY <1>2, <1>m DEF EndMaxRounds, Left, Stops, End
<1>3. CASE OrphanEdits
  <2>1. PICK o \in orphans : tree' = tree \cup {o}
    BY <1>3 DEF OrphanEdits
  <2>2. o \notin Of({"reviewer"}) /\ o # Mark("reviewer")
    BY DEF Of, Mark
  <2>3. Left' = Left
    BY <1>3, <2>1, <2>2 DEF OrphanEdits, Left
  <2> QED
    BY <1>3, <1>m, <2>3 DEF OrphanEdits
<1>4. CASE Killed
  <2>1. orphans' \subseteq {"orphan"} \X Nat \X Nat
    BY <1>0, <1>4 DEF Killed, TestsLeftRunning, Mark
  <2>2. exit_code' \notin {0, 7, 11} /\ pc' = "done"
        /\ UNCHANGED <<run, round, Left>>
    BY <1>4 DEF Killed, Left, End, SIGTERM
  <2> QED
    BY <1>m, <2>1, <2>2
<1>5. CASE StartAgain
  <2>1. run' = run + 1 /\ pc' = "main" /\ exit_code' = Running
        /\ UNCHANGED <<Left, orphans>>
    BY <1>5 DEF StartAgain, Left
  <2>2. \A m \in Left : m[2] < run + 1
    BY <1>0, ReviewerMark DEF Left, Of, Marks
  <2>3. Mark("reviewer")' \in Of({"reviewer"}) /\ Mark("reviewer")'[2] = run + 1
    <3>1. Mark("reviewer")' = <<"reviewer", run + 1, 1>>
      BY <1>5 DEF Mark, StartAgain
    <3>2. <<"reviewer", run + 1, 1>> \in Marks \ Changes
      BY <1>0, LoopAssumption DEF Marks, Kinds
    <3> QED
      BY <3>1, <3>2 DEF Of
  <2>4. Mark("reviewer")' \notin Left'
    BY <1>0, <2>1, <2>2, <2>3
  <2> QED
    BY <2>1, <2>2, <2>4
<1> QED
  BY <1>1, <1>2, <1>3, <1>4, <1>5

(* No step breaks the invariant on the reviewers' writes.                  *)
LEMMA StepWrites ==
  ASSUME TypeOK, FindingsInv, WritesInv, [Next]_vars
  PROVE  WritesInv'
<1>1. CASE Next
  BY <1>1, ReviewingWrites, DecidingWrites, RepairWrites, AroundWrites
     DEF Next, LoopStep, Reviewing
<1>2. CASE UNCHANGED vars
  BY <1>2 DEF WritesInv, Left, vars, mainVars, gitVars, roundVars, otherVars, historyVars,
              Mark
<1> QED
  BY <1>1, <1>2

(* The invariant keeps what a reviewer left uncommitted out of repairs.    *)
LEMMA WritesSuffice == TypeOK /\ WritesInv => ReviewerWritesStop
<1> SUFFICES ASSUME TypeOK, WritesInv, NEW r \in 1..round,
                    <<"reviewer", run, r>> \in tree \ head
             PROVE  pc \notin Repairing /\ exit_code \notin {0, 7, 11}
  BY DEF ReviewerWritesStop
<1> DEFINE w == <<"reviewer", run, r>>
<1>1. run \in Nat /\ round \in Nat /\ r \in Nat
  BY DEF TypeOK
<1>2. w \in Left /\ w[2] = run
  <2>1. w \in Marks \ Changes
    BY <1>1, LoopAssumption DEF Marks, Kinds
  <2> QED
    BY <2>1 DEF Left, Of
<1>3. w = Mark("reviewer")
  BY <1>1, <1>2 DEF WritesInv
<1> QED
  BY <1>2, <1>3 DEF WritesInv, Repairing

(* What a reviewer wrote and did not commit itself is never repaired on,   *)
(* gated, committed or pushed by the loop, or called clean, in the run it  *)
(* was written in.                                                         *)
THEOREM ReviewerWritesCorrect == Spec => []ReviewerWritesStop
<1>1. Init => TypeOK /\ FindingsInv /\ WritesInv
  BY InitType, InitFindings, InitWrites
<1>2. TypeOK /\ FindingsInv /\ WritesInv /\ [Next]_vars
        => TypeOK' /\ FindingsInv' /\ WritesInv'
  BY StepType, StepFindings, StepWrites
<1>3. TypeOK /\ WritesInv => ReviewerWritesStop
  BY WritesSuffice
<1> QED
  BY <1>1, <1>2, <1>3, PTL DEF Spec

-----------------------------------------------------------------------------
(* Exit 0, and what is reviewed *)

(* Only the two clean ends return 0, and only a diff the scrubber passed   *)
(* goes on to the reviewers.                                               *)
LEMMA StepClean ==
  ASSUME TypeOK, FindingsInv, CleanInv, [Next]_vars
  PROVE  CleanInv'
<1> USE DEF CleanInv, FindingsInv, Running, missing, mainVars, gitVars, roundVars,
            otherVars, historyVars
<1>1. CASE NoBackend \/ NoRounds \/ FirstRound \/ CollectRaises
  <2>1. pc' \in {"done", "collect_diff"}
    BY <1>1 DEF NoBackend, NoRounds, FirstRound, CollectRaises, End
  <2>2. exit_code' \in {Running, 1, 6}
    BY <1>1 DEF NoBackend, NoRounds, FirstRound, CollectRaises, End, Traceback
  <2> QED
    BY <2>1, <2>2
<1>2. CASE CollectDiff
  <2>1. exit_code' = 0 => shown' = {}
    BY <1>2 DEF CollectDiff, End
  <2>2. pc' = "run_preflight" => scrubber' = 0
    BY <1>2 DEF CollectDiff, End, Passed
  <2>3. pc' # "launch_reviewers"
    BY <1>2 DEF CollectDiff, End
  <2> QED
    BY <2>1, <2>2, <2>3
<1>3. CASE RunPreflight \/ PreflightRaises \/ Reviewing \/ TamperReport
  <2>1. CASE RunPreflight
    <3>1. /\ pc = "run_preflight" /\ pc' = "launch_reviewers"
          /\ UNCHANGED <<exit_code, scrubber, found, shown, answered>>
      BY <2>1 DEF RunPreflight
    <3> QED
      BY <3>1
  <2>2. CASE PreflightRaises \/ TamperReport
    <3>1. /\ pc' \in {"done", "decide"} /\ exit_code' \in {exit_code, 1}
          /\ UNCHANGED <<scrubber, found, shown, answered, round>>
      BY <2>2 DEF PreflightRaises, TamperReport, End, Traceback
    <3> QED
      BY <3>1
  <2>3. CASE ReviewerWrites \/ ReviewerStages \/ ReviewerCommits
    BY <2>3 DEF ReviewerWrites, ReviewerStages, ReviewerCommits
  <2>4. CASE ReviewersFinish \/ LaunchRaises
    BY <2>4 DEF ReviewersFinish, LaunchRaises, End, Traceback
  <2> QED
    BY <1>3, <2>1, <2>2, <2>3, <2>4 DEF Reviewing
<1>4. CASE EndConverged
  BY <1>4 DEF EndConverged, Clean, Incomplete, Stops, End
<1>5. CASE EndTampered \/ EndNoResults \/ EndTouched \/ EndIncomplete
           \/ FingerprintRaises \/ EndStuck \/ EndReportOnly \/ ProceedToFixes
  BY <1>5 DEF EndTampered, EndNoResults, EndTouched, EndIncomplete, FingerprintRaises,
              EndStuck, EndReportOnly, ProceedToFixes, Stops, End, Traceback
<1>6. CASE Merging
  BY <1>6 DEF Merging, NoMergeAgent, StartMergeAgent, MergeAgentEdits,
              MergeAgentSucceeds, MergeAgentFails, MergeAgentTimesOut, Stops, End
<1>7. CASE RunGate \/ Committing
  BY <1>7 DEF RunGate, Committing, NothingToCommit, GitCommit, GitCommitFails,
              GitPush, GitPushFails, Stops, End
<1>8. CASE NextRound \/ EndMaxRounds \/ StartAgain
  <2>1. pc' \in {"collect_diff", "done", "main"} /\ exit_code' \in {Running, 6}
    BY <1>8 DEF NextRound, EndMaxRounds, StartAgain, Stops, End
  <2> QED
    BY <2>1
<1>9. CASE OrphanEdits \/ Killed
  BY <1>9 DEF OrphanEdits, Killed, End, SIGTERM
<1>10. CASE UNCHANGED vars
  BY <1>10 DEF vars
<1> QED
  BY <1>1, <1>2, <1>3, <1>4, <1>5, <1>6, <1>7, <1>8, <1>9, <1>10
     DEF Next, LoopStep, Deciding

(* Together the invariants say what exit 0 means.                          *)
LEMMA CleanSuffices == TypeOK /\ FindingsInv /\ WritesInv /\ CleanInv => ConvergedIsCleanBill
  BY ReviewerMark DEF TypeOK, WritesInv, CleanInv, ConvergedIsCleanBill, Converged, Left

(* A run begins with no exit code, and before any diff.                    *)
LEMMA InitClean == Init => CleanInv
  BY DEF Init, CleanInv, Running

(* The inductive invariants hold of every run of the loop.                 *)
LEMMA LoopInvariant == Spec => [](TypeOK /\ FindingsInv /\ WritesInv /\ CleanInv)
<1>1. Init => TypeOK /\ FindingsInv /\ WritesInv /\ CleanInv
  BY InitType, InitFindings, InitWrites, InitClean
<1>2. TypeOK /\ FindingsInv /\ WritesInv /\ CleanInv /\ [Next]_vars
        => TypeOK' /\ FindingsInv' /\ WritesInv' /\ CleanInv'
  BY StepType, StepFindings, StepWrites, StepClean
<1> QED
  BY <1>1, <1>2, PTL DEF Spec

(* Exit 0 with reviewers asked means every slot answered in that round,    *)
(* nothing blocked, and no reviewer of it left a write uncommitted.        *)
THEOREM CleanBillCorrect == Spec => []ConvergedIsCleanBill
  BY LoopInvariant, CleanSuffices, PTL

(* Only the reviewers' answers, and a new start, change what was seen.     *)
LEMMA StepSeen ==
  ASSUME TypeOK, CleanInv, [Next]_vars
  PROVE  seen' # seen /\ run' = run => scrubber = 0
<1> USE DEF mainVars, gitVars, roundVars, otherVars, historyVars
<1>1. CASE ReviewersFinish
  BY <1>1 DEF ReviewersFinish, CleanInv
<1>2. CASE StartAgain
  BY <1>2 DEF StartAgain, TypeOK
<1>3. CASE NoBackend \/ NoRounds \/ FirstRound \/ CollectRaises \/ CollectDiff
           \/ RunPreflight \/ PreflightRaises \/ ReviewerWrites \/ ReviewerStages
           \/ ReviewerCommits \/ LaunchRaises \/ TamperReport
  BY <1>3 DEF NoBackend, NoRounds, FirstRound, CollectRaises, CollectDiff, RunPreflight,
              PreflightRaises, ReviewerWrites, ReviewerStages, ReviewerCommits,
              LaunchRaises, TamperReport
<1>4. CASE Deciding
  BY <1>4 DEF Deciding, EndTampered, EndNoResults, EndTouched, EndIncomplete,
              EndConverged, FingerprintRaises, EndStuck, EndReportOnly, ProceedToFixes,
              Stops
<1>5. CASE Merging \/ RunGate \/ Committing
  BY <1>5 DEF Merging, NoMergeAgent, StartMergeAgent, MergeAgentEdits,
              MergeAgentSucceeds, MergeAgentFails, MergeAgentTimesOut, RunGate,
              Committing, NothingToCommit, GitCommit, GitCommitFails, GitPush,
              GitPushFails, Stops
<1>6. CASE NextRound \/ EndMaxRounds \/ OrphanEdits \/ Killed
  BY <1>6 DEF NextRound, EndMaxRounds, OrphanEdits, Killed, Stops
<1>7. CASE UNCHANGED vars
  BY <1>7 DEF vars
<1> QED
  BY <1>1, <1>2, <1>3, <1>4, <1>5, <1>6, <1>7 DEF Next, LoopStep, Reviewing

(* No reviewer is shown a diff the scrubber did not pass whole.            *)
THEOREM ScrubbedCorrect == Spec => OnlyScrubbedIsSeen
<1>1. TypeOK /\ CleanInv /\ [Next]_vars
        => [seen' # seen /\ run' = run => scrubber = 0]_vars
  BY StepSeen
<1> QED
  BY <1>1, LoopInvariant, PTL DEF Spec, OnlyScrubbedIsSeen
=============================================================================
