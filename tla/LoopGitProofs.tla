---------------------------- MODULE LoopGitProofs ----------------------------
(***************************************************************************)
(* Proofs about what the loop commits, pushes and reports: what a push     *)
(* adds was gated and reviewed, --report-only changes nothing, and a diff  *)
(* is the whole change.                                                    *)
(***************************************************************************)
EXTENDS LoopProofs

(* The actions that neither write nor push, and do not come to git.        *)
Quiet ==
  \/ NoBackend \/ NoRounds \/ FirstRound \/ CollectRaises
  \/ ReviewersFinish \/ LaunchRaises \/ TamperReport \/ Deciding
  \/ NoMergeAgent \/ StartMergeAgent \/ MergeAgentSucceeds \/ MergeAgentFails
  \/ MergeAgentTimesOut \/ EndMaxRounds \/ Killed

(* The actions that may write to the tree before the loop's commit.        *)
Writing ==
  CollectDiff \/ RunPreflight \/ PreflightRaises \/ ReviewerWrites \/ MergeAgentEdits

(* A reviewer that runs git.                                               *)
ReviewerGit == ReviewerStages \/ ReviewerCommits

(* Every step is of one of these groups.                                   *)
LEMMA Groups ==
  ASSUME [Next]_vars
  PROVE  \/ Quiet \/ Writing \/ ReviewerGit \/ OrphanEdits \/ RunGate \/ Committing
         \/ NextRound \/ StartAgain \/ UNCHANGED vars
  BY DEF Next, LoopStep, Reviewing, Merging, Quiet, Writing, ReviewerGit

(* The quiet actions leave git and the tree alone.                         *)
LEMMA QuietLeaves ==
  ASSUME Quiet
  PROVE  /\ UNCHANGED <<mainVars, gitVars, shown, began, collected, gated>>
         /\ pc' \in {"done", "collect_diff", "tamper_report", "decide",
                     "apply_fixes", "merging", "run_gate"}
<1> USE DEF mainVars, gitVars, roundVars, otherVars, historyVars
<1>1. CASE NoBackend \/ NoRounds \/ FirstRound \/ CollectRaises
           \/ LaunchRaises \/ ReviewersFinish \/ TamperReport
  BY <1>1 DEF NoBackend, NoRounds, FirstRound, CollectRaises, ReviewersFinish,
              LaunchRaises, TamperReport, End
<1>2. CASE Deciding
  BY <1>2 DEF Deciding, EndTampered, EndNoResults, EndTouched, EndIncomplete,
              EndConverged, FingerprintRaises, EndStuck, EndReportOnly, ProceedToFixes,
              Stops, End
<1>3. CASE NoMergeAgent \/ StartMergeAgent \/ MergeAgentSucceeds \/ MergeAgentFails
           \/ MergeAgentTimesOut \/ EndMaxRounds \/ Killed
  BY <1>3 DEF NoMergeAgent, StartMergeAgent, MergeAgentSucceeds, MergeAgentFails,
              MergeAgentTimesOut, EndMaxRounds, Killed, Stops, End
<1> QED
  BY <1>1, <1>2, <1>3 DEF Quiet

(* A writing action adds one mark, and is not followed by a commit.        *)
LEMMA WritingAdds ==
  ASSUME Writing
  PROVE  /\ \E kind \in {"packet", "tests", "reviewer", "fix"} :
              tree' \in {tree, tree \cup {Mark(kind)}}
         /\ UNCHANGED <<mainVars, staged, head, parent, upstream, began, gated>>
         /\ pc' \in {"run_preflight", "launch_reviewers", "merging", "done"}
  BY DEF Writing, CollectDiff, RunPreflight, PreflightRaises, ReviewerWrites,
         MergeAgentEdits, TestsWrite, End, mainVars, roundVars, otherVars, historyVars

(* A reviewer's git stages and commits what is in the tree, and no more.   *)
LEMMA ReviewerGitAdds ==
  ASSUME ReviewerGit
  PROVE  /\ UNCHANGED <<mainVars, pc, exit_code, tree, upstream, roundVars, otherVars,
                        historyVars>>
         /\ pc = "launch_reviewers"
         /\ head' \subseteq head \cup staged \cup tree
         /\ staged' \subseteq staged \cup tree
  BY DEF ReviewerGit, ReviewerStages, ReviewerCommits

(* What an ended run left writes marks of its own.                         *)
LEMMA OrphanAdds ==
  ASSUME TypeOK, WritesInv, OrphanEdits
  PROVE  /\ \E o \in Of({"orphan"}) : tree' = tree \cup {o}
         /\ UNCHANGED <<mainVars, pc, exit_code, staged, head, parent, upstream,
                        roundVars, otherVars, historyVars>>
<1>1. PICK o \in orphans : tree' = tree \cup {o}
  BY DEF OrphanEdits
<1>2. o \in {"orphan"} \X Nat \X Nat /\ o \in Marks
  BY DEF TypeOK, WritesInv
<1>3. o \notin Changes
  BY <1>2, LoopAssumption DEF Kinds
<1>4. o \in Of({"orphan"})
  BY <1>2, <1>3 DEF Of
<1> QED
  BY <1>1, <1>4 DEF OrphanEdits

(* The tests' mark, and the round's own, are what their names say.         *)
LEMMA WriterMarks ==
  ASSUME TypeOK, NEW kind \in Kinds
  PROVE  Mark(kind) \in Of({kind})
<1>1. run \in Nat /\ round \in Nat
  BY DEF TypeOK
<1>2. Mark(kind) \in Kinds \X Nat \X Nat /\ Mark(kind)[1] = kind
  BY <1>1 DEF Mark
<1>3. Mark(kind) \notin Changes
  BY <1>2, LoopAssumption
<1> QED
  BY <1>2, <1>3 DEF Of, Marks

-----------------------------------------------------------------------------
(* What is pushed was gated *)

(* The gate's verdict stays true of the tree until the push.               *)
LEMMA StepGate ==
  ASSUME TypeOK, WritesInv, GateInv, [Next]_vars
  PROVE  GateInv'
<1> USE DEF GateInv, mainVars, gitVars
<1>1. CASE Quiet
  BY <1>1, QuietLeaves
<1>2. CASE Writing
  BY <1>2, WritingAdds
<1>3. CASE OrphanEdits
  <2>1. PICK o \in Of({"orphan"}) : tree' = tree \cup {o}
    BY <1>3, OrphanAdds
  <2>2. o \in Of({"tests", "orphan"})
    BY DEF Of
  <2>3. UNCHANGED <<pc, staged, head, gate, gated>>
    BY <1>3 DEF OrphanEdits, roundVars, historyVars
  <2> QED
    BY <2>1, <2>2, <2>3 DEF Of
<1>4. CASE RunGate
  <2>1. Mark("tests") \in Of({"tests", "orphan"})
    BY WriterMarks DEF Kinds, Of
  <2>2. tree' \in {tree, tree \cup {Mark("tests")}} /\ gated' = tree
    BY <1>4 DEF RunGate, TestsWrite
  <2>3. pc' \in {"git_commit", "git_push"} => gate' = "passed"
    BY <1>4 DEF RunGate, End
  <2>4. UNCHANGED <<staged, head>>
    BY <1>4 DEF RunGate
  <2> QED
    BY <2>1, <2>2, <2>3, <2>4 DEF Of
<1>5. CASE Committing
  <2>1. UNCHANGED <<tree, gate, gated>> /\ head' \subseteq tree /\ staged' \subseteq tree
    BY <1>5 DEF Committing, NothingToCommit, GitCommit, GitCommitFails, GitPush,
                GitPushFails, Stops, End, roundVars, historyVars
  <2>2. pc \in {"git_commit", "git_push"}
    BY <1>5 DEF Committing, NothingToCommit, GitCommit, GitCommitFails, GitPush,
                GitPushFails
  <2> QED
    BY <2>1, <2>2 DEF Of
<1>6. CASE NextRound \/ StartAgain
  <2>1. UNCHANGED <<tree, staged, head>> /\ pc' \in {"collect_diff", "main"}
    BY <1>6 DEF NextRound, StartAgain
  <2> QED
    BY <2>1
<1>7. CASE ReviewerGit
  BY <1>7, ReviewerGitAdds
<1>8. CASE UNCHANGED vars
  BY <1>8 DEF vars, roundVars, historyVars, Of
<1> QED
  BY <1>1, <1>2, <1>3, <1>4, <1>5, <1>6, <1>7, <1>8, Groups

(* The user's changes in git are in the tree.                              *)
LEMMA InitGate == Init => GateInv
  BY DEF Init, GateInv

(* Only git push changes what was pushed, and it pushes HEAD.              *)
LEMMA OnlyPushPushes ==
  ASSUME [Next]_vars, upstream' # upstream
  PROVE  GitPush /\ pc = "git_push" /\ upstream' = head
<1> USE DEF mainVars, gitVars, vars
<1>1. CASE Quiet \/ Writing \/ ReviewerGit
  BY <1>1, QuietLeaves, WritingAdds, ReviewerGitAdds
<1>2. CASE OrphanEdits \/ RunGate \/ NextRound \/ StartAgain
  BY <1>2 DEF OrphanEdits, RunGate, NextRound, StartAgain
<1>3. CASE Committing
  BY <1>3 DEF Committing, NothingToCommit, GitCommit, GitCommitFails, GitPush,
              GitPushFails, Stops
<1> QED
  BY <1>1, <1>2, <1>3, Groups

(* What holds of every run of the loop, with what git has.                 *)
LEMMA GitInvariant == Spec => [](TypeOK /\ FindingsInv /\ WritesInv /\ GateInv)
<1>1. TypeOK /\ WritesInv /\ GateInv /\ [Next]_vars => GateInv'
  BY StepGate
<1> QED
  BY InitGate, <1>1, LoopInvariant, PTL DEF Spec

(* Whatever a push adds was in the tree when this round's gate passed, but *)
(* for what its tests wrote and what an ended run left running wrote.      *)
THEOREM GatedCorrect == Spec => PushedWasGated
<1>1. TypeOK /\ GateInv /\ [Next]_vars
        => [upstream' # upstream =>
              /\ gate = "passed"
              /\ (upstream' \ upstream) \ Of({"tests", "orphan"}) \subseteq gated]_vars
  <2> SUFFICES ASSUME TypeOK, GateInv, [Next]_vars, upstream' # upstream
               PROVE  /\ gate = "passed"
                      /\ (upstream' \ upstream) \ Of({"tests", "orphan"}) \subseteq gated
    OBVIOUS
  <2>1. pc = "git_push" /\ upstream' = head
    BY OnlyPushPushes
  <2> QED
    BY <2>1 DEF GateInv
<1> QED
  BY <1>1, GitInvariant, PTL DEF Spec, PushedWasGated

-----------------------------------------------------------------------------
(* What is pushed was reviewed *)

(* A mark the rounds' own files, the tests or what an ended run left       *)
(* running wrote is one nobody has to review.                              *)
LEMMA Unreviewed ==
  ASSUME TypeOK
  PROVE  /\ Mark("packet") \in Of({"tests", "orphan", "packet"})
         /\ Mark("tests") \in Of({"tests", "orphan", "packet"})
         /\ Of({"orphan"}) \subseteq Of({"tests", "orphan", "packet"})
  BY WriterMarks DEF Kinds, Of

(* A diff against a merge base shows all that is not pushed.               *)
LEMMA DiffIsWhole ==
  ASSUME setup.merge_base
  PROVE  tree \ upstream \subseteq InputDiff
<1>1. CASE setup.base = "default" /\ tree = Base
  BY <1>1 DEF Base
<1>2. CASE ~(setup.base = "default" /\ tree = Base)
  BY <1>2 DEF InputDiff, Base
<1> QED
  BY <1>1, <1>2

(* Up to the decision, what is not in the diff came from a reviewer.       *)
LEMMA WritingSeen ==
  ASSUME TypeOK, SeenInv, Writing
  PROVE  SeenInv'
<1> SUFFICES ASSUME setup.merge_base PROVE SeenInv'
  BY WritingAdds DEF SeenInv, mainVars
<1> USE DEF SeenInv, Unpushed, mainVars, roundVars, historyVars
<1>m. UNCHANGED <<setup, run, round>>
  BY WritingAdds
<1>1. CASE CollectDiff
  <2>1. /\ tree' \in {tree, tree \cup {Mark("packet")}} /\ upstream' = upstream
        /\ shown' = InputDiff /\ pc' \in {"run_preflight", "done"}
    BY <1>1 DEF CollectDiff, End
  <2> QED
    BY <1>m, <2>1, Unreviewed, DiffIsWhole DEF Of
<1>2. CASE RunPreflight \/ PreflightRaises
  <2>1. /\ tree' \in {tree, tree \cup {Mark("tests")}}
        /\ UNCHANGED <<upstream, shown, blocking, seen>>
        /\ pc = "run_preflight" /\ pc' \in {"launch_reviewers", "done"}
    BY <1>2 DEF RunPreflight, PreflightRaises, TestsWrite, End
  <2>2. Unpushed' = Unpushed
    BY <2>1, Unreviewed DEF Of
  <2> QED
    BY <1>m, <2>1, <2>2
<1>3. CASE ReviewerWrites
  <2>1. Mark("reviewer")' = Mark("reviewer")
    BY <1>m DEF Mark
  <2> QED
    BY <1>3, <2>1 DEF ReviewerWrites, Of
<1>4. CASE MergeAgentEdits
  <2>1. Mark("fix")' = Mark("fix") /\ Mark("reviewer")' = Mark("reviewer")
    BY <1>m DEF Mark
  <2> QED
    BY <1>4, <2>1 DEF MergeAgentEdits, Of
<1> QED
  BY <1>1, <1>2, <1>3, <1>4 DEF Writing

(* The decision to repair is made on a diff some slot answered with        *)
(* findings.                                                               *)
LEMMA QuietSeen ==
  ASSUME TypeOK, SeenInv, Quiet
  PROVE  SeenInv'
<1> SUFFICES ASSUME setup.merge_base PROVE SeenInv'
  BY QuietLeaves DEF SeenInv, mainVars
<1> USE DEF mainVars, gitVars, roundVars, otherVars, historyVars
<1>m. /\ UNCHANGED <<setup, run, round, tree, upstream, shown>>
      /\ Unpushed' = Unpushed
      /\ Mark("reviewer")' = Mark("reviewer") /\ Mark("fix")' = Mark("fix")
  BY QuietLeaves DEF Mark, Unpushed, Of
<1>1. CASE ReviewersFinish
  <2>1. /\ pc = "launch_reviewers" /\ pc' = "tamper_report"
        /\ blocking' # {} => seen' = seen \cup shown
    BY <1>1 DEF ReviewersFinish
  <2> QED
    BY <1>m, <2>1 DEF SeenInv
<1>2. CASE TamperReport
  BY <1>2, <1>m DEF TamperReport, SeenInv
<1>3. CASE ProceedToFixes
  <2>1. /\ pc = "decide" /\ pc' = "apply_fixes" /\ UNCHANGED <<blocking, seen>>
        /\ blocking # {}
    BY <1>3 DEF ProceedToFixes, Blocked
  <2>2. Unpushed \subseteq shown \cup {Mark("reviewer")} /\ shown \subseteq seen
    BY <2>1 DEF SeenInv
  <2> QED
    BY <1>m, <2>1, <2>2 DEF SeenInv
<1>4. CASE StartMergeAgent \/ MergeAgentSucceeds
  BY <1>4, <1>m DEF StartMergeAgent, MergeAgentSucceeds, SeenInv
<1>5. CASE ~(ReviewersFinish \/ TamperReport \/ ProceedToFixes \/ StartMergeAgent
             \/ MergeAgentSucceeds)
  <2>1. pc' \in {"done", "collect_diff"}
    BY <1>5 DEF Quiet, Deciding, NoBackend, NoRounds, FirstRound, CollectRaises,
                LaunchRaises, EndTampered, EndNoResults, EndTouched, EndIncomplete,
                EndConverged, FingerprintRaises, EndStuck, EndReportOnly, NoMergeAgent,
                MergeAgentFails, MergeAgentTimesOut, EndMaxRounds, Killed, Stops, End
  <2> QED
    BY <2>1 DEF SeenInv
<1> QED
  BY <1>1, <1>2, <1>3, <1>4, <1>5

(* No step leaves something unseen to be pushed.                           *)
LEMMA StepSeenInv ==
  ASSUME TypeOK, WritesInv, GateInv, SeenInv, [Next]_vars
  PROVE  SeenInv'
<1> USE DEF mainVars, gitVars, roundVars, otherVars, historyVars
<1>1. CASE Quiet
  BY <1>1, QuietSeen
<1>2. CASE Writing
  BY <1>2, WritingSeen
<1>3. CASE OrphanEdits
  <2>1. PICK o \in Of({"orphan"}) : tree' = tree \cup {o}
    BY <1>3, OrphanAdds
  <2>2. UNCHANGED <<setup, run, round, pc, upstream, shown, blocking, seen>>
    BY <1>3 DEF OrphanEdits
  <2>3. Unpushed' = Unpushed /\ Mark("reviewer")' = Mark("reviewer")
        /\ Mark("fix")' = Mark("fix")
    BY <2>1, <2>2, Unreviewed DEF Unpushed, Of, Mark
  <2> QED
    BY <2>2, <2>3 DEF SeenInv
<1>4. CASE RunGate
  <2>1. /\ tree' \in {tree, tree \cup {Mark("tests")}}
        /\ UNCHANGED <<setup, run, round, upstream, seen>>
        /\ pc = "run_gate" /\ pc' \in {"git_commit", "next_round", "done"}
    BY <1>4 DEF RunGate, TestsWrite, End
  <2>2. /\ Unpushed' = Unpushed
        /\ Mark("fix")' = Mark("fix") /\ Mark("reviewer")' = Mark("reviewer")
    BY <2>1, Unreviewed DEF Unpushed, Of, Mark
  <2> QED
    BY <2>1, <2>2 DEF SeenInv
<1>5. CASE Committing
  <2>1. /\ UNCHANGED <<setup, run, round, tree, seen>>
        /\ upstream' = upstream \/ pc' = "next_round"
        /\ pc \in {"git_commit", "git_push"} /\ pc' \in {"git_push", "next_round", "done"}
    BY <1>5 DEF Committing, NothingToCommit, GitCommit, GitCommitFails, GitPush,
                GitPushFails, Stops, End
  <2>2. Mark("fix")' = Mark("fix") /\ Mark("reviewer")' = Mark("reviewer")
    BY <2>1 DEF Mark
  <2> QED
    BY <2>1, <2>2 DEF SeenInv, Unpushed, Of
<1>6. CASE NextRound \/ StartAgain
  <2>1. pc' \in {"collect_diff", "main"}
    BY <1>6 DEF NextRound, StartAgain
  <2> QED
    BY <2>1 DEF SeenInv
<1>7. CASE ReviewerGit
  BY <1>7, ReviewerGitAdds DEF SeenInv, Unpushed, Of, Mark
<1>8. CASE UNCHANGED vars
  BY <1>8 DEF vars, SeenInv, Unpushed, Of, Mark
<1> QED
  BY <1>1, <1>2, <1>3, <1>4, <1>5, <1>6, <1>7, <1>8, Groups

(* Nothing has come to a diff.                                             *)
LEMMA InitSeen == Init => SeenInv
  BY DEF Init, SeenInv

(* A run keeps its command line and its repository.                        *)
LEMMA SetupStays ==
  ASSUME [Next]_vars
  PROVE  setup' = setup
<1> USE DEF mainVars, gitVars, vars
<1>1. CASE Quiet \/ Writing \/ ReviewerGit
  BY <1>1, QuietLeaves, WritingAdds, ReviewerGitAdds
<1>2. CASE OrphanEdits \/ RunGate \/ NextRound \/ StartAgain
  BY <1>2 DEF OrphanEdits, RunGate, NextRound, StartAgain
<1>3. CASE Committing
  BY <1>3 DEF Committing, NothingToCommit, GitCommit, GitCommitFails, GitPush,
              GitPushFails, Stops
<1> QED
  BY <1>1, <1>2, <1>3, Groups

(* With a merge base, whatever a push adds was in a diff a reviewer        *)
(* answered, is this round's fix, was committed by its reviewers           *)
(* themselves, or is a write nobody reviews: the tests', the rounds' own   *)
(* files, and what an ended run left running.                              *)
(* Without one the diff is taken against HEAD~1, and what was committed    *)
(* before that is pushed unseen.                                           *)
THEOREM ReviewedCorrect == Spec => (setup.merge_base => PushedWasReviewed)
<1>1. TypeOK /\ WritesInv /\ GateInv /\ SeenInv /\ [Next]_vars => SeenInv'
  BY StepSeenInv
<1>2. setup.merge_base /\ [Next]_vars => (setup.merge_base)'
  BY SetupStays
<1>3. GateInv /\ SeenInv /\ setup.merge_base /\ [Next]_vars
        => [upstream' # upstream =>
              (upstream' \ upstream) \ Of({"tests", "orphan", "packet"})
                \subseteq seen \cup {Mark("fix"), Mark("reviewer")}]_vars
  <2> SUFFICES ASSUME GateInv, SeenInv, [Next]_vars, setup.merge_base,
                      upstream' # upstream
               PROVE  (upstream' \ upstream) \ Of({"tests", "orphan", "packet"})
                        \subseteq seen \cup {Mark("fix"), Mark("reviewer")}
    OBVIOUS
  <2>1. pc = "git_push" /\ upstream' = head /\ head \subseteq tree
    BY OnlyPushPushes DEF GateInv
  <2> QED
    BY <2>1 DEF SeenInv, Unpushed
<1> QED
  BY InitSeen, <1>1, <1>2, <1>3, GitInvariant, PTL DEF Spec, PushedWasReviewed

-----------------------------------------------------------------------------
(* --report-only *)

(* A report has no second round: its first is not stuck, for the run began *)
(* with no findings, and it is not repaired.                               *)
LEMMA StepReport ==
  ASSUME TypeOK, FindingsInv, ReportInv, [Next]_vars
  PROVE  ReportInv'
<1> SUFFICES ASSUME setup.report_only
             PROVE  round' = 1 /\ pc' \notin Repairing /\ exit_code' \notin {2, 3, 4, 5}
  BY SetupStays DEF ReportInv
<1>0. round = 1 /\ pc \notin Repairing /\ exit_code \notin {2, 3, 4, 5}
  BY DEF ReportInv
<1>1. previous_fp = {}
  BY <1>0 DEF FindingsInv
<1> USE DEF Repairing, mainVars, roundVars, otherVars, historyVars
<1>2. CASE Quiet
  <2>1. round' = 1
    BY <1>0, <1>2, QuietLeaves
  <2>2. CASE Deciding
    BY <1>0, <1>1, <2>2 DEF Deciding, EndTampered, EndNoResults, EndTouched, EndIncomplete,
       EndConverged, FingerprintRaises, EndStuck, EndReportOnly, ProceedToFixes, Blocked,
       Stuck, MayFix, Stops, End, Traceback
  <2>3. CASE TamperReport
    BY <1>0, <2>3 DEF TamperReport
  <2>4. CASE ~Deciding /\ ~TamperReport
    BY <1>0, <1>2, <2>4 DEF Quiet, NoBackend, NoRounds, FirstRound, CollectRaises,
       ReviewersFinish, LaunchRaises, NoMergeAgent, StartMergeAgent,
       MergeAgentSucceeds, MergeAgentFails, MergeAgentTimesOut, EndMaxRounds, Killed,
       Stops, End, Traceback, SIGTERM
  <2> QED
    BY <2>1, <2>2, <2>3, <2>4
<1>3. CASE Writing \/ ReviewerGit
  BY <1>0, <1>3, ReviewerGitAdds DEF Writing, CollectDiff, RunPreflight,
     PreflightRaises, ReviewerWrites, MergeAgentEdits, End, Traceback
<1>4. CASE RunGate \/ Committing \/ NextRound
  BY <1>0, <1>4 DEF RunGate, Committing, NothingToCommit, GitCommit, GitCommitFails,
     GitPush, GitPushFails, NextRound
<1>5. CASE OrphanEdits \/ UNCHANGED vars
  BY <1>0, <1>5 DEF OrphanEdits, vars
<1>6. CASE StartAgain
  <2>1. round' = 1 /\ pc' = "main" /\ exit_code' = -1
    BY <1>6 DEF StartAgain, Running
  <2> QED
    BY <2>1
<1> QED
  BY <1>2, <1>3, <1>4, <1>5, <1>6, Groups

(* No round has begun.                                                     *)
LEMMA InitReport == Init => ReportInv
  BY DEF Init, ReportInv, Repairing, Running

(* With --report-only the tree has only what reviewers, tests, what is     *)
(* left running and the round's files wrote.                               *)
LEMMA ReportWrites ==
  ASSUME TypeOK, WritesInv, ReportInv, setup.report_only, [Next]_vars
  PROVE  /\ tree' \ tree \subseteq Of({"reviewer", "tests", "orphan", "packet"})
         /\ UNCHANGED upstream
         /\ head' # head => pc = "launch_reviewers"
<1> USE DEF mainVars, gitVars
<1>0. pc \notin Repairing
  BY DEF ReportInv
<1>1. CASE Quiet
  BY <1>1, QuietLeaves
<1>2. CASE Writing
  <2>1. /\ Mark("packet") \in Of({"reviewer", "tests", "orphan", "packet"})
        /\ Mark("tests") \in Of({"reviewer", "tests", "orphan", "packet"})
        /\ Mark("reviewer") \in Of({"reviewer", "tests", "orphan", "packet"})
    BY WriterMarks DEF Kinds, Of
  <2>2. tree' \in {tree, tree \cup {Mark("packet")}, tree \cup {Mark("tests")},
                   tree \cup {Mark("reviewer")}}
    BY <1>0, <1>2 DEF Writing, CollectDiff, RunPreflight, PreflightRaises,
       ReviewerWrites, MergeAgentEdits, TestsWrite, Repairing
  <2>3. UNCHANGED <<head, upstream>>
    BY <1>2, WritingAdds
  <2> QED
    BY <2>1, <2>2, <2>3
<1>3. CASE OrphanEdits
  <2>1. PICK o \in Of({"orphan"}) : tree' = tree \cup {o}
    BY <1>3, OrphanAdds
  <2>2. UNCHANGED <<head, upstream>>
    BY <1>3 DEF OrphanEdits
  <2> QED
    BY <2>1, <2>2 DEF Of
<1>4. CASE RunGate \/ Committing \/ NextRound
  BY <1>0, <1>4 DEF Repairing, RunGate, Committing, NothingToCommit, GitCommit,
     GitCommitFails, GitPush, GitPushFails, NextRound
<1>5. CASE ReviewerGit
  BY <1>5, ReviewerGitAdds
<1>6. CASE StartAgain \/ UNCHANGED vars
  BY <1>6 DEF StartAgain, vars
<1> QED
  BY <1>1, <1>2, <1>3, <1>4, <1>5, <1>6, Groups

(* --report-only: whatever the reviewers say, the loop commits, pushes and *)
(* repairs nothing, and one round is all there is.  Only the reviewers     *)
(* themselves, while they run, may have committed.                         *)
THEOREM ReportOnlyCorrect == Spec => ReportOnlyChangesNothing
<1>1. TypeOK /\ FindingsInv /\ ReportInv /\ [Next]_vars => ReportInv'
  BY StepReport
<1>2. TypeOK /\ FindingsInv /\ WritesInv /\ ReportInv /\ [Next]_vars
        => [setup.report_only =>
              /\ tree' \ tree \subseteq Of({"reviewer", "tests", "orphan", "packet"})
              /\ UNCHANGED upstream
              /\ head' # head => pc = "launch_reviewers"
              /\ round' = 1 /\ exit_code' \notin {2, 3, 4, 5}]_vars
  BY StepReport, ReportWrites, SetupStays DEF ReportInv
<1> QED
  BY InitReport, <1>1, <1>2, GitInvariant, PTL DEF Spec, ReportOnlyChangesNothing

-----------------------------------------------------------------------------
(* The diff is the whole change *)

(* The base and the diff taken against it change together.                 *)
LEMMA StepCover ==
  ASSUME CoverInv, NamedInv, [Next]_vars
  PROVE  CoverInv' /\ NamedInv'
<1> SUFFICES ASSUME setup.merge_base PROVE CoverInv' /\ NamedInv'
  BY SetupStays DEF CoverInv, NamedInv, BaseStays
<1> USE DEF CoverInv, NamedInv, BaseStays, Base, mainVars, gitVars, roundVars, historyVars
<1>m. setup' = setup
  BY SetupStays
<1>1. CASE Quiet
  BY <1>1, QuietLeaves
<1>2. CASE CollectDiff
  <2>1. /\ UNCHANGED <<upstream, began>> /\ collected' = tree /\ shown' = InputDiff
        /\ pc' \notin {"git_commit", "git_push"}
    BY <1>2 DEF CollectDiff, End
  <2>2. tree \ Base \subseteq InputDiff
    BY DEF InputDiff
  <2>3. setup.base # "default" => InputDiff = tree
    BY DEF InputDiff
  <2> QED
    BY <1>m, <2>1, <2>2, <2>3
<1>3. CASE Writing /\ ~CollectDiff
  <2>1. UNCHANGED <<collected, shown>>
    BY <1>3 DEF Writing, RunPreflight, PreflightRaises, ReviewerWrites, MergeAgentEdits
  <2> QED
    BY <1>m, <1>3, <2>1, WritingAdds
<1>4. CASE RunGate
  BY <1>m, <1>4 DEF RunGate, End
<1>5. CASE Committing
  <2>1. /\ UNCHANGED <<collected, shown, began>> /\ pc \in {"git_commit", "git_push"}
        /\ upstream' = upstream \/ pc = "git_push"
    BY <1>5 DEF Committing, NothingToCommit, GitCommit, GitCommitFails, GitPush,
       GitPushFails, Stops
  <2> QED
    BY <1>m, <2>1
<1>6. CASE NextRound
  BY <1>6 DEF NextRound, NewRound
<1>7. CASE StartAgain
  <2>1. /\ UNCHANGED upstream /\ collected' = {} /\ shown' = {} /\ pc' = "main"
        /\ began' = Base
    BY <1>7 DEF StartAgain, NewRound
  <2> QED
    BY <1>m, <2>1
<1>8. CASE OrphanEdits \/ UNCHANGED vars
  BY <1>8 DEF OrphanEdits, vars
<1>9. CASE ReviewerGit
  BY <1>9, ReviewerGitAdds
<1> QED
  BY <1>1, <1>2, <1>3, <1>4, <1>5, <1>6, <1>7, <1>8, <1>9, Groups DEF Writing

(* Nothing has been collected.                                             *)
LEMMA InitCover == Init => CoverInv /\ NamedInv
  BY DEF Init, CoverInv, NamedInv

(* Exit 0 is said of a diff that shows all the run's change, where there   *)
(* is a merge base and the run's own pushes do not move the base.          *)
THEOREM CoverCorrect ==
  Spec => [](setup.merge_base /\ BaseStays => ConvergedCoversChange)
<1>1. CoverInv /\ NamedInv /\ [Next]_vars => CoverInv' /\ NamedInv'
  BY StepCover
<1>2. CoverInv => (setup.merge_base /\ BaseStays => ConvergedCoversChange)
  BY DEF CoverInv, ConvergedCoversChange
<1> QED
  BY InitCover, <1>1, <1>2, PTL DEF Spec

(* Where it has a merge base, a named base is what every round's diff is   *)
(* taken against: no round falls back to HEAD~1.                           *)
THEOREM NamedBaseCorrect == Spec => [](setup.merge_base => NamedBaseIsKept)
<1>1. CoverInv /\ NamedInv /\ [Next]_vars => CoverInv' /\ NamedInv'
  BY StepCover
<1>2. NamedInv => (setup.merge_base => NamedBaseIsKept)
  BY DEF NamedInv, NamedBaseIsKept
<1> QED
  BY InitCover, <1>1, <1>2, PTL DEF Spec
=============================================================================
