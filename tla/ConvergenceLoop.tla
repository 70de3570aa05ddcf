--------------------------- MODULE ConvergenceLoop ---------------------------
(***************************************************************************)
(* scripts/review_until_converged.py: main and _run_one_round, with what   *)
(* each round calls -- collect_diff, run_preflight, launch_reviewers, the  *)
(* tamper check, the merge agent, the gate, and git.                       *)
(*                                                                         *)
(* The repository's content is a set of MARKS: one for each change its     *)
(* user made, and one for each write by a reviewer, the project's tests, a *)
(* merge agent or the round itself.  A mark says who wrote, in which run   *)
(* and round; what was written does not matter to any property.            *)
(***************************************************************************)
EXTENDS Integers, FiniteSets

CONSTANTS
  Slots,       \* the reviewer slots, one per lens (1..4 in the code)
  Keys,        \* findings' identities: FindingKey, a (file, issue) pair
  Changes,     \* the user's changes, as marks
  Setups,      \* the command lines and repositories a run may meet
  MaxRounds,   \* bound: the largest --max-rounds
  MaxRuns,     \* bound: how often the operator starts the loop
  MaxKills     \* bound: how often it is killed from outside

(* A command line and a repository: the flags, the base's state, whether   *)
(* HEAD is the branch origin/main tracks, whether a merge base with the    *)
(* base exists (a missing origin/main, unrelated histories and a criss-    *)
(* cross merge have none), whether the project's tests write to the tree,  *)
(* whether it ignores data/reviews, where the rounds' files go, and        *)
(* whether a slot has tools that run git.                                  *)
SetupType ==
  [max_rounds : 0..MaxRounds, report_only : BOOLEAN, auto_commit : BOOLEAN,
   base : {"default", "named", "unresolved"}, trunk : BOOLEAN,
   merge_base : BOOLEAN, tests_write : BOOLEAN, packets_ignored : BOOLEAN,
   claude : BOOLEAN, hermes : BOOLEAN, git_tools : BOOLEAN]

(* What somebody other than the user writes, in a run and a round.         *)
Kinds == {"packet", "reviewer", "tests", "fix", "orphan"}

ASSUME LoopAssumption ==
  /\ Slots # {} /\ IsFiniteSet(Slots)
  /\ Setups \subseteq SetupType
  /\ MaxRounds \in Nat /\ MaxRuns \in Nat \ {0} /\ MaxKills \in Nat
  /\ \A s \in Setups : s.base = "unresolved" => ~s.merge_base
  /\ \A c \in Changes : c \notin Kinds \X Nat \X Nat

VARIABLES
  setup,
  run, round,     \* which start of the loop this is; round_num
  pc,             \* the call in progress
  exit_code,      \* Running, or what main returned
  previous_fp,
  tree,           \* the working tree
  staged,         \* what the user had staged and not committed
  head, parent,   \* HEAD and HEAD~1
  upstream,       \* what was pushed to the checked-out branch
  shown,          \* the round's diff.patch
  scrubber,       \* the scrubber's return code
  untouched,      \* tamper.snapshot before the reviewers: a Status
  touched,        \* tamper.report is not empty
  answered,       \* slots with a result
  blocking,       \* fingerprint(collect_blocking_findings(results))
  gate,           \* the round's gate: not run, passed or failed
  orphans,        \* merge agents and tests no loop waits for any more
  kills

(* History, for the properties only. *)
VARIABLES
  began,      \* the base when this run started
  collected,  \* the tree as the round's diff was taken
  seen,       \* what this run's diffs showed a slot that answered
  found,      \* per round of this run, its blocking findings
  gated       \* the tree the round's gate started on

gitVars    == <<tree, staged, head, parent, upstream>>
roundVars  == <<shown, scrubber, untouched, touched, answered, blocking, gate>>
mainVars   == <<setup, run, round, previous_fp>>
otherVars  == <<orphans, kills>>
historyVars == <<began, collected, seen, found, gated>>
vars == <<mainVars, pc, exit_code, gitVars, roundVars, otherVars, historyVars>>

Running == -1
(* What git has no line for: nothing is changed, nothing is staged.        *)
NoStatus == [listed |-> {}, staged |-> {}]

(* An exception nobody catches ends Python with 1; a signal, with 128 + n. *)
Traceback == 1
SIGTERM   == 15
SCRUBBER_ABORTED == 2

Mark(kind) == <<kind, run, round>>
Marks == Changes \cup (Kinds \X Nat \X Nat)

(* The base of the round's diff: origin/main, which follows what is pushed *)
(* when HEAD is the trunk; else, and for a named base, the point where all *)
(* the changes began.                                                      *)
Base == IF setup.trunk /\ setup.base = "default" THEN upstream ELSE {}

End(code) ==
  /\ exit_code' = code
  /\ pc' = "done"

NewRound ==
  /\ shown' = {} /\ scrubber' = 0 /\ untouched' = NoStatus /\ touched' = FALSE
  /\ answered' = {} /\ blocking' = {}
  /\ gate' = "none" /\ gated' = {} /\ collected' = {}

Init ==
  /\ setup \in Setups
  /\ run = 1 /\ round = 1 /\ pc = "main" /\ exit_code = Running
  /\ previous_fp = {}
  /\ tree \in SUBSET Changes
  /\ head \in SUBSET tree /\ staged \in SUBSET (tree \ head)
  /\ parent \in SUBSET head
  /\ upstream \in {{}, parent, head}
  /\ shown = {} /\ scrubber = 0 /\ untouched = NoStatus /\ touched = FALSE
  /\ answered = {} /\ blocking = {} /\ gate = "none"
  /\ orphans = {} /\ kills = 0
  /\ began = Base /\ collected = {} /\ gated = {}
  /\ seen = {}
  /\ found = [r \in 0..MaxRounds |-> {}]

-----------------------------------------------------------------------------
(* main, up to its loop *)

NoBackend ==
  /\ pc = "main" /\ ~setup.claude /\ ~setup.hermes
  /\ End(1)
  /\ UNCHANGED <<mainVars, gitVars, roundVars, otherVars, historyVars>>

NoRounds ==
  /\ pc = "main" /\ (setup.claude \/ setup.hermes) /\ setup.max_rounds = 0
  /\ End(6)
  /\ UNCHANGED <<mainVars, gitVars, roundVars, otherVars, historyVars>>

FirstRound ==
  /\ pc = "main" /\ (setup.claude \/ setup.hermes) /\ setup.max_rounds > 0
  /\ pc' = "collect_diff"
  /\ UNCHANGED <<mainVars, exit_code, gitVars, roundVars, otherVars, historyVars>>

-----------------------------------------------------------------------------
(* collect_diff *)

(* Plausible bugs: git diff HEAD, and a diff without the untracked files.  *)
InputDiffOfHead == tree \ head
InputDiffOfTracked == (tree \cap (head \cup staged)) \ Base

(* Against the base; against HEAD~1 when there is no merge base, or when   *)
(* the default base differs in nothing.                                    *)
InputDiff ==
  IF ~setup.merge_base \/ (setup.base = "default" /\ tree = Base)
  THEN tree \ parent
  ELSE tree \ Base

(* A base that names nothing, or a git that fails. *)
CollectRaises ==
  /\ pc = "collect_diff"
  /\ End(Traceback)
  /\ UNCHANGED <<mainVars, gitVars, roundVars, otherVars, historyVars>>

(* A plausible bug: the base is not looked up first. *)
BaseUnchecked == TRUE

BaseResolves == setup.base # "unresolved"

(* A plausible bug: only the codes the scrubber documents are looked at.   *)
PassedUnlessReported(returncode) == returncode \notin {1, SCRUBBER_ABORTED}

(* What the scrubber's return code is taken to say.                        *)
Aborted(returncode)  == returncode = SCRUBBER_ABORTED
Redacted(returncode) == returncode \notin {0, SCRUBBER_ABORTED}
Passed(returncode)   == returncode = 0

(* The scrubber returns 0, 1 if it redacted a line, 2 if it failed, and    *)
(* minus a signal's number if it was killed.  What it wrote is the round's *)
(* first file in the tree.                                                 *)
CollectDiff ==
  /\ pc = "collect_diff"
  /\ BaseResolves
  /\ shown' = InputDiff
  /\ collected' = tree
  /\ tree' = IF setup.packets_ignored THEN tree ELSE tree \cup {Mark("packet")}
  /\ \E returncode \in {0, 1, 2, -9} :
       /\ scrubber' = returncode
       /\ \/ Aborted(returncode) /\ End(9)
          \/ Redacted(returncode) /\ End(8)
          \/ Passed(returncode) /\ InputDiff = {} /\ End(0)
          \/ /\ Passed(returncode) /\ InputDiff # {}
             /\ pc' = "run_preflight"
             /\ UNCHANGED exit_code
  /\ UNCHANGED <<mainVars, staged, head, parent, upstream, untouched, touched,
                 answered, blocking, gate, otherVars, began, seen,
                 found, gated>>

-----------------------------------------------------------------------------
(* run_preflight, whose coverage step runs the project's tests, and the    *)
(* snapshot straight after it                                              *)

TestsWrite ==
  \E wrote \in BOOLEAN :
    /\ wrote => setup.tests_write
    /\ tree' = IF wrote THEN tree \cup {Mark("tests")} ELSE tree

TestsLeftRunning ==
  orphans' \in {orphans} \cup IF setup.tests_write
                             THEN {orphans \cup {Mark("orphan")}} ELSE {}

(* What a snapshot holds of a tree: git status has a line for what is not  *)
(* as HEAD has it, and the line says whether it is staged.  The round's    *)
(* own directory is left out of it.                                        *)
Status(files) ==
  [listed |-> files \ (head \cup {Mark("packet")}),
   staged |-> staged \ (head \cup {Mark("packet")})]

RunPreflight ==
  /\ pc = "run_preflight"
  /\ TestsWrite
  /\ untouched' = Status(tree')
  /\ pc' = "launch_reviewers"
  /\ UNCHANGED <<mainVars, exit_code, staged, head, parent, upstream,
                 shown, scrubber, touched, answered, blocking, gate,
                 otherVars, historyVars>>

(* No audit JSON, one that cannot be scrubbed, or the timeout: its session *)
(* is killed, but not a test that started a session of its own.            *)
PreflightRaises ==
  /\ pc = "run_preflight"
  /\ TestsWrite
  /\ TestsLeftRunning
  /\ End(Traceback)
  /\ UNCHANGED <<mainVars, staged, head, parent, upstream, roundVars,
                 kills, historyVars>>

-----------------------------------------------------------------------------
(* launch_reviewers, tamper.report, extract_results *)

ReviewerWrites ==
  /\ pc = "launch_reviewers"
  /\ tree' = tree \cup {Mark("reviewer")}
  /\ UNCHANGED <<mainVars, pc, exit_code, staged, head, parent, upstream,
                 roundVars, otherVars, historyVars>>

(* Its own write, as git add of a path does, or all there is: git add -A.  *)
ReviewerStages ==
  /\ pc = "launch_reviewers" /\ setup.git_tools
  /\ \E added \in {tree, tree \cap {Mark("reviewer")}} :
       staged' = staged \cup (added \ head)
  /\ UNCHANGED <<mainVars, pc, exit_code, tree, head, parent, upstream,
                 roundVars, otherVars, historyVars>>

(* What is staged, or its own write alone: git commit, git commit <path>.  *)
ReviewerCommits ==
  /\ pc = "launch_reviewers" /\ setup.git_tools
  /\ \E committed \in {staged, tree \cap {Mark("reviewer")}} :
       /\ ~(committed \subseteq head)
       /\ head' = head \cup committed
       /\ staged' = staged \ committed
  /\ parent' = head
  /\ UNCHANGED <<mainVars, pc, exit_code, tree, upstream, roundVars, otherVars,
                 historyVars>>

(* Any slots answer -- none when the outputs could not be published -- with *)
(* any findings.                                                            *)
ReviewersFinish ==
  /\ pc = "launch_reviewers"
  /\ pc' = "tamper_report"
  /\ answered' \in SUBSET Slots
  /\ blocking' \in SUBSET Keys
  /\ answered' = {} => blocking' = {}
  /\ seen' = IF answered' = {} THEN seen ELSE seen \cup shown
  /\ found' = [found EXCEPT ![round] = blocking']
  /\ UNCHANGED <<mainVars, exit_code, gitVars, shown, scrubber, untouched,
                 touched, gate, otherVars, began, collected, gated>>

LaunchRaises ==
  /\ pc = "launch_reviewers"
  /\ End(Traceback)
  /\ UNCHANGED <<mainVars, gitVars, roundVars, otherVars, historyVars>>

(* A write outside the tree -- a hook, a startup file, a program -- and a  *)
(* git status that fails are reported as well.                             *)
TamperReport ==
  /\ pc = "tamper_report"
  /\ touched' \in {TRUE, Status(tree) # untouched}
  /\ pc' = "decide"
  /\ UNCHANGED <<mainVars, exit_code, gitVars, shown, scrubber, untouched,
                 answered, blocking, gate, otherVars, historyVars>>

-----------------------------------------------------------------------------
(* The decision, in the order _run_one_round takes it *)

missing == Slots \ answered

Stops(code) ==
  /\ End(code)
  /\ UNCHANGED <<mainVars, gitVars, roundVars, otherVars, historyVars>>

(* Plausible bugs: a touched tree stops only a round that would converge,  *)
(* and a slot counts as missing only when none answered.                   *)
TamperedIfClean == touched /\ ~setup.report_only /\ blocking = {}
IncompleteIfNone == answered = {}

Incomplete == missing # {}
Tampered   == touched /\ ~setup.report_only
NoResults  == ~Tampered /\ answered = {} /\ ~touched
Clean      == ~Tampered /\ ~NoResults /\ blocking = {}
Blocked    == ~Tampered /\ ~NoResults /\ blocking # {}

EndTampered   == pc = "decide" /\ Tampered  /\ Stops(12)
EndNoResults  == pc = "decide" /\ NoResults /\ Stops(7)
EndTouched    == pc = "decide" /\ Clean /\ touched /\ Stops(12)
EndIncomplete == pc = "decide" /\ Clean /\ ~touched /\ Incomplete /\ Stops(11)
EndConverged  == pc = "decide" /\ Clean /\ ~touched /\ ~Incomplete /\ Stops(0)

(* A finding whose file or issue is a list or an object cannot be hashed:  *)
(* fingerprint raises TypeError.                                           *)
FingerprintRaises == pc = "decide" /\ Blocked /\ Stops(Traceback)

(* A plausible bug: nothing new is taken for the same. *)
NothingNew == blocking \subseteq previous_fp

Stuck == blocking = previous_fp

EndStuck == pc = "decide" /\ Blocked /\ Stuck /\ Stops(2)

EndReportOnly ==
  /\ pc = "decide" /\ Blocked /\ ~Stuck
  /\ setup.report_only
  /\ Stops(10)

(* A plausible bug: --report-only holds back commits only. *)
MayAlwaysFix == TRUE

MayFix == ~setup.report_only

ProceedToFixes ==
  /\ pc = "decide" /\ Blocked /\ ~Stuck
  /\ MayFix
  /\ pc' = "apply_fixes"
  /\ UNCHANGED <<mainVars, exit_code, gitVars, roundVars, otherVars, historyVars>>

-----------------------------------------------------------------------------
(* apply_fixes: the merge agent is a process of its own *)

NoMergeAgent == pc = "apply_fixes" /\ ~setup.claude /\ Stops(3)

StartMergeAgent ==
  /\ pc = "apply_fixes" /\ setup.claude
  /\ pc' = "merging"
  /\ UNCHANGED <<mainVars, exit_code, gitVars, roundVars, otherVars, historyVars>>

MergeAgentEdits ==
  /\ pc = "merging"
  /\ tree' = tree \cup {Mark("fix")}
  /\ UNCHANGED <<mainVars, pc, exit_code, staged, head, parent, upstream,
                 roundVars, otherVars, historyVars>>

(* A plausible bug: the gate is left to the commit's own hooks. *)
MergeAgentSucceedsUngated ==
  /\ pc = "merging"
  /\ pc' = IF setup.auto_commit THEN "git_commit" ELSE "run_gate"
  /\ UNCHANGED <<mainVars, exit_code, gitVars, roundVars, otherVars, historyVars>>

(* Exit status 0 is success, whatever it printed. *)
MergeAgentSucceeds ==
  /\ pc = "merging"
  /\ pc' = "run_gate"
  /\ UNCHANGED <<mainVars, exit_code, gitVars, roundVars, otherVars, historyVars>>

MergeAgentFails == pc = "merging" /\ Stops(3)

(* MERGE_TIMEOUT: proc.kill ends the process it started, not what that     *)
(* process started.                                                        *)
MergeAgentTimesOut ==
  /\ pc = "merging"
  /\ orphans' \in {orphans, orphans \cup {Mark("orphan")}}
  /\ End(3)
  /\ UNCHANGED <<mainVars, gitVars, roundVars, kills, historyVars>>

(* Left running, an agent or a test writes when it likes. *)
OrphanEdits ==
  /\ \E o \in orphans : tree' = tree \cup {o}
  /\ UNCHANGED <<mainVars, pc, exit_code, staged, head, parent, upstream,
                 roundVars, otherVars, historyVars>>

-----------------------------------------------------------------------------
(* run_gate *)

(* A step that times out fails; one whose program is not installed is      *)
(* skipped, so the gate passes when no step fails.  A timeout kills the    *)
(* step's process, not what it started.                                    *)
RunGate ==
  /\ pc = "run_gate"
  /\ gated' = tree
  /\ TestsWrite
  /\ \/ /\ gate' = "failed"
        /\ End(4)
        /\ TestsLeftRunning
     \/ /\ gate' = "passed"
        /\ pc' = IF setup.auto_commit THEN "git_commit" ELSE "next_round"
        /\ UNCHANGED <<exit_code, orphans>>
  /\ UNCHANGED <<mainVars, staged, head, parent, upstream, shown, scrubber,
                 untouched, touched, answered, blocking,
                 kills, began, collected, seen, found>>

-----------------------------------------------------------------------------
(* commit_and_push *)

NothingToCommit ==
  /\ pc = "git_commit" /\ tree = head
  /\ pc' = "next_round"
  /\ UNCHANGED <<mainVars, exit_code, gitVars, roundVars, otherVars, historyVars>>

(* "git add -A"'s failure is not looked at: what was already staged is     *)
(* then all that is committed.                                             *)
GitCommit ==
  /\ pc = "git_commit" /\ tree # head
  /\ \E added \in {tree, head \cup staged} :
       /\ added # head
       /\ head' = added
  /\ parent' = head
  /\ staged' = {}
  /\ pc' = "git_push"
  /\ UNCHANGED <<mainVars, exit_code, tree, upstream, roundVars, otherVars,
                 historyVars>>

(* What was added stays staged. *)
GitCommitFails ==
  /\ pc = "git_commit" /\ tree # head
  /\ staged' \in {staged, tree \ head}
  /\ End(5)
  /\ UNCHANGED <<mainVars, tree, head, parent, upstream, roundVars, otherVars,
                 historyVars>>

GitPush ==
  /\ pc = "git_push"
  /\ upstream' = head
  /\ pc' = "next_round"
  /\ UNCHANGED <<mainVars, exit_code, tree, staged, head, parent, roundVars,
                 otherVars, historyVars>>

GitPushFails == pc = "git_push" /\ Stops(5)

-----------------------------------------------------------------------------
(* main's loop *)

(* Plausible bugs: one round too many, and rounds that are not counted.    *)
RoundsLeftInclusive == round <= setup.max_rounds
Uncounted == round

RoundsLeft == round < setup.max_rounds
Counted == round + 1

NextRound ==
  /\ pc = "next_round" /\ RoundsLeft
  /\ round' = Counted
  /\ previous_fp' = blocking
  /\ pc' = "collect_diff"
  /\ NewRound
  /\ UNCHANGED <<setup, run, exit_code, gitVars, otherVars, began, seen, found>>

(* A plausible bug: the loop falls through to main's success. *)
EndMaxRoundsWell == pc = "next_round" /\ ~RoundsLeft /\ Stops(0)

EndMaxRounds == pc = "next_round" /\ ~RoundsLeft /\ Stops(6)

(* SIGTERM: launch_reviewers and the preflight unwind, and anywhere else   *)
(* Python just ends, and the merge agent or the gate's tests run on.       *)
Killed ==
  /\ pc # "done" /\ kills < MaxKills
  /\ kills' = kills + 1
  /\ \/ pc = "merging" /\ orphans' = orphans \cup {Mark("orphan")}
     \/ pc \in {"run_preflight", "run_gate"} /\ TestsLeftRunning
     \/ pc \notin {"run_preflight", "merging", "run_gate"} /\ UNCHANGED orphans
  /\ End(128 + SIGTERM)
  /\ UNCHANGED <<mainVars, gitVars, roundVars, historyVars>>

(* The operator starts the loop again on the tree as it was left. *)
StartAgain ==
  /\ pc = "done" /\ run < MaxRuns
  /\ run' = run + 1 /\ round' = 1 /\ previous_fp' = {}
  /\ pc' = "main" /\ exit_code' = Running
  /\ began' = Base
  /\ seen' = {}
  /\ found' = [r \in 0..MaxRounds |-> {}]
  /\ NewRound
  /\ UNCHANGED <<setup, gitVars, otherVars>>

Reviewing ==
  \/ ReviewerWrites \/ ReviewerStages \/ ReviewerCommits
  \/ ReviewersFinish \/ LaunchRaises
Deciding ==
  \/ EndTampered \/ EndNoResults \/ EndTouched \/ EndIncomplete \/ EndConverged
  \/ FingerprintRaises \/ EndStuck \/ EndReportOnly \/ ProceedToFixes
Merging ==
  \/ NoMergeAgent \/ StartMergeAgent \/ MergeAgentEdits
  \/ MergeAgentSucceeds \/ MergeAgentFails \/ MergeAgentTimesOut
Committing ==
  \/ NothingToCommit \/ GitCommit \/ GitCommitFails \/ GitPush \/ GitPushFails

LoopStep ==
  \/ NoBackend \/ NoRounds \/ FirstRound
  \/ CollectRaises \/ CollectDiff \/ RunPreflight \/ PreflightRaises
  \/ Reviewing \/ TamperReport \/ Deciding \/ Merging \/ RunGate \/ Committing
  \/ NextRound \/ EndMaxRounds

Next == LoopStep \/ OrphanEdits \/ Killed \/ StartAgain

Spec == Init /\ [][Next]_vars

(* The loop's calls return: reviewers, merge agent, preflight and gate run *)
(* under deadlines.                                                        *)
FairSpec == Spec /\ WF_vars(LoopStep)
=============================================================================
