--------------------------- MODULE LoopProperties ---------------------------
(***************************************************************************)
(* What the convergence loop must do, stated over ConvergenceLoop's        *)
(* variables.                                                              *)
(***************************************************************************)
EXTENDS ConvergenceLoop

Pcs ==
  {"main", "collect_diff", "run_preflight", "launch_reviewers", "tamper_report",
   "decide", "apply_fixes", "merging", "run_gate", "git_commit", "git_push",
   "next_round", "done"}

ExitCodes == {Running, 0, 1, 2, 3, 4, 5, 6, 7, 8, 9, 10, 11, 12, 128 + SIGTERM}

(* Every variable holds a value of its kind. *)
TypeOK ==
  /\ setup \in Setups
  /\ run \in Nat /\ round \in Nat /\ (round = 1 \/ round \in 1..setup.max_rounds)
  /\ pc \in Pcs /\ exit_code \in ExitCodes
  /\ previous_fp \in SUBSET Keys
  /\ tree \in SUBSET Marks /\ staged \in SUBSET Marks
  /\ head \in SUBSET Marks /\ parent \in SUBSET Marks /\ upstream \in SUBSET Marks
  /\ shown \in SUBSET Marks /\ scrubber \in {0, 1, 2, -9}
  /\ untouched \in [listed : SUBSET Marks, staged : SUBSET Marks]
  /\ touched \in BOOLEAN
  /\ answered \in SUBSET Slots /\ blocking \in SUBSET Keys
  /\ gate \in {"none", "passed", "failed"}
  /\ orphans \in SUBSET Marks /\ kills \in Nat
  /\ began \in SUBSET Marks /\ collected \in SUBSET Marks /\ gated \in SUBSET Marks
  /\ seen \in SUBSET Marks
  /\ found \in [0..MaxRounds -> SUBSET Keys]

Of(kinds) == {m \in Marks \ Changes : m[1] \in kinds}
Converged == exit_code = 0

(* Exit 0 says that no blocking finding remains in the change, so the      *)
(* round that converged was shown all of it: what the run began with       *)
(* beyond its base, and whatever the rounds before it added.  A part that  *)
(* is not in the last diff is a part whose findings nobody asked for.      *)
ConvergedCoversChange == Converged => collected \ began \subseteq shown

(* The same, of a last round that found everything pushed to its base.     *)
ConvergedCoversPushed ==
  Converged /\ collected = upstream => collected \ began \subseteq shown

(* Exit 0, with reviewers asked, is a round in which every slot answered,  *)
(* nothing blocked and no reviewer of it left a write in the tree without  *)
(* committing it: a write, a lost answer and a blocking finding each end   *)
(* it otherwise.                                                           *)
ConvergedIsCleanBill ==
  Converged /\ shown # {} /\ scrubber = 0 =>
    /\ missing = {} /\ found[round] = {}
    /\ <<"reviewer", run, round>> \notin tree \ head

Repairing == {"apply_fixes", "merging", "run_gate", "git_commit", "git_push",
              "next_round"}

(* In fix mode, what a reviewer of this run wrote and did not commit       *)
(* itself, staged or not, is never built on: not given to a merge agent or *)
(* the gate, not there for the loop to commit and push, and not called     *)
(* clean, incomplete or unanswered.  Of one it did commit this is not so:  *)
(* neither snapshot has a line for it, and the loop goes on.               *)
ReviewerWritesStop ==
  \A r \in 1..round : <<"reviewer", run, r>> \in tree \ head =>
    /\ pc \notin Repairing
    /\ exit_code \notin {0, 7, 11}

(* Everything a push adds was in the tree when this round's gate passed,   *)
(* except what the tests wrote while it ran and what a process left behind *)
(* by an ended run wrote since.                                            *)
PushedWasGated ==
  [][upstream' # upstream =>
       /\ gate = "passed"
       /\ (upstream' \ upstream) \ Of({"tests", "orphan"}) \subseteq gated]_vars

(* Everything a push adds was shown to a reviewer that answered, is this   *)
(* round's fix, or was committed by this round's reviewers themselves --   *)
(* except the tests' and an ended run's writes, and the rounds' own files. *)
PushedWasReviewed ==
  [][upstream' # upstream =>
       (upstream' \ upstream) \ Of({"tests", "orphan", "packet"})
         \subseteq seen \cup {Mark("fix"), Mark("reviewer")}]_vars

(* Stuck means two rounds running of this run, the merge agent and the     *)
(* gate between them, with the same blocking findings; and the same set of *)
(* findings is never given to a merge agent twice running.                 *)
StuckIsRepeat ==
  /\ exit_code = 2 => round > 1 /\ found[round] = found[round - 1] /\ found[round] # {}
  /\ pc \in {"apply_fixes", "merging", "run_gate"} =>
       found[round] # {} /\ found[round] # found[round - 1]

(* --report-only: the loop itself changes nothing -- not the tree, which   *)
(* only reviewers, tests, what an ended run left and the round's own files *)
(* change, not HEAD, which only reviewers do while they run, and not the   *)
(* remote -- and it ends in one round.                                     *)
ReportOnlyChangesNothing ==
  [][setup.report_only =>
       /\ tree' \ tree \subseteq Of({"reviewer", "tests", "orphan", "packet"})
       /\ UNCHANGED upstream
       /\ head' # head => pc = "launch_reviewers"
       /\ round' = 1 /\ exit_code' \notin {2, 3, 4, 5}]_vars

(* A diff the scrubber did not pass whole is never reviewed: not a         *)
(* redacted one, not a truncated one, not one whose scrubber was killed.   *)
OnlyScrubbedIsSeen == [][seen' # seen /\ run' = run => scrubber = 0]_vars

(* A base somebody named is what the round is taken against, never HEAD~1. *)
NamedBaseIsKept ==
  pc \in {"launch_reviewers", "tamper_report", "decide"} /\ setup.base # "default"
    => shown = collected

-----------------------------------------------------------------------------
(* What the properties rest on: the inductive invariants of their proofs   *)
(* (LoopProofs).                                                           *)

(* The fingerprint carried from round to round is the last round's own     *)
(* findings, and nothing stuck is repaired.                                *)
FindingsInv ==
  /\ pc # "done" => exit_code = Running
  /\ pc \notin {"main", "done"} => round \in 1..setup.max_rounds
  /\ found[0] = {} /\ previous_fp = found[round - 1]
  /\ pc \in {"tamper_report", "decide"} \cup Repairing => found[round] = blocking
  /\ pc \in Repairing => blocking # {} /\ blocking # previous_fp
  /\ exit_code = 2 => found[round] = previous_fp /\ previous_fp # {}

(* A write a reviewer of this run did not commit is of this round, is not  *)
(* in the snapshot taken before, and is seen in the one taken after.       *)
Left == (tree \ head) \cap Of({"reviewer"})

WritesInv ==
  /\ orphans \subseteq {"orphan"} \X Nat \X Nat
  /\ \A m \in Left : m[2] < run \/ m = Mark("reviewer")
  /\ pc \in {"launch_reviewers", "tamper_report"} =>
       Mark("reviewer") \notin untouched.listed
  /\ Mark("reviewer") \in Left =>
       /\ pc \in {"launch_reviewers", "tamper_report", "decide", "done"}
       /\ pc = "decide" => touched
       /\ exit_code \notin {0, 7, 11}

(* What the two kinds of exit 0 leave behind, and what the reviewers are   *)
(* launched on.                                                            *)
CleanInv ==
  /\ exit_code = 0 /\ shown # {} /\ scrubber = 0 => missing = {} /\ found[round] = {}
  /\ pc \in {"run_preflight", "launch_reviewers"} => scrubber = 0

(* What git has is in the tree, and what is about to be committed or was   *)
(* just committed passed the gate, but for what came while it ran or from  *)
(* what is left over.                                                      *)
GateInv ==
  /\ head \subseteq tree /\ staged \subseteq tree
  /\ pc \in {"git_commit", "git_push"} =>
       gate = "passed" /\ tree \ Of({"tests", "orphan"}) \subseteq gated

(* With a merge base, all that a push could add was in the round's diff,   *)
(* or came since: from the reviewers, or as a fix.                         *)
Unpushed == (tree \ upstream) \ Of({"tests", "orphan", "packet"})

SeenInv ==
  setup.merge_base =>
    /\ pc = "run_preflight" => Unpushed \subseteq shown
    /\ pc \in {"launch_reviewers", "tamper_report", "decide"} =>
         Unpushed \subseteq shown \cup {Mark("reviewer")}
    /\ pc \in {"tamper_report", "decide"} /\ blocking # {} => shown \subseteq seen
    /\ pc \in {"apply_fixes", "merging", "run_gate", "git_commit", "git_push"} =>
         Unpushed \subseteq seen \cup {Mark("fix"), Mark("reviewer")}

(* With --report-only there is one round, and no repair of it.             *)
ReportInv ==
  setup.report_only => round = 1 /\ pc \notin Repairing /\ exit_code \notin {2, 3, 4, 5}

(* The command lines and repositories where exit 0 speaks of all the       *)
(* change: the base has a merge base with HEAD, and is not moved by the    *)
(* run's own pushes.                                                       *)
BaseStays == setup.trunk /\ setup.base = "default" => ~setup.auto_commit

(* There, the base stays what it was when the run began, and a diff is the *)
(* whole of what was collected beyond it.                                  *)
CoverInv ==
  setup.merge_base /\ BaseStays =>
    /\ began = Base
    /\ pc \in {"git_commit", "git_push"} => setup.auto_commit
    /\ collected \ began \subseteq shown

(* A named base is taken as it is.                                         *)
NamedInv ==
  setup.merge_base /\ setup.base # "default" => shown = collected

-----------------------------------------------------------------------------
(* Every start of the loop ends in an exit code, whatever its calls return. *)
Terminates == []<>(pc = "done")

(* What a caller of the loop waits for.                                    *)
Phase ==
  IF pc \in {"main", "collect_diff", "run_preflight", "launch_reviewers"} THEN "review"
  ELSE IF pc \in {"tamper_report", "decide"} THEN "verdict"
  ELSE IF pc = "next_round" THEN "repaired"
  ELSE IF pc = "done" THEN "ended" ELSE "repair"

(* The loop implements what it promises its caller: a caller who sees only *)
(* reviews, verdicts, repairs and exit codes sees LoopContract.            *)
Contract == INSTANCE LoopContract WITH
  Contents <- SUBSET Marks, limit <- setup.max_rounds, phase <- Phase,
  findings <- blocking, before <- previous_fp,
  code <- exit_code, remote <- upstream

ImplementsContract == Contract!Spec

(* The part of it that says what each step may do, which LoopRefinement    *)
(* proves; that a round begun ends stays with TLC.                         *)
ContractSteps == Contract!Init /\ [][Contract!Next]_(Contract!vars)
=============================================================================
