------------------------------- MODULE MCLoop -------------------------------
(***************************************************************************)
(* ConvergenceLoop for TLC: two slots, two findings, two changes.          *)
(***************************************************************************)
EXTENDS LoopProperties, TLC

CONSTANTS r1, r2, k1, k2, c1, c2

MCSlots == {r1, r2}
MCKeys == {k1, k2}
MCChanges == {c1, c2}

Symmetry == Permutations(MCSlots) \cup Permutations(MCKeys) \cup Permutations(MCChanges)

Plain ==
  [max_rounds |-> 3, report_only |-> FALSE, auto_commit |-> TRUE, base |-> "default",
   trunk |-> FALSE, merge_base |-> TRUE, tests_write |-> FALSE,
   packets_ignored |-> TRUE, claude |-> TRUE, hermes |-> TRUE, git_tools |-> FALSE]

TwoRounds == [Plain EXCEPT !.max_rounds = 2]

(* A branch under review: fix mode with and without commits, with a tree   *)
(* the tests write to, with no claude, with no backend at all, and         *)
(* --report-only.                                                          *)
OnABranch ==
  {Plain, [Plain EXCEPT !.tests_write = TRUE],
   [Plain EXCEPT !.packets_ignored = FALSE, !.git_tools = TRUE],
   [Plain EXCEPT !.auto_commit = FALSE, !.base = "named"],
   [Plain EXCEPT !.claude = FALSE],
   [Plain EXCEPT !.claude = FALSE, !.hermes = FALSE],
   [Plain EXCEPT !.max_rounds = 0],
   [Plain EXCEPT !.report_only = TRUE, !.tests_write = TRUE],
   [Plain EXCEPT !.base = "unresolved", !.merge_base = FALSE]}

(* Work on the trunk itself, fixes left uncommitted. *)
OnTheTrunk == {[Plain EXCEPT !.trunk = TRUE, !.auto_commit = FALSE]}

(* A second start, a kill and what is left running, on every kind of       *)
(* repository a fix is made in, and with reviewers that run git.           *)
RestartSetups ==
  {[TwoRounds EXCEPT !.git_tools = TRUE],
   [TwoRounds EXCEPT !.tests_write = TRUE, !.packets_ignored = FALSE],
   [TwoRounds EXCEPT !.auto_commit = FALSE],
   [TwoRounds EXCEPT !.report_only = TRUE, !.tests_write = TRUE, !.git_tools = TRUE]}

(* For liveness, where symmetry is no help. *)
OneChange == {c1}
LiveSetups ==
  {TwoRounds, [TwoRounds EXCEPT !.report_only = TRUE, !.git_tools = TRUE]}

(* The trunk with --auto-commit: each push moves the next round's base.    *)
TrunkSetups == {[TwoRounds EXCEPT !.trunk = TRUE]}

(* A base that names a commit, with no one merge base to take it from.     *)
NamedSetups == {[TwoRounds EXCEPT !.base = "named", !.merge_base = FALSE]}

MCSetups == OnABranch \cup OnTheTrunk
=============================================================================
