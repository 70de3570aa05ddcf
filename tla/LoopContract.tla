---------------------------- MODULE LoopContract ----------------------------
(***************************************************************************)
(* What the convergence loop promises its caller: rounds of a review, a    *)
(* verdict on it, and a repair, and one exit code that says which of them  *)
(* it ended in (README.md, "Exit codes").  A review is one step here, and  *)
(* so are a verdict and a repair.                                          *)
(***************************************************************************)
EXTENDS Integers

CONSTANTS
  Keys, MaxRounds, MaxRuns,
  Contents    \* what a remote branch may hold

VARIABLES
  limit,      \* --max-rounds
  phase,      \* what the caller waits for
  run, round,
  findings,   \* what the round's review found blocking
  before,     \* what the round before it did
  code,       \* Running, or the exit code
  remote      \* what the branch's remote holds

vars == <<limit, phase, run, round, findings, before, code, remote>>

Running == -1

Init ==
  /\ limit \in 0..MaxRounds
  /\ phase = "review" /\ run = 1 /\ round = 1
  /\ findings = {} /\ before = {} /\ code = Running
  /\ remote \in Contents

Ends(c) ==
  /\ phase' = "ended" /\ code' = c
  /\ UNCHANGED <<limit, run, round, findings, before, remote>>

(* No backend, no rounds, nothing to review, or nothing fit to review. *)
Refuse == phase = "review" /\ \E c \in {0, 1, 6, 8, 9} : Ends(c)

Review ==
  /\ phase = "review"
  /\ findings' \in SUBSET Keys
  /\ phase' = "verdict"
  /\ UNCHANGED <<limit, run, round, before, code, remote>>

Converge == phase = "verdict" /\ findings = {} /\ Ends(0)
Distrust == phase = "verdict" /\ \E c \in {7, 11, 12} : Ends(c)
GiveUp   == phase = "verdict" /\ findings # {} /\ findings = before /\ Ends(2)
Report   == phase = "verdict" /\ findings # {} /\ Ends(10)

Repair ==
  /\ phase = "verdict" /\ findings # {} /\ findings # before
  /\ phase' = "repair"
  /\ UNCHANGED <<limit, run, round, findings, before, code, remote>>

RepairFails == phase = "repair" /\ \E c \in {3, 4, 5} : Ends(c)

(* At most one push a repair, and of nothing but a repair. *)
Settle ==
  /\ phase = "repair" /\ phase' = "repaired"
  /\ remote' \in Contents
  /\ UNCHANGED <<limit, run, round, findings, before, code>>

Again ==
  /\ phase = "repaired" /\ round < limit
  /\ round' = round + 1 /\ before' = findings /\ findings' = {}
  /\ phase' = "review"
  /\ UNCHANGED <<limit, run, code, remote>>

Exhaust == phase = "repaired" /\ round = limit /\ Ends(6)

(* An exception, or a signal. *)
Break == phase # "ended" /\ \E c \in {1, 143} : Ends(c)

Restart ==
  /\ phase = "ended" /\ run < MaxRuns
  /\ phase' = "review" /\ run' = run + 1 /\ round' = 1
  /\ findings' = {} /\ before' = {} /\ code' = Running
  /\ UNCHANGED <<limit, remote>>

Step ==
  \/ Refuse \/ Review \/ Converge \/ Distrust \/ GiveUp \/ Report \/ Repair
  \/ RepairFails \/ Settle \/ Again \/ Exhaust

Next == Step \/ Break \/ Restart

(* A round that was begun ends, one way or another. *)
Spec == Init /\ [][Next]_vars /\ WF_vars(Step)
=============================================================================
