--------------------------- MODULE RoundProperties ---------------------------
(***************************************************************************)
(* What one round's reviewers must leave behind, and what they must not,   *)
(* stated over ReviewerRound's variables.                                  *)
(***************************************************************************)
EXTENDS ReviewerRound

Pcs == Held \cup Deferred \cup Unwinds
         \cup {"returned", "unwound", "cut", "exited", "killed"}

(* Every variable holds a value of its kind. *)
TypeOK ==
  /\ platform \in Platforms /\ pc \in Pcs
  /\ slot \in 1..(N + 1) /\ todo \subseteq Slots
  /\ leaving \in {"no", "return", "raise", "signal"} /\ caught \in BOOLEAN
  /\ procs \subseteq Slots /\ pending \subseteq procs
  /\ leader \in [Slots -> {"none", "running", "stuck", "zombie", "reaped"}]
  /\ returncode \subseteq Slots
  /\ helpers \in [Slots -> SUBSET {"group", "session"}]
  /\ reused \subseteq Slots
  /\ output \in [Slots -> {"none", "partial", "whole"}]
  /\ round_dir \in [Slots -> {"absent", "planted", "partial", "whole"}]
  /\ published \in BOOLEAN
  /\ listed \subseteq {"out", "token"} /\ on_disk \subseteq {"out", "token"}
  /\ named \subseteq {"out", "token"}
  /\ signals \in 0..MaxSignals
  /\ struck \in BOOLEAN /\ unwatched \subseteq Slots
  /\ untold \subseteq Slots /\ lost_reap \subseteq Slots /\ strays \in BOOLEAN

Left == {"returned", "unwound"}

(* A round that is left -- by its return, an exception or a signal --      *)
(* leaves no reviewer running, nor anything in a reviewer's group: not one *)
(* that was only just started, nor a helper whose leader had exited.  The  *)
(* exception is a reviewer not yet tracked whose own cleanup a second      *)
(* signal cut short.                                                       *)
NothingLeftRunning ==
  pc \in Left => \A s \in Slots \ unwatched :
                   leader[s] # "running" /\ "group" \notin helpers[s]

(* A group kill reaches no process of anybody else's, although the number  *)
(* it is sent to may be reused: only the reap of one whose exit ps could   *)
(* not tell, or a reap that a signal cut short, can make it.               *)
OnlyItsOwnGroups == struck => untold # {} \/ lost_reap # {}

(* What the loop reads of a round is what the round's reviewers wrote: not *)
(* what lay under an output's name before, nor what was put there while    *)
(* they ran, for the slots that wrote nothing too.                         *)
ReadsWhatTheyWrote ==
  pc = "returned" /\ published /\ ~strays =>
    \A s \in Slots :
      round_dir[s] = IF output[s] = "none" THEN "absent" ELSE output[s]

(* What the reviewers wrote outlives the round, however it was left: in    *)
(* the round's directory, or where they wrote it and the loop said so.     *)
OutputsAreKept ==
  pc \in Left /\ ~strays =>
    \/ \A s \in Slots : output[s] # "none" => round_dir[s] = output[s]
    \/ "out" \in on_disk \cap named

(* agy's sign-in token does not outlive the round, or the loop says where. *)
TokenIsGoneOrNamed ==
  pc \in Left => "token" \notin on_disk \ named

-----------------------------------------------------------------------------
(* What the properties rest on: the inductive invariants of their proofs   *)
(* (RoundProofs).                                                          *)

(* Neither its leader nor anything in its group runs.  Nothing but a       *)
(* launch brings a slot back from there.                                   *)
Dead(s) == leader[s] # "running" /\ "group" \notin helpers[s]

(* Where the slot being launched is a slot, and where it has no process.   *)
Placed == {"popen", "started", "unheld", "registered", "failed_kill", "failed_wait"}
Before == {"scratch", "launch", "popen"}

(* Slots are launched in order: one whose turn has not come has no process *)
(* and is not tracked.  Only the tracked are given up on and stopped.      *)
LaunchInv ==
  /\ pc \in Placed => slot \in Slots
  /\ \A s \in Slots : s > slot \/ (s = slot /\ pc \in Before) =>
       leader[s] = "none" /\ helpers[s] = {} /\ s \notin procs
  /\ pc = "give_up" => todo \subseteq pending
  /\ pc = "stopping" => todo \subseteq procs

(* A process Popen knows was reaped left nothing in its group; one that    *)
(* was reaped and Popen does not know it is one whose wait a signal cut;   *)
(* and a number is reused only after a reap.                               *)
ReapInv ==
  /\ \A s \in returncode : leader[s] = "reaped" /\ Dead(s)
  /\ \A s \in Slots : leader[s] = "reaped" => s \in returncode \cup lost_reap
  /\ \A s \in reused : leader[s] = "reaped"

(* Who runs is tracked, or is being launched, or was left to no one by a   *)
(* second signal; and the tracked are stopped one after the other.         *)
SweepInv ==
  /\ pc = "failed_wait" => Dead(slot)
  /\ \A s \in Slots :
       \/ s \in procs \cup unwatched \/ Dead(s)
       \/ s = slot /\ pc \in {"started", "unheld", "failed_kill"}
  /\ pc = "stopping" => \A s \in procs \ todo : Dead(s)
  /\ pc \in {"publishing", "releasing"} \cup Left => \A s \in procs : Dead(s)

(* Of a slot that was published, the round's directory has what it wrote.  *)
InPlace(s) == round_dir[s] = IF output[s] = "none" THEN "absent" ELSE output[s]

(* Outputs are nowhere, in the private directory, which is not on the list *)
(* of what is to go unless they were published, or in place.               *)
OutputInv ==
  /\ pc = "publishing" => "out" \in on_disk
  /\ published => pc \in {"releasing", "exited", "killed"} \cup Left
  /\ \/ "out" \in on_disk \/ pc \in {"exited", "killed"} \cup Left
     \/ \A s \in Slots : output[s] = "none"
  /\ pc = "publishing" /\ ~strays => \A s \in Slots \ todo : InPlace(s)
  /\ pc \in {"releasing"} \cup Left /\ ~strays =>
       \/ published /\ \A s \in Slots : InPlace(s)
       \/ ~published /\ "out" \in on_disk \cap named /\ "out" \notin listed
       \/ ~published /\ \A s \in Slots : output[s] = "none"

(* Every scratch directory there is is listed, or was named.               *)
ScratchInv ==
  /\ on_disk \subseteq listed \cup named
  /\ pc \in Left => on_disk \subseteq named

-----------------------------------------------------------------------------
(* The round is left, whatever its reviewers do.                           *)
RoundEnds == <>(pc \in {"returned", "exited", "killed"})

(* The loop gone, no reviewer of its runs on: "A plain SIGTERM or SIGHUP   *)
(* would skip the finally below, leaving the reviewers running"            *)
(* (reviewers.py:900), "A second signal waits until this is done" (:920).  *)
NoneOutlivesTheLoop ==
  pc \in {"exited", "killed"} => \A s \in Slots : leader[s] # "running"
=============================================================================
