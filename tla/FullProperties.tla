---------------------------- MODULE FullProperties ----------------------------
(***************************************************************************)
(* What a full-mode round must leave behind, and what it must not, stated  *)
(* over FullRunner's variables.                                            *)
(***************************************************************************)
EXTENDS FullRunner

Statuses == {"none", "0", "124", "137", "other", "timeout"}

Preparing   == {"none", "start", "copying", "copied", "ready"}
Launching   == {"launch", "agy", "forked", "watch"}
Finishing   == {"finish", "finishing", "last_scratch", "last_publish", "last_out", "exited"}

Places == Preparing \cup Launching \cup Killing \cup Finishing
            \cup {"giveup", "giveup_mark", "scratch", "publish", "extract"}

ShellTypes ==
  /\ own_session \in Sessions /\ signals \in 0..MaxSignals
  /\ opc \in {"setup", "killed", "trapped", "launched", "assigned", "waiting", "woken",
              "logging", "ended"}
  /\ pending \in BOOLEAN /\ termed \in BOOLEAN /\ cut \in BOOLEAN
  /\ wait_status \in {"none", "0", "1", "143"} /\ exit_status \in {"none", "0", "1", "143"}
  /\ runner_exit \in {"absent", "0", "1", "143"}
  /\ ipc \in Places /\ num \in 1..N /\ stage \in {"idle", "term", "termed", "kill"}
  /\ groups \in SUBSET Slots /\ struck \in SUBSET Slots /\ mates \in SUBSET Slots

JobTypes ==
  /\ shell \in [Slots -> {"none", "running", "cleaning", "marking", "gone"}]
  /\ cli \in SUBSET Slots /\ helper \in SUBSET Slots
  /\ recorded \in SUBSET Slots /\ by_agy \in SUBSET Slots
  /\ lost \in SUBSET Slots /\ late \in SUBSET Slots
  /\ rc \in [Slots -> Ending \cup {"none"}] /\ done \in [Slots -> Statuses]

FileTypes ==
  /\ output \in [Slots -> {"none", "good"}]
  /\ tmp \in [Slots -> {"absent", "planted", "good"}]
  /\ result \in [Slots -> {"absent", "planted", "review", "placeholder"}]
  /\ why \in [Slots -> {"none", "unpublished", "never launched", "watchdog",
                        "its timeout", "no JSON", "no status", "exited"}]
  /\ listed \in SUBSET (0..N) /\ on_disk \in SUBSET (0..N) /\ named \in SUBSET (0..N)
  /\ helper_root \in BOOLEAN /\ out_dir \in BOOLEAN /\ out_named \in BOOLEAN
  /\ published \in BOOLEAN /\ publish_tried \in BOOLEAN

(* Every variable holds a value of its kind. *)
TypeOK == ShellTypes /\ JobTypes /\ FileTypes

(* finish_round ran to its end. *)
Finished == ipc = "exited" /\ exit_status # "none" /\ ~cut

(* "An interrupted runner also takes down the reviewers it started":       *)
(* whatever ended the run and whenever, no job it knows of is left, nor    *)
(* what a job left behind in its group.  A job forked and not yet recorded *)
(* when the signal came is not known of.                                   *)
NothingLeftRunning == Finished => \A s \in Slots \ lost : ~Members(s)

(* A group kill reaches nobody else's processes, although a number is free *)
(* for the system to hand out as soon as its group is empty: at most the   *)
(* group emptied after kill_jobs asked about it.                           *)
OnlyItsOwnGroups == own_session => struck = {}

(* What the reviewers wrote is in REVIEW_TMP or still where they wrote it, *)
(* at every moment and however a copy fails; and OUT_DIR, when it is what  *)
(* is left, was named.                                                     *)
OutputsAreKept ==
  lost = {} /\ ipc \notin Preparing =>
    /\ ~out_dir => \A s \in Slots : output[s] # "none" => tmp[s] = "good"
    /\ Finished /\ out_dir => out_named

(* The prompts, agy's sign-in token and the helpers' copy are gone at the  *)
(* end, or the run said where they are.  A signal before the first trap is *)
(* set leaves the helpers' copy.                                           *)
NothingPrivateIsLeft ==
  Finished => /\ on_disk \subseteq named
              /\ helper_root => recorded = {} /\ exit_status = "143"

(* A round that says 0 -- the shell's status, or runner-exit -- has no     *)
(* planted result among its results, and each review in it is what that    *)
(* slot's own job wrote.                                                   *)
ResultsAreTheirOwn ==
  /\ exit_status = "0" =>
       \A s \in Slots : /\ result[s] # "planted"
                        /\ result[s] = "review" => s \in recorded /\ output[s] = "good"
  /\ opc = "ended" /\ runner_exit = "0" => exit_status = "0"

(* A placeholder says why truly, whoever marked the slot last: the         *)
(* watchdog only a slot that had not finished when it looked, the job only *)
(* what its CLI returned.  Whether a status of 137 was its own timeout's   *)
(* the runner cannot know, and the reason it gives says that it was.       *)
WhyIsTrue ==
  \A s \in Slots :
    /\ why[s] = "watchdog"    => s \in late
    /\ why[s] = "its timeout" => rc[s] \in {"124", "137"}
    /\ why[s] = "no JSON"     => rc[s] = "0"
    /\ why[s] = "exited"      => rc[s] = "other"
    /\ why[s] \in {"no status", "watchdog"} => s \in recorded
    /\ why[s] = "never launched" => shell[s] = "none"

(* No signal is lost between the two shells: once the outer one waits, one *)
(* that came at any time after its trap was set has reached the inner one. *)
InterruptIsForwarded ==
  opc \in {"waiting", "woken", "logging", "ended"} /\ pending => termed

-----------------------------------------------------------------------------
(* What the properties rest on: the inductive invariants of their proofs   *)
(* (FullProofs).                                                           *)

(* The inner shell lives from its launch on; a status the outer one has    *)
(* from it, or has written down, is the one it ended with.                 *)
EndedWell == ipc = "exited" /\ exit_status = "0"

OuterInv ==
  /\ opc \in {"setup", "killed", "trapped"} <=> ipc = "none"
  /\ ipc \in Finishing => exit_status # "none"
  /\ opc \in {"woken", "logging"} => wait_status # "none"
  /\ wait_status = "0" => EndedWell
  /\ runner_exit = "0" /\ opc \notin {"setup", "killed"} => EndedWell

(* A loop over the slots begins at the first.                              *)
AtFirst ==
  ipc \in Preparing \cup {"watch", "sweep", "scratch", "finish", "finishing", "last_scratch"}
    => num = 1

(* A slot that was never forked.                                           *)
Unborn(s) == shell[s] = "none" /\ s \notin cli \cup helper /\ output[s] = "none"

(* Slots are forked in order, and one that was is recorded, or about to    *)
(* be, or the signal came between and the run ends with it.                *)
JobsInv ==
  /\ ipc \in Preparing => recorded = {}
  /\ ipc \in {"launch", "agy", "forked"} => \A s \in recorded : s < num
  /\ lost # {} => ipc \in Finishing /\ exit_status = "143"
  /\ \A s \in Slots : \/ s \in recorded \cup lost \/ (s = num /\ ipc = "forked")
                      \/ Unborn(s)

(* The places from which on no job that is recorded runs.                  *)
Swept ==
  \/ publish_tried
  \/ ipc \in {"scratch", "publish", "extract", "last_scratch", "last_publish", "last_out"}
  \/ ipc = "exited" /\ ~cut

(* kill_jobs is about to kill the recorded groups that have members, which *)
(* are its own where it can tell, and leaves none.                         *)
KillInv ==
  /\ stage # "idle" => ipc \in Killing
  /\ stage \in {"idle", "termed"} => groups = {}
  /\ groups \subseteq recorded
  /\ own_session => groups \subseteq mates /\ struck = {}
  /\ stage = "kill" /\ ipc # "giveup_kill" => \A s \in recorded \ groups : ~Members(s)
  /\ publish_tried => ipc \in {"publish", "extract"} \cup Finishing
  /\ Swept => \A s \in recorded : ~Members(s)

(* Of a slot that was published, REVIEW_TMP has what its job wrote.        *)
InPlace(s) == tmp[s] = IF output[s] = "good" THEN "good" ELSE "absent"

(* OUT_DIR is there from its making to the end, and there it goes only     *)
(* once everything is published -- or nobody was launched.                 *)
OutputInv ==
  /\ ipc \in {"none", "start", "copying", "copied"} => ~out_dir
  /\ ~out_dir => ipc \in {"none", "start", "copying", "copied", "exited"}
  /\ ipc = "extract" => publish_tried
  /\ published => publish_tried /\ ipc \in ({"extract"} \cup Finishing) \ {"last_publish"}
  /\ ipc \in {"publish", "last_publish"} /\ lost = {} =>
       \A s \in Slots : s < num => InPlace(s)
  /\ published /\ lost = {} => \A s \in Slots : InPlace(s)
  /\ ipc = "exited" /\ ~out_dir => published \/ recorded \cup lost = {}
  /\ ipc = "exited" /\ ~cut /\ out_dir => out_named

(* What there is of scratch is listed, and at the end is named.            *)
ScratchInv ==
  /\ on_disk \subseteq listed
  /\ ipc \in Preparing => on_disk = {}
  /\ ipc \in {"last_publish", "last_out"} \/ (ipc = "exited" /\ ~cut) =>
       on_disk \subseteq named /\ (helper_root => recorded = {} /\ exit_status = "143")

(* A result that is its slot's own; the extraction leaves no other.        *)
Own(s) ==
  /\ result[s] # "planted"
  /\ result[s] = "review" => s \in recorded /\ output[s] = "good"

ResultInv ==
  /\ ipc = "extract" => \A s \in Slots : s < num => Own(s)
  /\ exit_status = "0" => publish_tried /\ ipc \in Finishing /\ \A s \in Slots : Own(s)

(* A marker is the job's own status or the watchdog's; a placeholder is    *)
(* written once all is over, and of a slot that was launched but for one.  *)
WhyInv ==
  /\ ipc \in {"giveup_kill", "giveup_mark"} => num \in late
  /\ \A s \in Slots :
       /\ done[s] = "timeout" => s \in late
       /\ done[s] \in {"0", "124", "137", "other"} =>
            done[s] = rc[s] /\ shell[s] = "gone"
       /\ why[s] # "none" => publish_tried
       /\ why[s] \in {"watchdog", "its timeout", "no JSON", "no status", "exited"} =>
            s \in recorded
       /\ why[s] = "never launched" => s \notin recorded
  /\ WhyIsTrue

-----------------------------------------------------------------------------
(* The run ends and says how, whatever its reviewers do.                   *)
RoundEnds == <>(opc = "killed" \/ (opc = "ended" /\ runner_exit # "absent"))
=============================================================================
