---------------------------- MODULE ReviewerRound ----------------------------
(***************************************************************************)
(* One round's reviewers, from their launch to what is read of them:       *)
(* scripts/review_loop/reviewers.py, launch_reviewers, and the signal      *)
(* handling of scripts/review_loop/proc.py that it runs under.             *)
(*                                                                         *)
(* A reviewer is a process that leads a group of its own, and what it      *)
(* started: helpers in that group, and helpers in a session of their own,  *)
(* which no group kill reaches.  The group's number is the leader's pid:   *)
(* the system may hand it to somebody else once the leader is reaped and   *)
(* the group is empty.                                                     *)
(***************************************************************************)
EXTENDS Integers, FiniteSets

CONSTANTS
  N,           \* the slots are 1..N, launched in that order (_LENSES)
  Codex,       \* the slots whose answer is a file of its own
  Platforms,   \* how an exit is seen: by os.waitid, or by ps, if that answers
  MaxSignals,  \* bound: signals sent to the loop
  MaxHelpers   \* bound: helpers the reviewers start

Slots == 1..N

ASSUME RoundAssumption ==
  /\ N \in Nat
  /\ Codex \subseteq Slots
  /\ Platforms \subseteq {"waitid", "ps"} /\ Platforms # {}
  /\ MaxSignals \in Nat /\ MaxHelpers \in Nat

VARIABLES
  platform,
  pc,
  slot,        \* the slot being launched
  todo,        \* the slots a loop has still to visit
  leaving,     \* how the try block was left: no, return, raise or signal
  caught,      \* a signal waits: noted by signals_held, or masked
  procs,       \* the reviewers launch_reviewers tracks
  pending,     \* _await_reviewers: those not seen to exit
  leader,      \* none, running, stuck (ignores even SIGKILL), zombie, reaped
  returncode,  \* the slots whose Popen knows its process has been reaped
  helpers,     \* per slot, which kinds of helper run: "group", "session"
  reused,      \* the slots whose group number is somebody else's
  output,      \* per slot, what it wrote: none, partial or whole
  round_dir,   \* per slot, what lies under its output's name
  published,
  listed,      \* _ROUND_SCRATCH: "out", "token"
  on_disk,     \* the scratch directories that exist
  named,       \* those the loop said it left behind
  signals

(* History, for the properties only. *)
VARIABLES
  struck,      \* a group kill reached somebody else's processes
  unwatched,   \* the slots a second signal left to no one: not stopped, not tracked
  untold,      \* the slots reaped when ps gave no answer
  lost_reap,   \* the slots reaped by a wait that a signal cut before it said so
  strays       \* somebody wrote although every reviewer was stopped

loopVars    == <<slot, todo, procs, pending, published>>
processVars == <<leader, returncode, helpers, reused, output>>
scratchVars == <<listed, on_disk, named>>
historyVars == <<struck, unwatched, untold, lost_reap, strays>>
vars == <<platform, pc, leaving, caught, loopVars, processVars, round_dir,
          scratchVars, signals, historyVars>>

Init ==
  /\ platform \in Platforms
  /\ pc = "scratch" /\ slot = 1 /\ todo = {} /\ leaving = "no" /\ caught = FALSE
  /\ procs = {} /\ pending = {}
  /\ leader = [s \in Slots |-> "none"] /\ returncode = {}
  /\ helpers = [s \in Slots |-> {}] /\ reused = {}
  /\ output = [s \in Slots |-> "none"]
  /\ round_dir = [s \in Slots |-> "absent"]
  /\ published = FALSE
  /\ listed = {} /\ on_disk = {} /\ named = {}
  /\ signals = 0
  /\ struck = FALSE /\ unwatched = {} /\ untold = {} /\ lost_reap = {} /\ strays = FALSE

(* Where a signal is only noted (signals_held), where it waits             *)
(* (signals_deferred), and where it raises SystemExit (signals_unwind).    *)
Held     == {"popen", "started"}
Deferred == {"stopping", "publishing", "releasing"}
Unwinds  == {"scratch", "launch", "unheld", "registered", "failed_kill",
             "failed_wait", "await", "give_up", "grace", "finally"}

(* Where every tracked reviewer has been stopped.                          *)
Stopped  == {"publishing", "releasing", "returned", "unwound", "exited"}

-----------------------------------------------------------------------------
(* The processes *)

Alive(s) == leader[s] \in {"running", "stuck"} \/ helpers[s] # {}

LeaderExits(s) ==
  /\ leader[s] \in {"running", "stuck"}
  /\ leader' = [leader EXCEPT ![s] = "zombie"]
  /\ UNCHANGED <<platform, pc, leaving, caught, loopVars, returncode, helpers,
                 reused, output, round_dir, scratchVars, signals, historyVars>>

StartsHelper(s) ==
  /\ Alive(s) /\ leader[s] # "stuck"
  /\ \E kind \in {"group", "session"} \ helpers[s] :
       /\ kind = "group" => leader[s] = "running"
       /\ helpers' = [helpers EXCEPT ![s] = @ \cup {kind}]
  /\ Cardinality(UNION {{t} \X helpers'[t] : t \in Slots}) <= MaxHelpers
  /\ UNCHANGED <<platform, pc, leaving, caught, loopVars, leader, returncode,
                 reused, output, round_dir, scratchVars, signals, historyVars>>

HelperEnds(s) ==
  /\ \E kind \in helpers[s] : helpers' = [helpers EXCEPT ![s] = @ \ {kind}]
  /\ UNCHANGED <<platform, pc, leaving, caught, loopVars, leader, returncode,
                 reused, output, round_dir, scratchVars, signals, historyVars>>

Writes(s) ==
  /\ Alive(s) /\ "out" \in on_disk
  /\ output' = [output EXCEPT ![s] = IF @ = "none" THEN "partial" ELSE "whole"]
  /\ strays' = (strays \/ pc \in Stopped)
  /\ UNCHANGED <<platform, pc, leaving, caught, loopVars, leader, returncode,
                 helpers, reused, round_dir, scratchVars, signals, struck,
                 unwatched, untold, lost_reap>>

(* With a file tool a reviewer may write under any output's name. *)
Plants(s, target) ==
  /\ Alive(s) /\ round_dir[target] # "planted"
  /\ round_dir' = [round_dir EXCEPT ![target] = "planted"]
  /\ strays' = (strays \/ pc \in Stopped)
  /\ UNCHANGED <<platform, pc, leaving, caught, loopVars, processVars,
                 scratchVars, signals, struck, unwatched, untold, lost_reap>>

NumberIsReused(s) ==
  /\ leader[s] = "reaped" /\ "group" \notin helpers[s]
  /\ reused' = reused \cup {s}
  /\ UNCHANGED <<platform, pc, leaving, caught, loopVars, leader, returncode,
                 helpers, output, round_dir, scratchVars, signals, historyVars>>

Reviewers ==
  \E s \in Slots :
    \/ LeaderExits(s) \/ StartsHelper(s) \/ HelperEnds(s) \/ Writes(s)
    \/ NumberIsReused(s) \/ \E target \in Slots : Plants(s, target)

-----------------------------------------------------------------------------
(* _kill_group and the wait of _stop *)

(* A plausible bug: the number is trusted for ever. *)
NeverReaped(s) == FALSE

KnownReaped(s) == s \in returncode

(* os.killpg to the leader's number, unless Popen knows it was reaped.     *)
KillGroup(s) ==
  IF KnownReaped(s)
  THEN UNCHANGED <<leader, helpers, struck>>
  ELSE
    /\ struck' = (struck \/ s \in reused)
    /\ \E left \in {"zombie", "stuck"} :
         leader' = [leader EXCEPT ![s] = IF @ \in {"running", "stuck"} THEN left ELSE @]
    /\ helpers' = [helpers EXCEPT ![s] = @ \ {"group"}]

(* Popen.wait.  A leader stuck in the kernel times out.                    *)
Reap(s) ==
  IF leader[s] \in {"running", "stuck"}
  THEN UNCHANGED <<leader, returncode>>
  ELSE
    /\ leader' = [leader EXCEPT ![s] = "reaped"]
    /\ returncode' = returncode \cup {s}

-----------------------------------------------------------------------------
(* The launch *)

Leave(how) ==
  /\ pc' = "finally"
  /\ leaving' = how

(* out_dir, listed as it is made. *)
MakeScratch ==
  /\ pc = "scratch"
  /\ on_disk' = on_disk \cup {"out"} /\ listed' = listed \cup {"out"}
  /\ pc' = "launch"
  /\ UNCHANGED <<platform, leaving, caught, loopVars, processVars, round_dir,
                 named, signals, historyVars>>

(* agy's state directory is listed before the sign-in token is copied in.  *)
(* What is prepared need not be what is launched.                          *)
PrepareAgy ==
  /\ pc = "launch" /\ slot \in Slots
  /\ on_disk' = on_disk \cup {"token"} /\ listed' = listed \cup {"token"}
  /\ UNCHANGED <<platform, pc, leaving, caught, loopVars, processVars, round_dir,
                 named, signals, historyVars>>

(* No backend for the slot. *)
SkipSlot ==
  /\ pc = "launch" /\ slot \in Slots
  /\ slot' = slot + 1
  /\ UNCHANGED <<platform, pc, leaving, caught, todo, procs, pending, published,
                 processVars, round_dir, scratchVars, signals, historyVars>>

HoldSignals ==
  /\ pc = "launch" /\ slot \in Slots
  /\ pc' = "popen"
  /\ UNCHANGED <<platform, leaving, caught, loopVars, processVars, round_dir,
                 scratchVars, signals, historyVars>>

(* Popen, and failed.callback(_stop) with it: signals are only noted.      *)
Popen ==
  /\ pc = "popen"
  /\ leader' = [leader EXCEPT ![slot] = "running"]
  /\ pc' = "started"
  /\ UNCHANGED <<platform, leaving, caught, loopVars, returncode, helpers, reused,
                 output, round_dir, scratchVars, signals, historyVars>>

(* No such program, or a file that cannot be written: the round raises, or *)
(* what was noted is raised in its place.                                  *)
LaunchRaises ==
  /\ pc \in {"scratch", "launch", "popen"}
  /\ Leave(IF caught THEN "signal" ELSE "raise")
  /\ caught' = FALSE
  /\ UNCHANGED <<platform, loopVars, processVars, round_dir, scratchVars, signals,
                 historyVars>>

(* The end of signals_held: what was noted is raised, into `failed`.       *)
ReleaseSignals ==
  /\ pc = "started"
  /\ \/ caught /\ pc' = "failed_kill" /\ leaving' = "signal"
     \/ ~caught /\ pc' = "unheld" /\ UNCHANGED leaving
  /\ caught' = FALSE
  /\ UNCHANGED <<platform, loopVars, processVars, round_dir, scratchVars, signals,
                 historyVars>>

Register ==
  /\ pc = "unheld"
  /\ procs' = procs \cup {slot}
  /\ pc' = "registered"
  /\ UNCHANGED <<platform, leaving, caught, slot, todo, pending, published,
                 processVars, round_dir, scratchVars, signals, historyVars>>

PopAll ==
  /\ pc = "registered"
  /\ slot' = slot + 1
  /\ pc' = "launch"
  /\ UNCHANGED <<platform, leaving, caught, todo, procs, pending, published,
                 processVars, round_dir, scratchVars, signals, historyVars>>

(* `failed`, the launch's own cleanup: _stop for the slot being launched.  *)
FailedKill ==
  /\ pc = "failed_kill"
  /\ KillGroup(slot)
  /\ pc' = "failed_wait"
  /\ UNCHANGED <<platform, leaving, caught, loopVars, returncode, reused, output,
                 round_dir, scratchVars, signals, unwatched, untold, lost_reap, strays>>

FailedWait ==
  /\ pc = "failed_wait"
  /\ Reap(slot)
  /\ pc' = "finally"
  /\ UNCHANGED <<platform, leaving, caught, loopVars, helpers, reused, output,
                 round_dir, scratchVars, signals, historyVars>>

-----------------------------------------------------------------------------
(* _await_reviewers and _give_up *)

(* A plausible bug: the slots that were skipped are waited for too. *)
EverySlot == Slots

Awaited == procs

AllLaunched ==
  /\ pc = "launch" /\ slot \notin Slots
  /\ pending' = Awaited
  /\ pc' = "await"
  /\ UNCHANGED <<platform, leaving, caught, slot, todo, procs, published,
                 processVars, round_dir, scratchVars, signals, historyVars>>

(* _exit_status, where there is os.waitid: the leader is left a zombie.    *)
SeeExit(s) ==
  /\ pc = "await" /\ s \in pending /\ leader[s] = "zombie"
  /\ platform = "waitid"
  /\ pending' = pending \ {s}
  /\ UNCHANGED <<platform, pc, leaving, caught, slot, todo, procs, published,
                 processVars, round_dir, scratchVars, signals, historyVars>>

(* Where ps says it is a zombie, its group is killed and then it is        *)
(* reaped; where there is no ps, or it gives no answer this once, it is    *)
(* reaped and then its number is killed, which may be somebody else's by   *)
(* then.                                                                   *)
ReapExited(s) ==
  /\ pc = "await" /\ s \in pending /\ leader[s] = "zombie"
  /\ platform = "ps"
  /\ pending' = pending \ {s}
  /\ leader' = [leader EXCEPT ![s] = "reaped"]
  /\ returncode' = returncode \cup {s}
  /\ helpers' = [helpers EXCEPT ![s] = @ \ {"group"}]
  /\ \/ UNCHANGED <<struck, untold>>
     \/ /\ untold' = untold \cup {s}
        /\ struck' \in {struck, struck \/ "group" \notin helpers[s]}
  /\ UNCHANGED <<platform, pc, leaving, caught, slot, todo, procs, published,
                 reused, output, round_dir, scratchVars, signals, unwatched,
                 lost_reap, strays>>

AllExited ==
  /\ pc = "await" /\ pending = {}
  /\ Leave("return")
  /\ UNCHANGED <<platform, caught, loopVars, processVars, round_dir, scratchVars,
                 signals, historyVars>>

(* A plausible bug: no deadline while a reviewer has written nothing. *)
OverdueOnceWriting == pending # {} /\ \A s \in pending : output[s] # "none"

Overdue == pending # {}

Deadline ==
  /\ pc = "await" /\ Overdue
  /\ pc' = "give_up" /\ todo' = pending
  /\ UNCHANGED <<platform, leaving, caught, slot, procs, pending, published,
                 processVars, round_dir, scratchVars, signals, historyVars>>

GiveUp(s) ==
  /\ pc = "give_up" /\ s \in todo
  /\ KillGroup(s)
  /\ todo' = todo \ {s}
  /\ UNCHANGED <<platform, pc, leaving, caught, slot, procs, pending, published,
                 returncode, reused, output, round_dir, scratchVars, signals,
                 unwatched, untold, lost_reap, strays>>

(* codex's answer may still land, written by a helper the kill missed.     *)
waiting == {s \in pending \cap Codex : output[s] = "none"}

Watch ==
  /\ pc = "give_up" /\ todo = {}
  /\ IF waiting = {} THEN Leave("return")
                     ELSE pc' = "grace" /\ UNCHANGED leaving
  /\ UNCHANGED <<platform, caught, loopVars, processVars, round_dir, scratchVars,
                 signals, historyVars>>

(* Something landed for each, or LATE_RESULT_GRACE is over.                *)
EndOfGrace ==
  /\ pc = "grace"
  /\ Leave("return")
  /\ UNCHANGED <<platform, caught, loopVars, processVars, round_dir, scratchVars,
                 signals, historyVars>>

-----------------------------------------------------------------------------
(* The finally block: under signals_deferred once its first call is made *)

(* A plausible bug: those seen to exit are not stopped. *)
OnlyPending == pending

ToStop == procs

Defer ==
  /\ pc = "finally"
  /\ pc' = "stopping" /\ todo' = ToStop
  /\ UNCHANGED <<platform, leaving, caught, slot, procs, pending, published,
                 processVars, round_dir, scratchVars, signals, historyVars>>

Stop(s) ==
  /\ pc = "stopping" /\ s \in todo
  /\ IF KnownReaped(s)
     THEN UNCHANGED <<leader, returncode, helpers, struck>>
     ELSE /\ struck' = (struck \/ s \in reused)
          /\ helpers' = [helpers EXCEPT ![s] = @ \ {"group"}]
          /\ \/ /\ leader' = [leader EXCEPT ![s] = "reaped"]
                /\ returncode' = returncode \cup {s}
             \/ /\ leader[s] \in {"running", "stuck"}
                /\ leader' = [leader EXCEPT ![s] = "stuck"]
                /\ UNCHANGED returncode
  /\ todo' = todo \ {s}
  /\ UNCHANGED <<platform, pc, leaving, caught, slot, procs, pending, published,
                 reused, output, round_dir, scratchVars, signals, unwatched,
                 untold, lost_reap, strays>>

AllStopped ==
  /\ pc = "stopping" /\ todo = {}
  /\ IF "out" \in on_disk THEN pc' = "publishing" /\ todo' = Slots
                           ELSE pc' = "releasing" /\ UNCHANGED todo
  /\ UNCHANGED <<platform, leaving, caught, slot, procs, pending, published,
                 processVars, round_dir, scratchVars, signals, historyVars>>

(* A plausible bug: an output nobody wrote is left as it is found. *)
PublishWritten(s) ==
  /\ pc = "publishing" /\ s \in todo
  /\ round_dir' = [round_dir EXCEPT ![s] = IF output[s] = "none" THEN @ ELSE output[s]]
  /\ todo' = todo \ {s}
  /\ UNCHANGED <<platform, pc, leaving, caught, slot, procs, pending, published,
                 processVars, scratchVars, signals, historyVars>>

(* _publish_outputs: what lies under the name goes, whether or not there   *)
(* is an output to take its place.                                         *)
Publish(s) ==
  /\ pc = "publishing" /\ s \in todo
  /\ round_dir' = [round_dir EXCEPT
                     ![s] = IF output[s] = "none" THEN "absent" ELSE output[s]]
  /\ todo' = todo \ {s}
  /\ UNCHANGED <<platform, pc, leaving, caught, slot, procs, pending, published,
                 processVars, scratchVars, signals, historyVars>>

AllPublished ==
  /\ pc = "publishing" /\ todo = {}
  /\ published' = TRUE
  /\ pc' = "releasing"
  /\ UNCHANGED <<platform, leaving, caught, slot, todo, procs, pending,
                 processVars, round_dir, scratchVars, signals, historyVars>>

(* A plausible bug: the copies are named and then removed as scratch. *)
ForgetOutputs ==
  /\ pc = "publishing"
  /\ named' = named \cup {"out"}
  /\ todo' = {}
  /\ pc' = "releasing"
  /\ UNCHANGED <<platform, leaving, caught, slot, procs, pending, published,
                 processVars, round_dir, listed, on_disk, signals, historyVars>>

(* An OSError anywhere in it: the private copies are kept, and named.      *)
KeepOutputs ==
  /\ pc = "publishing"
  /\ listed' = listed \ {"out"} /\ named' = named \cup {"out"}
  /\ todo' = {}
  /\ pc' = "releasing"
  /\ UNCHANGED <<platform, leaving, caught, slot, procs, pending, published,
                 processVars, round_dir, on_disk, signals, historyVars>>

(* A plausible bug: what cannot be removed is forgotten. *)
ReleaseSilently ==
  \E kept \in SUBSET listed :
    /\ on_disk' = on_disk \ (listed \ kept)
    /\ listed' = {}
    /\ UNCHANGED named

(* _release_scratch: what cannot be removed stays listed, and is named.    *)
ReleaseScratch ==
  \E kept \in SUBSET listed :
    /\ on_disk' = on_disk \ (listed \ kept)
    /\ listed' = kept
    /\ named' = named \cup kept

Release ==
  /\ pc = "releasing"
  /\ ReleaseScratch
  /\ pc' = IF leaving = "return" /\ ~caught THEN "returned" ELSE "unwound"
  /\ UNCHANGED <<platform, leaving, caught, loopVars, processVars, round_dir,
                 signals, historyVars>>

(* The atexit handler, when the round's exception ends the loop.           *)
AtExit ==
  /\ pc \in {"unwound", "cut"}
  /\ ReleaseScratch
  /\ pc' = "exited"
  /\ UNCHANGED <<platform, leaving, caught, loopVars, processVars, round_dir,
                 signals, historyVars>>

-----------------------------------------------------------------------------
(* Signals *)

(* The waits a signal may cut after they reaped and before Popen knows.    *)
reaping ==
  CASE pc = "failed_wait" -> {slot}
    [] pc = "await" /\ platform # "waitid" -> pending
    [] OTHER -> {}

(* SystemExit: out of the launch into `failed`, out of `failed` before its *)
(* kill or during its wait, and out of the finally block before it         *)
(* deferred anything.                                                      *)
Unwind ==
  /\ pc \in Unwinds
  /\ leaving' = "signal"
  /\ pc' = CASE pc \in {"unheld", "registered"} -> "failed_kill"
             [] pc = "finally" -> "cut"
             [] OTHER -> "finally"
  /\ unwatched' = IF pc = "failed_kill" THEN unwatched \cup ({slot} \ procs)
                                       ELSE unwatched
  /\ \/ UNCHANGED <<leader, lost_reap>>
     \/ \E s \in reaping :
          /\ leader[s] = "zombie"
          /\ leader' = [leader EXCEPT ![s] = "reaped"]
          /\ lost_reap' = lost_reap \cup {s}
  /\ UNCHANGED caught

Wait ==
  /\ pc \in Held \cup Deferred
  /\ caught' = TRUE
  /\ UNCHANGED <<pc, leaving, leader, unwatched, lost_reap>>

(* The handlers are the ones from before by then, and the default one ends *)
(* Python without atexit.                                                  *)
Die ==
  /\ pc \in {"unwound", "cut"}
  /\ pc' = "killed"
  /\ UNCHANGED <<leaving, caught, leader, unwatched, lost_reap>>

Signal ==
  /\ signals < MaxSignals
  /\ signals' = signals + 1
  /\ Unwind \/ Wait \/ Die
  /\ UNCHANGED <<platform, loopVars, returncode, helpers, reused, output,
                 round_dir, scratchVars, struck, untold, strays>>

Launching ==
  \/ MakeScratch \/ PrepareAgy \/ SkipSlot \/ HoldSignals \/ Popen \/ LaunchRaises
  \/ ReleaseSignals \/ Register \/ PopAll \/ FailedKill \/ FailedWait \/ AllLaunched

Awaiting ==
  \/ AllExited \/ Deadline \/ Watch \/ EndOfGrace
  \/ \E s \in Slots : SeeExit(s) \/ ReapExited(s) \/ GiveUp(s)

Finishing ==
  \/ Defer \/ AllStopped \/ AllPublished \/ KeepOutputs \/ Release \/ AtExit
  \/ \E s \in Slots : Stop(s) \/ Publish(s)

RoundStep == Launching \/ Awaiting \/ Finishing

Next == RoundStep \/ Reviewers \/ Signal

Spec == Init /\ [][Next]_vars

(* The round's own code runs on: its waits have deadlines.  Nothing makes  *)
(* a reviewer, or a helper, do anything.                                   *)
FairSpec == Spec /\ WF_vars(RoundStep)
=============================================================================
