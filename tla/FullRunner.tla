------------------------------ MODULE FullRunner ------------------------------
(***************************************************************************)
(* Full mode's reviewer runner, scripts/run_full_review.sh: two shells and *)
(* the jobs of the second.                                                 *)
(*                                                                         *)
(* The outer shell starts the inner one, in a session of its own where     *)
(* there is setsid, forwards it the signals that should stop the run and   *)
(* records how it ended.  The inner shell launches one job per slot, each  *)
(* a process group (set -m): the shell that runs the CLI, the CLI, and     *)
(* what the CLI leaves behind.  bash reaps a job at once, so the group's   *)
(* number may be somebody else's as soon as the group is empty.            *)
(*                                                                         *)
(* What a reviewer plants lies in REVIEW_TMP from the start here, and an   *)
(* interrupted shell handles a signal between two of its steps.            *)
(***************************************************************************)
EXTENDS Integers, FiniteSets

CONSTANTS
  N,           \* the slots are 1..N, launched in that order
  Agy,         \* the slots agy may take
  Sessions,    \* whether the inner shell has a session of its own (setsid)
  Endings,     \* per slot, the exit statuses its CLI may end with
  MaxSignals   \* bound: signals sent to the outer shell

Slots == 1..N

(* A CLI's exit statuses: 124 is "timeout"'s own, and 137 too when it had  *)
(* to send KILL, which anybody else's KILL gives as well.                  *)
Ending == {"0", "124", "137", "other"}

ASSUME RunnerAssumption ==
  /\ N \in Nat \ {0} /\ Agy \subseteq Slots
  /\ Sessions \subseteq BOOLEAN /\ Sessions # {}
  /\ Endings \in [Slots -> SUBSET Ending]
  /\ MaxSignals \in Nat

VARIABLES
  own_session,
  opc,            \* where the outer shell is
  pending,        \* outer: a signal came since the trap was set
  wait_status,    \* outer: $status, what the last wait returned
  runner_exit,    \* REVIEW_TMP/runner-exit; one is there from a run before
  ipc,            \* where the inner shell is
  num,            \* inner: the slot a loop is at
  stage,          \* inner: where kill_jobs is
  groups,         \* inner: kill_jobs' groups
  exit_status,    \* inner: what it exits with
  signals

VARIABLES         \* a job, per slot
  shell,          \* none, running (the CLI), cleaning, marking, gone
  cli, helper,    \* whether the CLI, or something it left behind, runs
  rc,             \* how the CLI ended
  output          \* what it wrote in OUT_DIR: none, or a good review

VARIABLES
  recorded,       \* the slots with a JOB_PID
  by_agy,         \* the slots whose JOB_BACKEND is agy
  done,           \* OUT_DIR/done-N: none, an exit status, or timeout
  tmp,            \* the output's name in REVIEW_TMP: absent, planted, good
  result, why,    \* result-N.json, and what a placeholder says
  helper_root, out_dir,        \* HELPER_ROOT, OUT_DIR: whether they exist
  listed, on_disk, named,      \* SCRATCH, slot 0 standing for PROMPT_DIR
  out_named,                   \* the warning that names OUT_DIR was printed
  published, publish_tried

(* History, for the properties only. *)
VARIABLES
  termed,         \* the outer shell signalled the inner one
  struck,         \* the slots whose number was killed as somebody else's
  mates,          \* the groups that had members when kill_jobs asked
  lost,           \* the slots forked and never recorded: a signal came between
  cut,            \* a signal came before finish_round ignored them
  late            \* the slots without a marker when the watchdog gave up

outerVars   == <<opc, pending, wait_status, runner_exit>>
killVars    == <<stage, groups>>
jobVars     == <<shell, cli, helper, rc, output>>
slotVars    == <<recorded, by_agy>>
resultVars  == <<result, why>>
tempVars    == <<helper_root, out_dir, out_named>>
scratchVars == <<listed, on_disk, named>>
publishVars == <<published, publish_tried>>
historyVars == <<termed, struck, mates, lost, cut, late>>
innerVars   == <<num, killVars, exit_status, slotVars, resultVars, tempVars,
                 scratchVars, publishVars>>
vars == <<own_session, outerVars, ipc, innerVars, signals, jobVars, done, tmp,
          historyVars>>

Init ==
  /\ own_session \in Sessions
  /\ opc = "setup" /\ pending = FALSE /\ wait_status = "none" /\ runner_exit = "0"
  /\ ipc = "none" /\ num = 1 /\ stage = "idle" /\ groups = {} /\ exit_status = "none"
  /\ signals = 0
  /\ shell = [s \in Slots |-> "none"]
  /\ cli = {} /\ helper = {}
  /\ rc = [s \in Slots |-> "none"] /\ output = [s \in Slots |-> "none"]
  /\ recorded = {} /\ by_agy = {}
  /\ done = [s \in Slots |-> "none"]
  /\ tmp = [s \in Slots |-> "planted"]
  /\ result = [s \in Slots |-> "planted"] /\ why = [s \in Slots |-> "none"]
  /\ helper_root = FALSE /\ out_dir = FALSE /\ out_named = FALSE
  /\ listed = {} /\ on_disk = {} /\ named = {}
  /\ published = FALSE /\ publish_tried = FALSE
  /\ termed = FALSE /\ struck = {} /\ mates = {} /\ lost = {} /\ cut = FALSE
  /\ late = {}

-----------------------------------------------------------------------------
(* The jobs *)

Members(s) == s \in cli \/ s \in helper \/ shell[s] \in {"running", "cleaning", "marking"}

CLIEnds(s) ==
  /\ s \in cli
  /\ cli' = cli \ {s}
  /\ helper' \in {helper, helper \cup {s}}
  /\ IF shell[s] = "running"
     THEN /\ \E ending \in Endings[s] : rc' = [rc EXCEPT ![s] = ending]
          /\ shell' = [shell EXCEPT ![s] = IF s \in by_agy THEN "cleaning" ELSE "marking"]
     ELSE UNCHANGED <<rc, shell>>
  /\ UNCHANGED <<output, on_disk, done, tmp, result>>

(* The agy job removes its own scratch first; a read-only part stays. *)
RemovesItsScratch(s) ==
  /\ shell[s] = "cleaning"
  /\ shell' = [shell EXCEPT ![s] = "marking"]
  /\ on_disk' \in {on_disk, on_disk \ {s}}
  /\ UNCHANGED <<cli, helper, rc, output, done, tmp, result>>

(* mark_done, by the job itself. *)
MarksDone(s) ==
  /\ shell[s] = "marking"
  /\ shell' = [shell EXCEPT ![s] = "gone"]
  /\ done' = IF out_dir THEN [done EXCEPT ![s] = rc[s]] ELSE done
  /\ UNCHANGED <<cli, helper, rc, output, on_disk, tmp, result>>

HelperEnds(s) ==
  /\ s \in helper /\ helper' = helper \ {s}
  /\ UNCHANGED <<shell, cli, rc, output, on_disk, done, tmp, result>>

Writes(s) ==
  /\ s \in cli \cup helper /\ out_dir
  /\ output' = [output EXCEPT ![s] = "good"]
  /\ UNCHANGED <<shell, cli, helper, rc, on_disk, done, tmp, result>>

(* With a file tool a reviewer may write under any name in REVIEW_TMP. *)
Plants(s, target) ==
  /\ s \in cli \cup helper
  /\ \/ tmp' = [tmp EXCEPT ![target] = "planted"] /\ UNCHANGED result
     \/ result' = [result EXCEPT ![target] = "planted"] /\ UNCHANGED tmp
  /\ UNCHANGED <<shell, cli, helper, rc, output, on_disk, done>>

JobStep ==
  /\ \E s \in Slots :
       \/ CLIEnds(s) \/ RemovesItsScratch(s) \/ MarksDone(s)
       \/ HelperEnds(s) \/ Writes(s)
       \/ \E target \in Slots : Plants(s, target)
  /\ UNCHANGED <<own_session, outerVars, ipc, num, killVars, exit_status, slotVars,
                 why, tempVars, listed, named, publishVars, signals, historyVars>>

-----------------------------------------------------------------------------
(* The inner shell: getting ready *)

Exits(status) ==
  /\ ipc' = "finish" /\ exit_status' = status
  /\ num' = 1 /\ stage' = "idle" /\ groups' = {}

GoesTo(place) == ipc' = place /\ UNCHANGED <<num, killVars, exit_status>>

(* Before finish_round is its trap, the shell just ends.                   *)
EndsEarly == ipc' = "exited" /\ exit_status' = "1" /\ UNCHANGED <<num, killVars>>

CopyHelpers ==
  \/ /\ ipc = "start" /\ GoesTo("copying") /\ helper_root' = TRUE
     /\ UNCHANGED <<slotVars, resultVars, out_dir, out_named, scratchVars, publishVars,
                    jobVars, done, tmp, historyVars>>
  \/ /\ ipc = "copying"
     /\ \/ GoesTo("copied") /\ UNCHANGED helper_root
        \/ EndsEarly /\ helper_root' = FALSE
     /\ UNCHANGED <<slotVars, resultVars, out_dir, out_named, scratchVars, publishVars,
                    jobVars, done, tmp, historyVars>>

(* OUT_DIR, a way to ask about groups, and finish_round as the EXIT trap.  *)
MakeOutDir ==
  /\ ipc = "copied"
  /\ \/ GoesTo("ready") /\ out_dir' = TRUE /\ UNCHANGED helper_root
     \/ EndsEarly /\ helper_root' = FALSE /\ UNCHANGED out_dir
  /\ UNCHANGED <<slotVars, resultVars, out_named, scratchVars, publishVars, jobVars,
                 done, tmp, historyVars>>

(* Neither claude nor hermes; or the prompts' copies, which may fail too.  *)
CopyPrompts ==
  /\ ipc = "ready"
  /\ \/ Exits("1") /\ UNCHANGED scratchVars
     \/ /\ Exits("1") \/ GoesTo("launch")
        /\ listed' = {0} /\ on_disk' = {0} /\ UNCHANGED named
  /\ UNCHANGED <<slotVars, resultVars, tempVars, publishVars, jobVars, done, tmp,
                 historyVars>>

-----------------------------------------------------------------------------
(* The inner shell: the launch *)

(* A plausible bug: one slot too many. *)
NextSlotPastTheEnd(loop, after) ==
  /\ IF num <= N THEN ipc' = loop /\ num' = num + 1
                 ELSE ipc' = after /\ num' = 1
  /\ UNCHANGED <<killVars, exit_status>>

NextSlot(loop, after) ==
  /\ IF num < N THEN ipc' = loop /\ num' = num + 1
                ELSE ipc' = after /\ num' = 1
  /\ UNCHANGED <<killVars, exit_status>>

(* No backend could be set up for the slot.                                *)
SkipSlot ==
  /\ ipc = "launch" /\ NextSlot("launch", "watch")
  /\ UNCHANGED <<slotVars, resultVars, tempVars, scratchVars, publishVars, jobVars,
                 done, tmp, historyVars>>

(* A plausible bug: agy's scratch is listed once agy is set up. *)
PrepareAgyListedLast ==
  /\ ipc = "launch" /\ num \in Agy \ listed
  /\ on_disk' = on_disk \cup {num}
  /\ \/ GoesTo("launch") /\ UNCHANGED listed
     \/ GoesTo("agy") /\ listed' = listed \cup {num}
  /\ UNCHANGED <<slotVars, resultVars, tempVars, named, publishVars, jobVars, done,
                 tmp, historyVars>>

(* prepare_agy: the scratch is listed the moment it exists, and stays so   *)
(* when agy cannot be set up and the slot goes to its next backend.        *)
PrepareAgy ==
  /\ ipc = "launch" /\ num \in Agy \ listed
  /\ listed' = listed \cup {num} /\ on_disk' = on_disk \cup {num}
  /\ GoesTo("launch") \/ GoesTo("agy")
  /\ UNCHANGED <<slotVars, resultVars, tempVars, named, publishVars, jobVars, done,
                 tmp, historyVars>>

ForkJob ==
  /\ ipc \in {"launch", "agy"} /\ GoesTo("forked")
  /\ by_agy' = IF ipc = "agy" THEN by_agy \cup {num} ELSE by_agy
  /\ shell' = [shell EXCEPT ![num] = "running"] /\ cli' = cli \cup {num}
  /\ UNCHANGED <<recorded, resultVars, tempVars, scratchVars, publishVars, helper, rc,
                 output, done, tmp, historyVars>>

(* JOB_PID[$num]=$!                                                        *)
RecordJob ==
  /\ ipc = "forked" /\ NextSlot("launch", "watch")
  /\ recorded' = recorded \cup {num}
  /\ UNCHANGED <<by_agy, resultVars, tempVars, scratchVars, publishVars, jobVars, done,
                 tmp, historyVars>>

-----------------------------------------------------------------------------
(* The inner shell: kill_jobs, asked of one slot by the watchdog and of    *)
(* every slot by the sweep and by finish_round                             *)

Killing == {"giveup_kill", "sweep", "finishing"}

(* A plausible bug: a number that exists is taken for a live group. *)
LiveGroupByNumber(s, taken) == s \in recorded /\ (Members(s) \/ s \in taken)

(* Asked of the shell's own session: where that is the caller's too, a     *)
(* number the system gave somebody there (taken) passes.                   *)
LiveGroup(s, taken) ==
  s \in recorded /\ (Members(s) \/ (s \in taken /\ ~own_session))

(* Where each of the three goes on once its kill_jobs is over.             *)
AfterKill ==
  IF ipc = "giveup_kill" THEN "giveup_mark"
  ELSE IF ipc = "sweep" THEN "scratch" ELSE "last_scratch"

(* A plausible bug: TERM, and nothing for what ignores it. *)
OnlyTermSent(signal) == stage' = "idle" /\ ipc' = AfterKill

(* After TERM, the groups are asked about again, for KILL; then it is over. *)
SignalSent(signal) ==
  IF signal = "term"
  THEN stage' = "termed" /\ UNCHANGED ipc
  ELSE stage' = "idle" /\ ipc' = AfterKill

AskWhoLives ==
  /\ ipc \in Killing /\ stage \in {"idle", "termed"}
  /\ LET asked  == IF ipc = "giveup_kill" THEN {num} ELSE Slots
         signal == IF stage = "idle" THEN "term" ELSE "kill"
     IN  \E taken \in SUBSET {s \in Slots : shell[s] = "gone" /\ ~Members(s)} :
           /\ groups' = {s \in asked : LiveGroup(s, taken)}
           /\ IF groups' = {} THEN SignalSent(signal) ELSE stage' = signal /\ UNCHANGED ipc
  /\ mates' = {s \in groups' : Members(s)}
  /\ UNCHANGED <<num, exit_status, slotVars, resultVars, tempVars, scratchVars,
                 publishVars, jobVars, done, tmp, termed, struck, lost, cut, late>>

(* A CLI, and what it left behind, may ignore TERM; nothing ignores KILL.  *)
(* A group without members may be anybody's by now.                        *)
SignalsGroups ==
  /\ ipc \in Killing /\ stage \in {"term", "kill"}
  /\ \E still \in SUBSET (cli \cap groups), there \in SUBSET (helper \cap groups) :
       /\ stage = "kill" => still = {} /\ there = {}
       /\ cli' = (cli \ groups) \cup still
       /\ helper' = (helper \ groups) \cup there
  /\ shell' = [s \in Slots |-> IF s \in groups THEN "gone" ELSE shell[s]]
  /\ struck' = struck \cup ({s \in groups : ~Members(s)} \ mates)
  /\ groups' = {} /\ mates' = {}
  /\ SignalSent(stage)
  /\ UNCHANGED <<num, exit_status, slotVars, resultVars, tempVars, scratchVars,
                 publishVars, rc, output, done, tmp, termed, lost, cut, late>>

-----------------------------------------------------------------------------
(* The inner shell: the watchdog and the sweep *)

Unmarked(s) == s \in recorded /\ done[s] = "none"

AllDone ==
  /\ ipc = "watch" /\ ~\E s \in Slots : Unmarked(s)
  /\ GoesTo("sweep")
  /\ UNCHANGED <<slotVars, resultVars, tempVars, scratchVars, publishVars, jobVars,
                 done, tmp, historyVars>>

(* A plausible bug: a reviewer is waited for as long as it runs. *)
BareWait ==
  /\ ipc = "watch" /\ \E s \in Slots : Unmarked(s)
  /\ ~\E s \in Slots : Members(s)
  /\ GoesTo("giveup")
  /\ UNCHANGED <<slotVars, resultVars, tempVars, scratchVars, publishVars, jobVars,
                 done, tmp, historyVars>>

Deadline ==
  /\ ipc = "watch" /\ \E s \in Slots : Unmarked(s)
  /\ GoesTo("giveup")
  /\ UNCHANGED <<slotVars, resultVars, tempVars, scratchVars, publishVars, jobVars,
                 done, tmp, historyVars>>

(* A plausible bug: the watchdog gives up on every slot alike. *)
GiveUpOnAll ==
  /\ ipc = "giveup"
  /\ IF num \in recorded
     THEN /\ GoesTo("giveup_kill")
          /\ late' = IF Unmarked(num) THEN late \cup {num} ELSE late
     ELSE NextSlot("giveup", "sweep") /\ UNCHANGED late
  /\ UNCHANGED <<slotVars, resultVars, tempVars, scratchVars, publishVars, jobVars,
                 done, tmp, termed, struck, mates, lost, cut>>

(* Each slot asked about once more: one that finished meanwhile is left.   *)
GiveUp ==
  /\ ipc = "giveup"
  /\ IF Unmarked(num)
     THEN GoesTo("giveup_kill") /\ late' = late \cup {num}
     ELSE NextSlot("giveup", "sweep") /\ UNCHANGED late
  /\ UNCHANGED <<slotVars, resultVars, tempVars, scratchVars, publishVars, jobVars,
                 done, tmp, termed, struck, mates, lost, cut>>

(* mark_done N timeout: over whatever the job wrote before it was killed.  *)
MarkTimeout ==
  /\ ipc = "giveup_mark" /\ NextSlot("giveup", "sweep")
  /\ done' = [done EXCEPT ![num] = "timeout"]
  /\ UNCHANGED <<slotVars, resultVars, tempVars, scratchVars, publishVars, jobVars,
                 tmp, historyVars>>

(* remove_scratch: after the sweep, and again on the way out, when         *)
(* finish_round removes the helpers' copy as well.  What agy made          *)
(* unremovable is named.                                                   *)
RemoveScratch ==
  /\ ipc \in {"scratch", "last_scratch"}
  /\ \E stuck \in SUBSET (by_agy \cap on_disk) :
       on_disk' = (on_disk \ listed) \cup stuck /\ named' = named \cup stuck
  /\ IF ipc = "scratch"
     THEN GoesTo("publish") /\ UNCHANGED helper_root
     ELSE GoesTo(IF publish_tried THEN "last_out" ELSE "last_publish") /\ helper_root' = FALSE
  /\ UNCHANGED <<slotVars, resultVars, out_dir, out_named, listed, publishVars, jobVars,
                 done, tmp, historyVars>>

-----------------------------------------------------------------------------
(* The inner shell: what is read, and how it ends *)

(* publish_outputs, slot by slot: replacing whatever is there, or leaving  *)
(* at the first slot whose names cannot be cleared or written.             *)
PublishSlot ==
  /\ ipc \in {"publish", "last_publish"}
  /\ LET after == IF ipc = "publish" THEN "extract" ELSE "last_out"
     IN  \/ /\ \E name \in {tmp[num], "absent"} : tmp' = [tmp EXCEPT ![num] = name]
            /\ ipc' = after /\ num' = 1 /\ UNCHANGED <<killVars, exit_status, published>>
         \/ /\ tmp' = [tmp EXCEPT ![num] = IF output[num] = "good" THEN "good" ELSE "absent"]
            /\ NextSlot(ipc, after) /\ published' = (num = N)
  /\ publish_tried' = TRUE
  /\ UNCHANGED <<slotVars, resultVars, tempVars, scratchVars, jobVars, done, historyVars>>

(* Why there is no review, read from the slot's marker.                    *)
WhyNot(s) ==
  IF ~published THEN "unpublished"
  ELSE IF s \notin recorded THEN "never launched"
  ELSE IF done[s] = "timeout" THEN "watchdog"
  ELSE IF done[s] \in {"124", "137"} THEN "its timeout"
  ELSE IF done[s] = "none" THEN "no status"
  ELSE IF done[s] = "0" THEN "no JSON" ELSE "exited"

(* A plausible bug: what lies in REVIEW_TMP is read, published or not. *)
ExtractAnyway ==
  /\ ipc = "extract"
  /\ \/ Exits("1") /\ UNCHANGED resultVars
     \/ /\ IF num < N THEN NextSlot("extract", "extract") ELSE Exits("0")
        /\ IF num \in recorded /\ tmp[num] # "absent"
           THEN /\ result' = [result EXCEPT
                     ![num] = IF tmp[num] = "good" THEN "review" ELSE "planted"]
                /\ UNCHANGED why
           ELSE /\ result' = [result EXCEPT ![num] = "placeholder"]
                /\ why' = [why EXCEPT ![num] = WhyNot(num)]
  /\ UNCHANGED <<slotVars, tempVars, scratchVars, publishVars, jobVars, done, tmp,
                 historyVars>>

(* Only the file the slot's own CLI writes is read, and only if all was    *)
(* published.                                                              *)
ExtractSlot ==
  /\ ipc = "extract"
  /\ \/ Exits("1") /\ UNCHANGED resultVars
     \/ /\ IF num < N THEN NextSlot("extract", "extract") ELSE Exits("0")
        /\ IF published /\ num \in recorded /\ tmp[num] # "absent"
           THEN /\ result' = [result EXCEPT
                     ![num] = IF tmp[num] = "good" THEN "review" ELSE "planted"]
                /\ UNCHANGED why
           ELSE /\ result' = [result EXCEPT ![num] = "placeholder"]
                /\ why' = [why EXCEPT ![num] = WhyNot(num)]
  /\ UNCHANGED <<slotVars, tempVars, scratchVars, publishVars, jobVars, done, tmp,
                 historyVars>>

(* finish_round begins: from here no signal is heard.                      *)
FinishRound ==
  /\ ipc = "finish" /\ GoesTo("finishing")
  /\ UNCHANGED <<slotVars, resultVars, tempVars, scratchVars, publishVars, jobVars,
                 done, tmp, historyVars>>

(* A plausible bug: it goes once publishing it was tried. *)
LeaveOutDirTried ==
  /\ ipc = "last_out" /\ GoesTo("exited")
  /\ out_dir' = ~publish_tried /\ out_named' = ~publish_tried
  /\ UNCHANGED <<slotVars, resultVars, helper_root, scratchVars, publishVars, jobVars,
                 done, tmp, historyVars>>

(* OUT_DIR goes only once its outputs are published; else it is named.     *)
LeaveOutDir ==
  /\ ipc = "last_out" /\ GoesTo("exited")
  /\ out_dir' = ~published /\ out_named' = ~published
  /\ UNCHANGED <<slotVars, resultVars, helper_root, scratchVars, publishVars, jobVars,
                 done, tmp, historyVars>>

InnerStep ==
  /\ \/ CopyHelpers \/ MakeOutDir \/ CopyPrompts
     \/ SkipSlot \/ PrepareAgy \/ ForkJob \/ RecordJob
     \/ AskWhoLives \/ SignalsGroups
     \/ AllDone \/ Deadline \/ GiveUp \/ MarkTimeout \/ RemoveScratch
     \/ PublishSlot \/ ExtractSlot \/ FinishRound \/ LeaveOutDir
  /\ UNCHANGED <<own_session, outerVars, signals>>

-----------------------------------------------------------------------------
(* The outer shell *)

SetTrap ==
  /\ opc = "setup" /\ opc' = "trapped" /\ runner_exit' = "absent"
  /\ UNCHANGED <<pending, wait_status, ipc, termed>>

StartInner ==
  /\ opc = "trapped" /\ opc' = "launched" /\ ipc' = "start"
  /\ UNCHANGED <<pending, wait_status, runner_exit, termed>>

(* inner=$!                                                                *)
AssignInner ==
  /\ opc = "launched" /\ opc' = "assigned"
  /\ UNCHANGED <<pending, wait_status, runner_exit, ipc, termed>>

WaitReturns ==
  /\ opc = "waiting" /\ ipc = "exited"
  /\ opc' = "woken" /\ wait_status' = exit_status
  /\ UNCHANGED <<pending, runner_exit, ipc, termed>>

(* kill -0: waited for again while it lives.                               *)
WaitAgain ==
  /\ opc = "woken"
  /\ opc' = IF ipc = "exited" THEN "logging" ELSE "waiting"
  /\ UNCHANGED <<pending, wait_status, runner_exit, ipc, termed>>

WriteExit ==
  /\ opc = "logging" /\ opc' = "ended" /\ runner_exit' = wait_status
  /\ UNCHANGED <<pending, wait_status, ipc, termed>>

(* What TERM does to the inner shell, which is told before its next step:  *)
(* it just ends, or its EXIT trap removes the first copies, or exit 143    *)
(* runs finish_round, or cuts it short, or is ignored.                     *)
InnerGetsTerm ==
  /\ termed' = TRUE
  /\ \/ /\ ipc \in {"start", "copying", "copied"}
        /\ ipc' = "exited" /\ exit_status' = "143"
        /\ helper_root' = (ipc = "copying")
        /\ UNCHANGED <<num, killVars, lost, cut, mates>>
     \/ /\ ipc = "finish"
        /\ ipc' = "exited" /\ exit_status' = "143" /\ cut' = TRUE
        /\ UNCHANGED <<num, killVars, helper_root, lost, mates>>
     \/ /\ ipc \in {"finishing", "last_scratch", "last_publish", "last_out", "exited"}
        /\ UNCHANGED <<ipc, exit_status, num, killVars, helper_root, lost, cut, mates>>
     \/ /\ ipc \notin {"start", "copying", "copied", "finish", "finishing", "last_scratch",
                       "last_publish", "last_out", "exited"}
        /\ Exits("143") /\ mates' = {}
        /\ lost' = IF ipc = "forked" THEN {num} ELSE lost
        /\ UNCHANGED <<helper_root, cut>>

InnerHearsNothing ==
  UNCHANGED <<ipc, exit_status, num, killVars, helper_root, lost, cut, mates, termed>>

(* A plausible bug: a signal is forwarded only when it comes. *)
NothingPending ==
  /\ opc = "assigned" /\ opc' = "waiting"
  /\ InnerHearsNothing
  /\ UNCHANGED <<pending, wait_status, runner_exit>>

(* if $pending, the signal that came before there was an inner shell.      *)
CheckPending ==
  /\ opc = "assigned" /\ opc' = "waiting"
  /\ IF pending THEN InnerGetsTerm ELSE InnerHearsNothing
  /\ UNCHANGED <<pending, wait_status, runner_exit>>

(* The trap; before it is set, a signal ends the shell.  It ends a wait.   *)
SignalComes ==
  /\ opc \notin {"killed", "ended"} /\ signals < MaxSignals
  /\ signals' = signals + 1
  /\ IF opc = "setup" THEN opc' = "killed" /\ UNCHANGED <<pending, wait_status>>
     ELSE /\ pending' = TRUE
          /\ IF opc = "waiting" THEN opc' = "woken" /\ wait_status' = "143"
                                ELSE UNCHANGED <<opc, wait_status>>
  /\ IF opc \in {"setup", "trapped", "launched"} THEN InnerHearsNothing ELSE InnerGetsTerm
  /\ UNCHANGED runner_exit

OuterStep ==
  /\ \/ /\ SetTrap \/ StartInner \/ AssignInner \/ WaitReturns \/ WaitAgain \/ WriteExit
        /\ UNCHANGED <<exit_status, num, killVars, helper_root, lost, cut, mates>>
     \/ CheckPending
  /\ UNCHANGED <<own_session, signals, slotVars, resultVars, out_dir, out_named,
                 scratchVars, publishVars, jobVars, done, tmp, struck, late>>

Interrupted ==
  /\ SignalComes
  /\ UNCHANGED <<own_session, slotVars, resultVars, out_dir, out_named, scratchVars,
                 publishVars, jobVars, done, tmp, struck, late>>

RunnerStep == OuterStep \/ InnerStep

Next == RunnerStep \/ JobStep \/ Interrupted

Spec == Init /\ [][Next]_vars

(* The shells go on; a job need never end, nor a signal come.              *)
FairSpec == Spec /\ WF_vars(OuterStep) /\ WF_vars(InnerStep)
=============================================================================
