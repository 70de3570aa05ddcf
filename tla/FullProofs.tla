------------------------------ MODULE FullProofs ------------------------------
(***************************************************************************)
(* Proofs about full mode's runner, for any number of slots and of         *)
(* signals, whichever slots agy may take and whoever's session it is.      *)
(***************************************************************************)
EXTENDS FullProperties, TLAPS

(* The inner shell's actions, as the lemmas group them.                    *)
GetsReady == CopyHelpers \/ MakeOutDir \/ CopyPrompts
Launches  == SkipSlot \/ PrepareAgy \/ ForkJob \/ RecordJob
Watches   == AllDone \/ Deadline \/ GiveUp \/ MarkTimeout
Leaves    == RemoveScratch \/ PublishSlot \/ ExtractSlot \/ FinishRound \/ LeaveOutDir

Inner ==
  /\ GetsReady \/ Launches \/ AskWhoLives \/ SignalsGroups \/ Watches \/ Leaves
  /\ UNCHANGED <<own_session, outerVars, signals>>

(* The outer shell's, but for those that may pass on a signal.             *)
Waits ==
  /\ SetTrap \/ StartInner \/ AssignInner \/ WaitReturns \/ WaitAgain \/ WriteExit
  /\ UNCHANGED <<own_session, signals, innerVars, jobVars, done, tmp, struck, mates, lost,
                 cut, late>>
(* And those.                                                              *)
Forwards ==
  /\ (CheckPending /\ UNCHANGED signals) \/ SignalComes
  /\ UNCHANGED <<own_session, slotVars, resultVars, out_dir, out_named, scratchVars,
                 publishVars, jobVars, done, tmp, struck, late>>

(* Every step is of one of these groups.                                   *)
LEMMA Groups ==
  ASSUME [Next]_vars
  PROVE  Inner \/ Waits \/ Forwards \/ JobStep \/ UNCHANGED vars
<1>1. CASE InnerStep
  BY <1>1 DEF InnerStep, Inner, GetsReady, Launches, Watches, Leaves
<1>2. CASE OuterStep
  BY <1>2 DEF OuterStep, Waits, Forwards, innerVars, tempVars
<1>3. CASE Interrupted
  BY <1>3 DEF Interrupted, Forwards
<1> QED
  BY <1>1, <1>2, <1>3 DEF Next, RunnerStep

-----------------------------------------------------------------------------
(* Types *)

(* A first state has values of every kind.                                 *)
LEMMA InitType == Init => TypeOK
<1> SUFFICES ASSUME Init PROVE TypeOK
  OBVIOUS
<1> USE RunnerAssumption DEF Init
<1>1. ShellTypes
  <2>1. pending \in BOOLEAN /\ termed \in BOOLEAN /\ cut \in BOOLEAN
    OBVIOUS
  <2> QED
    BY <2>1 DEF ShellTypes, Places, Preparing
<1>2. JobTypes
  BY DEF JobTypes, Statuses
<1>3. FileTypes
  BY DEF FileTypes
<1> QED
  BY <1>1, <1>2, <1>3 DEF TypeOK

(* The slot a loop is at, and a first one.                                 *)
LEMMA SlotNumbers ==
  ASSUME ShellTypes
  PROVE  num \in Slots /\ num \in 0..N /\ 0 \in 0..N /\ 1 \in 1..N /\ 1 \in Slots
<1>1. N \in Nat \ {0}
  BY RunnerAssumption
<1>2. num \in 1..N
  BY DEF ShellTypes
<1> QED
  BY <1>1, <1>2 DEF Slots

(* A loop over the slots stays on them.                                    *)
LEMMA NextSlotType ==
  ASSUME ShellTypes, NEW loop, NEW after, NextSlot(loop, after)
  PROVE  /\ ipc' \in {loop, after} /\ num' \in 1..N
         /\ UNCHANGED <<stage, groups, exit_status>>
  BY RunnerAssumption DEF ShellTypes, NextSlot, killVars

(* Asked about, the groups that answer are recorded ones with members, or  *)
(* where the session is the caller's too, ones that only seem to have.     *)
LEMMA AskSays ==
  ASSUME AskWhoLives
  PROVE  /\ ipc \in Killing /\ stage \in {"idle", "termed"}
         /\ groups' \subseteq recorded /\ mates' \subseteq groups'
         /\ own_session => mates' = groups'
         /\ ipc # "giveup_kill" => \A s \in (recorded \cap Slots) \ groups' : ~Members(s)
         /\ \/ groups' = {} /\ stage = "idle" /\ stage' = "termed" /\ ipc' = ipc
            \/ groups' = {} /\ stage = "termed" /\ stage' = "idle" /\ ipc' = AfterKill
            \/ stage = "idle" /\ stage' = "term" /\ ipc' = ipc
            \/ stage = "termed" /\ stage' = "kill" /\ ipc' = ipc
<1> DEFINE asked  == IF ipc = "giveup_kill" THEN {num} ELSE Slots
           signal == IF stage = "idle" THEN "term" ELSE "kill"
<1>1. PICK taken \in SUBSET {s \in Slots : shell[s] = "gone" /\ ~Members(s)} :
        /\ groups' = {s \in asked : LiveGroup(s, taken)}
        /\ IF groups' = {} THEN SignalSent(signal) ELSE stage' = signal /\ UNCHANGED ipc
  BY DEF AskWhoLives
<1>2. /\ ipc \in Killing /\ stage \in {"idle", "termed"}
      /\ mates' = {s \in groups' : Members(s)}
  BY DEF AskWhoLives
<1>3. groups' \subseteq recorded
  BY <1>1 DEF LiveGroup
<1>4. own_session => mates' = groups'
  BY <1>1, <1>2 DEF LiveGroup
<1>5. ipc # "giveup_kill" => \A s \in (recorded \cap Slots) \ groups' : ~Members(s)
  BY <1>1 DEF LiveGroup
<1> QED
  BY <1>1, <1>2, <1>3, <1>4, <1>5 DEF SignalSent

(* The inner shell's steps keep the types of where it is,                  *)
LEMMA InnerShellTypes ==
  ASSUME TypeOK, Inner
  PROVE  ShellTypes'
<1> USE RunnerAssumption DEF TypeOK, outerVars, Inner
<1>s. ASSUME /\ ipc' \in Places /\ num' \in 1..N
             /\ UNCHANGED <<stage, groups, exit_status, historyVars>>
      PROVE  ShellTypes'
  BY <1>s DEF ShellTypes, historyVars
<1>1. CASE GetsReady
  BY <1>1 DEF GetsReady, CopyHelpers, MakeOutDir, CopyPrompts, GoesTo, Exits, EndsEarly,
     killVars, historyVars, ShellTypes, Places, Preparing, Launching, Finishing
<1>2. CASE Launches
  BY <1>2 DEF Launches, SkipSlot, PrepareAgy, ForkJob, RecordJob, NextSlot, GoesTo,
     killVars, historyVars, ShellTypes, Places, Launching
<1>3. CASE AskWhoLives
  <2>1. groups' \in SUBSET Slots /\ mates' \in SUBSET Slots
    BY <1>3, AskSays DEF JobTypes
  <2>2. ipc' \in Places /\ stage' \in {"idle", "term", "termed", "kill"}
    BY <1>3, AskSays DEF AfterKill, ShellTypes, Killing, Places, Finishing
  <2> QED
    BY <1>3, <2>1, <2>2 DEF AskWhoLives, ShellTypes
<1>4. CASE SignalsGroups
  <2>1. groups' \in SUBSET Slots /\ mates' \in SUBSET Slots /\ struck' \in SUBSET Slots
    BY <1>4 DEF SignalsGroups, ShellTypes
  <2>2. ipc' \in Places /\ stage' \in {"idle", "term", "termed", "kill"}
    BY <1>4 DEF SignalsGroups, SignalSent, AfterKill, ShellTypes, Killing, Places, Finishing
  <2> QED
    BY <1>4, <2>1, <2>2 DEF SignalsGroups, ShellTypes
<1>5. CASE Watches
  BY <1>5 DEF Watches, AllDone, Deadline, GiveUp, MarkTimeout, NextSlot, GoesTo,
     killVars, historyVars, ShellTypes, Places, Launching, Killing
<1>6. CASE Leaves
  BY <1>6 DEF Leaves, RemoveScratch, PublishSlot, ExtractSlot, FinishRound, LeaveOutDir,
     NextSlot, GoesTo, Exits, killVars, historyVars, ShellTypes, Places, Finishing, Killing
<1> QED
  BY <1>1, <1>2, <1>3, <1>4, <1>5, <1>6

(* of the jobs,                                                            *)
LEMMA InnerJobTypes ==
  ASSUME TypeOK, Inner
  PROVE  JobTypes'
<1> USE DEF TypeOK, JobTypes, slotVars, jobVars, historyVars, Inner
<1>0. num \in Slots
  BY SlotNumbers
<1>1. CASE GetsReady
  BY <1>1 DEF GetsReady, CopyHelpers, MakeOutDir, CopyPrompts
<1>2. CASE SkipSlot \/ PrepareAgy \/ RecordJob
  BY <1>0, <1>2 DEF SkipSlot, PrepareAgy, RecordJob
<1>3. CASE ForkJob
  <2>1. shell' \in [Slots -> {"none", "running", "cleaning", "marking", "gone"}]
    BY <1>0, <1>3 DEF ForkJob
  <2>2. cli' \in SUBSET Slots /\ by_agy' \in SUBSET Slots
    BY <1>0, <1>3 DEF ForkJob
  <2> QED
    BY <1>3, <2>1, <2>2 DEF ForkJob
<1>4. CASE AskWhoLives
  BY <1>4 DEF AskWhoLives
<1>5. CASE SignalsGroups
  <2>1. cli' \in SUBSET Slots /\ helper' \in SUBSET Slots
    BY <1>5 DEF SignalsGroups
  <2>2. shell' \in [Slots -> {"none", "running", "cleaning", "marking", "gone"}]
    BY <1>5 DEF SignalsGroups
  <2> QED
    BY <1>5, <2>1, <2>2 DEF SignalsGroups
<1>6. CASE AllDone \/ Deadline \/ GiveUp
  BY <1>0, <1>6 DEF AllDone, Deadline, GiveUp
<1>7. CASE MarkTimeout
  <2>1. done' \in [Slots -> Statuses]
    BY <1>0, <1>7 DEF MarkTimeout, Statuses
  <2> QED
    BY <1>7, <2>1 DEF MarkTimeout
<1>8. CASE Leaves
  BY <1>8 DEF Leaves, RemoveScratch, PublishSlot, ExtractSlot, FinishRound, LeaveOutDir
<1> QED
  BY <1>1, <1>2, <1>3, <1>4, <1>5, <1>6, <1>7, <1>8 DEF Launches, Watches

(* and of the files.                                                       *)
LEMMA InnerFileTypes ==
  ASSUME TypeOK, Inner
  PROVE  FileTypes'
<1> USE DEF TypeOK, FileTypes, jobVars, resultVars, tempVars, scratchVars, publishVars, Inner
<1>0. num \in Slots
  BY SlotNumbers
<1>1. CASE CopyHelpers \/ MakeOutDir
  <2>1. helper_root' \in BOOLEAN /\ out_dir' \in BOOLEAN
    BY <1>1 DEF CopyHelpers, MakeOutDir
  <2> QED
    BY <1>1, <2>1 DEF CopyHelpers, MakeOutDir
<1>2. CASE CopyPrompts
  <2>1. listed' \in SUBSET (0..N) /\ on_disk' \in SUBSET (0..N) /\ named' \in SUBSET (0..N)
    <3>1. {0} \in SUBSET (0..N)
      BY SlotNumbers
    <3>2. listed' \in {listed, {0}} /\ on_disk' \in {on_disk, {0}} /\ named' = named
      BY <1>2 DEF CopyPrompts
    <3> QED
      BY <3>1, <3>2
  <2> QED
    BY <1>2, <2>1 DEF CopyPrompts
<1>3. CASE Launches
  <2>1. listed' \in SUBSET (0..N) /\ on_disk' \in SUBSET (0..N) /\ named' \in SUBSET (0..N)
    <3>1. num \in 0..N
      BY SlotNumbers
    <3>2. /\ listed' \in {listed, listed \cup {num}}
          /\ on_disk' \in {on_disk, on_disk \cup {num}} /\ named' = named
      BY <1>3 DEF Launches, SkipSlot, PrepareAgy, ForkJob, RecordJob
    <3> QED
      BY <3>1, <3>2
  <2> QED
    BY <1>3, <2>1 DEF Launches, SkipSlot, PrepareAgy, ForkJob, RecordJob
<1>4. CASE AskWhoLives \/ SignalsGroups \/ Watches
  BY <1>4 DEF AskWhoLives, SignalsGroups, Watches, AllDone, Deadline, GiveUp, MarkTimeout
<1>5. CASE RemoveScratch
  <2>1. on_disk' \in SUBSET (0..N) /\ named' \in SUBSET (0..N)
    BY <1>5 DEF RemoveScratch
  <2>2. helper_root' \in BOOLEAN
    BY <1>5 DEF RemoveScratch
  <2> QED
    BY <1>5, <2>1, <2>2 DEF RemoveScratch
<1>6. CASE PublishSlot
  <2>1. tmp' \in [Slots -> {"absent", "planted", "good"}]
    BY <1>0, <1>6 DEF PublishSlot
  <2>2. published' \in BOOLEAN /\ publish_tried' \in BOOLEAN
    BY <1>6 DEF PublishSlot
  <2> QED
    BY <1>6, <2>1, <2>2 DEF PublishSlot
<1>7. CASE ExtractSlot
  <2>1. result' \in [Slots -> {"absent", "planted", "review", "placeholder"}]
    BY <1>0, <1>7 DEF ExtractSlot
  <2>2. WhyNot(num) \in {"none", "unpublished", "never launched", "watchdog",
                         "its timeout", "no JSON", "no status", "exited"}
    BY DEF WhyNot
  <2>3. why' \in [Slots -> {"none", "unpublished", "never launched", "watchdog",
                            "its timeout", "no JSON", "no status", "exited"}]
    BY <1>0, <1>7, <2>2 DEF ExtractSlot
  <2> QED
    BY <1>7, <2>1, <2>3 DEF ExtractSlot
<1>8. CASE FinishRound \/ LeaveOutDir
  <2>1. out_dir' \in BOOLEAN /\ out_named' \in BOOLEAN
    BY <1>8 DEF FinishRound, LeaveOutDir
  <2> QED
    BY <1>8, <2>1 DEF FinishRound, LeaveOutDir
<1> QED
  BY <1>1, <1>2, <1>3, <1>4, <1>5, <1>6, <1>7, <1>8 DEF GetsReady, Leaves

(* A job's steps keep the types.                                           *)
LEMMA JobStepType ==
  ASSUME TypeOK, JobStep
  PROVE  TypeOK'
<1> USE DEF outerVars, killVars, slotVars, tempVars, publishVars, historyVars
<1>1. PICK s \in Slots : \/ CLIEnds(s) \/ RemovesItsScratch(s) \/ MarksDone(s)
                         \/ HelperEnds(s) \/ Writes(s)
                         \/ \E target \in Slots : Plants(s, target)
  BY DEF JobStep
<1>2. ShellTypes'
  BY DEF JobStep, TypeOK, ShellTypes
<1>3. JobTypes'
  <2>1. CASE CLIEnds(s) /\ shell[s] = "running"
    <3>1. rc' \in [Slots -> Ending \cup {"none"}]
      <4>1. PICK ending \in Endings[s] : rc' = [rc EXCEPT ![s] = ending]
        BY <2>1 DEF CLIEnds
      <4>2. ending \in Ending
        BY RunnerAssumption
      <4> QED
        BY <4>1, <4>2 DEF TypeOK, JobTypes
    <3>2. shell' \in [Slots -> {"none", "running", "cleaning", "marking", "gone"}]
      BY <2>1 DEF CLIEnds, TypeOK, JobTypes
    <3>3. cli' \in SUBSET Slots /\ helper' \in SUBSET Slots
      BY <2>1 DEF CLIEnds, TypeOK, JobTypes
    <3> QED
      BY <2>1, <3>1, <3>2, <3>3 DEF CLIEnds, JobStep, TypeOK, JobTypes
  <2>2. CASE CLIEnds(s) /\ shell[s] # "running"
    BY <2>2 DEF CLIEnds, JobStep, TypeOK, JobTypes
  <2>3. CASE RemovesItsScratch(s)
    BY <2>3 DEF RemovesItsScratch, JobStep, TypeOK, JobTypes
  <2>4. CASE MarksDone(s)
    <3>1. done' \in [Slots -> Statuses]
      <4>1. rc[s] \in Statuses
        BY DEF TypeOK, JobTypes, Ending, Statuses
      <4> QED
        BY <2>4, <4>1 DEF MarksDone, TypeOK, JobTypes
    <3>2. shell' \in [Slots -> {"none", "running", "cleaning", "marking", "gone"}]
      BY <2>4 DEF MarksDone, TypeOK, JobTypes
    <3> QED
      BY <2>4, <3>1, <3>2 DEF MarksDone, JobStep, TypeOK, JobTypes
  <2>5. CASE HelperEnds(s) \/ Writes(s) \/ \E target \in Slots : Plants(s, target)
    BY <2>5 DEF HelperEnds, Writes, Plants, JobStep, TypeOK, JobTypes
  <2> QED
    BY <1>1, <2>1, <2>2, <2>3, <2>4, <2>5
<1>4. FileTypes'
  <2>1. CASE CLIEnds(s) \/ RemovesItsScratch(s) \/ MarksDone(s) \/ HelperEnds(s)
    BY <2>1 DEF CLIEnds, RemovesItsScratch, MarksDone, HelperEnds, JobStep, TypeOK, FileTypes
  <2>2. CASE Writes(s)
    BY <2>2 DEF Writes, JobStep, TypeOK, FileTypes
  <2>3. ASSUME NEW target \in Slots, Plants(s, target) PROVE FileTypes'
    <3>1. tmp' \in [Slots -> {"absent", "planted", "good"}]
      BY <2>3 DEF Plants, TypeOK, FileTypes
    <3>2. result' \in [Slots -> {"absent", "planted", "review", "placeholder"}]
      BY <2>3 DEF Plants, TypeOK, FileTypes
    <3> QED
      BY <2>3, <3>1, <3>2 DEF Plants, JobStep, TypeOK, FileTypes
  <2> QED
    BY <1>1, <2>1, <2>2, <2>3
<1> QED
  BY <1>2, <1>3, <1>4 DEF TypeOK

(* What a signal passed on does to the inner shell's variables.            *)
LEMMA TermType ==
  ASSUME TypeOK, InnerGetsTerm \/ InnerHearsNothing
  PROVE  /\ ipc' \in Places /\ num' \in 1..N /\ stage' \in {"idle", "term", "termed", "kill"}
         /\ exit_status' \in {"none", "0", "1", "143"}
         /\ groups' \in SUBSET Slots /\ mates' \in SUBSET Slots /\ lost' \in SUBSET Slots
         /\ helper_root' \in BOOLEAN /\ cut' \in BOOLEAN /\ termed' \in BOOLEAN
<1> USE DEF TypeOK, ShellTypes, JobTypes, FileTypes, killVars, Exits
<1>0. num \in Slots /\ 1 \in 1..N
  BY SlotNumbers
<1>1. CASE InnerHearsNothing
  BY <1>1 DEF InnerHearsNothing
<1>2. CASE InnerGetsTerm
  <2>1. /\ ipc' \in Places /\ num' \in 1..N /\ stage' \in {"idle", "term", "termed", "kill"}
        /\ exit_status' \in {"none", "0", "1", "143"}
    BY <1>0, <1>2 DEF InnerGetsTerm, Places, Finishing
  <2>2. groups' \in SUBSET Slots /\ mates' \in SUBSET Slots /\ lost' \in SUBSET Slots
    BY <1>0, <1>2 DEF InnerGetsTerm
  <2>3. helper_root' \in BOOLEAN /\ cut' \in BOOLEAN /\ termed' \in BOOLEAN
    BY <1>2 DEF InnerGetsTerm
  <2> QED
    BY <2>1, <2>2, <2>3
<1> QED
  BY <1>1, <1>2

(* So do a signal and what it makes of the inner shell.                    *)
LEMMA ForwardsType ==
  ASSUME TypeOK, Forwards
  PROVE  TypeOK'
<1> USE DEF Forwards, slotVars, resultVars, scratchVars, publishVars, jobVars
<1>1. InnerGetsTerm \/ InnerHearsNothing
  BY DEF CheckPending, SignalComes
<1>2. /\ opc' \in {"setup", "killed", "trapped", "launched", "assigned", "waiting", "woken",
                  "logging", "ended"}
      /\ wait_status' \in {"none", "0", "1", "143"} /\ runner_exit' = runner_exit
  BY DEF CheckPending, SignalComes, TypeOK, ShellTypes
<1>3. pending' \in BOOLEAN
  BY DEF CheckPending, SignalComes, TypeOK, ShellTypes
<1>4. signals' \in 0..MaxSignals
  BY RunnerAssumption DEF CheckPending, SignalComes, TypeOK, ShellTypes
<1> QED
  BY <1>1, <1>2, <1>3, <1>4, TermType DEF TypeOK, ShellTypes, JobTypes, FileTypes

(* The status written down is one the inner shell ended with.              *)
LEMMA WaitsType ==
  ASSUME TypeOK, OuterInv, Waits
  PROVE  TypeOK'
<1> USE DEF Waits, innerVars, killVars, slotVars, resultVars, tempVars, scratchVars,
            publishVars, jobVars, SetTrap, StartInner, AssignInner, WaitReturns, WaitAgain,
            WriteExit
<1>1. /\ opc' \in {"setup", "killed", "trapped", "launched", "assigned", "waiting", "woken",
                  "logging", "ended"}
      /\ ipc' \in Places
  BY DEF TypeOK, ShellTypes, Places, Preparing
<1>2. /\ wait_status' \in {"none", "0", "1", "143"}
      /\ runner_exit' \in {"absent", "0", "1", "143"}
  BY DEF TypeOK, ShellTypes, OuterInv
<1>3. ShellTypes'
  <2>1. UNCHANGED <<own_session, signals, pending, termed, cut, exit_status, num, stage,
                    groups, struck, mates>>
    OBVIOUS
  <2> QED
    BY <1>1, <1>2, <2>1 DEF TypeOK, ShellTypes
<1>4. JobTypes'
  <2>1. UNCHANGED <<shell, cli, helper, recorded, by_agy, lost, late, rc, done>>
    OBVIOUS
  <2> QED
    BY <2>1 DEF TypeOK, JobTypes
<1>5. FileTypes'
  <2>1. UNCHANGED <<output, tmp, result, why, listed, on_disk, named, helper_root, out_dir,
                    out_named, published, publish_tried>>
    OBVIOUS
  <2> QED
    BY <2>1 DEF TypeOK, FileTypes
<1> QED
  BY <1>3, <1>4, <1>5 DEF TypeOK

(* And so every step.                                                      *)
LEMMA StepType ==
  ASSUME TypeOK, OuterInv, [Next]_vars
  PROVE  TypeOK'
<1>1. CASE Inner
  BY <1>1, InnerShellTypes, InnerJobTypes, InnerFileTypes DEF TypeOK
<1>2. CASE UNCHANGED vars
  <2> USE DEF vars, outerVars, innerVars, killVars, slotVars, resultVars, tempVars,
              scratchVars, publishVars, jobVars, historyVars
  <2>1. ShellTypes'
    BY <1>2 DEF TypeOK, ShellTypes
  <2>2. JobTypes'
    BY <1>2 DEF TypeOK, JobTypes
  <2>3. FileTypes'
    BY <1>2 DEF TypeOK, FileTypes
  <2> QED
    BY <2>1, <2>2, <2>3 DEF TypeOK
<1> QED
  BY <1>1, <1>2, JobStepType, WaitsType, ForwardsType, Groups

-----------------------------------------------------------------------------
(* The two shells *)

(* What a signal passed on does to the inner shell.                        *)
LEMMA TermCases ==
  ASSUME Forwards
  PROVE  /\ \/ UNCHANGED <<ipc, exit_status, num, stage, groups, helper_root, lost, cut, mates>>
            \/ /\ ipc \in {"start", "copying", "copied"} /\ ipc' = "exited"
               /\ UNCHANGED <<num, stage, groups, lost, cut, mates>>
            \/ /\ ipc = "finish" /\ ipc' = "exited" /\ cut' = TRUE
               /\ UNCHANGED <<num, stage, groups, helper_root, lost, mates>>
            \/ /\ ipc \notin {"start", "copying", "copied"} \cup Finishing
               /\ opc \notin {"setup", "killed", "trapped", "launched"}
               /\ ipc' = "finish" /\ num' = 1 /\ stage' = "idle"
               /\ groups' = {} /\ mates' = {}
               /\ lost' = IF ipc = "forked" THEN {num} ELSE lost
               /\ UNCHANGED <<helper_root, cut>>
         /\ exit_status' # exit_status => exit_status' = "143" /\ ipc # "exited"
         /\ ipc' # ipc => exit_status' = "143"
<1> USE DEF killVars
<1>1. \/ InnerHearsNothing
      \/ InnerGetsTerm /\ opc \notin {"setup", "killed", "trapped", "launched"}
  BY DEF Forwards, CheckPending, SignalComes
<1>2. CASE InnerHearsNothing
  BY <1>2 DEF InnerHearsNothing
<1>3. CASE InnerGetsTerm /\ opc \notin {"setup", "killed", "trapped", "launched"}
  BY <1>3 DEF InnerGetsTerm, Exits, Finishing
<1> QED
  BY <1>1, <1>2, <1>3

(* Where the inner shell's own steps take it.                              *)
LEMMA InnerMoves ==
  ASSUME Inner
  PROVE  /\ ipc # "none" /\ ipc # "exited" /\ ipc' # "none"
         /\ exit_status' # exit_status => exit_status' # "none" /\ ipc' \in Finishing
         /\ ipc' \in Finishing => ipc \in Finishing \/ exit_status' # "none"
<1> USE DEF Finishing, killVars, GoesTo, Exits, EndsEarly, NextSlot
<1>1. CASE GetsReady
  BY <1>1 DEF GetsReady, CopyHelpers, MakeOutDir, CopyPrompts
<1>2. CASE Launches
  BY <1>2 DEF Launches, SkipSlot, PrepareAgy, ForkJob, RecordJob
<1>3. CASE AskWhoLives
  <2>1. exit_status' = exit_status
    BY <1>3 DEF AskWhoLives
  <2> QED
    BY <1>3, <2>1, AskSays DEF AfterKill, Killing
<1>4. CASE SignalsGroups
  BY <1>4 DEF SignalsGroups, SignalSent, AfterKill, Killing
<1>5. CASE Watches
  BY <1>5 DEF Watches, AllDone, Deadline, GiveUp, MarkTimeout
<1>6. CASE Leaves
  BY <1>6 DEF Leaves, RemoveScratch, PublishSlot, ExtractSlot, FinishRound, LeaveOutDir
<1> QED
  BY <1>1, <1>2, <1>3, <1>4, <1>5, <1>6 DEF Inner

(* The outer shell has not begun.                                          *)
LEMMA InitOuter == Init => OuterInv
  BY DEF Init, OuterInv, Finishing

(* Every step keeps what is known of the outer shell.                      *)
LEMMA StepOuter ==
  ASSUME TypeOK, OuterInv, [Next]_vars
  PROVE  OuterInv'
<1> USE DEF OuterInv, EndedWell
<1>1. CASE Inner
  <2>1. UNCHANGED <<opc, wait_status, runner_exit>>
    BY <1>1 DEF Inner, outerVars
  <2> QED
    BY <1>1, <2>1, InnerMoves
<1>2. CASE Waits
  <2>1. exit_status' = exit_status
    BY <1>2 DEF Waits, innerVars
  <2> QED
    BY <1>2, <2>1 DEF Waits, SetTrap, StartInner, AssignInner, WaitReturns, WaitAgain,
       WriteExit, Finishing
<1>3. CASE Forwards
  <2>1. /\ runner_exit' = runner_exit
        /\ wait_status' = wait_status \/ wait_status' = "143"
        /\ opc' # opc => \/ opc = "setup" /\ opc' = "killed" /\ ipc' = ipc
                         \/ opc = "assigned" /\ opc' = "waiting"
                         \/ opc = "waiting" /\ opc' = "woken" /\ wait_status' = "143"
    <3>1. CASE CheckPending
      BY <3>1 DEF CheckPending
    <3>2. CASE SignalComes /\ opc = "setup"
      BY <3>2 DEF SignalComes, InnerHearsNothing
    <3>3. CASE SignalComes /\ opc # "setup"
      BY <3>3 DEF SignalComes
    <3> QED
      BY <1>3, <3>1, <3>2, <3>3 DEF Forwards
  <2>2. ipc' = "none" <=> ipc = "none"
    BY <1>3, TermCases DEF Finishing
  <2>3. ipc' \in Finishing => exit_status' # "none"
    BY <1>3, TermCases
  <2>4. ipc = "exited" => ipc' = ipc /\ exit_status' = exit_status
    BY <1>3, TermCases DEF Finishing
  <2> QED
    BY <2>1, <2>2, <2>3, <2>4
<1>4. CASE JobStep \/ UNCHANGED vars
  BY <1>4 DEF JobStep, vars, outerVars, innerVars
<1> QED
  BY <1>1, <1>2, <1>3, <1>4, Groups

(* A signal heard by the outer shell reaches the inner one: at once, or    *)
(* when the outer shell looks at what is pending before it waits.          *)
LEMMA StepForwarded ==
  ASSUME InterruptIsForwarded, [Next]_vars
  PROVE  InterruptIsForwarded'
<1> USE DEF InterruptIsForwarded
<1>1. CASE Inner
  <2>1. UNCHANGED termed
    BY <1>1 DEF Inner, GetsReady, CopyHelpers, MakeOutDir, CopyPrompts, Launches, SkipSlot,
       PrepareAgy, ForkJob, RecordJob, AskWhoLives, SignalsGroups, Watches, AllDone,
       Deadline, GiveUp, MarkTimeout, Leaves, RemoveScratch, PublishSlot, ExtractSlot,
       FinishRound, LeaveOutDir, historyVars
  <2> QED
    BY <1>1, <2>1 DEF Inner, outerVars
<1>2. CASE Waits
  BY <1>2 DEF Waits, SetTrap, StartInner, AssignInner, WaitReturns, WaitAgain, WriteExit
<1>3. CASE Forwards
  BY <1>3 DEF Forwards, CheckPending, SignalComes, InnerGetsTerm, InnerHearsNothing
<1>4. CASE JobStep \/ UNCHANGED vars
  BY <1>4 DEF JobStep, vars, outerVars, historyVars
<1> QED
  BY <1>1, <1>2, <1>3, <1>4, Groups

(* No signal is lost between the two shells, whenever it comes.            *)
THEOREM InterruptCorrect == Spec => []InterruptIsForwarded
<1>1. Init => InterruptIsForwarded
  BY DEF Init, InterruptIsForwarded
<1>2. InterruptIsForwarded /\ [Next]_vars => InterruptIsForwarded'
  BY StepForwarded
<1> QED
  BY <1>1, <1>2, PTL DEF Spec

(* Every state is well typed, and a status written down is one the inner   *)
(* shell ended with.                                                       *)
THEOREM FullTypes == Spec => []TypeOK
<1>1. TypeOK /\ OuterInv /\ [Next]_vars => TypeOK' /\ OuterInv'
  BY StepType, StepOuter
<1> QED
  BY InitType, InitOuter, <1>1, PTL DEF Spec

-----------------------------------------------------------------------------
(* Who runs *)

(* What the reviewers do leaves the shells, and what is recorded, alone.   *)
LEMMA JobsLeave ==
  ASSUME JobStep
  PROVE  /\ UNCHANGED <<own_session, ipc, num, stage, groups, exit_status, recorded, by_agy,
                        why, helper_root, out_dir, out_named, listed, named, published,
                        publish_tried, struck, mates, lost, cut, late>>
         /\ on_disk' \subseteq on_disk
<1>1. on_disk' \subseteq on_disk
  BY DEF JobStep, CLIEnds, RemovesItsScratch, MarksDone, HelperEnds, Writes, Plants
<1> QED
  BY <1>1 DEF JobStep, killVars, slotVars, tempVars, publishVars, historyVars

(* A slot no process of which runs does nothing any more, and nothing      *)
(* starts it.                                                              *)
LEMMA DeadStays ==
  ASSUME TypeOK, JobStep, NEW s \in Slots, ~Members(s)
  PROVE  /\ ~Members(s)' /\ (Unborn(s) => Unborn(s)')
         /\ shell'[s] = shell[s] /\ rc'[s] = rc[s] /\ output'[s] = output[s]
         /\ done'[s] = done[s]
<1>1. PICK t \in Slots : \/ CLIEnds(t) \/ RemovesItsScratch(t) \/ MarksDone(t)
                         \/ HelperEnds(t) \/ Writes(t)
                         \/ \E target \in Slots : Plants(t, target)
  BY DEF JobStep
<1>2. s \notin cli /\ s \notin helper /\ shell[s] \notin {"running", "cleaning", "marking"}
  BY DEF Members
<1>3. t # s
  BY <1>1, <1>2 DEF CLIEnds, RemovesItsScratch, MarksDone, HelperEnds, Writes, Plants
<1>4. s \notin cli' /\ s \notin helper'
  BY <1>1, <1>2, <1>3 DEF CLIEnds, RemovesItsScratch, MarksDone, HelperEnds, Writes, Plants
<1>5. shell'[s] = shell[s] /\ rc'[s] = rc[s]
  BY <1>1, <1>3 DEF CLIEnds, RemovesItsScratch, MarksDone, HelperEnds, Writes, Plants,
     TypeOK, JobTypes
<1>6. output'[s] = output[s] /\ done'[s] = done[s]
  BY <1>1, <1>3 DEF CLIEnds, RemovesItsScratch, MarksDone, HelperEnds, Writes, Plants,
     TypeOK, JobTypes, FileTypes
<1> QED
  BY <1>2, <1>4, <1>5, <1>6 DEF Members, Unborn

(* With no process of any slot running, nothing is written.                *)
LEMMA NobodyWrites ==
  ASSUME JobStep
  PROVE  \E s \in Slots : Members(s)
  BY DEF JobStep, CLIEnds, RemovesItsScratch, MarksDone, HelperEnds, Writes, Plants, Members

(* No job is forked, and every marker and reason is as at the start.       *)
LEMMA InitJobs == Init => AtFirst /\ JobsInv
  BY DEF Init, AtFirst, JobsInv, Unborn

(* A loop over the slots begins at the first.                              *)
LEMMA StepAtFirst ==
  ASSUME TypeOK, OuterInv, AtFirst, [Next]_vars
  PROVE  AtFirst'
<1> USE DEF AtFirst, Preparing, killVars
<1>1. CASE Inner
  <2> USE DEF GoesTo, Exits, EndsEarly, NextSlot
  <2>1. CASE GetsReady
    BY <2>1 DEF GetsReady, CopyHelpers, MakeOutDir, CopyPrompts
  <2>2. CASE Launches
    BY <2>2 DEF Launches, SkipSlot, PrepareAgy, ForkJob, RecordJob
  <2>3. CASE AskWhoLives
    <3>1. num' = num
      BY <2>3 DEF AskWhoLives
    <3> QED
      BY <2>3, <3>1, AskSays DEF AfterKill, Killing
  <2>4. CASE SignalsGroups
    BY <2>4 DEF SignalsGroups, SignalSent, AfterKill, Killing
  <2>5. CASE Watches
    BY <2>5 DEF Watches, AllDone, Deadline, GiveUp, MarkTimeout
  <2>6. CASE Leaves
    BY <2>6 DEF Leaves, RemoveScratch, PublishSlot, ExtractSlot, FinishRound, LeaveOutDir
  <2> QED
    BY <1>1, <2>1, <2>2, <2>3, <2>4, <2>5, <2>6 DEF Inner
<1>2. CASE Waits
  BY <1>2 DEF Waits, innerVars, SetTrap, StartInner, AssignInner, WaitReturns, WaitAgain,
     WriteExit, OuterInv
<1>3. CASE Forwards
  BY <1>3, TermCases
<1>4. CASE JobStep \/ UNCHANGED vars
  BY <1>4, JobsLeave DEF vars, innerVars
<1> QED
  BY <1>1, <1>2, <1>3, <1>4, Groups

(* Every slot forked is recorded, or the signal that came between ends the *)
(* run.                                                                    *)
LEMMA StepJobs ==
  ASSUME TypeOK, OuterInv, AtFirst, JobsInv, KillInv, [Next]_vars
  PROVE  JobsInv'
<1> USE DEF JobsInv, Preparing, Finishing, killVars, slotVars, jobVars, historyVars
<1>0. num \in Slots /\ num \in 1..N
  BY SlotNumbers DEF TypeOK, ShellTypes
<1>1. CASE Inner
  <2>1. CASE GetsReady
    <3>1. UNCHANGED <<recorded, lost, shell, cli, helper, output>>
      BY <2>1 DEF GetsReady, CopyHelpers, MakeOutDir, CopyPrompts
    <3>2. /\ ipc \in Preparing /\ ipc' \in Preparing \cup {"exited", "finish", "launch"}
      BY <2>1 DEF GetsReady, CopyHelpers, MakeOutDir, CopyPrompts, GoesTo, Exits, EndsEarly
    <3> QED
      BY <3>1, <3>2 DEF Unborn
  <2>2. CASE SkipSlot
    <3>1. UNCHANGED <<recorded, lost, shell, cli, helper, output>>
      BY <2>2 DEF SkipSlot
    <3>2. ipc = "launch" /\ ((ipc' = "launch" /\ num' = num + 1) \/ ipc' = "watch")
      BY <2>2 DEF SkipSlot, NextSlot
    <3>3. \A s \in recorded : s \in 1..N
      BY DEF TypeOK, JobTypes, Slots
    <3> QED
      BY <1>0, <3>1, <3>2, <3>3 DEF Unborn
  <2>3. CASE PrepareAgy
    BY <2>3 DEF PrepareAgy, GoesTo, Unborn
  <2>4. CASE ForkJob
    <3>1. /\ ipc \in {"launch", "agy"} /\ ipc' = "forked" /\ num' = num
          /\ UNCHANGED <<recorded, lost, helper, output>> /\ cli' = cli \cup {num}
          /\ shell' = [shell EXCEPT ![num] = "running"]
      BY <2>4 DEF ForkJob, GoesTo
    <3>2. ASSUME NEW s \in Slots, s # num, Unborn(s) PROVE Unborn(s)'
      BY <3>1, <3>2 DEF Unborn, TypeOK, JobTypes
    <3> QED
      BY <3>1, <3>2
  <2>5. CASE RecordJob
    <3>1. /\ ipc = "forked" /\ ((ipc' = "launch" /\ num' = num + 1) \/ ipc' = "watch")
          /\ recorded' = recorded \cup {num}
          /\ UNCHANGED <<lost, shell, cli, helper, output>>
      BY <2>5 DEF RecordJob, NextSlot
    <3>2. \A s \in recorded : s \in 1..N
      BY DEF TypeOK, JobTypes, Slots
    <3> QED
      BY <1>0, <3>1, <3>2 DEF Unborn
  <2>6. CASE AskWhoLives
    <3>1. UNCHANGED <<recorded, lost, shell, cli, helper, output, exit_status>>
      BY <2>6 DEF AskWhoLives
    <3>2. ipc \in Killing /\ ipc' \in Killing \cup {"giveup_mark", "scratch", "last_scratch"}
          /\ (ipc' \in Finishing <=> ipc \in Finishing)
      BY <2>6, AskSays DEF AfterKill, Killing
    <3> QED
      BY <3>1, <3>2 DEF Unborn, Killing
  <2>7. CASE SignalsGroups
    <3>1. /\ UNCHANGED <<recorded, lost, output, exit_status>>
          /\ cli' \subseteq cli /\ helper' \subseteq helper
      BY <2>7 DEF SignalsGroups
    <3>2. \A s \in Slots : shell'[s] \in {shell[s], "gone"} /\ (s \notin groups => shell'[s] = shell[s])
      BY <2>7 DEF SignalsGroups
    <3>3. ipc \in Killing /\ ipc' \in Killing \cup {"giveup_mark", "scratch", "last_scratch"}
          /\ (ipc' \in Finishing <=> ipc \in Finishing)
      BY <2>7 DEF SignalsGroups, SignalSent, AfterKill, Killing
    <3>4. groups \subseteq recorded
      BY DEF KillInv
    <3> QED
      BY <3>1, <3>2, <3>3, <3>4 DEF Unborn, Killing
  <2>8. CASE Watches
    BY <2>8 DEF Watches, AllDone, Deadline, GiveUp, MarkTimeout, NextSlot, GoesTo, Unborn
  <2>9. CASE Leaves
    <3>1. UNCHANGED <<recorded, lost, shell, cli, helper, output>>
      BY <2>9 DEF Leaves, RemoveScratch, PublishSlot, ExtractSlot, FinishRound, LeaveOutDir
    <3>2. /\ ipc \notin Preparing \cup {"launch", "agy", "forked"}
          /\ ipc' \notin Preparing \cup {"launch", "agy", "forked"}
          /\ ipc \in Finishing => ipc' \in Finishing /\ exit_status' = exit_status
      BY <2>9 DEF Leaves, RemoveScratch, PublishSlot, ExtractSlot, FinishRound, LeaveOutDir,
         GoesTo, NextSlot, Exits
    <3> QED
      BY <3>1, <3>2 DEF Unborn
  <2> QED
    BY <1>1, <2>1, <2>2, <2>3, <2>4, <2>5, <2>6, <2>7, <2>8, <2>9 DEF Inner, Launches
<1>2. CASE Waits
  <2>1. ipc' = ipc \/ (ipc = "none" /\ ipc' = "start")
    BY <1>2 DEF Waits, SetTrap, StartInner, AssignInner, WaitReturns, WaitAgain, WriteExit,
       OuterInv
  <2> QED
    BY <1>2, <2>1 DEF Waits, innerVars, Unborn
<1>3. CASE Forwards
  <2>1. UNCHANGED <<recorded, shell, cli, helper, output>>
    BY <1>3 DEF Forwards
  <2>2. \A s \in Slots : Unborn(s)' <=> Unborn(s)
    BY <2>1 DEF Unborn
  <2> QED
    BY <1>3, <2>1, <2>2, TermCases
<1>4. CASE JobStep
  <2>1. \A s \in Slots : Unborn(s) => Unborn(s)'
    BY <1>4, DeadStays DEF Unborn, Members
  <2> QED
    BY <1>4, <2>1, JobsLeave
<1>5. CASE UNCHANGED vars
  BY <1>5 DEF vars, innerVars, Unborn
<1> QED
  BY <1>1, <1>2, <1>3, <1>4, <1>5, Groups

(* Nobody has been killed.                                                 *)
LEMMA InitKill == Init => KillInv
  BY DEF Init, KillInv, Swept, Killing

(* TERM and KILL end the groups, and only KILL surely all of them; which   *)
(* is then true of every recorded slot, for no other answered.             *)
LEMMA SignalsKill ==
  ASSUME TypeOK, KillInv, SignalsGroups
  PROVE  /\ UNCHANGED <<recorded, publish_tried, cut>> /\ groups' = {}
         /\ own_session => struck' = {}
         /\ \A s \in Slots : Members(s)' => Members(s) /\ (stage = "kill" => s \notin groups)
         /\ \/ stage = "term" /\ stage' = "termed" /\ ipc' = ipc
            \/ stage = "kill" /\ stage' = "idle" /\ ipc' = AfterKill
         /\ ipc \in Killing
<1>1. PICK still \in SUBSET (cli \cap groups), there \in SUBSET (helper \cap groups) :
        /\ stage = "kill" => still = {} /\ there = {}
        /\ cli' = (cli \ groups) \cup still
        /\ helper' = (helper \ groups) \cup there
  BY DEF SignalsGroups
<1>2. \A s \in Slots : shell'[s] = IF s \in groups THEN "gone" ELSE shell[s]
  BY DEF SignalsGroups
<1>3. \A s \in Slots : Members(s)' => Members(s) /\ (stage = "kill" => s \notin groups)
  BY <1>1, <1>2 DEF Members
<1>4. own_session => struck' = {}
  BY DEF SignalsGroups, KillInv
<1>5. \/ stage = "term" /\ stage' = "termed" /\ ipc' = ipc
      \/ stage = "kill" /\ stage' = "idle" /\ ipc' = AfterKill
  BY DEF SignalsGroups, SignalSent
<1> QED
  BY <1>3, <1>4, <1>5 DEF SignalsGroups, slotVars, publishVars

(* No step breaks the invariant of kill_jobs.                              *)
LEMMA StepKill ==
  ASSUME TypeOK, OuterInv, JobsInv, KillInv, [Next]_vars
  PROVE  KillInv'
<1> USE DEF KillInv, Swept, Killing, Finishing
<1>r. recorded \subseteq Slots
  BY DEF TypeOK, JobTypes
<1>1. CASE Inner
  <2>o. own_session' = own_session
    BY <1>1 DEF Inner
  <2>1. CASE GetsReady
    <3>1. UNCHANGED <<recorded, publish_tried, shell, cli, helper, mates, struck, cut>>
      BY <2>1 DEF GetsReady, CopyHelpers, MakeOutDir, CopyPrompts, slotVars, publishVars,
         jobVars, historyVars
    <3>2. /\ ipc \in Preparing /\ ipc' \in Preparing \cup {"exited", "finish", "launch"}
          /\ stage' \in {stage, "idle"} /\ groups' \in {groups, {}}
      BY <2>1 DEF GetsReady, CopyHelpers, MakeOutDir, CopyPrompts, GoesTo, Exits, EndsEarly,
         killVars, Preparing
    <3>3. recorded = {} /\ stage = "idle"
      BY <3>2 DEF JobsInv, Preparing
    <3> QED
      BY <2>o, <3>1, <3>2, <3>3 DEF Preparing
  <2>2. CASE Launches
    <3>1. /\ ipc \in {"launch", "agy", "forked"}
          /\ ipc' \in {"launch", "agy", "forked", "watch"}
          /\ UNCHANGED <<stage, groups>> /\ recorded \subseteq recorded'
          /\ UNCHANGED <<publish_tried, mates, struck, cut>>
      BY <2>2 DEF Launches, SkipSlot, PrepareAgy, ForkJob, RecordJob, GoesTo, NextSlot,
         killVars, slotVars, publishVars, historyVars
    <3> QED
      BY <2>o, <3>1
  <2>3. CASE AskWhoLives
    <3>1. UNCHANGED <<recorded, publish_tried, shell, cli, helper, struck, cut>>
      BY <2>3 DEF AskWhoLives, slotVars, publishVars, jobVars
    <3>2. \A s \in Slots : Members(s)' <=> Members(s)
      BY <3>1 DEF Members
    <3>3. own_session => groups' \subseteq mates'
      BY <2>3, AskSays
    <3>4. ipc # "giveup_kill" => \A s \in recorded \ groups' : ~Members(s)'
      BY <1>r, <2>3, <3>2, AskSays
    <3> QED
      BY <1>r, <2>o, <2>3, <3>1, <3>2, <3>3, <3>4, AskSays DEF AfterKill
  <2>4. CASE SignalsGroups
    <3>1. \A s \in recorded : Members(s)' => Members(s) /\ (stage = "kill" => s \notin groups)
      BY <1>r, <2>4, SignalsKill
    <3> QED
      BY <1>r, <2>o, <2>4, <3>1, SignalsKill DEF AfterKill
  <2>5. CASE Watches
    <3>1. /\ ipc \in {"watch", "giveup", "giveup_mark"}
          /\ ipc' \in {"sweep", "giveup", "giveup_kill"}
          /\ UNCHANGED <<stage, groups, recorded, publish_tried, mates, struck, cut>>
      BY <2>5 DEF Watches, AllDone, Deadline, GiveUp, MarkTimeout, GoesTo, NextSlot, killVars,
         slotVars, publishVars, historyVars
    <3> QED
      BY <2>o, <3>1
  <2>6. CASE Leaves
    <3>1. UNCHANGED <<recorded, shell, cli, helper, mates, struck, cut>>
      BY <2>6 DEF Leaves, RemoveScratch, PublishSlot, ExtractSlot, FinishRound, LeaveOutDir,
         slotVars, jobVars, historyVars
    <3>2. stage = "idle" /\ groups = {} /\ stage' = "idle" /\ groups' = {}
      BY <2>6 DEF Leaves, RemoveScratch, PublishSlot, ExtractSlot, FinishRound, LeaveOutDir,
         GoesTo, NextSlot, Exits, killVars
    <3>3. /\ ipc' \in {"extract", "publish"} \cup Finishing
          /\ Swept' => Swept
      BY <2>6 DEF Leaves, RemoveScratch, PublishSlot, ExtractSlot, FinishRound, LeaveOutDir,
         GoesTo, NextSlot, Exits, publishVars, historyVars
    <3> QED
      BY <2>o, <3>1, <3>2, <3>3 DEF Members
  <2> QED
    BY <1>1, <2>1, <2>2, <2>3, <2>4, <2>5, <2>6 DEF Inner
<1>2. CASE Waits
  <2>1. \/ ipc' = ipc
        \/ ipc = "none" /\ ipc' = "start"
    BY <1>2 DEF Waits, SetTrap, StartInner, AssignInner, WaitReturns, WaitAgain, WriteExit,
       OuterInv
  <2> QED
    BY <1>2, <2>1 DEF Waits, innerVars, killVars, slotVars, publishVars, jobVars, Members
<1>3. CASE Forwards
  <2>1. UNCHANGED <<own_session, recorded, shell, cli, helper, publish_tried, struck>>
    BY <1>3 DEF Forwards, slotVars, jobVars, publishVars
  <2>2. ipc \in {"start", "copying", "copied"} => recorded = {} /\ groups = {}
    BY DEF JobsInv, Preparing
  <2> QED
    BY <1>3, <2>1, <2>2, TermCases DEF Members
<1>4. CASE JobStep
  <2>1. \A s \in recorded : ~Members(s) => ~Members(s)'
    BY <1>4, <1>r, DeadStays
  <2> QED
    BY <1>4, <2>1, JobsLeave
<1>5. CASE UNCHANGED vars
  BY <1>5 DEF vars, innerVars, killVars, slotVars, publishVars, jobVars, historyVars, Members
<1> QED
  BY <1>1, <1>2, <1>3, <1>4, <1>5, Groups

(* What holds of every run of the runner, as far as its jobs.              *)
JobsAll == TypeOK /\ OuterInv /\ AtFirst /\ JobsInv /\ KillInv

(* What the runner's theorems about jobs rest on.                          *)
LEMMA JobsInvariant == Spec => []JobsAll
<1>1. Init => JobsAll
  BY InitType, InitOuter, InitJobs, InitKill DEF JobsAll
<1>2. JobsAll /\ [Next]_vars => JobsAll'
  BY StepType, StepOuter, StepAtFirst, StepJobs, StepKill DEF JobsAll
<1> QED
  BY <1>1, <1>2, PTL DEF Spec

(* However the run was ended, and whenever, no job it recorded and nothing *)
(* a job left in its group outlives a finish_round that ran to its end.    *)
THEOREM NothingRunsOn == Spec => []NothingLeftRunning
<1>1. JobsAll => NothingLeftRunning
  BY DEF JobsAll, NothingLeftRunning, Finished, KillInv, Swept, JobsInv, Unborn, Members
<1> QED
  BY <1>1, JobsInvariant, PTL

(* In a session of its own the runner kills no group but its jobs', beyond *)
(* the one that empties after it asked.                                    *)
THEOREM GroupsCorrect == Spec => []OnlyItsOwnGroups
<1>1. JobsAll => OnlyItsOwnGroups
  BY DEF JobsAll, KillInv, OnlyItsOwnGroups
<1> QED
  BY <1>1, JobsInvariant, PTL

-----------------------------------------------------------------------------
(* What the jobs wrote *)

(* With nobody recorded running and no slot lost, nothing is written.      *)
LEMMA QuietFiles ==
  ASSUME JobsAll, JobStep, lost = {}, Swept
  PROVE  FALSE
<1>1. PICK s \in Slots : Members(s)
  BY NobodyWrites
<1>2. s \notin recorded
  BY <1>1 DEF JobsAll, KillInv
<1>3. ipc # "forked"
  BY DEF JobsAll, KillInv, Swept, Finishing
<1> QED
  BY <1>1, <1>2, <1>3 DEF JobsAll, JobsInv, Unborn, Members

(* There is no OUT_DIR yet.                                                *)
LEMMA InitOutput == Init => OutputInv
  BY DEF Init, OutputInv, Finishing

(* A slot published is in place, and the loop goes on to the next.         *)
LEMMA PublishPlaces ==
  ASSUME JobsAll, OutputInv, PublishSlot
  PROVE  OutputInv'
<1> USE DEF OutputInv, Finishing
<1>0. num \in Slots /\ num \in 1..N /\ N \in Nat
  BY SlotNumbers, RunnerAssumption DEF JobsAll, TypeOK, ShellTypes
<1>1. /\ ipc \in {"publish", "last_publish"} /\ publish_tried' = TRUE
      /\ UNCHANGED <<lost, output, out_dir, out_named, cut, recorded>>
  BY DEF PublishSlot, tempVars, jobVars, historyVars, slotVars
<1> DEFINE after == IF ipc = "publish" THEN "extract" ELSE "last_out"
<1>2. CASE /\ ipc' = after /\ published' = published
  BY <1>1, <1>2
<1>3. CASE /\ tmp' = [tmp EXCEPT ![num] = IF output[num] = "good" THEN "good" ELSE "absent"]
           /\ NextSlot(ipc, after) /\ published' = (num = N)
  <2>0. /\ tmp' = [tmp EXCEPT ![num] = IF output[num] = "good" THEN "good" ELSE "absent"]
        /\ NextSlot(ipc, after) /\ published' = (num = N) /\ output' = output
        /\ tmp \in [Slots -> {"absent", "planted", "good"}]
    BY <1>1, <1>3 DEF JobsAll, TypeOK, FileTypes
  <2>1. ASSUME NEW s \in Slots, s = num PROVE InPlace(s)'
    BY <2>0, <2>1 DEF InPlace
  <2>2. ASSUME NEW s \in Slots, s # num, InPlace(s) PROVE InPlace(s)'
    BY <2>0, <2>2 DEF InPlace
  <2>3. lost = {} => \A s \in Slots : s < num + 1 => InPlace(s)'
    <3>1. \A s \in Slots : s < num + 1 => s < num \/ s = num
      BY <1>0 DEF Slots
    <3> QED
      BY <1>1, <2>1, <2>2, <3>1
  <2>4. CASE num < N
    <3>1. ipc' = ipc /\ num' = num + 1
      BY <2>0, <2>4 DEF NextSlot
    <3>2. ~published'
      <4>1. ~(num = N)
        BY <1>0, <2>4
      <4> QED
        BY <2>0, <4>1, Zenon
    <3> QED
      BY <1>1, <2>3, <3>1, <3>2
  <2>5. CASE ~(num < N)
    <3>1. ipc' = after
      BY <2>0, <2>5 DEF NextSlot
    <3>2. lost = {} => \A s \in Slots : InPlace(s)'
      BY <1>0, <2>3, <2>5 DEF Slots
    <3> QED
      BY <1>1, <3>1, <3>2
  <2> QED
    BY <2>4, <2>5
<1> QED
  BY <1>2, <1>3 DEF PublishSlot

(* The outputs stay in place, or in OUT_DIR, until the end.                *)
LEMMA StepOutput ==
  ASSUME JobsAll, OutputInv, [Next]_vars
  PROVE  OutputInv'
<1> USE DEF OutputInv, Finishing
<1>1. CASE Inner
  <2>1. CASE GetsReady
    <3>1. UNCHANGED <<published, publish_tried, cut, lost, recorded, tmp, output, out_named>>
      BY <2>1 DEF GetsReady, CopyHelpers, MakeOutDir, CopyPrompts, publishVars, historyVars,
         slotVars, jobVars, tempVars
    <3>2. recorded = {} /\ lost = {}
      BY <2>1 DEF GetsReady, CopyHelpers, MakeOutDir, CopyPrompts, JobsAll, JobsInv, Preparing
    <3>3. \/ /\ ipc \in {"start", "copying"} /\ ipc' \in {"copying", "copied", "exited"}
             /\ out_dir' = out_dir
          \/ ipc = "copied" /\ ipc' = "ready" /\ out_dir' = TRUE
          \/ ipc = "copied" /\ ipc' = "exited" /\ out_dir' = out_dir
          \/ ipc = "ready" /\ ipc' \in {"finish", "launch"} /\ out_dir' = out_dir
      BY <2>1 DEF GetsReady, CopyHelpers, MakeOutDir, CopyPrompts, GoesTo, EndsEarly, Exits,
         tempVars
    <3> QED
      BY <3>1, <3>2, <3>3 DEF InPlace
  <2>2. CASE Launches \/ Watches
    <3>1. /\ ipc' \notin {"none", "start", "copying", "copied", "publish", "extract"}
                         \cup Finishing
          /\ ipc \notin {"none", "start", "copying", "copied", "publish", "extract"}
                         \cup Finishing
          /\ UNCHANGED <<published, publish_tried, out_dir, out_named>>
      BY <2>2 DEF Launches, SkipSlot, PrepareAgy, ForkJob, RecordJob, Watches, AllDone,
         Deadline, GiveUp, MarkTimeout, GoesTo, NextSlot, publishVars, tempVars
    <3> QED
      BY <3>1
  <2>3. CASE AskWhoLives \/ SignalsGroups
    <3>1. UNCHANGED <<published, publish_tried, out_dir, out_named, lost, tmp, output, cut>>
      BY <2>3 DEF AskWhoLives, SignalsGroups, publishVars, tempVars, jobVars
    <3>2. ipc \in Killing /\ ipc' \in Killing \cup {"giveup_mark", "scratch", "last_scratch"}
          /\ (ipc' \in Finishing <=> ipc \in Finishing)
      BY <2>3, AskSays, SignalsKill DEF AfterKill, Killing, JobsAll
    <3> QED
      BY <3>1, <3>2 DEF Killing, InPlace
  <2>4. CASE RemoveScratch
    <3>1. UNCHANGED <<published, publish_tried, out_dir, out_named, lost, tmp, output, cut>>
      BY <2>4 DEF RemoveScratch, publishVars, jobVars, historyVars
    <3>2. \/ ipc = "scratch" /\ ipc' = "publish"
          \/ ipc = "last_scratch" /\ publish_tried /\ ipc' = "last_out"
          \/ ipc = "last_scratch" /\ ~publish_tried /\ ipc' = "last_publish"
      BY <2>4 DEF RemoveScratch, GoesTo
    <3>3. num' = 1
      BY <2>4 DEF RemoveScratch, GoesTo, AtFirst, JobsAll
    <3>4. \A s \in Slots : ~(s < 1)
      BY DEF Slots
    <3> QED
      BY <3>1, <3>2, <3>3, <3>4 DEF InPlace
  <2>5. CASE PublishSlot
    BY <2>5, PublishPlaces
  <2>6. CASE ExtractSlot
    <3>1. /\ UNCHANGED <<published, publish_tried, out_dir, out_named, lost, tmp, output, cut>>
          /\ ipc = "extract" /\ ipc' \in {"extract", "finish"}
      BY <2>6 DEF ExtractSlot, publishVars, jobVars, historyVars, tempVars, NextSlot, Exits
    <3> QED
      BY <3>1 DEF InPlace
  <2>7. CASE FinishRound
    <3>1. /\ UNCHANGED <<published, publish_tried, out_dir, out_named, lost, tmp, output, cut>>
          /\ ipc = "finish" /\ ipc' = "finishing"
      BY <2>7 DEF FinishRound, publishVars, jobVars, historyVars, tempVars, GoesTo
    <3> QED
      BY <3>1 DEF InPlace
  <2>8. CASE LeaveOutDir
    <3>1. /\ UNCHANGED <<published, publish_tried, lost, tmp, output, cut>>
          /\ out_dir' = ~published /\ out_named' = ~published
          /\ ipc = "last_out" /\ ipc' = "exited"
      BY <2>8 DEF LeaveOutDir, publishVars, jobVars, historyVars, GoesTo
    <3>2. CASE published
      <4>1. out_dir' = FALSE /\ published' /\ publish_tried'
        BY <3>1, <3>2
      <4> QED
        BY <3>1, <3>2, <4>1 DEF InPlace
    <3>3. CASE ~published
      <4>1. out_dir' = TRUE /\ out_named' = TRUE /\ ~published'
        BY <3>1, <3>3
      <4> QED
        BY <3>1, <3>3, <4>1 DEF InPlace
    <3> QED
      BY <3>2, <3>3
  <2> QED
    BY <1>1, <2>1, <2>2, <2>3, <2>4, <2>5, <2>6, <2>7, <2>8 DEF Inner, Leaves
<1>2. CASE Waits
  <2>1. \/ ipc' = ipc
        \/ ipc = "none" /\ ipc' = "start"
    BY <1>2 DEF Waits, SetTrap, StartInner, AssignInner, WaitReturns, WaitAgain, WriteExit,
       OuterInv, JobsAll
  <2>2. UNCHANGED <<published, publish_tried, out_dir, out_named, lost, tmp, output, cut, num,
                    recorded>>
    BY <1>2 DEF Waits, innerVars, publishVars, tempVars, jobVars, slotVars
  <2> QED
    BY <2>1, <2>2 DEF InPlace
<1>3. CASE Forwards
  <2>1. UNCHANGED <<published, publish_tried, out_dir, out_named, tmp, output, recorded>>
    BY <1>3 DEF Forwards, publishVars, jobVars, slotVars
  <2>2. ipc \in {"start", "copying", "copied"} => recorded = {} /\ lost = {}
    BY DEF JobsAll, JobsInv, Preparing
  <2>3. lost' = {} => lost = {}
    BY <1>3, TermCases DEF Finishing
  <2>4. (\A s \in Slots : InPlace(s)) => \A s \in Slots : InPlace(s)'
    BY <2>1 DEF InPlace
  <2>5. CASE UNCHANGED <<ipc, num, lost, cut>>
    BY <2>1, <2>5 DEF InPlace
  <2>6. CASE ipc \in {"start", "copying", "copied"} /\ ipc' = "exited" /\ UNCHANGED <<lost, cut>>
    BY <2>1, <2>2, <2>6
  <2>7. CASE ipc = "finish" /\ ipc' = "exited" /\ cut' = TRUE
    BY <2>1, <2>3, <2>4, <2>7
  <2>8. CASE ipc \notin {"none", "start", "copying", "copied"} \cup Finishing /\ ipc' = "finish"
    BY <2>1, <2>3, <2>4, <2>8
  <2>9. ipc = "none" => opc \in {"setup", "killed", "trapped"}
    BY DEF JobsAll, OuterInv
  <2> QED
    BY <1>3, <2>5, <2>6, <2>7, <2>8, <2>9, TermCases
<1>4. CASE JobStep
  <2>1. lost = {} => ~Swept
    BY <1>4, QuietFiles
  <2>2. lost = {} => ~published /\ ipc \notin {"publish", "last_publish"}
    BY <2>1 DEF Swept
  <2> QED
    BY <1>4, <2>2, JobsLeave
<1>5. CASE UNCHANGED vars
  BY <1>5 DEF vars, innerVars, tempVars, publishVars, jobVars, slotVars, historyVars, InPlace
<1> QED
  BY <1>1, <1>2, <1>3, <1>4, <1>5, Groups

(* What holds of every run of the runner, as far as its outputs.           *)
OutputAll == JobsAll /\ OutputInv

(* The outputs and the jobs together are inductive.                        *)
LEMMA OutputInvariant == Spec => []OutputAll
<1>1. Init => OutputInv
  BY InitOutput
<1>2. JobsAll /\ OutputInv /\ [Next]_vars => OutputInv'
  BY StepOutput
<1> QED
  BY <1>1, <1>2, JobsInvariant, PTL DEF Spec, OutputAll

(* Whatever failed and whenever it was interrupted, what the reviewers     *)
(* wrote is in REVIEW_TMP or still in an OUT_DIR that the run named.       *)
THEOREM OutputsCorrect == Spec => []OutputsAreKept
<1>1. OutputAll => OutputsAreKept
  <2> SUFFICES ASSUME OutputAll, lost = {}, ipc \notin Preparing PROVE
                 /\ ~out_dir => \A s \in Slots : output[s] # "none" => tmp[s] = "good"
                 /\ Finished /\ out_dir => out_named
    BY DEF OutputsAreKept
  <2>1. ASSUME ~out_dir, NEW s \in Slots, output[s] # "none" PROVE tmp[s] = "good"
    <3>1. output[s] = "good"
      BY <2>1 DEF OutputAll, JobsAll, TypeOK, FileTypes
    <3>2. ipc = "exited"
      BY <2>1 DEF OutputAll, OutputInv, Preparing
    <3>3. ~Unborn(s)
      BY <2>1 DEF Unborn
    <3>4. s \in recorded \cup lost
      BY <3>2, <3>3 DEF OutputAll, JobsAll, JobsInv
    <3>5. published
      BY <2>1, <3>2, <3>4 DEF OutputAll, OutputInv
    <3> QED
      BY <3>1, <3>5 DEF OutputAll, OutputInv, InPlace
  <2>2. Finished /\ out_dir => out_named
    BY DEF OutputAll, OutputInv, Finished
  <2> QED
    BY <2>1, <2>2
<1> QED
  BY <1>1, OutputInvariant, PTL

-----------------------------------------------------------------------------
(* The private copies *)

(* There is no scratch yet.                                                *)
LEMMA InitScratch == Init => ScratchInv
  BY DEF Init, ScratchInv

(* The inner shell lists what it makes, and names what it cannot remove.   *)
LEMMA InnerScratch ==
  ASSUME JobsAll, ScratchInv, Inner
  PROVE  ScratchInv'
<1> USE DEF ScratchInv, Preparing
<1>1. CASE GetsReady
  <2>1. ipc \in Preparing /\ on_disk = {}
    BY <1>1 DEF GetsReady, CopyHelpers, MakeOutDir, CopyPrompts
  <2>2. \/ UNCHANGED <<listed, on_disk>> /\ ipc # "ready"
        \/ ipc' \notin Preparing \cup {"exited"} /\ UNCHANGED <<listed, on_disk>>
        \/ ipc' \notin Preparing \cup {"exited"} /\ listed' = {0} /\ on_disk' = {0}
    BY <1>1 DEF GetsReady, CopyHelpers, MakeOutDir, CopyPrompts, GoesTo, Exits, EndsEarly,
       scratchVars
  <2>3. /\ ipc' \notin {"last_publish", "last_out"}
        /\ ipc' = "exited" => helper_root' = FALSE
    BY <1>1 DEF GetsReady, CopyHelpers, MakeOutDir, CopyPrompts, GoesTo, Exits, EndsEarly
  <2> QED
    BY <2>1, <2>2, <2>3
<1>2. CASE Launches
  <2>1. ipc' \in {"launch", "agy", "forked", "watch"}
    BY <1>2 DEF Launches, SkipSlot, PrepareAgy, ForkJob, RecordJob, GoesTo, NextSlot
  <2>2. \/ UNCHANGED <<listed, on_disk>>
        \/ listed' = listed \cup {num} /\ on_disk' = on_disk \cup {num}
    BY <1>2 DEF Launches, SkipSlot, PrepareAgy, ForkJob, RecordJob, scratchVars
  <2> QED
    BY <2>1, <2>2
<1>3. CASE AskWhoLives
  <2>1. UNCHANGED <<listed, on_disk>> /\ ipc' \in Killing \cup {"giveup_mark", "scratch", "last_scratch"}
    BY <1>3, AskSays DEF AskWhoLives, scratchVars, AfterKill, Killing
  <2> QED
    BY <2>1 DEF Killing
<1>4. CASE SignalsGroups
  <2>1. UNCHANGED <<listed, on_disk>> /\ ipc' \in Killing \cup {"giveup_mark", "scratch", "last_scratch"}
    BY <1>4 DEF SignalsGroups, SignalSent, scratchVars, AfterKill, Killing
  <2> QED
    BY <2>1 DEF Killing
<1>5. CASE Watches
  BY <1>5 DEF Watches, AllDone, Deadline, GiveUp, MarkTimeout, GoesTo, NextSlot, scratchVars
<1>6. CASE RemoveScratch
  <2>1. PICK stuck \in SUBSET (by_agy \cap on_disk) :
          on_disk' = (on_disk \ listed) \cup stuck /\ named' = named \cup stuck
    BY <1>6 DEF RemoveScratch
  <2>2. listed' = listed /\ ipc' \in {"publish", "last_publish", "last_out"}
        /\ (ipc' # "publish" => helper_root' = FALSE)
    BY <1>6 DEF RemoveScratch, GoesTo
  <2>3. on_disk' = stuck /\ on_disk' \subseteq listed /\ on_disk' \subseteq named'
    BY <2>1
  <2> QED
    BY <2>2, <2>3
<1>7. CASE PublishSlot \/ ExtractSlot \/ FinishRound \/ LeaveOutDir
  <2>1. UNCHANGED <<listed, on_disk, named, helper_root, recorded, cut>>
    BY <1>7 DEF PublishSlot, ExtractSlot, FinishRound, LeaveOutDir, scratchVars, tempVars,
       slotVars, historyVars
  <2>2. /\ ipc' \notin Preparing
        /\ ipc' \in {"last_publish", "last_out", "exited"} =>
             ipc \in {"last_publish", "last_out"} /\ exit_status' = exit_status
    BY <1>7 DEF PublishSlot, ExtractSlot, FinishRound, LeaveOutDir, GoesTo, NextSlot, Exits
  <2> QED
    BY <2>1, <2>2
<1> QED
  BY <1>1, <1>2, <1>3, <1>4, <1>5, <1>6, <1>7 DEF Inner, Leaves

(* Nobody else makes any.                                                  *)
LEMMA StepScratch ==
  ASSUME JobsAll, ScratchInv, [Next]_vars
  PROVE  ScratchInv'
<1> USE DEF ScratchInv, Preparing, Finishing
<1>1. CASE Inner
  BY <1>1, InnerScratch
<1>2. CASE Waits
  <2>1. \/ ipc' = ipc
        \/ ipc = "none" /\ ipc' = "start"
    BY <1>2 DEF Waits, SetTrap, StartInner, AssignInner, WaitReturns, WaitAgain, WriteExit,
       OuterInv, JobsAll
  <2>2. UNCHANGED <<listed, on_disk, named, helper_root, recorded, cut, exit_status>>
    BY <1>2 DEF Waits, innerVars, scratchVars, tempVars, slotVars
  <2> QED
    BY <2>1, <2>2
<1>3. CASE Forwards
  <2>1. UNCHANGED <<listed, on_disk, named, recorded>>
    BY <1>3 DEF Forwards, scratchVars, slotVars
  <2>2. ipc \in {"start", "copying", "copied"} => recorded = {}
    BY DEF JobsAll, JobsInv
  <2>3. CASE UNCHANGED <<ipc, exit_status, helper_root, cut>>
    BY <2>1, <2>3
  <2>4. CASE ipc \in {"start", "copying", "copied"} /\ ipc' = "exited" /\ exit_status' = "143"
    BY <2>1, <2>2, <2>4
  <2>5. CASE ipc' = "exited" /\ cut'
             /\ ipc \notin {"none", "start", "copying", "copied", "ready"}
    BY <2>1, <2>5
  <2>6. CASE ipc' = "finish"
    BY <2>1, <2>6
  <2> QED
    BY <1>3, <2>3, <2>4, <2>5, <2>6, TermCases
<1>4. CASE JobStep
  <2>1. /\ UNCHANGED <<ipc, exit_status, recorded, helper_root, listed, named, cut>>
        /\ on_disk' \subseteq on_disk
    BY <1>4, JobsLeave
  <2> QED
    BY <2>1
<1>5. CASE UNCHANGED vars
  BY <1>5 DEF vars, innerVars, scratchVars, tempVars, slotVars, historyVars
<1> QED
  BY <1>1, <1>2, <1>3, <1>4, <1>5, Groups

(* At the end no private copy is left that the run did not name.           *)
THEOREM ScratchCorrect == Spec => []NothingPrivateIsLeft
<1>1. Init => ScratchInv
  BY InitScratch
<1>2. JobsAll /\ ScratchInv /\ [Next]_vars => ScratchInv'
  BY StepScratch
<1>3. ScratchInv => NothingPrivateIsLeft
  BY DEF ScratchInv, NothingPrivateIsLeft, Finished
<1> QED
  BY <1>1, <1>2, <1>3, JobsInvariant, PTL DEF Spec

-----------------------------------------------------------------------------
(* The results *)

(* No result has been extracted.                                           *)
LEMMA InitResult == Init => ResultInv
  BY DEF Init, ResultInv

(* Extracted from an output in place, or replaced: a slot's result is its  *)
(* own, whichever way the extraction ends.                                 *)
LEMMA ExtractOwns ==
  ASSUME OutputAll, ResultInv, ExtractSlot
  PROVE  ResultInv'
<1> USE DEF ResultInv, OutputAll, JobsAll
<1>0. num \in Slots /\ num \in 1..N /\ N \in Nat
  BY SlotNumbers, RunnerAssumption DEF TypeOK, ShellTypes
<1>1. /\ ipc = "extract" /\ publish_tried' = publish_tried
      /\ UNCHANGED <<recorded, output>>
  BY DEF ExtractSlot, publishVars, slotVars, jobVars
<1>2. lost = {} /\ publish_tried
  BY <1>1 DEF JobsInv, OutputInv, Finishing
<1>3. CASE Exits("1")
  BY <1>3 DEF Exits
<1>4. CASE /\ IF num < N THEN NextSlot("extract", "extract") ELSE Exits("0")
           /\ IF published /\ num \in recorded /\ tmp[num] # "absent"
              THEN result' = [result EXCEPT
                     ![num] = IF tmp[num] = "good" THEN "review" ELSE "planted"]
              ELSE result' = [result EXCEPT ![num] = "placeholder"]
  <2>0. result \in [Slots -> {"absent", "planted", "review", "placeholder"}]
    BY DEF TypeOK, FileTypes
  <2>1. ASSUME NEW s \in Slots, s = num PROVE Own(s)'
    <3>1. CASE published /\ num \in recorded /\ tmp[num] # "absent"
      <4>1. output[num] = "good" /\ tmp[num] = "good"
        BY <1>0, <1>2, <3>1 DEF OutputInv, InPlace
      <4> QED
        BY <1>0, <1>1, <1>4, <2>0, <2>1, <3>1, <4>1 DEF Own
    <3>2. CASE ~(published /\ num \in recorded /\ tmp[num] # "absent")
      BY <1>0, <1>4, <2>0, <2>1, <3>2 DEF Own
    <3> QED
      BY <3>1, <3>2
  <2>2. ASSUME NEW s \in Slots, s # num, Own(s) PROVE Own(s)'
    BY <1>1, <1>4, <2>0, <2>2 DEF Own
  <2>3. \A s \in Slots : s < num + 1 => Own(s)'
    <3>1. \A s \in Slots : s < num + 1 => s < num \/ s = num
      BY <1>0 DEF Slots
    <3> QED
      BY <1>1, <2>1, <2>2, <3>1
  <2>4. CASE num < N
    <3>1. ipc' = "extract" /\ num' = num + 1 /\ exit_status' = exit_status
      BY <1>4, <2>4 DEF NextSlot
    <3>2. exit_status # "0"
      BY <1>1 DEF Finishing
    <3> QED
      BY <2>3, <3>1, <3>2
  <2>5. CASE ~(num < N)
    <3>1. ipc' = "finish"
      BY <1>4, <2>5 DEF Exits
    <3>2. \A s \in Slots : Own(s)'
      BY <1>0, <2>3, <2>5 DEF Slots
    <3> QED
      BY <1>1, <1>2, <3>1, <3>2 DEF Finishing
  <2> QED
    BY <2>4, <2>5
<1> QED
  BY <1>3, <1>4 DEF ExtractSlot

(* No other step disturbs them: nobody is left who would write.            *)
LEMMA StepResult ==
  ASSUME OutputAll, ResultInv, [Next]_vars
  PROVE  ResultInv'
<1> USE DEF ResultInv, Finishing, OutputAll
<1>1. CASE Inner
  <2>1. CASE GetsReady \/ Launches \/ Watches
    <3>1. ipc \notin Finishing /\ ipc' # "extract" /\ exit_status' \in {exit_status, "1"}
      BY <2>1 DEF GetsReady, CopyHelpers, MakeOutDir, CopyPrompts, Launches, SkipSlot,
         PrepareAgy, ForkJob, RecordJob, Watches, AllDone, Deadline, GiveUp, MarkTimeout,
         GoesTo, NextSlot, Exits, EndsEarly
    <3> QED
      BY <3>1
  <2>2. CASE AskWhoLives
    <3>1. UNCHANGED <<result, recorded, output, publish_tried, exit_status>>
      BY <2>2 DEF AskWhoLives, slotVars, resultVars, publishVars, jobVars
    <3>2. ipc \in Killing /\ ipc' # "extract" /\ (ipc \in Finishing => ipc' \in Finishing)
      BY <2>2, AskSays DEF AfterKill, Killing
    <3> QED
      BY <3>1, <3>2 DEF Own
  <2>3. CASE SignalsGroups
    <3>1. UNCHANGED <<result, recorded, output, publish_tried, exit_status>>
      BY <2>3 DEF SignalsGroups, slotVars, resultVars, publishVars
    <3>2. ipc \in Killing /\ ipc' # "extract" /\ (ipc \in Finishing => ipc' \in Finishing)
      BY <2>3 DEF SignalsGroups, SignalSent, AfterKill, Killing
    <3> QED
      BY <3>1, <3>2 DEF Own
  <2>4. CASE PublishSlot
    <3>1. UNCHANGED <<result, recorded, output>> /\ publish_tried' = TRUE
      BY <2>4 DEF PublishSlot, slotVars, resultVars, jobVars
    <3>2. /\ exit_status' = exit_status /\ (ipc \in Finishing => ipc' \in Finishing)
          /\ ipc' = "extract" => num' = 1
      BY <2>4 DEF PublishSlot, NextSlot
    <3>3. \A s \in Slots : ~(s < 1)
      BY DEF Slots
    <3> QED
      BY <3>1, <3>2, <3>3 DEF Own
  <2>5. CASE ExtractSlot
    BY <2>5, ExtractOwns
  <2>6. CASE RemoveScratch \/ FinishRound \/ LeaveOutDir
    <3>1. UNCHANGED <<result, recorded, output, publish_tried, exit_status>>
      BY <2>6 DEF RemoveScratch, FinishRound, LeaveOutDir, GoesTo, slotVars, resultVars,
         publishVars, jobVars
    <3>2. ipc' # "extract" /\ (ipc \in Finishing => ipc' \in Finishing)
      BY <2>6 DEF RemoveScratch, FinishRound, LeaveOutDir, GoesTo
    <3> QED
      BY <3>1, <3>2 DEF Own
  <2> QED
    BY <1>1, <2>1, <2>2, <2>3, <2>4, <2>5, <2>6 DEF Inner, Leaves
<1>2. CASE Waits
  <2>1. \/ ipc' = ipc
        \/ ipc = "none" /\ ipc' = "start"
    BY <1>2 DEF Waits, SetTrap, StartInner, AssignInner, WaitReturns, WaitAgain, WriteExit,
       OuterInv, JobsAll
  <2>2. UNCHANGED <<result, recorded, output, publish_tried, exit_status, num>>
    BY <1>2 DEF Waits, innerVars, resultVars, slotVars, publishVars, jobVars
  <2> QED
    BY <2>1, <2>2 DEF Own
<1>3. CASE Forwards
  <2>1. UNCHANGED <<result, recorded, output, publish_tried>>
    BY <1>3 DEF Forwards, resultVars, slotVars, publishVars, jobVars
  <2>2. \/ UNCHANGED <<ipc, num, exit_status>>
        \/ ipc' # "extract" /\ exit_status' = "143"
        \/ UNCHANGED <<ipc, num>> /\ exit_status' = "143"
    BY <1>3, TermCases
  <2> QED
    BY <2>1, <2>2 DEF Own
<1>4. CASE JobStep
  <2>1. lost = {} => ~Swept
    BY <1>4, QuietFiles
  <2>2. ipc # "extract"
    BY <2>1 DEF Swept, JobsAll, JobsInv
  <2>3. exit_status # "0"
    BY <2>1 DEF Swept, JobsAll, JobsInv
  <2> QED
    BY <1>4, <2>2, <2>3, JobsLeave
<1>5. CASE UNCHANGED vars
  BY <1>5 DEF vars, innerVars, resultVars, slotVars, publishVars, jobVars, Own
<1> QED
  BY <1>1, <1>2, <1>3, <1>4, <1>5, Groups

(* What a round that says 0 reports is what its own reviewers wrote.       *)
THEOREM ResultsCorrect == Spec => []ResultsAreTheirOwn
<1>1. Init => ResultInv
  BY InitResult
<1>2. OutputAll /\ ResultInv /\ [Next]_vars => ResultInv'
  BY StepResult
<1>3. OutputAll /\ ResultInv => ResultsAreTheirOwn
  BY DEF OutputAll, JobsAll, OuterInv, EndedWell, ResultInv, Own, ResultsAreTheirOwn
<1> QED
  BY <1>1, <1>2, <1>3, OutputInvariant, PTL DEF Spec

-----------------------------------------------------------------------------
(* The markers, and what placeholders say *)

(* What holds of a slot's marker and of its placeholder.                   *)
Marked(s) ==
  /\ done[s] = "timeout" => s \in late
  /\ done[s] \in {"0", "124", "137", "other"} =>
       done[s] = rc[s] /\ shell[s] = "gone"

Explained(s) ==
  /\ why[s] # "none" => publish_tried
  /\ why[s] \in {"watchdog", "its timeout", "no JSON", "no status", "exited"} =>
       s \in recorded
  /\ why[s] = "never launched" => s \notin recorded
  /\ why[s] = "watchdog"    => s \in late
  /\ why[s] = "its timeout" => rc[s] \in {"124", "137"}
  /\ why[s] = "no JSON"     => rc[s] = "0"
  /\ why[s] = "exited"      => rc[s] = "other"
  /\ why[s] = "never launched" => shell[s] = "none"

WhyParts ==
  /\ ipc \in {"giveup_kill", "giveup_mark"} => num \in late
  /\ \A s \in Slots : Marked(s) /\ Explained(s)

(* The invariant of the reasons, slot by slot.                             *)
LEMMA WhyIsItsParts == WhyInv <=> WhyParts
  BY DEF WhyInv, WhyIsTrue, WhyParts, Marked, Explained

(* No marker and no placeholder has been written.                          *)
LEMMA InitWhy == Init => WhyParts
  BY DEF Init, WhyParts, Marked, Explained

(* A step that leaves what the markers and placeholders rest on keeps them. *)
LEMMA WhyKept ==
  ASSUME WhyParts, UNCHANGED <<rc, done, why, shell, late, recorded>>,
         publish_tried => publish_tried',
         ipc' \in {"giveup_kill", "giveup_mark"} =>
           ipc \in {"giveup_kill", "giveup_mark"} /\ num' = num
  PROVE  WhyParts'
  BY DEF WhyParts, Marked, Explained

(* Nothing is explained before it is published.                            *)
LEMMA NoneExplained ==
  ASSUME WhyParts, ~publish_tried
  PROVE  \A s \in Slots : why[s] = "none"
  BY DEF WhyParts, Explained

(* The watchdog marks only slots it found late.                            *)
LEMMA WatchWhy ==
  ASSUME JobsAll, WhyParts, Watches
  PROVE  WhyParts'
<1> USE DEF JobsAll
<1>0. num \in Slots
  BY SlotNumbers DEF TypeOK
<1>1. UNCHANGED <<rc, shell, recorded, why, publish_tried>>
  BY DEF Watches, AllDone, Deadline, GiveUp, MarkTimeout, jobVars, slotVars, resultVars,
     publishVars
<1>2. CASE AllDone \/ Deadline
  BY <1>1, <1>2, WhyKept DEF AllDone, Deadline, GoesTo, historyVars
<1>3. CASE GiveUp
  <2>1. /\ done' = done /\ late \subseteq late'
        /\ ipc' \in {"giveup_kill", "giveup_mark"} => num' = num /\ num \in late'
    BY <1>3 DEF GiveUp, GoesTo, NextSlot
  <2> QED
    BY <1>1, <2>1 DEF WhyParts, Marked, Explained
<1>4. CASE MarkTimeout
  <2>1. num \in late /\ late' = late /\ ipc' \notin {"giveup_kill", "giveup_mark"}
    BY <1>4 DEF MarkTimeout, NextSlot, historyVars, WhyParts
  <2>2. \A s \in Slots : done'[s] = IF s = num THEN "timeout" ELSE done[s]
    BY <1>4 DEF MarkTimeout, TypeOK, JobTypes
  <2>3. \A s \in Slots : Marked(s)'
    BY <1>1, <2>1, <2>2 DEF WhyParts, Marked
  <2> QED
    BY <1>1, <2>1, <2>3 DEF WhyParts, Explained
<1> QED
  BY <1>2, <1>3, <1>4 DEF Watches

(* A placeholder is read off the slot's marker.                            *)
LEMMA ExtractWhy ==
  ASSUME OutputAll, WhyParts, ExtractSlot
  PROVE  WhyParts'
<1> USE DEF OutputAll, JobsAll
<1>0. num \in Slots
  BY SlotNumbers DEF TypeOK
<1>1. /\ UNCHANGED <<rc, shell, recorded, publish_tried, done, late>> /\ ipc = "extract"
      /\ ipc' \notin {"giveup_kill", "giveup_mark"}
  BY DEF ExtractSlot, Exits, NextSlot, jobVars, slotVars, publishVars, historyVars
<1>2. lost = {} /\ publish_tried
  BY <1>1 DEF JobsInv, OutputInv, Finishing
<1>3. \A s \in Slots : Marked(s)'
  BY <1>1 DEF WhyParts, Marked
<1>4. CASE why' = why
  BY <1>1, <1>3, <1>4 DEF WhyParts, Explained
<1>5. CASE why' = [why EXCEPT ![num] = WhyNot(num)]
  <2>1. \A s \in Slots : why'[s] = IF s = num THEN WhyNot(num) ELSE why[s]
    BY <1>5 DEF TypeOK, FileTypes
  <2>2. num \notin recorded => shell[num] = "none"
    BY <1>0, <1>1, <1>2 DEF JobsInv, Unborn
  <2>3. /\ WhyNot(num) \in {"watchdog", "its timeout", "no JSON", "no status", "exited"} =>
             num \in recorded
        /\ WhyNot(num) = "never launched" => num \notin recorded
        /\ WhyNot(num) = "watchdog" => done[num] = "timeout"
        /\ WhyNot(num) = "its timeout" => done[num] \in {"124", "137"}
        /\ WhyNot(num) = "no JSON" => done[num] = "0"
        /\ WhyNot(num) = "exited" => done[num] = "other"
    <3>1. done[num] \in Statuses
      BY <1>0 DEF TypeOK, JobTypes
    <3> QED
      BY <3>1 DEF WhyNot, Statuses
  <2>4. /\ done[num] = "timeout" => num \in late
        /\ done[num] \in {"0", "124", "137", "other"} => done[num] = rc[num]
    BY <1>0 DEF WhyParts, Marked
  <2>5. ASSUME NEW s \in Slots, s = num PROVE Explained(s)'
    BY <1>1, <1>2, <2>1, <2>2, <2>3, <2>4, <2>5 DEF Explained
  <2>6. ASSUME NEW s \in Slots, s # num PROVE Explained(s)'
    BY <1>1, <2>1, <2>6 DEF WhyParts, Explained
  <2> QED
    BY <1>1, <1>3, <2>5, <2>6 DEF WhyParts
<1> QED
  BY <1>4, <1>5 DEF ExtractSlot, resultVars

(* A job marks its own slot with what its CLI returned, and after the      *)
(* sweep there is none left to do so.                                      *)
LEMMA JobWhy ==
  ASSUME JobsAll, WhyParts, JobStep
  PROVE  WhyParts'
<1> USE DEF JobsAll
<1>1. UNCHANGED <<ipc, num, recorded, why, publish_tried, late>>
  BY JobsLeave
<1>2. PICK t \in Slots : \/ CLIEnds(t) \/ RemovesItsScratch(t) \/ MarksDone(t)
                         \/ HelperEnds(t) \/ Writes(t)
                         \/ \E target \in Slots : Plants(t, target)
  BY DEF JobStep
<1>3. ASSUME NEW s \in Slots PROVE Marked(s)'
  <2>0. Marked(s) /\ rc \in [Slots -> Ending \cup {"none"}]
        /\ done \in [Slots -> Statuses]
        /\ shell \in [Slots -> {"none", "running", "cleaning", "marking", "gone"}]
    BY DEF WhyParts, TypeOK, JobTypes
  <2>1. CASE CLIEnds(t) /\ shell[t] = "running"
    <3>1. /\ done' = done
          /\ s # t => rc'[s] = rc[s] /\ shell'[s] = shell[s]
      BY <2>0, <2>1 DEF CLIEnds
    <3> QED
      BY <1>1, <2>0, <2>1, <3>1 DEF Marked
  <2>2. CASE CLIEnds(t) /\ shell[t] # "running"
    BY <1>1, <2>0, <2>2 DEF CLIEnds, Marked
  <2>3. CASE RemovesItsScratch(t)
    BY <1>1, <2>0, <2>3 DEF RemovesItsScratch, Marked
  <2>4. CASE MarksDone(t)
    <3>1. shell[t] = "marking" /\ rc' = rc /\ done'[s] \in {done[s], rc[s]}
      BY <2>0, <2>4 DEF MarksDone
    <3>2. s = t => shell'[s] = "gone"
      BY <2>0, <2>4 DEF MarksDone
    <3>3. s # t => shell'[s] = shell[s] /\ done'[s] = done[s]
      BY <2>0, <2>4 DEF MarksDone
    <3>4. rc[s] # "timeout"
      BY <2>0 DEF Ending
    <3> QED
      BY <1>1, <2>0, <3>1, <3>2, <3>3, <3>4 DEF Marked
  <2>5. CASE HelperEnds(t) \/ Writes(t) \/ \E target \in Slots : Plants(t, target)
    BY <1>1, <2>0, <2>5 DEF HelperEnds, Writes, Plants, Marked
  <2> QED
    BY <1>2, <2>1, <2>2, <2>3, <2>4, <2>5
<1>4. ASSUME NEW s \in Slots PROVE Explained(s)'
  <2>1. CASE ~publish_tried
    BY <1>1, <2>1, NoneExplained DEF Explained
  <2>2. CASE publish_tried /\ s \in recorded
    <3>1. rc'[s] = rc[s]
      BY <2>2, DeadStays DEF KillInv, Swept
    <3> QED
      BY <1>1, <2>2, <3>1 DEF WhyParts, Explained
  <2>3. CASE publish_tried /\ s \notin recorded
    <3>1. shell[s] = "none" => shell'[s] = "none"
      BY <1>2 DEF CLIEnds, RemovesItsScratch, MarksDone, HelperEnds, Writes, Plants,
         TypeOK, JobTypes
    <3> QED
      BY <1>1, <2>3, <3>1 DEF WhyParts, Explained
  <2> QED
    BY <2>1, <2>2, <2>3
<1> QED
  BY <1>1, <1>3, <1>4 DEF WhyParts

(* A slot is forked that has no marker yet, and nothing else breaks what   *)
(* the markers and the placeholders say.                                   *)
LEMMA StepWhy ==
  ASSUME OutputAll, WhyParts, [Next]_vars
  PROVE  WhyParts'
<1> USE DEF OutputAll, JobsAll
<1>0. num \in Slots
  BY SlotNumbers DEF TypeOK
<1>1. CASE Inner
  <2>1. CASE GetsReady \/ SkipSlot \/ PrepareAgy
    <3>1. UNCHANGED <<rc, done, why, shell, late, recorded, publish_tried>>
      BY <2>1 DEF GetsReady, CopyHelpers, MakeOutDir, CopyPrompts, SkipSlot, PrepareAgy,
         jobVars, slotVars, resultVars, publishVars, historyVars
    <3>2. ipc' \notin {"giveup_kill", "giveup_mark"}
      BY <2>1 DEF GetsReady, CopyHelpers, MakeOutDir, CopyPrompts, SkipSlot, PrepareAgy,
         GoesTo, NextSlot, Exits, EndsEarly
    <3> QED
      BY <3>1, <3>2, WhyKept
  <2>2. CASE ForkJob
    <3>1. /\ UNCHANGED <<rc, done, why, late, recorded, publish_tried>>
          /\ ipc \in {"launch", "agy"} /\ ipc' = "forked"
      BY <2>2 DEF ForkJob, GoesTo, resultVars, publishVars, historyVars
    <3>2. Unborn(num)
      BY <1>0, <3>1 DEF JobsInv, Finishing, TypeOK, ShellTypes
    <3>3. \A s \in Slots : s # num => shell'[s] = shell[s]
      BY <2>2 DEF ForkJob, TypeOK, JobTypes
    <3>4. \A s \in Slots : Marked(s)'
      BY <3>1, <3>2, <3>3 DEF WhyParts, Marked, Unborn
    <3>5. \A s \in Slots : why[s] = "none"
      BY <3>1, NoneExplained DEF KillInv, Finishing
    <3> QED
      BY <3>1, <3>4, <3>5 DEF WhyParts, Explained
  <2>3. CASE RecordJob
    <3>1. /\ UNCHANGED <<rc, done, why, shell, late, publish_tried>>
          /\ ipc = "forked" /\ ipc' \in {"launch", "watch"}
      BY <2>3 DEF RecordJob, NextSlot, jobVars, resultVars, publishVars, historyVars
    <3>2. \A s \in Slots : why[s] = "none"
      BY <3>1, NoneExplained DEF KillInv, Finishing
    <3> QED
      BY <3>1, <3>2 DEF WhyParts, Marked, Explained
  <2>4. CASE AskWhoLives
    <3>1. UNCHANGED <<rc, done, why, shell, late, recorded, publish_tried, num>>
      BY <2>4 DEF AskWhoLives, jobVars, slotVars, resultVars, publishVars
    <3>2. ipc' \in {"giveup_kill", "giveup_mark"} => ipc \in {"giveup_kill", "giveup_mark"}
      BY <2>4, AskSays DEF AfterKill, Killing
    <3> QED
      BY <3>1, <3>2, WhyKept
  <2>5. CASE SignalsGroups
    <3>1. UNCHANGED <<rc, done, why, late, recorded, publish_tried, num>>
      BY <2>5 DEF SignalsGroups, slotVars, resultVars, publishVars
    <3>2. ipc' \in {"giveup_kill", "giveup_mark"} => ipc \in {"giveup_kill", "giveup_mark"}
      BY <2>5, SignalsKill DEF AfterKill, Killing
    <3>3. \A s \in Slots : shell'[s] = IF s \in groups THEN "gone" ELSE shell[s]
      BY <2>5 DEF SignalsGroups
    <3>4. groups \subseteq recorded
      BY DEF KillInv
    <3>5. \A s \in Slots : Marked(s)'
      BY <3>1, <3>3 DEF WhyParts, Marked
    <3>6. \A s \in Slots : Explained(s)'
      BY <3>1, <3>3, <3>4 DEF WhyParts, Explained
    <3> QED
      BY <3>1, <3>2, <3>5, <3>6 DEF WhyParts
  <2>6. CASE Watches
    BY <2>6, WatchWhy
  <2>7. CASE ExtractSlot
    BY <2>7, ExtractWhy
  <2>8. CASE RemoveScratch \/ PublishSlot \/ FinishRound \/ LeaveOutDir
    <3>1. UNCHANGED <<rc, done, why, shell, late, recorded>>
      BY <2>8 DEF RemoveScratch, PublishSlot, FinishRound, LeaveOutDir, jobVars, slotVars,
         resultVars, historyVars
    <3>2. ipc' \notin {"giveup_kill", "giveup_mark"}
      BY <2>8 DEF RemoveScratch, PublishSlot, FinishRound, LeaveOutDir, GoesTo, NextSlot
    <3>3. publish_tried => publish_tried'
      BY <2>8 DEF RemoveScratch, PublishSlot, FinishRound, LeaveOutDir, publishVars
    <3> QED
      BY <3>1, <3>2, <3>3, WhyKept
  <2> QED
    BY <1>1, <2>1, <2>2, <2>3, <2>4, <2>5, <2>6, <2>7, <2>8 DEF Inner, Launches, Leaves
<1>2. CASE Waits
  <2>1. \/ ipc' = ipc
        \/ ipc = "none" /\ ipc' = "start"
    BY <1>2 DEF Waits, SetTrap, StartInner, AssignInner, WaitReturns, WaitAgain, WriteExit,
       OuterInv
  <2>2. UNCHANGED <<rc, done, why, shell, late, recorded, publish_tried, num>>
    BY <1>2 DEF Waits, innerVars, resultVars, slotVars, publishVars, jobVars
  <2> QED
    BY <2>1, <2>2, WhyKept
<1>3. CASE Forwards
  <2>1. UNCHANGED <<rc, done, why, shell, late, recorded, publish_tried>>
    BY <1>3 DEF Forwards, resultVars, slotVars, publishVars, jobVars
  <2>2. UNCHANGED <<ipc, num>> \/ ipc' \in {"exited", "finish"}
    BY <1>3, TermCases
  <2> QED
    BY <2>1, <2>2, WhyKept
<1>4. CASE JobStep
  BY <1>4, JobWhy
<1>5. CASE UNCHANGED vars
  BY <1>5, WhyKept DEF vars, innerVars, resultVars, slotVars, publishVars, jobVars, historyVars
<1> QED
  BY <1>1, <1>2, <1>3, <1>4, <1>5, Groups

(* Whoever marked a slot last, what its placeholder says is true of it.    *)
THEOREM WhyCorrect == Spec => []WhyIsTrue
<1>1. Init => WhyParts
  BY InitWhy
<1>2. OutputAll /\ WhyParts /\ [Next]_vars => WhyParts'
  BY StepWhy
<1>3. WhyParts => WhyIsTrue
  BY WhyIsItsParts DEF WhyInv
<1> QED
  BY <1>1, <1>2, <1>3, OutputInvariant, PTL DEF Spec
=============================================================================
