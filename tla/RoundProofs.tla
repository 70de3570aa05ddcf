----------------------------- MODULE RoundProofs -----------------------------
(***************************************************************************)
(* Proofs about one round's reviewers, for any number of slots, signals    *)
(* and helpers and every way of seeing an exit.                            *)
(***************************************************************************)
EXTENDS RoundProperties, TLAPS

(* A first state has values of every kind.                                 *)
LEMMA InitType == Init => TypeOK
<1> SUFFICES ASSUME Init PROVE TypeOK
  OBVIOUS
<1>1. slot \in 1..(N + 1) /\ signals \in 0..MaxSignals
  BY RoundAssumption DEF Init
<1>2. pc \in Pcs
  BY DEF Init, Pcs, Unwinds
<1>3. struck \in BOOLEAN /\ strays \in BOOLEAN /\ caught \in BOOLEAN /\ published \in BOOLEAN
  BY DEF Init
<1> QED
  BY <1>1, <1>2, <1>3 DEF Init, TypeOK

(* What a kill and a wait do to the processes.                             *)
LEMMA KillGroupType ==
  ASSUME TypeOK, NEW s \in Slots, KillGroup(s)
  PROVE  /\ leader' \in [Slots -> {"none", "running", "stuck", "zombie", "reaped"}]
         /\ helpers' \in [Slots -> SUBSET {"group", "session"}]
         /\ struck' \in BOOLEAN
<1>1. CASE KnownReaped(s)
  BY <1>1 DEF TypeOK, KillGroup
<1>2. CASE ~KnownReaped(s)
  BY <1>2 DEF TypeOK, KillGroup
<1> QED
  BY <1>1, <1>2

(* A wait does no more to them.                                            *)
LEMMA ReapType ==
  ASSUME TypeOK, NEW s \in Slots, Reap(s)
  PROVE  /\ leader' \in [Slots -> {"none", "running", "stuck", "zombie", "reaped"}]
         /\ returncode' \subseteq Slots
<1>1. CASE leader[s] \in {"running", "stuck"}
  BY <1>1 DEF TypeOK, Reap
<1>2. CASE leader[s] \notin {"running", "stuck"}
  BY <1>2 DEF TypeOK, Reap
<1> QED
  BY <1>1, <1>2

(* The steps that launch keep the types,                                   *)
LEMMA LaunchingType ==
  ASSUME TypeOK, LaunchInv, Launching
  PROVE  TypeOK'
<1> USE RoundAssumption
    DEF TypeOK, LaunchInv, Pcs, Held, Deferred, Unwinds, Placed, loopVars,
        processVars, scratchVars, historyVars, Leave
<1>1. CASE MakeScratch \/ PrepareAgy
  BY <1>1 DEF MakeScratch, PrepareAgy
<1>2. CASE SkipSlot \/ PopAll
  <2>1. slot \in Slots /\ slot' = slot + 1
    BY <1>2 DEF SkipSlot, PopAll
  <2>2. slot' \in 1..(N + 1)
    BY <2>1 DEF Slots
  <2> QED
    BY <1>2, <2>2 DEF SkipSlot, PopAll
<1>3. CASE HoldSignals \/ Register
  BY <1>3 DEF HoldSignals, Register
<1>4. CASE Popen
  <2>1. leader' \in [Slots -> {"none", "running", "stuck", "zombie", "reaped"}]
    BY <1>4 DEF Popen
  <2> QED
    BY <1>4, <2>1 DEF Popen
<1>5. CASE LaunchRaises \/ ReleaseSignals
  BY <1>5 DEF LaunchRaises, ReleaseSignals
<1>6. CASE FailedKill
  <2>1. slot \in Slots /\ KillGroup(slot)
    BY <1>6 DEF FailedKill
  <2> QED
    BY <1>6, <2>1, KillGroupType DEF FailedKill
<1>7. CASE FailedWait
  <2>1. slot \in Slots /\ Reap(slot)
    BY <1>7 DEF FailedWait
  <2> QED
    BY <1>7, <2>1, ReapType DEF FailedWait
<1>8. CASE AllLaunched
  BY <1>8 DEF AllLaunched, Awaited
<1> QED
  BY <1>1, <1>2, <1>3, <1>4, <1>5, <1>6, <1>7, <1>8 DEF Launching

(* those that wait,                                                        *)
LEMMA AwaitingType ==
  ASSUME TypeOK, Awaiting
  PROVE  TypeOK'
<1> USE RoundAssumption
    DEF TypeOK, Pcs, Held, Deferred, Unwinds, loopVars,
        processVars, scratchVars, historyVars, Leave
<1>1. CASE AllExited \/ Deadline \/ Watch \/ EndOfGrace
  BY <1>1 DEF AllExited, Deadline, Watch, EndOfGrace
<1>2. ASSUME NEW s \in Slots, SeeExit(s)
      PROVE  TypeOK'
  BY <1>2 DEF SeeExit
<1>3. ASSUME NEW s \in Slots, ReapExited(s)
      PROVE  TypeOK'
  BY <1>3 DEF ReapExited
<1>4. ASSUME NEW s \in Slots, GiveUp(s)
      PROVE  TypeOK'
  BY <1>4, KillGroupType DEF GiveUp
<1> QED
  BY <1>1, <1>2, <1>3, <1>4 DEF Awaiting

(* those that end the round,                                               *)
LEMMA FinishingType ==
  ASSUME TypeOK, Finishing
  PROVE  TypeOK'
<1> USE RoundAssumption
    DEF TypeOK, Pcs, Held, Deferred, Unwinds, loopVars,
        processVars, scratchVars, historyVars
<1>1. CASE Defer \/ AllStopped \/ AllPublished \/ KeepOutputs
  BY <1>1 DEF Defer, ToStop, AllStopped, AllPublished, KeepOutputs
<1>2. CASE Release \/ AtExit
  BY <1>2 DEF Release, AtExit, ReleaseScratch
<1>3. ASSUME NEW s \in Slots, Stop(s)
      PROVE  TypeOK'
  <2>1. CASE KnownReaped(s)
    BY <1>3, <2>1 DEF Stop
  <2>2. CASE ~KnownReaped(s)
    <3>1. \E how \in {"reaped", "stuck"} : leader' = [leader EXCEPT ![s] = how]
      BY <1>3, <2>2 DEF Stop
    <3>2. leader' \in [Slots -> {"none", "running", "stuck", "zombie", "reaped"}]
      BY <3>1
    <3>3. returncode' \subseteq Slots /\ struck' \in BOOLEAN
      BY <1>3, <2>2 DEF Stop
    <3>4. helpers' \in [Slots -> SUBSET {"group", "session"}]
      BY <1>3, <2>2 DEF Stop
    <3> QED
      BY <1>3, <3>2, <3>3, <3>4 DEF Stop
  <2> QED
    BY <2>1, <2>2
<1>4. ASSUME NEW s \in Slots, Publish(s)
      PROVE  TypeOK'
  <2>1. round_dir' \in [Slots -> {"absent", "planted", "partial", "whole"}]
    BY <1>4 DEF Publish
  <2> QED
    BY <1>4, <2>1 DEF Publish
<1> QED
  BY <1>1, <1>2, <1>3, <1>4 DEF Finishing

(* the reviewers',                                                         *)
LEMMA ReviewersType ==
  ASSUME TypeOK, Reviewers
  PROVE  TypeOK'
<1> USE DEF TypeOK, loopVars, processVars, scratchVars, historyVars
<1> SUFFICES ASSUME NEW s \in Slots,
                    \/ LeaderExits(s) \/ StartsHelper(s) \/ HelperEnds(s) \/ Writes(s)
                    \/ NumberIsReused(s) \/ \E target \in Slots : Plants(s, target)
             PROVE  TypeOK'
  BY DEF Reviewers
<1>1. CASE LeaderExits(s)
  BY <1>1 DEF LeaderExits
<1>2. CASE StartsHelper(s)
  BY <1>2 DEF StartsHelper
<1>3. CASE HelperEnds(s)
  BY <1>3 DEF HelperEnds
<1>4. CASE Writes(s)
  <2>1. output' \in [Slots -> {"none", "partial", "whole"}]
    BY <1>4 DEF Writes
  <2> QED
    BY <1>4, <2>1 DEF Writes
<1>5. CASE NumberIsReused(s)
  BY <1>5 DEF NumberIsReused
<1>6. CASE \E target \in Slots : Plants(s, target)
  BY <1>6 DEF Plants
<1> QED
  BY <1>1, <1>2, <1>3, <1>4, <1>5, <1>6

(* and a signal.                                                           *)
LEMMA SignalType ==
  ASSUME TypeOK, LaunchInv, Signal
  PROVE  TypeOK'
<1> USE RoundAssumption
    DEF TypeOK, LaunchInv, Pcs, Held, Deferred, Unwinds, Placed, loopVars,
        processVars, scratchVars, historyVars
<1>0. signals' \in 0..MaxSignals
  BY DEF Signal
<1>1. CASE Unwind
  <2>1. reaping \subseteq Slots
    BY DEF reaping
  <2>2. /\ leader' \in [Slots -> {"none", "running", "stuck", "zombie", "reaped"}]
        /\ lost_reap' \subseteq Slots
    BY <1>1, <2>1 DEF Unwind
  <2>3. pc' \in Pcs /\ unwatched' \subseteq Slots
    BY <1>1 DEF Unwind
  <2> QED
    BY <1>0, <1>1, <2>2, <2>3 DEF Signal, Unwind
<1>2. CASE Wait
  BY <1>0, <1>2 DEF Signal, Wait
<1>3. CASE Die
  BY <1>0, <1>3 DEF Signal, Die
<1> QED
  BY <1>1, <1>2, <1>3 DEF Signal

(* So every step does.                                                     *)
LEMMA StepType == TypeOK /\ LaunchInv /\ [Next]_vars => TypeOK'
<1> SUFFICES ASSUME TypeOK, LaunchInv, [Next]_vars PROVE TypeOK'
  OBVIOUS
<1>1. CASE UNCHANGED vars
  BY <1>1 DEF TypeOK, vars, loopVars, processVars, scratchVars, historyVars
<1> QED
  BY <1>1, LaunchingType, AwaitingType, FinishingType, ReviewersType, SignalType
  DEF Next, RoundStep

-----------------------------------------------------------------------------
(* Slots are launched in order                                             *)

(* A kill, a wait or a stop does nothing to a slot without a process but   *)
(* the one it is asked of.                                                 *)
LEMMA OnlyOfSlot ==
  ASSUME TypeOK, NEW s \in Slots, NEW t \in Slots, s # t,
         (KillGroup(s) /\ UNCHANGED returncode) \/ (Reap(s) /\ UNCHANGED helpers) \/ Stop(s)
  PROVE  leader'[t] = leader[t] /\ helpers'[t] = helpers[t] /\ (t \in returncode' <=> t \in returncode)
<1>1. CASE KillGroup(s) /\ UNCHANGED returncode
  <2>1. CASE KnownReaped(s)
    BY <1>1, <2>1 DEF TypeOK, KillGroup
  <2>2. CASE ~KnownReaped(s)
    BY <1>1, <2>2 DEF TypeOK, KillGroup
  <2> QED
    BY <2>1, <2>2
<1>2. CASE Reap(s) /\ UNCHANGED helpers
  <2>1. CASE leader[s] \in {"running", "stuck"}
    BY <1>2, <2>1 DEF TypeOK, Reap
  <2>2. CASE leader[s] \notin {"running", "stuck"}
    BY <1>2, <2>2 DEF TypeOK, Reap
  <2> QED
    BY <2>1, <2>2
<1>3. CASE Stop(s)
  <2>1. CASE KnownReaped(s)
    BY <1>3, <2>1 DEF TypeOK, Stop
  <2>2. CASE ~KnownReaped(s)
    BY <1>3, <2>2 DEF TypeOK, Stop
  <2> QED
    BY <2>1, <2>2
<1> QED
  BY <1>1, <1>2, <1>3

(* Launching goes from slot to slot, each brought up once its turn comes.  *)
LEMMA LaunchingLaunch ==
  ASSUME TypeOK, LaunchInv, Launching
  PROVE  LaunchInv'
<1> USE DEF LaunchInv, Placed, Before, loopVars, processVars, scratchVars, historyVars, Leave
<1>1. CASE MakeScratch \/ PrepareAgy \/ HoldSignals \/ LaunchRaises \/ ReleaseSignals \/ AllLaunched
  BY <1>1 DEF MakeScratch, PrepareAgy, HoldSignals, LaunchRaises, ReleaseSignals, AllLaunched
<1>2. CASE SkipSlot
  BY <1>2 DEF SkipSlot, Slots
<1>3. CASE PopAll
  BY <1>3 DEF PopAll, Slots
<1>4. CASE Popen
  BY <1>4 DEF Popen, Slots, TypeOK
<1>5. CASE Register
  BY <1>5 DEF Register, Slots
<1>6. CASE FailedKill
  BY <1>6, OnlyOfSlot DEF FailedKill, Slots
<1>7. CASE FailedWait
  BY <1>7, OnlyOfSlot DEF FailedWait, Slots
<1> QED
  BY <1>1, <1>2, <1>3, <1>4, <1>5, <1>6, <1>7 DEF Launching

(* Waiting launches nobody and gives up on those pending only.             *)
LEMMA AwaitingLaunch ==
  ASSUME TypeOK, LaunchInv, Awaiting
  PROVE  LaunchInv'
<1> USE DEF LaunchInv, Placed, Before, loopVars, processVars, scratchVars, historyVars, Leave
<1>1. CASE AllExited \/ Deadline \/ Watch \/ EndOfGrace
  BY <1>1 DEF AllExited, Deadline, Watch, EndOfGrace
<1>2. ASSUME NEW s \in Slots, SeeExit(s) \/ ReapExited(s)
      PROVE  LaunchInv'
  BY <1>2 DEF SeeExit, ReapExited, TypeOK
<1>3. ASSUME NEW s \in Slots, GiveUp(s)
      PROVE  LaunchInv'
  <2>1. s \in procs
    BY <1>3 DEF GiveUp, TypeOK
  <2> QED
    BY <1>3, <2>1, OnlyOfSlot DEF GiveUp, TypeOK
<1> QED
  BY <1>1, <1>2, <1>3 DEF Awaiting

(* The end of the round launches nobody and stops the tracked.             *)
LEMMA FinishingLaunch ==
  ASSUME TypeOK, LaunchInv, Finishing
  PROVE  LaunchInv'
<1> USE DEF LaunchInv, Placed, Before, loopVars, processVars, scratchVars, historyVars
<1>1. CASE Defer \/ AllStopped \/ AllPublished \/ KeepOutputs \/ Release \/ AtExit
  BY <1>1 DEF Defer, ToStop, AllStopped, AllPublished, KeepOutputs, Release, AtExit
<1>2. ASSUME NEW s \in Slots, Stop(s)
      PROVE  LaunchInv'
  BY <1>2, OnlyOfSlot DEF Stop
<1>3. ASSUME NEW s \in Slots, Publish(s)
      PROVE  LaunchInv'
  BY <1>3 DEF Publish
<1> QED
  BY <1>1, <1>2, <1>3 DEF Finishing

(* A reviewer does nothing before it is launched.                          *)
LEMMA ReviewersLaunch ==
  ASSUME TypeOK, LaunchInv, Reviewers
  PROVE  LaunchInv'
<1> USE DEF TypeOK, LaunchInv, loopVars, processVars, scratchVars, historyVars
<1> PICK s \in Slots :
         \/ LeaderExits(s) \/ StartsHelper(s) \/ HelperEnds(s) \/ Writes(s)
         \/ NumberIsReused(s) \/ \E target \in Slots : Plants(s, target)
  BY DEF Reviewers
<1>1. CASE LeaderExits(s)
  BY <1>1 DEF LeaderExits
<1>2. CASE StartsHelper(s)
  BY <1>2 DEF StartsHelper, Alive
<1>3. CASE HelperEnds(s)
  BY <1>3 DEF HelperEnds
<1>4. CASE Writes(s) \/ NumberIsReused(s) \/ \E target \in Slots : Plants(s, target)
  BY <1>4 DEF Writes, NumberIsReused, Plants
<1> QED
  BY <1>1, <1>2, <1>3, <1>4

(* A signal moves the loop to where no slot is about to be launched.       *)
LEMMA SignalLaunch ==
  ASSUME TypeOK, LaunchInv, Signal
  PROVE  LaunchInv'
<1> USE DEF TypeOK, LaunchInv, Placed, Before, loopVars, processVars, scratchVars
<1>1. CASE Unwind
  <2>1. \A s \in Slots : leader[s] # "zombie" => leader'[s] = leader[s]
    BY <1>1 DEF Unwind
  <2>2. pc' \notin Before \cup {"give_up", "stopping"}
        /\ (pc' \in Placed => pc \in Placed)
    BY <1>1 DEF Unwind
  <2> QED
    BY <1>1, <2>1, <2>2 DEF Signal
<1>2. CASE Wait \/ Die
  BY <1>2 DEF Signal, Wait, Die
<1> QED
  BY <1>1, <1>2 DEF Signal

(* So every step keeps the order of the launches.                          *)
LEMMA StepLaunch == TypeOK /\ LaunchInv /\ [Next]_vars => LaunchInv'
<1> SUFFICES ASSUME TypeOK, LaunchInv, [Next]_vars PROVE LaunchInv'
  OBVIOUS
<1>1. CASE UNCHANGED vars
  BY <1>1 DEF LaunchInv, vars, loopVars, processVars
<1> QED
  BY <1>1, LaunchingLaunch, AwaitingLaunch, FinishingLaunch, ReviewersLaunch, SignalLaunch
  DEF Next, RoundStep

(* No slot has been launched.                                              *)
LEMMA InitLaunch == Init => LaunchInv
  BY DEF Init, LaunchInv, Placed

(* Both are invariants.                                                    *)
LEMMA TypedAndLaunched == Spec => [](TypeOK /\ LaunchInv)
<1>1. Init => TypeOK /\ LaunchInv
  BY InitType, InitLaunch
<1>2. TypeOK /\ LaunchInv /\ [Next]_vars => TypeOK' /\ LaunchInv'
  BY StepType, StepLaunch
<1> QED
  BY <1>1, <1>2, PTL DEF Spec

-----------------------------------------------------------------------------
(* Reaping, and what is left running                                       *)

(* A slot that is dead stays dead, unless it is launched.                  *)
LEMMA KillsItsOwn ==
  ASSUME TypeOK, ReapInv, NEW s \in Slots, KillGroup(s)
  PROVE  /\ Dead(s)'
         /\ \A t \in Slots : leader[t] = "reaped" <=> leader'[t] = "reaped"
         /\ \A t \in Slots : Dead(t) => Dead(t)'
         /\ struck' => struck \/ s \in reused \ returncode
<1>1. CASE KnownReaped(s)
  BY <1>1 DEF TypeOK, ReapInv, KillGroup, KnownReaped, Dead
<1>2. CASE ~KnownReaped(s)
  BY <1>2 DEF TypeOK, KillGroup, KnownReaped, Dead
<1> QED
  BY <1>1, <1>2

(* A slot that was stopped is dead, and no other came back; whoever was    *)
(* reaped for it is known to be.                                           *)
LEMMA StopsItsOwn ==
  ASSUME TypeOK, ReapInv, NEW s \in Slots, Stop(s)
  PROVE  /\ Dead(s)'
         /\ \A t \in Slots : leader[t] = "reaped" => leader'[t] = "reaped"
         /\ \A t \in Slots : Dead(t) => Dead(t)'
         /\ returncode \subseteq returncode'
         /\ \A t \in Slots : leader'[t] = "reaped" => leader[t] = "reaped" \/ t \in returncode'
         /\ \A t \in returncode' \ returncode : leader'[t] = "reaped" /\ Dead(t)'
         /\ struck' => struck \/ s \in reused \ returncode
<1>1. CASE KnownReaped(s)
  BY <1>1 DEF TypeOK, ReapInv, Stop, KnownReaped, Dead
<1>2. CASE ~KnownReaped(s)
  BY <1>2 DEF TypeOK, ReapInv, Stop, KnownReaped, Dead
<1> QED
  BY <1>1, <1>2

(* Launching leaves nobody running whom nothing tracks.                    *)
LEMMA LaunchingSweep ==
  ASSUME TypeOK, LaunchInv, ReapInv, SweepInv, OnlyItsOwnGroups, Launching
  PROVE  ReapInv' /\ SweepInv' /\ OnlyItsOwnGroups'
<1> USE DEF LaunchInv, ReapInv, SweepInv, OnlyItsOwnGroups, Placed, Before, Left,
            loopVars, processVars, scratchVars, historyVars, Leave
<1>1. CASE \/ MakeScratch \/ PrepareAgy \/ SkipSlot \/ HoldSignals \/ LaunchRaises
            \/ ReleaseSignals \/ Register \/ PopAll \/ AllLaunched
  BY <1>1 DEF MakeScratch, PrepareAgy, SkipSlot, HoldSignals, LaunchRaises, ReleaseSignals,
              Register, PopAll, AllLaunched, Dead
<1>2. CASE Popen
  <2>1. /\ slot \in Slots /\ leader[slot] = "none" /\ slot \notin returncode \cup reused
        /\ leader'[slot] = "running"
        /\ \A s \in Slots \ {slot} : leader'[s] = leader[s] /\ (Dead(s) => Dead(s)')
    BY <1>2 DEF Popen, TypeOK, Dead
  <2> QED
    BY <1>2, <2>1 DEF Popen, TypeOK, Dead
<1>3. CASE FailedKill
  <2>1. /\ Dead(slot)' /\ \A t \in Slots : leader[t] = "reaped" <=> leader'[t] = "reaped"
        /\ \A t \in Slots : Dead(t) => Dead(t)'
        /\ struck' => struck \/ slot \in reused \ returncode
    BY <1>3, KillsItsOwn DEF FailedKill
  <2> QED
    BY <1>3, <2>1 DEF FailedKill, TypeOK
<1>4. CASE FailedWait
  <2>1. CASE leader[slot] \in {"running", "stuck"}
    BY <1>4, <2>1 DEF FailedWait, Reap, TypeOK, Dead
  <2>2. CASE leader[slot] \notin {"running", "stuck"}
    BY <1>4, <2>2 DEF FailedWait, Reap, TypeOK, Dead
  <2> QED
    BY <2>1, <2>2
<1> QED
  BY <1>1, <1>2, <1>3, <1>4 DEF Launching

(* Waiting reaps the tracked, and kills only groups that are theirs.       *)
LEMMA AwaitingSweep ==
  ASSUME TypeOK, LaunchInv, ReapInv, SweepInv, OnlyItsOwnGroups, Awaiting
  PROVE  ReapInv' /\ SweepInv' /\ OnlyItsOwnGroups'
<1> USE DEF LaunchInv, ReapInv, SweepInv, OnlyItsOwnGroups, Left,
            loopVars, processVars, scratchVars, historyVars, Leave
<1>1. CASE AllExited \/ Deadline \/ Watch \/ EndOfGrace
  BY <1>1 DEF AllExited, Deadline, Watch, EndOfGrace, Dead
<1>2. ASSUME NEW s \in Slots, SeeExit(s)
      PROVE  ReapInv' /\ SweepInv' /\ OnlyItsOwnGroups'
  BY <1>2 DEF SeeExit, Dead
<1>3. ASSUME NEW s \in Slots, ReapExited(s)
      PROVE  ReapInv' /\ SweepInv' /\ OnlyItsOwnGroups'
  <2>1. /\ leader'[s] = "reaped" /\ Dead(s)' /\ returncode' = returncode \cup {s}
        /\ \A t \in Slots \ {s} : leader'[t] = leader[t] /\ helpers'[t] = helpers[t]
    BY <1>3 DEF ReapExited, TypeOK, Dead
  <2>2. \A t \in Slots : Dead(t) => Dead(t)'
    BY <2>1 DEF Dead
  <2>3. ReapInv'
    BY <1>3, <2>1, <2>2 DEF ReapExited, TypeOK
  <2>4. SweepInv'
    BY <1>3, <2>1, <2>2 DEF ReapExited, TypeOK
  <2>5. OnlyItsOwnGroups'
    BY <1>3 DEF ReapExited
  <2> QED
    BY <2>3, <2>4, <2>5
<1>4. ASSUME NEW s \in Slots, GiveUp(s)
      PROVE  ReapInv' /\ SweepInv' /\ OnlyItsOwnGroups'
  <2>1. /\ \A t \in Slots : leader[t] = "reaped" <=> leader'[t] = "reaped"
        /\ \A t \in Slots : Dead(t) => Dead(t)'
        /\ struck' => struck \/ s \in reused \ returncode
    BY <1>4, KillsItsOwn DEF GiveUp
  <2> QED
    BY <1>4, <2>1 DEF GiveUp, TypeOK
<1> QED
  BY <1>1, <1>2, <1>3, <1>4 DEF Awaiting

(* The end of the round stops the tracked one after the other.             *)
LEMMA FinishingSweep ==
  ASSUME TypeOK, LaunchInv, ReapInv, SweepInv, OnlyItsOwnGroups, Finishing
  PROVE  ReapInv' /\ SweepInv' /\ OnlyItsOwnGroups'
<1> USE DEF LaunchInv, ReapInv, SweepInv, OnlyItsOwnGroups, Left,
            loopVars, processVars, scratchVars, historyVars
<1>1. CASE Defer \/ AllStopped \/ AllPublished \/ KeepOutputs \/ Release \/ AtExit
  BY <1>1 DEF Defer, ToStop, AllStopped, AllPublished, KeepOutputs, Release, AtExit, Dead
<1>2. ASSUME NEW s \in Slots, Stop(s)
      PROVE  ReapInv' /\ SweepInv' /\ OnlyItsOwnGroups'
  <2>1. /\ Dead(s)' /\ \A t \in Slots : Dead(t) => Dead(t)'
        /\ \A t \in Slots : leader[t] = "reaped" => leader'[t] = "reaped"
        /\ returncode \subseteq returncode'
        /\ \A t \in Slots : leader'[t] = "reaped" => leader[t] = "reaped" \/ t \in returncode'
        /\ \A t \in returncode' \ returncode : leader'[t] = "reaped" /\ Dead(t)'
        /\ struck' => struck \/ s \in reused \ returncode
    BY <1>2, StopsItsOwn
  <2>2. ReapInv'
    BY <1>2, <2>1 DEF Stop, TypeOK
  <2>3. SweepInv'
    BY <1>2, <2>1 DEF Stop, TypeOK
  <2>4. OnlyItsOwnGroups'
    BY <1>2, <2>1 DEF Stop, TypeOK
  <2> QED
    BY <2>2, <2>3, <2>4
<1>3. ASSUME NEW s \in Slots, Publish(s)
      PROVE  ReapInv' /\ SweepInv' /\ OnlyItsOwnGroups'
  BY <1>3 DEF Publish, Dead
<1> QED
  BY <1>1, <1>2, <1>3 DEF Finishing

(* Only who runs can start anything, and only a reaped number is reused.   *)
LEMMA ReviewersSweep ==
  ASSUME TypeOK, LaunchInv, ReapInv, SweepInv, OnlyItsOwnGroups, Reviewers
  PROVE  ReapInv' /\ SweepInv' /\ OnlyItsOwnGroups'
<1> USE DEF TypeOK, ReapInv, SweepInv, OnlyItsOwnGroups, Dead, Left,
            loopVars, processVars, scratchVars, historyVars
<1> PICK s \in Slots :
         \/ LeaderExits(s) \/ StartsHelper(s) \/ HelperEnds(s) \/ Writes(s)
         \/ NumberIsReused(s) \/ \E target \in Slots : Plants(s, target)
  BY DEF Reviewers
<1>1. CASE LeaderExits(s)
  BY <1>1 DEF LeaderExits
<1>2. CASE StartsHelper(s)
  BY <1>2 DEF StartsHelper
<1>3. CASE HelperEnds(s)
  BY <1>3 DEF HelperEnds
<1>4. CASE Writes(s) \/ NumberIsReused(s) \/ \E target \in Slots : Plants(s, target)
  BY <1>4 DEF Writes, NumberIsReused, Plants
<1> QED
  BY <1>1, <1>2, <1>3, <1>4

(* A signal unwinds to where the tracked are stopped, or is one of the     *)
(* exceptions.                                                             *)
LEMMA SignalSweep ==
  ASSUME TypeOK, LaunchInv, ReapInv, SweepInv, OnlyItsOwnGroups, Signal
  PROVE  ReapInv' /\ SweepInv' /\ OnlyItsOwnGroups'
<1> USE DEF TypeOK, LaunchInv, ReapInv, SweepInv, OnlyItsOwnGroups, Left, loopVars, scratchVars
<1>1. CASE Unwind
  <2>1. /\ \A t \in Slots : leader[t] = "reaped" => leader'[t] = "reaped"
        /\ \A t \in Slots : Dead(t) => Dead(t)'
        /\ \A t \in Slots : leader'[t] = "reaped" => leader[t] = "reaped" \/ t \in lost_reap'
        /\ lost_reap \subseteq lost_reap'
    BY <1>1 DEF Unwind, Signal, Dead
  <2>2. /\ pc = "failed_kill" => slot \in procs \cup unwatched'
        /\ unwatched \subseteq unwatched'
        /\ pc \in {"unheld", "registered"} => pc' = "failed_kill"
        /\ pc' \in {"failed_kill", "cut", "finally"}
    BY <1>1 DEF Unwind
  <2>3. pc # "started"
    BY <1>1 DEF Unwind, Unwinds
  <2> QED
    BY <1>1, <2>1, <2>2, <2>3 DEF Signal
<1>2. CASE Wait \/ Die
  BY <1>2 DEF Signal, Wait, Die, Dead
<1> QED
  BY <1>1, <1>2 DEF Signal

(* So every step keeps who runs tracked.                                   *)
LEMMA StepSweep ==
  TypeOK /\ LaunchInv /\ ReapInv /\ SweepInv /\ OnlyItsOwnGroups /\ [Next]_vars
    => ReapInv' /\ SweepInv' /\ OnlyItsOwnGroups'
<1> SUFFICES ASSUME TypeOK, LaunchInv, ReapInv, SweepInv, OnlyItsOwnGroups, [Next]_vars
             PROVE  ReapInv' /\ SweepInv' /\ OnlyItsOwnGroups'
  OBVIOUS
<1>1. CASE UNCHANGED vars
  BY <1>1 DEF ReapInv, SweepInv, OnlyItsOwnGroups, Dead, Left, vars, loopVars, processVars,
              historyVars
<1> QED
  BY <1>1, LaunchingSweep, AwaitingSweep, FinishingSweep, ReviewersSweep, SignalSweep
  DEF Next, RoundStep

(* Nobody runs.                                                            *)
LEMMA InitSweep == Init => ReapInv /\ SweepInv /\ OnlyItsOwnGroups
  BY DEF Init, ReapInv, SweepInv, OnlyItsOwnGroups, Dead, Left

(* The invariants of the processes hold throughout.                        *)
LEMMA SweepInvariant == Spec => [](ReapInv /\ SweepInv /\ OnlyItsOwnGroups)
<1> DEFINE Inv == ReapInv /\ SweepInv /\ OnlyItsOwnGroups
<1>1. Init => Inv
  BY InitSweep
<1>2. (TypeOK /\ LaunchInv) /\ Inv /\ [Next]_vars => Inv'
  BY StepSweep
<1> HIDE DEF Inv
<1>3. Spec => []Inv
  BY <1>1, <1>2, TypedAndLaunched, PTL DEF Spec
<1> QED
  BY <1>3 DEF Inv

(* A round that is left leaves nothing running that it started, but what a *)
(* second signal kept it from stopping.                                    *)
THEOREM NothingRunsOn == Spec => []NothingLeftRunning
<1>1. SweepInv => NothingLeftRunning
  BY DEF SweepInv, NothingLeftRunning, Dead, Left
<1> QED
  BY <1>1, SweepInvariant, PTL

(* Where an exit can be seen without a reap, no group kill reaches anybody *)
(* else's processes, unless a signal cut a reap short.                     *)
THEOREM GroupsCorrect == Spec => []OnlyItsOwnGroups
  BY SweepInvariant, PTL

-----------------------------------------------------------------------------
(* Scratch directories and outputs                                         *)

(* Every step lists a directory it makes, and names one it cannot remove.  *)
LEMMA StepScratch == ScratchInv /\ [Next]_vars => ScratchInv'
<1> SUFFICES ASSUME ScratchInv, [Next]_vars PROVE ScratchInv'
  OBVIOUS
<1> USE DEF ScratchInv, Left, scratchVars
<1>1. CASE Launching
  BY <1>1 DEF Launching, MakeScratch, PrepareAgy, SkipSlot, HoldSignals, Popen, LaunchRaises,
              ReleaseSignals, Register, PopAll, FailedKill, FailedWait, AllLaunched, Leave
<1>2. CASE Awaiting
  BY <1>2 DEF Awaiting, AllExited, Deadline, Watch, EndOfGrace, SeeExit, ReapExited, GiveUp, Leave
<1>3. CASE Defer \/ AllStopped \/ AllPublished \/ KeepOutputs
  BY <1>3 DEF Defer, AllStopped, AllPublished, KeepOutputs
<1>4. CASE Release \/ AtExit
  BY <1>4 DEF Release, AtExit, ReleaseScratch
<1>5. CASE \E s \in Slots : Stop(s) \/ Publish(s)
  BY <1>5 DEF Stop, Publish
<1>6. CASE Reviewers
  BY <1>6 DEF Reviewers, LeaderExits, StartsHelper, HelperEnds, Writes, NumberIsReused, Plants
<1>7. CASE Signal
  BY <1>7 DEF Signal, Unwind, Wait, Die, Unwinds, Held, Deferred
<1>8. CASE UNCHANGED vars
  BY <1>8 DEF vars
<1> QED
  BY <1>1, <1>2, <1>3, <1>4, <1>5, <1>6, <1>7, <1>8 DEF Next, RoundStep, Finishing

(* There is no scratch directory.                                          *)
LEMMA InitScratch == Init => ScratchInv
  BY DEF Init, ScratchInv, Left

(* Every scratch directory is accounted for throughout.                    *)
LEMMA ScratchInvariant == Spec => []ScratchInv
  BY InitScratch, StepScratch, PTL DEF Spec

(* agy's sign-in token does not outlive the round unnamed, however the     *)
(* round was left and whatever could not be removed.                       *)
THEOREM TokenCorrect == Spec => []TokenIsGoneOrNamed
<1>1. ScratchInv => TokenIsGoneOrNamed
  BY DEF ScratchInv, TokenIsGoneOrNamed
<1> QED
  BY <1>1, ScratchInvariant, PTL

(* The round's own steps up to the publishing touch no output, and leave   *)
(* the private directory where it is.                                      *)
LEMMA EarlyOutput ==
  ASSUME TypeOK, OutputInv,
         \/ Launching \/ Awaiting \/ Defer \/ AllStopped \/ \E s \in Slots : Stop(s)
  PROVE  OutputInv'
<1> USE DEF OutputInv, Left, InPlace, loopVars, processVars, scratchVars, historyVars, Leave
<1>1. CASE Launching
  BY <1>1 DEF Launching, MakeScratch, PrepareAgy, SkipSlot, HoldSignals, Popen, LaunchRaises,
              ReleaseSignals, Register, PopAll, FailedKill, FailedWait, AllLaunched
<1>2. CASE Awaiting
  BY <1>2 DEF Awaiting, AllExited, Deadline, Watch, EndOfGrace, SeeExit, ReapExited, GiveUp
<1>3. CASE Defer \/ AllStopped
  BY <1>3 DEF Defer, AllStopped
<1>4. CASE \E s \in Slots : Stop(s)
  BY <1>4 DEF Stop
<1> QED
  BY <1>1, <1>2, <1>3, <1>4

(* Publishing puts each output in place before the private directory may   *)
(* go.                                                                     *)
LEMMA LateOutput ==
  ASSUME TypeOK, OutputInv,
         \/ AllPublished \/ KeepOutputs \/ Release \/ AtExit \/ \E s \in Slots : Publish(s)
  PROVE  OutputInv'
<1> USE DEF OutputInv, Left, InPlace, loopVars, processVars, scratchVars, historyVars
<1>1. CASE AllPublished \/ KeepOutputs
  BY <1>1 DEF AllPublished, KeepOutputs
<1>2. CASE Release \/ AtExit
  BY <1>2 DEF Release, AtExit, ReleaseScratch
<1>3. ASSUME NEW s \in Slots, Publish(s)
      PROVE  OutputInv'
  <2>1. round_dir'[s] = IF output[s] = "none" THEN "absent" ELSE output[s]
    BY <1>3 DEF Publish, TypeOK
  <2>2. \A t \in Slots \ {s} : round_dir'[t] = round_dir[t]
    BY <1>3 DEF Publish, TypeOK
  <2> QED
    BY <1>3, <2>1, <2>2 DEF Publish
<1> QED
  BY <1>1, <1>2, <1>3

(* The reviewers write to the private directory while it is there; a       *)
(* signal leaves it, or names it.                                          *)
LEMMA OthersOutput ==
  ASSUME TypeOK, OutputInv, Reviewers \/ Signal
  PROVE  OutputInv'
<1> USE DEF OutputInv, Left, Stopped, InPlace, loopVars, processVars, scratchVars, historyVars
<1>1. CASE Reviewers
  <2> PICK s \in Slots :
           \/ LeaderExits(s) \/ StartsHelper(s) \/ HelperEnds(s) \/ Writes(s)
           \/ NumberIsReused(s) \/ \E target \in Slots : Plants(s, target)
    BY <1>1 DEF Reviewers
  <2>1. CASE LeaderExits(s) \/ StartsHelper(s) \/ HelperEnds(s) \/ NumberIsReused(s)
    BY <2>1 DEF LeaderExits, StartsHelper, HelperEnds, NumberIsReused
  <2>2. CASE Writes(s)
    <3>1. pc \in Stopped => strays'
      BY <2>2 DEF Writes
    <3>2. UNCHANGED <<pc, published, on_disk>> /\ "out" \in on_disk
      BY <2>2 DEF Writes
    <3>3. pc' \notin {"publishing", "releasing", "returned", "unwound"} \/ strays'
      BY <3>1, <3>2
    <3> QED
      BY <3>2, <3>3
  <2>3. ASSUME NEW target \in Slots, Plants(s, target)
        PROVE  OutputInv'
    <3>1. pc \in Stopped => strays'
      BY <2>3 DEF Plants
    <3>2. UNCHANGED <<pc, published, on_disk, output>>
      BY <2>3 DEF Plants
    <3>3. pc' \notin {"publishing", "releasing", "returned", "unwound"} \/ strays'
      BY <3>1, <3>2
    <3> QED
      BY <3>2, <3>3
  <2> QED
    BY <2>1, <2>2, <2>3
<1>2. CASE Signal
  BY <1>2 DEF Signal, Unwind, Wait, Die, Unwinds, Held, Deferred
<1> QED
  BY <1>1, <1>2

(* So every step keeps the outputs somewhere.                              *)
LEMMA StepOutput == TypeOK /\ OutputInv /\ [Next]_vars => OutputInv'
<1> SUFFICES ASSUME TypeOK, OutputInv, [Next]_vars PROVE OutputInv'
  OBVIOUS
<1>1. CASE UNCHANGED vars
  BY <1>1 DEF OutputInv, InPlace, Left, vars, loopVars, processVars, scratchVars, historyVars
<1> QED
  BY <1>1, EarlyOutput, LateOutput, OthersOutput DEF Next, RoundStep, Finishing

(* There is no output.                                                     *)
LEMMA InitOutput == Init => OutputInv
  BY DEF Init, OutputInv, Left

(* The outputs are somewhere throughout.                                   *)
LEMMA OutputInvariant == Spec => []OutputInv
  BY InitOutput, StepOutput, TypedAndLaunched, PTL DEF Spec

(* What the reviewers wrote is in the round's directory or is kept and     *)
(* named, however the round was left and whichever copy failed.            *)
THEOREM OutputsCorrect == Spec => []OutputsAreKept
<1>1. OutputInv => OutputsAreKept
  BY DEF OutputInv, OutputsAreKept, InPlace
<1> QED
  BY <1>1, OutputInvariant, PTL

(* What a round that returned has in its directory is what its reviewers   *)
(* wrote, for those that wrote nothing too.                                *)
THEOREM ReadsCorrect == Spec => []ReadsWhatTheyWrote
<1>1. OutputInv => ReadsWhatTheyWrote
  BY DEF OutputInv, ReadsWhatTheyWrote, InPlace, Left
<1> QED
  BY <1>1, OutputInvariant, PTL

(* Every state of a round is well typed.                                   *)
THEOREM RoundTypes == Spec => []TypeOK
  BY TypedAndLaunched, PTL
=============================================================================
