--------------------------------- MODULE Slots --------------------------------
(***************************************************************************)
(* A reviewer's slot, at both its ends: which CLI takes it, on which model *)
(* agy runs, and what is read of it.  The three do not share state but the *)
(* CLI, which the last is given any value of: a run follows one of them.   *)
(***************************************************************************)
EXTENDS Routing, AgyModel, Reading

VARIABLE part

vars == <<part, routeVars, modelVars, readVars>>

(* A part that is not followed stands still at one of its first states.    *)
RouteStill ==
  /\ slot = 1 /\ loop_at = "settled" /\ runner_at = 9
  /\ host = [cli |-> [c \in CLIs |-> "absent"], pinned |-> FALSE,
             codex_confined |-> FALSE, agy_sandbox |-> "unproven", agy_model |-> FALSE,
             use_agy |-> "unset", use_codex |-> FALSE, use_gemini |-> FALSE]
  /\ loop_has = {} /\ loop_choice = "none" /\ runner_has = {} /\ runner_choice = "none"
  /\ ran_agy = FALSE

ModelStill == ModelInit /\ agy_model = "bad"

ReadStill ==
  /\ backend = "none" /\ named = FALSE /\ model = "none"
  /\ stdout = NoFile /\ answer = stdout
  /\ loop_reads = "clear" /\ runner_reads = "clear"
  /\ loop_review = "none" /\ runner_review = "none"
  /\ loop_result = "planted" /\ runner_result = "planted"

Init ==
  \/ part = "route" /\ RouteInit /\ ModelStill /\ ReadStill
  \/ part = "model" /\ RouteStill /\ ModelInit /\ ReadStill
  \/ part = "read" /\ RouteStill /\ ModelStill /\ ReadInit

Next ==
  \/ part = "route" /\ RouteNext /\ UNCHANGED <<part, modelVars, readVars>>
  \/ part = "model" /\ ChooseModel /\ UNCHANGED <<part, routeVars, readVars>>
  \/ part = "read" /\ ReadNext /\ UNCHANGED <<part, routeVars, modelVars>>

Spec == Init /\ [][Next]_vars
=============================================================================
