------------------------------- MODULE Routing --------------------------------
(***************************************************************************)
(* Which CLI answers a reviewer's slot, decided twice over: by the loop    *)
(* (backends.py detect_backends, reviewers.py _choose_command and          *)
(* _pick_backend) and by full mode's runner (run_full_review.sh's          *)
(* detection and its chain of launchers per slot).  One slot on one host,  *)
(* both deciding.                                                          *)
(***************************************************************************)
EXTENDS Integers, Sequences, FiniteSets

CONSTANTS
  RoutedSlots    \* the slots; 4 is routed as 1 is

CLIs == {"hermes", "claude", "codex", "gemini", "agy"}

ASSUME RoutingAssumption == RoutedSlots \subseteq 1..4

VARIABLES
  slot,
  host,        \* what is installed, what works and what the user asked for
  loop_at, loop_has, loop_choice,          \* the loop's way to its backend
  runner_at, runner_has, runner_choice,    \* and the runner's
  ran_agy      \* agy was run: its check, or a listing of its models

routeVars == <<slot, host, loop_at, loop_has, loop_choice, runner_at, runner_has,
               runner_choice, ran_agy>>

(* A CLI that is installed can be made ready to launch, or cannot: hermes  *)
(* and gemini an empty directory, codex its servers' names, agy a sandbox  *)
(* that reaches nothing, claude (the runner only) a list of what it is     *)
(* denied.                                                                 *)
Hosts ==
  [cli : [CLIs -> {"absent", "unready", "ready"}],
   pinned : BOOLEAN,                             \* .use-hermes, or --hermes
   codex_confined : BOOLEAN,                     \* or its check is skipped
   agy_sandbox : {"proven", "unproven", "skipped"},
   agy_model : BOOLEAN,                          \* agy_model_choice has one
   use_agy : {"unset", "yes", "other"},          \* REVIEW_USE_AGY
   use_codex : BOOLEAN, use_gemini : BOOLEAN]    \* env_flag of each

Installed(cli) == host.cli[cli] # "absent"

(* What only an installed CLI can have.                                    *)
IsHost(h) ==
  /\ h.cli["codex"] = "absent" => ~h.codex_confined
  /\ h.cli["agy"] = "absent" => h.agy_sandbox = "unproven" /\ ~h.agy_model

RouteInit ==
  /\ slot \in RoutedSlots
  /\ host \in {h \in Hosts : IsHost(h)}
  /\ loop_at = "detect" /\ loop_has = {} /\ loop_choice = "none"
  /\ runner_at = 0 /\ runner_has = {} /\ runner_choice = "none"
  /\ ran_agy = FALSE

-----------------------------------------------------------------------------
(* detect_backends and what it asks of agy, which the runner calls too     *)

AgyEnabled == host.use_agy \in {"unset", "yes"}

(* A plausible bug: switched on, agy is used whatever is pinned. *)
AgyIsEnabledOnly == AgyEnabled

(* Asked before agy is run at all.                                         *)
AgyIsWanted ==
  /\ ~(host.pinned /\ Installed("hermes"))
  /\ host.pinned => host.use_agy = "yes"
  /\ AgyEnabled

AgyUsable ==
  /\ Installed("agy") /\ AgyIsWanted
  /\ host.agy_sandbox \in {"proven", "skipped"} /\ host.agy_model

(* Its check runs agy, and so does listing its models.                     *)
RunsAgy == Installed("agy") /\ AgyIsWanted

Detected ==
  {cli \in CLIs : /\ Installed(cli)
                  /\ cli = "codex" => host.codex_confined
                  /\ cli = "agy" => AgyUsable}

-----------------------------------------------------------------------------
(* The loop *)

LoopDetects ==
  /\ loop_at = "detect"
  /\ loop_at' = "choose" /\ loop_has' = Detected /\ ran_agy' = (ran_agy \/ RunsAgy)
  /\ UNCHANGED <<slot, host, loop_choice, runner_at, runner_has, runner_choice>>

(* _choose_command: whose turn it is, of those the slot still has.         *)
Preferred(has) ==
  IF host.pinned /\ "hermes" \in has THEN "hermes"
  ELSE IF slot = 2 /\ "codex" \in has /\ (~host.pinned \/ host.use_codex) THEN "codex"
  ELSE IF slot = 3 /\ "agy" \in has /\ (~host.pinned \/ host.use_agy = "yes") THEN "agy"
  ELSE IF slot = 3 /\ "gemini" \in has /\ host.use_gemini THEN "gemini"
  ELSE IF "claude" \in has THEN "claude"
  ELSE IF "hermes" \in has THEN "hermes"
  ELSE "none"

(* _prepare; claude needs nothing made ready.                              *)
LoopPrepares(cli) == cli = "claude" \/ host.cli[cli] = "ready"

(* A plausible bug: a backend that cannot be set up leaves the slot empty. *)
LoopPicksOnce ==
  /\ loop_at = "choose"
  /\ LET cli == Preferred(loop_has)
     IN  loop_choice' = IF cli # "none" /\ LoopPrepares(cli) THEN cli ELSE "none"
  /\ loop_at' = "settled"
  /\ UNCHANGED <<slot, host, loop_has, runner_at, runner_has, runner_choice, ran_agy>>

(* _pick_backend: one that cannot be made ready is struck out, and the     *)
(* tables are asked again.  A directory for hermes's prompt is made before *)
(* that, and where it cannot be nobody is struck out: it raises, and the   *)
(* round is over.                                                          *)
LoopPicks ==
  /\ loop_at = "choose"
  /\ LET cli == Preferred(loop_has)
     IN  \/ IF cli = "none" \/ LoopPrepares(cli)
            THEN loop_choice' = cli /\ loop_at' = "settled" /\ UNCHANGED loop_has
            ELSE loop_has' = loop_has \ {cli} /\ UNCHANGED <<loop_at, loop_choice>>
         \/ cli = "hermes" /\ loop_at' = "raised" /\ UNCHANGED <<loop_has, loop_choice>>
  /\ UNCHANGED <<slot, host, runner_at, runner_has, runner_choice, ran_agy>>

-----------------------------------------------------------------------------
(* The runner *)

RunnerDetects ==
  /\ runner_at = 0
  /\ runner_has' = Detected /\ ran_agy' = (ran_agy \/ RunsAgy)
  /\ runner_at' = IF {"claude", "hermes"} \cap Detected = {} THEN 9 ELSE 1
  /\ UNCHANGED <<slot, host, loop_at, loop_has, loop_choice, runner_choice>>

(* The chain of each slot: if ... elif ... elif ...                        *)
Chain ==
  IF slot = 2 THEN <<"hermes first", "codex", "claude", "hermes">>
  ELSE IF slot = 3 THEN <<"hermes first", "agy", "gemini", "claude", "hermes">>
  ELSE <<"hermes first", "claude", "hermes">>

CliOf(turn) == IF turn = "hermes first" THEN "hermes" ELSE turn

Allowed(turn) ==
  /\ CliOf(turn) \in runner_has
  /\ turn = "hermes first" => host.pinned
  /\ turn = "codex" => ~host.pinned \/ host.use_codex
  /\ turn = "agy" => ~host.pinned \/ host.use_agy = "yes"
  /\ turn = "gemini" => host.use_gemini

(* One condition of the chain: the launcher's 0 ends it.                   *)
RunnerTries ==
  /\ runner_at \in 1..Len(Chain)
  /\ LET turn == Chain[runner_at]
     IN  IF Allowed(turn) /\ host.cli[CliOf(turn)] = "ready"
         THEN runner_choice' = CliOf(turn) /\ runner_at' = 9
         ELSE /\ runner_at' = IF runner_at = Len(Chain) THEN 9 ELSE runner_at + 1
              /\ UNCHANGED runner_choice
  /\ UNCHANGED <<slot, host, loop_at, loop_has, loop_choice, runner_has, ran_agy>>

RouteNext == LoopDetects \/ LoopPicks \/ RunnerDetects \/ RunnerTries

-----------------------------------------------------------------------------
Settled == loop_at = "settled" /\ runner_at = 9

(* The loop and full mode send a slot to the same CLI, though each decides *)
(* with code of its own -- where the runner starts at all, and its list of *)
(* what claude is denied can be made, which the loop cannot fail at, and   *)
(* the loop's round is not over with hermes's prompt.                      *)
RoutersAgree ==
  /\ Settled
  /\ Installed("claude") \/ Installed("hermes")
  /\ host.cli["claude"] # "unready"
  => loop_choice = runner_choice

(* What a CLI needs to be used here: a project pinned to Bedrock keeps its *)
(* code with hermes and claude unless another is asked for by name; agy is *)
(* used only in a sandbox, with a model.                                   *)
MayAnswer(cli) ==
  /\ Installed(cli)
  /\ cli = "codex" => /\ slot = 2 /\ host.codex_confined
                      /\ host.pinned => host.use_codex
  /\ cli = "agy" => /\ slot = 3 /\ host.use_agy # "other"
                    /\ host.pinned => host.use_agy = "yes"
                    /\ host.agy_sandbox # "unproven" /\ host.agy_model
  /\ cli = "gemini" => slot = 3 /\ host.use_gemini

(* Whoever answers may, in both modes; agy is not even run, to be checked  *)
(* or to list its models, where nobody asked for it.  And a slot of a      *)
(* round that is not over with hermes's prompt is left without a reviewer  *)
(* only when nobody could answer it: however often the first choice cannot *)
(* be made ready.                                                          *)
AnsweredByWhoMay ==
  /\ \A cli \in {loop_choice, runner_choice} : cli # "none" => MayAnswer(cli)
  /\ ran_agy /\ host.pinned => host.use_agy = "yes" /\ ~Installed("hermes")
  /\ loop_at = "settled" /\ loop_choice = "none" =>
       \A cli \in CLIs :
         MayAnswer(cli) /\ host.cli[cli] = "ready" =>
           cli = "agy" /\ host.pinned /\ Installed("hermes")
  /\ Settled /\ runner_choice = "none" /\ (Installed("claude") \/ Installed("hermes")) =>
       \A cli \in CLIs :
         MayAnswer(cli) /\ host.cli[cli] = "ready" =>
           cli = "agy" /\ host.pinned /\ Installed("hermes")

-----------------------------------------------------------------------------
(* What the two rest on: the inductive invariant of their proof            *)
(* (SlotsProofs).                                                          *)

(* Whom each may send the slot to, of those detected.                      *)
LoopReady   == {cli \in Detected : LoopPrepares(cli)}
RunnerReady == {cli \in Detected : host.cli[cli] = "ready"}

(* A condition of the chain that starts its launcher, and it launches.     *)
Wins(i) == Allowed(Chain[i]) /\ host.cli[CliOf(Chain[i])] = "ready"

(* The loop has struck out only what cannot be made ready, and the runner  *)
(* passed only conditions that launch nobody; so each chooses the one of   *)
(* its ready ones the loop's tables prefer.                                *)
RouteInv ==
  /\ slot \in 1..4 /\ host \in Hosts
  /\ loop_at \in {"detect", "choose", "settled", "raised"}
  /\ loop_at = "choose" => LoopReady \subseteq loop_has /\ loop_has \subseteq Detected
  /\ loop_choice = IF loop_at = "settled" THEN Preferred(LoopReady) ELSE "none"
  /\ ran_agy => RunsAgy
  /\ runner_at \in 1..Len(Chain) =>
       {"claude", "hermes"} \cap Detected # {} /\ \A i \in 1..(runner_at - 1) : ~Wins(i)
  /\ runner_at # 0 => runner_has = Detected
  /\ runner_choice = IF runner_at = 9 /\ {"claude", "hermes"} \cap Detected # {}
                     THEN Preferred(RunnerReady) ELSE "none"
=============================================================================
