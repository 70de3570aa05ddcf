------------------------------ MODULE SlotsProofs ------------------------------
(***************************************************************************)
(* Proofs about a reviewer's slot: who takes it, on every host and in any  *)
(* number of slots; which model agy runs, of any slugs and versions of any *)
(* length; and what is read of it, for every text a CLI may have written.  *)
(***************************************************************************)
EXTENDS Slots, FiniteSetTheorems, WellFoundedInduction, TLAPS

-----------------------------------------------------------------------------
(* The tables *)

(* The loop's tables name one of those they are given, or nobody.          *)
LEMMA PreferredIsOne ==
  ASSUME NEW S
  PROVE  Preferred(S) \in S \cup {"none"}
  BY DEF Preferred

(* Whoever is struck out after the one preferred makes no difference.      *)
LEMMA PreferredOfFewer ==
  ASSUME NEW S, NEW R, R \subseteq S, Preferred(S) \in R \cup {"none"}, "none" \notin S
  PROVE  Preferred(R) = Preferred(S)
  BY DEF Preferred

(* What is detected is a CLI.                                              *)
LEMMA DetectedAreCLIs == Detected \subseteq CLIs /\ "none" \notin CLIs
  BY DEF Detected, CLIs

(* What is installed is detected, but for codex and agy where they may not *)
(* be used.                                                                *)
LEMMA WhoIsDetected ==
  ASSUME NEW cli \in CLIs
  PROVE  /\ cli \in Detected => Installed(cli)
         /\ Installed(cli) /\ cli \notin {"codex", "agy"} => cli \in Detected
         /\ "codex" \in Detected => host.codex_confined
         /\ "agy" \in Detected => AgyUsable
         /\ Installed("codex") /\ host.codex_confined => "codex" \in Detected
         /\ AgyUsable => "agy" \in Detected
  BY DEF Detected, CLIs, AgyUsable

(* Of those detected, the tables name one that may answer.                 *)
LEMMA PreferredMay ==
  ASSUME host \in Hosts, slot \in 1..4, NEW R, R \subseteq Detected, Preferred(R) # "none"
  PROVE  MayAnswer(Preferred(R))
<1>1. Preferred(R) \in R /\ Preferred(R) \in CLIs
  BY PreferredIsOne, DetectedAreCLIs
<1>2. Installed(Preferred(R))
  BY <1>1, WhoIsDetected
<1>3. Preferred(R) = "codex" => /\ slot = 2 /\ host.codex_confined
                                /\ host.pinned => host.use_codex
  <2>1. Preferred(R) = "codex" => slot = 2 /\ (host.pinned => host.use_codex)
    BY DEF Preferred
  <2> QED
    BY <1>1, <2>1, WhoIsDetected
<1>4. Preferred(R) = "agy" => /\ slot = 3 /\ host.use_agy # "other"
                              /\ host.pinned => host.use_agy = "yes"
                              /\ host.agy_sandbox # "unproven" /\ host.agy_model
  <2>1. Preferred(R) = "agy" => slot = 3
    BY DEF Preferred
  <2>2. Preferred(R) = "agy" => AgyUsable
    BY <1>1, WhoIsDetected
  <2> QED
    BY <2>1, <2>2 DEF AgyUsable, AgyIsWanted, AgyEnabled
<1>5. Preferred(R) = "gemini" => slot = 3 /\ host.use_gemini
  BY DEF Preferred
<1> QED
  BY <1>2, <1>3, <1>4, <1>5 DEF MayAnswer

(* And they name nobody only where nobody may: but for agy, which is not   *)
(* even asked for where hermes is pinned and there.                        *)
LEMMA NobodyCould ==
  ASSUME host \in Hosts, slot \in 1..4, NEW R, Preferred(R) = "none", "none" \notin R,
         NEW cli \in CLIs, cli \in Detected => cli \in R, MayAnswer(cli)
  PROVE  cli = "agy" /\ host.pinned /\ Installed("hermes")
<1>1. cli \notin {"claude", "hermes"}
  <2>1. "claude" \notin R /\ "hermes" \notin R
    BY DEF Preferred
  <2> QED
    BY <2>1, WhoIsDetected DEF MayAnswer
<1>2. cli # "codex"
  <2>1. SUFFICES ASSUME cli = "codex" PROVE FALSE
    OBVIOUS
  <2>2. slot = 2 /\ host.codex_confined /\ (host.pinned => host.use_codex) /\ Installed("codex")
    BY <2>1 DEF MayAnswer
  <2>3. "codex" \in R
    BY <2>1, <2>2, WhoIsDetected
  <2> QED
    BY <2>2, <2>3 DEF Preferred
<1>3. cli # "gemini"
  <2>1. SUFFICES ASSUME cli = "gemini" PROVE FALSE
    OBVIOUS
  <2>2. slot = 3 /\ host.use_gemini /\ "gemini" \in R
    BY <2>1, WhoIsDetected DEF MayAnswer
  <2> QED
    BY <2>2 DEF Preferred
<1>4. cli = "agy"
  BY <1>1, <1>2, <1>3 DEF CLIs
<1>5. /\ slot = 3 /\ host.use_agy # "other" /\ Installed("agy")
      /\ host.pinned => host.use_agy = "yes"
      /\ host.agy_sandbox # "unproven" /\ host.agy_model
  BY <1>4 DEF MayAnswer
<1>6. /\ host.use_agy \in {"unset", "yes", "other"}
      /\ host.agy_sandbox \in {"proven", "unproven", "skipped"}
  BY DEF Hosts
<1>7. "agy" \notin R
  BY <1>5 DEF Preferred
<1>8. ~AgyUsable
  BY <1>4, <1>7, WhoIsDetected
<1> QED
  BY <1>4, <1>5, <1>6, <1>8 DEF AgyUsable, AgyIsWanted, AgyEnabled

-----------------------------------------------------------------------------
(* The chain *)

(* The condition of each turn is the one of the loop's table.              *)
Turn(i, cli, condition) ==
  CliOf(Chain[i]) = cli /\ (Wins(i) <=> cli \in RunnerReady /\ condition)

(* The runner's chain for slot 2,                                          *)
LEMMA TurnsOfSecond ==
  ASSUME slot = 2, runner_has = Detected
  PROVE  /\ Len(Chain) = 4
         /\ Turn(1, "hermes", host.pinned)
         /\ Turn(2, "codex", ~host.pinned \/ host.use_codex)
         /\ Turn(3, "claude", TRUE) /\ Turn(4, "hermes", TRUE)
  BY DEF Chain, Turn, Wins, Allowed, CliOf, RunnerReady

(* for slot 3,                                                             *)
LEMMA TurnsOfThird ==
  ASSUME slot = 3, runner_has = Detected
  PROVE  /\ Len(Chain) = 5
         /\ Turn(1, "hermes", host.pinned)
         /\ Turn(2, "agy", ~host.pinned \/ host.use_agy = "yes")
         /\ Turn(3, "gemini", host.use_gemini)
         /\ Turn(4, "claude", TRUE) /\ Turn(5, "hermes", TRUE)
  BY DEF Chain, Turn, Wins, Allowed, CliOf, RunnerReady

(* and for slots 1 and 4.                                                  *)
LEMMA TurnsOfOthers ==
  ASSUME slot \in {1, 4}, runner_has = Detected
  PROVE  /\ Len(Chain) = 3
         /\ Turn(1, "hermes", host.pinned)
         /\ Turn(2, "claude", TRUE) /\ Turn(3, "hermes", TRUE)
  BY DEF Chain, Turn, Wins, Allowed, CliOf, RunnerReady

(* The first turn that launches is the one the tables prefer.              *)
LEMMA FirstTurn ==
  ASSUME slot \in 1..4, host \in Hosts, runner_has = Detected,
         NEW i \in 1..Len(Chain), Wins(i), \A j \in 1..(i - 1) : ~Wins(j)
  PROVE  Preferred(RunnerReady) = CliOf(Chain[i])
<1>1. CASE slot = 2
  <2>1. i \in 1..4 /\ Len(Chain) = 4
    BY <1>1, TurnsOfSecond
  <2>2. /\ i = 2 => ~Wins(1)
        /\ i = 3 => ~Wins(1) /\ ~Wins(2)
        /\ i = 4 => ~Wins(1) /\ ~Wins(2) /\ ~Wins(3)
    BY <2>1
  <2> QED
    BY <1>1, <2>1, <2>2, TurnsOfSecond DEF Turn, Preferred
<1>2. CASE slot = 3
  <2>1. i \in 1..5 /\ Len(Chain) = 5
    BY <1>2, TurnsOfThird
  <2>2. /\ i = 2 => ~Wins(1)
        /\ i = 3 => ~Wins(1) /\ ~Wins(2)
        /\ i = 4 => ~Wins(1) /\ ~Wins(2) /\ ~Wins(3)
        /\ i = 5 => ~Wins(1) /\ ~Wins(2) /\ ~Wins(3) /\ ~Wins(4)
    BY <2>1
  <2> QED
    BY <1>2, <2>1, <2>2, TurnsOfThird DEF Turn, Preferred
<1>3. CASE slot \in {1, 4}
  <2>1. i \in 1..3 /\ Len(Chain) = 3
    BY <1>3, TurnsOfOthers
  <2>2. /\ i = 2 => ~Wins(1)
        /\ i = 3 => ~Wins(1) /\ ~Wins(2)
    BY <2>1
  <2> QED
    BY <1>3, <2>1, <2>2, TurnsOfOthers DEF Turn, Preferred
<1> QED
  BY <1>1, <1>2, <1>3

(* When no turn launches, the tables prefer nobody.                        *)
LEMMA NoTurn ==
  ASSUME slot \in 1..4, host \in Hosts, runner_has = Detected,
         \A j \in 1..Len(Chain) : ~Wins(j)
  PROVE  Preferred(RunnerReady) = "none"
<1>1. CASE slot = 2
  <2>1. ~Wins(1) /\ ~Wins(2) /\ ~Wins(3) /\ ~Wins(4)
    <3>1. Len(Chain) = 4
      BY <1>1, TurnsOfSecond
    <3>2. 1..4 = 1..Len(Chain) /\ {1, 2, 3, 4} \subseteq 1..4
      BY <3>1
    <3> QED
      BY <3>2
  <2> QED
    BY <1>1, <2>1, TurnsOfSecond DEF Turn, Preferred
<1>2. CASE slot = 3
  <2>1. ~Wins(1) /\ ~Wins(2) /\ ~Wins(3) /\ ~Wins(4) /\ ~Wins(5)
    <3>1. Len(Chain) = 5
      BY <1>2, TurnsOfThird
    <3>2. 1..5 = 1..Len(Chain) /\ {1, 2, 3, 4, 5} \subseteq 1..5
      BY <3>1
    <3> QED
      BY <3>2
  <2> QED
    BY <1>2, <2>1, TurnsOfThird DEF Turn, Preferred
<1>3. CASE slot \in {1, 4}
  <2>1. ~Wins(1) /\ ~Wins(2) /\ ~Wins(3)
    <3>1. Len(Chain) = 3
      BY <1>3, TurnsOfOthers
    <3>2. 1..3 = 1..Len(Chain) /\ {1, 2, 3} \subseteq 1..3
      BY <3>1
    <3> QED
      BY <3>2
  <2> QED
    BY <1>3, <2>1, TurnsOfOthers DEF Turn, Preferred
<1> QED
  BY <1>1, <1>2, <1>3

-----------------------------------------------------------------------------
(* Routing *)

(* Neither has decided.                                                    *)
LEMMA InitRoute == Init => RouteInv
<1>1. ASSUME RouteInit PROVE RouteInv
  <2>1. slot \in 1..4 /\ host \in Hosts
    BY <1>1, RoutingAssumption DEF RouteInit
  <2>2. runner_at \notin 1..Len(Chain)
    BY <1>1 DEF RouteInit
  <2> QED
    BY <1>1, <2>1, <2>2 DEF RouteInit, RouteInv
<1>2. ASSUME RouteStill PROVE RouteInv
  <2>1. slot = 1 /\ host \in Hosts
    BY <1>2 DEF RouteStill, Hosts
  <2>2. \A cli \in CLIs : ~Installed(cli)
    BY <1>2 DEF RouteStill, Installed
  <2>3. Detected = {}
    BY <2>2 DEF Detected
  <2>4. LoopReady = {} /\ RunnerReady = {} /\ Preferred({}) = "none"
    BY <2>3 DEF LoopReady, RunnerReady, Preferred
  <2>5. runner_at \notin 1..Len(Chain)
    BY <1>2, <2>1, TurnsOfOthers, <2>3 DEF RouteStill
  <2> QED
    BY <1>2, <2>1, <2>3, <2>4, <2>5 DEF RouteStill, RouteInv
<1> QED
  BY <1>1, <1>2 DEF Init

(* The loop's tables are asked until they name one that is ready.          *)
LEMMA LoopRoutes ==
  ASSUME RouteInv, LoopDetects \/ LoopPicks
  PROVE  RouteInv'
<1>1. UNCHANGED <<slot, host, runner_at, runner_has, runner_choice>>
  BY DEF LoopDetects, LoopPicks
<1>2. /\ Detected' = Detected /\ LoopReady' = LoopReady /\ RunnerReady' = RunnerReady
      /\ Chain' = Chain /\ RunsAgy' = RunsAgy
      /\ \A S : Preferred(S)' = Preferred(S)
  BY <1>1 DEF Detected, Installed, AgyUsable, AgyIsWanted, AgyEnabled, LoopReady, LoopPrepares,
     RunnerReady, Chain, RunsAgy, Preferred
<1>3. runner_at' \in 1..Len(Chain') =>
        {"claude", "hermes"} \cap Detected' # {} /\ \A i \in 1..(runner_at' - 1) : ~Wins(i)'
  BY <1>1, <1>2 DEF RouteInv, Wins, Allowed, CliOf
<1>4. CASE LoopDetects
  BY <1>1, <1>2, <1>3, <1>4 DEF LoopDetects, RouteInv, LoopReady
<1>5. CASE LoopPicks
  <2>1. loop_at = "choose" /\ LoopReady \subseteq loop_has /\ loop_has \subseteq Detected
    BY <1>5 DEF LoopPicks, RouteInv
  <2> DEFINE cli == Preferred(loop_has)
  <2>2. cli \in loop_has \cup {"none"} /\ "none" \notin loop_has
    BY <2>1, PreferredIsOne, DetectedAreCLIs
  <2>0. CASE loop_at' = "raised"
    <3>1. UNCHANGED <<loop_has, loop_choice, ran_agy>>
      BY <1>5, <2>0 DEF LoopPicks
    <3> QED
      BY <1>1, <1>2, <1>3, <2>0, <2>1, <3>1 DEF RouteInv
  <2>3. CASE loop_at' # "raised" /\ (cli = "none" \/ LoopPrepares(cli))
    <3>1. cli \in LoopReady \cup {"none"}
      BY <2>1, <2>2, <2>3 DEF LoopReady
    <3>2. Preferred(LoopReady) = cli
      BY <2>1, <2>2, <3>1, PreferredOfFewer
    <3>3. loop_choice' = cli /\ loop_at' = "settled" /\ ran_agy' = ran_agy
      BY <1>5, <2>3 DEF LoopPicks
    <3> QED
      BY <1>1, <1>2, <1>3, <3>2, <3>3 DEF RouteInv
  <2>4. CASE loop_at' # "raised" /\ ~(cli = "none" \/ LoopPrepares(cli))
    <3>1. cli \notin LoopReady
      BY <2>4 DEF LoopReady
    <3>2. /\ loop_has' = loop_has \ {cli}
          /\ UNCHANGED <<loop_at, loop_choice, ran_agy>>
      BY <1>5, <2>4 DEF LoopPicks
    <3> QED
      BY <1>1, <1>2, <1>3, <2>1, <3>1, <3>2 DEF RouteInv
  <2> QED
    BY <2>0, <2>3, <2>4
<1> QED
  BY <1>4, <1>5

(* The chain's turns are tried until one launches.                         *)
LEMMA RunnerRoutes ==
  ASSUME RouteInv, RunnerDetects \/ RunnerTries
  PROVE  RouteInv'
<1>1. UNCHANGED <<slot, host, loop_at, loop_has, loop_choice>>
  BY DEF RunnerDetects, RunnerTries
<1>2. /\ Detected' = Detected /\ LoopReady' = LoopReady /\ RunnerReady' = RunnerReady
      /\ Chain' = Chain /\ RunsAgy' = RunsAgy
      /\ \A S : Preferred(S)' = Preferred(S)
  BY <1>1 DEF Detected, Installed, AgyUsable, AgyIsWanted, AgyEnabled, LoopReady, LoopPrepares,
     RunnerReady, Chain, RunsAgy, Preferred
<1>3. slot \in 1..4 /\ host \in Hosts
  BY DEF RouteInv
<1>4. Len(Chain) \in 3..5
  BY <1>3 DEF Chain
<1>5. CASE RunnerDetects
  <2>1. /\ runner_at = 0 /\ runner_has' = Detected /\ runner_choice' = runner_choice
        /\ ran_agy' => ran_agy \/ RunsAgy
        /\ runner_at' = IF {"claude", "hermes"} \cap Detected = {} THEN 9 ELSE 1
    BY <1>5 DEF RunnerDetects
  <2>2. runner_choice' = "none"
    BY <2>1 DEF RouteInv
  <2>3. \A i \in 1..(runner_at' - 1) : ~Wins(i)' \/ runner_at' = 9
    BY <2>1
  <2>4. 9 \notin 1..Len(Chain)
    BY <1>3 DEF Chain
  <2> QED
    BY <1>1, <1>2, <2>1, <2>2, <2>3, <2>4 DEF RouteInv
<1>6. CASE RunnerTries
  <2>1. /\ runner_at \in 1..Len(Chain) /\ UNCHANGED <<runner_has, ran_agy>>
        /\ IF Wins(runner_at)
           THEN runner_choice' = CliOf(Chain[runner_at]) /\ runner_at' = 9
           ELSE /\ runner_at' = IF runner_at = Len(Chain) THEN 9 ELSE runner_at + 1
                /\ UNCHANGED runner_choice
    BY <1>6 DEF RunnerTries, Wins
  <2>2. /\ runner_has = Detected /\ runner_choice = "none"
        /\ {"claude", "hermes"} \cap Detected # {}
        /\ \A i \in 1..(runner_at - 1) : ~Wins(i)
    BY <1>4, <2>1 DEF RouteInv
  <2>3. \A i : Wins(i)' <=> Wins(i)
    BY <1>1, <1>2, <2>1 DEF Wins, Allowed, CliOf
  <2>4. CASE Wins(runner_at)
    <3>1. runner_choice' = Preferred(RunnerReady) /\ runner_at' = 9
      BY <1>3, <2>1, <2>2, <2>4, FirstTurn
    <3>2. 9 \notin 1..Len(Chain)
      BY <1>3 DEF Chain
    <3> QED
      BY <1>1, <1>2, <2>1, <2>2, <3>1, <3>2 DEF RouteInv
  <2>5. CASE ~Wins(runner_at) /\ runner_at = Len(Chain)
    <3>1. \A i \in 1..Len(Chain) : ~Wins(i)
      BY <1>4, <2>2, <2>5
    <3>2. Preferred(RunnerReady) = "none"
      BY <1>3, <2>2, <3>1, NoTurn
    <3>3. runner_at' = 9 /\ runner_choice' = "none" /\ 9 \notin 1..Len(Chain)
      BY <1>4, <2>1, <2>2, <2>5
    <3> QED
      BY <1>1, <1>2, <2>1, <2>2, <3>2, <3>3 DEF RouteInv
  <2>6. CASE ~Wins(runner_at) /\ runner_at # Len(Chain)
    <3>1. runner_at' = runner_at + 1 /\ runner_choice' = "none"
      BY <2>1, <2>2, <2>6
    <3>2. \A i \in 1..(runner_at' - 1) : ~Wins(i)
      BY <1>4, <2>1, <2>2, <2>6, <3>1
    <3>3. runner_at' # 9 /\ runner_at' # 0
      BY <1>3, <2>1, <2>6, <3>1 DEF Chain
    <3> QED
      BY <1>1, <1>2, <2>1, <2>2, <2>3, <3>1, <3>2, <3>3 DEF RouteInv
  <2> QED
    BY <2>4, <2>5, <2>6
<1> QED
  BY <1>5, <1>6

(* Every step keeps what each has decided right.                           *)
LEMMA StepRoute ==
  ASSUME RouteInv, [Next]_vars
  PROVE  RouteInv'
<1>1. CASE UNCHANGED routeVars
  <2>1. UNCHANGED <<slot, host, loop_at, loop_has, loop_choice, runner_at, runner_has,
                    runner_choice, ran_agy>>
    BY <1>1 DEF routeVars
  <2>2. /\ Detected' = Detected /\ LoopReady' = LoopReady /\ RunnerReady' = RunnerReady
        /\ Chain' = Chain /\ RunsAgy' = RunsAgy
        /\ \A S : Preferred(S)' = Preferred(S)
    BY <2>1 DEF Detected, Installed, AgyUsable, AgyIsWanted, AgyEnabled, LoopReady,
       LoopPrepares, RunnerReady, Chain, RunsAgy, Preferred
  <2>3. \A i : Wins(i)' <=> Wins(i)
    BY <2>1, <2>2 DEF Wins, Allowed, CliOf
  <2> QED
    BY <2>1, <2>2, <2>3 DEF RouteInv
<1>2. CASE RouteNext
  BY <1>2, LoopRoutes, RunnerRoutes DEF RouteNext
<1> QED
  BY <1>1, <1>2 DEF Next, vars

(* So it is throughout.                                                    *)
LEMMA RouteInvariant == Spec => []RouteInv
<1>1. Init => RouteInv
  BY InitRoute
<1>2. RouteInv /\ [Next]_vars => RouteInv'
  BY StepRoute
<1> QED
  BY <1>1, <1>2, PTL DEF Spec

(* On every host the loop and full mode send a slot to the same CLI.       *)
THEOREM RoutersCorrect == Spec => []RoutersAgree
<1>1. RouteInv => RoutersAgree
  <2> SUFFICES ASSUME RouteInv, Settled, Installed("claude") \/ Installed("hermes"),
                      host.cli["claude"] # "unready"
               PROVE  loop_choice = runner_choice
    BY DEF RoutersAgree
  <2>1. {"claude", "hermes"} \cap Detected # {}
    BY WhoIsDetected DEF CLIs
  <2>2. "claude" \in Detected => host.cli["claude"] = "ready"
    <3>1. host.cli["claude"] \in {"absent", "unready", "ready"}
      BY DEF RouteInv, Hosts, CLIs
    <3> QED
      BY <3>1, WhoIsDetected DEF CLIs, Installed
  <2>3. LoopReady = RunnerReady
    BY <2>2 DEF LoopReady, LoopPrepares, RunnerReady
  <2> QED
    BY <2>1, <2>3 DEF RouteInv, Settled
<1> QED
  BY <1>1, RouteInvariant, PTL

(* Whoever answers a slot may, and it stays empty only when nobody could.  *)
THEOREM AnsweredCorrect == Spec => []AnsweredByWhoMay
<1>1. RouteInv => AnsweredByWhoMay
  <2> SUFFICES ASSUME RouteInv PROVE AnsweredByWhoMay
    OBVIOUS
  <2>0. /\ LoopReady \subseteq Detected /\ RunnerReady \subseteq Detected
        /\ host \in Hosts /\ slot \in 1..4
        /\ "none" \notin LoopReady /\ "none" \notin RunnerReady
    BY DetectedAreCLIs DEF RouteInv, LoopReady, RunnerReady
  <2>1. loop_choice # "none" => MayAnswer(loop_choice)
    BY <2>0, PreferredMay DEF RouteInv
  <2>2. runner_choice # "none" => MayAnswer(runner_choice)
    BY <2>0, PreferredMay DEF RouteInv
  <2>3. ran_agy /\ host.pinned => host.use_agy = "yes" /\ ~Installed("hermes")
    BY DEF RouteInv, RunsAgy, AgyIsWanted
  <2>4. ASSUME loop_at = "settled", loop_choice = "none", NEW cli \in CLIs, MayAnswer(cli),
               host.cli[cli] = "ready"
        PROVE  cli = "agy" /\ host.pinned /\ Installed("hermes")
    <3>1. cli \in Detected => cli \in LoopReady
      BY <2>4 DEF LoopReady, LoopPrepares
    <3>2. Preferred(LoopReady) = "none"
      BY <2>4 DEF RouteInv
    <3> QED
      BY <2>0, <2>4, <3>1, <3>2, NobodyCould
  <2>5. ASSUME Settled, runner_choice = "none", Installed("claude") \/ Installed("hermes"),
               NEW cli \in CLIs, MayAnswer(cli), host.cli[cli] = "ready"
        PROVE  cli = "agy" /\ host.pinned /\ Installed("hermes")
    <3>1. cli \in Detected => cli \in RunnerReady
      BY <2>5 DEF RunnerReady
    <3>2. {"claude", "hermes"} \cap Detected # {}
      BY <2>5, WhoIsDetected DEF CLIs
    <3>3. Preferred(RunnerReady) = "none"
      BY <2>5, <3>2 DEF RouteInv, Settled
    <3> QED
      BY <2>0, <2>5, <3>1, <3>3, NobodyCould
  <2> QED
    BY <2>1, <2>2, <2>3, <2>4, <2>5 DEF AnsweredByWhoMay
<1> QED
  BY <1>1, RouteInvariant, PTL

-----------------------------------------------------------------------------
(* AgyModel *)

Less == {pair \in Nat \X Nat : pair[1] < pair[2]}

(* A set of numbers has a least one.                                       *)
LEMMA LeastOf ==
  ASSUME NEW S \in SUBSET Nat, S # {}
  PROVE  \E n \in S : \A m \in S : n <= m
<1>1. IsWellFoundedOn(Less, Nat)
  BY NatLessThanWellFounded DEF OpToRel, Less
<1>2. PICK n \in S : \A m \in S : <<m, n>> \notin Less
  BY <1>1, WFMin
<1>3. \A m \in S : m \in Nat
  OBVIOUS
<1>4. \A m \in S : ~(m < n)
  BY <1>2, <1>3 DEF Less
<1>5. \A m \in S : n <= m
  BY <1>3, <1>4
<1> QED
  BY <1>5

(* A trimmed version is the same number, and ends in no zero.              *)
LEMMA TrimmedIsTheNumber ==
  ASSUME NEW slug \in AnySlug
  PROVE  LET v == Trimmed(slug.version)
         IN  /\ v \in Seq(Nat) /\ Len(v) > 0
             /\ \A i \in Nat \ {0} : Part(slug, i) = IF i <= Len(v) THEN v[i] ELSE 0
             /\ Len(v) = 1 \/ v[Len(v)] # 0
<1> DEFINE w == slug.version
           Ends(n) == /\ n = 1 \/ w[n] # 0
                      /\ \A j \in (n + 1)..Len(w) : w[j] = 0
           S == {n \in 1..Len(w) : \A j \in (n + 1)..Len(w) : w[j] = 0}
<1>1. w \in Seq(Nat) /\ Len(w) \in Nat /\ Len(w) > 0
  BY DEF AnySlug
<1>2. Len(w) \in S
  BY <1>1
<1>3. PICK n \in S : \A m \in S : n <= m
  <2>1. S \in SUBSET Nat /\ S # {}
    BY <1>2
  <2> HIDE DEF S
  <2> QED
    BY <2>1, LeastOf
<1>4. n = 1 \/ w[n] # 0
  <2>1. SUFFICES ASSUME n # 1, w[n] = 0 PROVE FALSE
    OBVIOUS
  <2>2. n \in 1..Len(w) /\ \A j \in (n + 1)..Len(w) : w[j] = 0
    OBVIOUS
  <2>3. ASSUME NEW j \in ((n - 1) + 1)..Len(w) PROVE w[j] = 0
    <3>1. j = n \/ j \in (n + 1)..Len(w)
      BY <1>1, <2>2, <2>3
    <3> QED
      BY <2>1, <2>2, <3>1
  <2>4. n - 1 \in 1..Len(w)
    BY <1>1, <2>1, <2>2
  <2>5. n - 1 \in S
    BY <2>3, <2>4
  <2>6. n <= n - 1
    <3> HIDE DEF S
    <3> QED
      BY <1>3, <2>5
  <2> QED
    BY <2>2, <2>6
<1>5. \E m \in 1..Len(w) : Ends(m)
  BY <1>4
<1> DEFINE length == CHOOSE m \in 1..Len(w) : Ends(m)
<1>6. length \in 1..Len(w) /\ Ends(length)
  <2> HIDE DEF Ends
  <2> QED
    BY <1>5
<1>7. Trimmed(w) = SubSeq(w, 1, length)
  BY DEF Trimmed
<1> HIDE DEF length
<1>8. /\ Trimmed(w) \in Seq(Nat) /\ Len(Trimmed(w)) = length
      /\ \A i \in 1..length : Trimmed(w)[i] = w[i]
  BY <1>1, <1>6, <1>7
<1>9. ASSUME NEW i \in Nat \ {0}
      PROVE  Part(slug, i) = IF i <= length THEN Trimmed(w)[i] ELSE 0
  BY <1>1, <1>6, <1>8 DEF Part
<1> QED
  BY <1>1, <1>6, <1>8, <1>9

(* Of two numbers the greater is the newer version.                        *)
LEMMA NewerIsAbove ==
  ASSUME NEW s \in AnySlug, NEW t \in AnySlug, Newer(s, t)
  PROVE  Older(Trimmed(t.version), Trimmed(s.version))
<1> DEFINE v == Trimmed(s.version)
           w == Trimmed(t.version)
<1>1. /\ v \in Seq(Nat) /\ Len(v) > 0
      /\ \A i \in Nat \ {0} : Part(s, i) = IF i <= Len(v) THEN v[i] ELSE 0
  BY TrimmedIsTheNumber
<1>2. /\ w \in Seq(Nat) /\ Len(w) > 0
      /\ \A i \in Nat \ {0} : Part(t, i) = IF i <= Len(w) THEN w[i] ELSE 0
  BY TrimmedIsTheNumber
<1>3. s.version \in Seq(Nat)
  BY DEF AnySlug
<1>4. PICK i \in Nat \ {0} : /\ Part(s, i) > Part(t, i)
                             /\ \A j \in 1..(i - 1) : Part(s, j) = Part(t, j)
  BY <1>3 DEF Newer
<1> HIDE DEF v, w
<1>5. i <= Len(v)
  BY <1>1, <1>2, <1>4
<1>6. CASE i <= Len(w)
  <2>1. w[i] < v[i]
    BY <1>1, <1>2, <1>4, <1>5, <1>6
  <2>2. \A j \in 1..(i - 1) : j <= Len(w) /\ w[j] = v[j]
    BY <1>1, <1>2, <1>4, <1>5, <1>6
  <2> QED
    BY <1>1, <1>5, <2>1, <2>2 DEF Older, v, w
<1>7. CASE i > Len(w)
  <2>1. Len(w) + 1 \in 1..Len(v)
    BY <1>1, <1>2, <1>5, <1>7
  <2>2. \A j \in 1..((Len(w) + 1) - 1) : j <= Len(w) /\ w[j] = v[j]
    BY <1>1, <1>2, <1>4, <1>5, <1>7
  <2>3. Older(w, v)
    BY <1>2, <2>1, <2>2 DEF Older
  <2> QED
    BY <2>3 DEF v, w
<1> QED
  BY <1>2, <1>4, <1>6, <1>7

(* Versions neither of which is newer are one, however they are written.   *)
LEMMA SameIsOne ==
  ASSUME NEW s \in AnySlug, NEW t \in AnySlug, ~Newer(s, t), ~Newer(t, s)
  PROVE  Trimmed(s.version) = Trimmed(t.version)
<1> DEFINE v == Trimmed(s.version)
           w == Trimmed(t.version)
           S == {i \in Nat \ {0} : Part(s, i) # Part(t, i)}
<1>1. /\ v \in Seq(Nat) /\ Len(v) > 0 /\ (Len(v) = 1 \/ v[Len(v)] # 0)
      /\ \A i \in Nat \ {0} : Part(s, i) = IF i <= Len(v) THEN v[i] ELSE 0
  BY TrimmedIsTheNumber
<1>2. /\ w \in Seq(Nat) /\ Len(w) > 0 /\ (Len(w) = 1 \/ w[Len(w)] # 0)
      /\ \A i \in Nat \ {0} : Part(t, i) = IF i <= Len(w) THEN w[i] ELSE 0
  BY TrimmedIsTheNumber
<1>3. /\ s.version \in Seq(Nat) /\ Len(s.version) \in Nat
      /\ t.version \in Seq(Nat) /\ Len(t.version) \in Nat
  BY DEF AnySlug
<1>4. S = {}
  <2>1. SUFFICES ASSUME S # {} PROVE FALSE
    OBVIOUS
  <2>2. PICK i \in S : \A j \in S : i <= j
    BY <2>1, LeastOf
  <2>3. \A j \in 1..(i - 1) : Part(s, j) = Part(t, j)
    BY <2>2
  <2>4. /\ i <= Len(s.version) => Part(s, i) \in Nat
        /\ i > Len(s.version) => Part(s, i) = 0
        /\ i <= Len(t.version) => Part(t, i) \in Nat
        /\ i > Len(t.version) => Part(t, i) = 0
    BY <1>3, <2>2 DEF Part
  <2>5. CASE Part(s, i) > Part(t, i)
    <3>1. i \in 1..Len(s.version)
      BY <1>3, <2>2, <2>4, <2>5
    <3> QED
      BY <2>3, <2>5, <3>1 DEF Newer
  <2>6. CASE Part(t, i) > Part(s, i)
    <3>1. i \in 1..Len(t.version)
      BY <1>3, <2>2, <2>4, <2>6
    <3> QED
      BY <2>3, <2>6, <3>1 DEF Newer
  <2> QED
    BY <1>3, <2>2, <2>4, <2>5, <2>6
<1>5. \A i \in Nat \ {0} : Part(s, i) = Part(t, i)
  BY <1>4
<1> HIDE DEF v, w, S
<1>6. ~(Len(v) < Len(w))
  BY <1>1, <1>2, <1>5
<1>7. ~(Len(w) < Len(v))
  BY <1>1, <1>2, <1>5
<1>8. Len(v) = Len(w) /\ \A i \in 1..Len(v) : v[i] = w[i]
  BY <1>1, <1>2, <1>5, <1>6, <1>7
<1>9. v = w
  BY <1>1, <1>2, <1>8
<1> QED
  BY <1>9 DEF v, w

(* The best of a listing is as good as any in it, by what they are.        *)
LEMMA BestIsBest ==
  ASSUME NEW slugs \in SUBSET AnySlug, NEW best \in Best(slugs),
         NEW slug \in slugs, slug.gemini
  PROVE  /\ ~Newer(slug, best)
         /\ Same(slug, best) =>
              \/ Tier(slug) < Tier(best)
              \/ Tier(slug) = Tier(best) /\
                   (slug.effort = "high" => best.effort # "low")
                   /\ (slug.effort \in {"medium", "unsaid"} =>
                         best.effort \in {"medium", "unsaid"})
<1>1. best \in AnySlug /\ slug \in AnySlug
  BY DEF Best
<1>2. ~Below(AgyRank(best), AgyRank(slug))
  BY DEF Best
<1>3. ~Newer(slug, best)
  BY <1>1, <1>2, NewerIsAbove DEF Below, AgyRank
<1>4. ASSUME Same(slug, best)
      PROVE  /\ Tier(best) >= Tier(slug)
             /\ Tier(best) = Tier(slug) => Effort(best) >= Effort(slug)
  <2>1. AgyRank(slug).version = AgyRank(best).version
    BY <1>1, <1>4, SameIsOne DEF Same, AgyRank
  <2> QED
    BY <1>2, <2>1 DEF Below, AgyRank, Tier, Effort
<1>5. Tier(best) \in 0..2 /\ Tier(slug) \in 0..2
  BY DEF Tier
<1>6. Effort(best) >= Effort(slug) =>
        /\ slug.effort = "high" => best.effort # "low"
        /\ slug.effort \in {"medium", "unsaid"} => best.effort \in {"medium", "unsaid"}
  BY <1>1 DEF Effort, AnySlug
<1> QED
  BY <1>3, <1>4, <1>5, <1>6

(* Once kept, a model stays, and with it the listing it was picked from.   *)
LEMMA ModelInvariant == Spec => []ModelInv
<1>1. Init => ModelInv
  BY DEF Init, ModelInit, ModelStill, ModelInv
<1>2. ModelInv /\ [Next]_vars => ModelInv'
  <2> SUFFICES ASSUME ModelInv, [Next]_vars PROVE ModelInv'
    OBVIOUS
  <2>1. CASE UNCHANGED modelVars
    BY <2>1 DEF modelVars, ModelInv
  <2>2. CASE ChooseModel
    <3>1. CASE agy_model # "unset" /\ UNCHANGED <<kept, listing>>
      BY <2>2, <3>1 DEF ChooseModel, ModelInv
    <3>2. CASE agy_model = "unset" /\ kept # <<>> /\ UNCHANGED <<kept, listing>>
      BY <2>2, <3>2 DEF ChooseModel, ModelInv
    <3>3. ASSUME agy_model = "unset", kept = <<>>, NEW listed \in SUBSET Slugs,
                 listing' = listed,
                 IF Best(listed) = {} THEN UNCHANGED kept
                 ELSE \E best \in Best(listed) : kept' = <<best>>
          PROVE  ModelInv'
      <4>1. kept' # <<>> => \E best \in Best(listing') : kept' = <<best>>
        BY <3>3
      <4>2. answers = {}
        BY <3>3 DEF ModelInv
      <4> QED
        BY <2>2, <3>3, <4>1, <4>2 DEF ChooseModel, ModelInv
    <3> QED
      BY <2>2, <3>1, <3>2, <3>3 DEF ChooseModel
  <2> QED
    BY <2>1, <2>2 DEF Next, vars
<1> QED
  BY <1>1, <1>2, PTL DEF Spec

(* One model reviews every round of a run, and it is the best there was.   *)
THEOREM ModelCorrect == Spec => []OneModelTheBest
<1>1. ModelInv => OneModelTheBest
  <2> SUFFICES ASSUME ModelInv PROVE OneModelTheBest
    OBVIOUS
  <2>1. Cardinality(answers) <= 1
    <3>1. CASE answers = {}
      BY <3>1, FS_EmptySet
    <3>2. CASE answers # {}
      <4>1. PICK one : answers = {one}
        BY <3>2 DEF ModelInv
      <4>2. Cardinality(answers) = 1
        BY <4>1, FS_Singleton, Zenon
      <4> QED
        BY <4>2
    <3> QED
      BY <3>1, <3>2
  <2>2. ASSUME kept # <<>>, NEW slug \in listing, slug.gemini
        PROVE  /\ ~Newer(slug, kept[1])
               /\ Same(slug, kept[1]) =>
                    \/ Tier(slug) < Tier(kept[1])
                    \/ Tier(slug) = Tier(kept[1]) /\
                         (slug.effort = "high" => kept[1].effort # "low")
                         /\ (slug.effort \in {"medium", "unsaid"} =>
                               kept[1].effort \in {"medium", "unsaid"})
    <3>1. PICK best \in Best(listing) : kept = <<best>>
      BY <2>2 DEF ModelInv
    <3>2. listing \in SUBSET AnySlug
      BY ModelAssumption DEF ModelInv
    <3>3. kept[1] = best
      BY <3>1
    <3> QED
      BY <2>2, <3>1, <3>2, <3>3, BestIsBest
  <2> QED
    BY <2>1, <2>2 DEF OneModelTheBest
<1> QED
  BY <1>1, ModelInvariant, PTL

-----------------------------------------------------------------------------
(* Reading *)

(* What is left of a text, unwrapped as its CLI's, is a review exactly     *)
(* when that CLI wrote one.                                                *)
LEMMA ReviewsAreWritten ==
  ASSUME NEW text \in Texts, NEW cli \in Backends \ {"none"}
  PROVE  IsReview(text, cli) <=> Wrote(text, cli)
<1>1. CASE text = NoFile
  BY <1>1 DEF NoFile, IsReview, Wrote, Unwrap, AgyAnswer, AgyFailure, KeptAfterError
<1>2. CASE text \in [form : {"plain", "envelope"}, inner : Plain,
                     status : {"none"}, structured : {"none"}]
  BY <1>2 DEF IsReview, Wrote, Unwrap, AgyAnswer, AgyFailure, KeptAfterError
<1>3. CASE text \in Streams
  BY <1>3 DEF Streams, Plain, IsReview, Wrote, Unwrap, AgyAnswer, AgyFailure, KeptAfterError
<1> QED
  BY <1>1, <1>2, <1>3 DEF Texts

(* Nothing has been read.                                                  *)
LEMMA InitRead == Init => ReadInv
<1>1. NoFile \in Texts
  BY DEF Texts
<1>2. ASSUME ReadInit \/ ReadStill PROVE ReadInv
  <2>1. backend \in Backends /\ stdout \in Texts /\ answer \in Texts
    BY <1>1, <1>2 DEF ReadInit, ReadStill, Backends
  <2>2. /\ loop_reads = "clear" /\ runner_reads = "clear"
        /\ loop_review = "none" /\ runner_review = "none"
        /\ loop_result = "planted" /\ runner_result = "planted"
    BY <1>2 DEF ReadInit, ReadStill
  <2> QED
    BY <2>1, <2>2 DEF ReadInv, LoopReadInv, RunnerReadInv
<1> QED
  BY <1>2 DEF Init

(* The files are looked at in order, and the first review is taken.        *)
LEMMA LoopReadStep ==
  ASSUME ReadInv, LoopClears \/ LoopReads
  PROVE  ReadInv'
<1>1. UNCHANGED <<backend, stdout, answer, runner_reads, runner_review, runner_result>>
  BY DEF LoopClears, LoopReads, LoopTakes
<1>2. /\ IsReview(stdout, backend)' <=> IsReview(stdout, backend)
      /\ IsReview(answer, backend)' <=> IsReview(answer, backend)
      /\ IsReview(JobOut, backend)' <=> IsReview(JobOut, backend)
  BY <1>1 DEF JobOut, IsReview, Unwrap, AgyAnswer, AgyFailure, KeptAfterError
<1>3. RunnerReadInv'
  BY <1>1, <1>2 DEF ReadInv, RunnerReadInv
<1>4. LoopReadInv'
  <2>1. CASE LoopClears
    BY <1>1, <1>2, <2>1 DEF LoopClears, ReadInv, LoopReadInv
  <2>2. CASE loop_reads = "answer" /\ backend = "codex" /\ LoopTakes("answer", answer)
    BY <1>1, <1>2, <2>2 DEF LoopTakes, ReadInv, LoopReadInv
  <2>3. CASE /\ loop_reads = "stdout" \/ (loop_reads = "answer" /\ backend \notin {"codex", "none"})
             /\ LoopTakes("stdout", stdout)
    BY <1>1, <1>2, <2>3 DEF LoopTakes, ReadInv, LoopReadInv
  <2>4. CASE /\ loop_reads = "answer" /\ backend = "none" /\ loop_reads' = "done"
             /\ UNCHANGED <<loop_review, loop_result>>
    BY <1>1, <1>2, <2>4 DEF ReadInv, LoopReadInv
  <2> QED
    BY <2>1, <2>2, <2>3, <2>4 DEF LoopReads
<1> QED
  BY <1>1, <1>3, <1>4 DEF ReadInv

(* The runner takes its own CLI's review, or none.                         *)
LEMMA RunnerReadStep ==
  ASSUME ReadInv, RunnerClears \/ RunnerReads
  PROVE  ReadInv'
<1>1. UNCHANGED <<backend, stdout, answer, loop_reads, loop_review, loop_result>>
  BY DEF RunnerClears, RunnerReads
<1>2. /\ IsReview(stdout, backend)' <=> IsReview(stdout, backend)
      /\ IsReview(answer, backend)' <=> IsReview(answer, backend)
      /\ IsReview(JobOut, backend)' <=> IsReview(JobOut, backend)
  BY <1>1 DEF JobOut, IsReview, Unwrap, AgyAnswer, AgyFailure, KeptAfterError
<1>3. LoopReadInv'
  BY <1>1, <1>2 DEF ReadInv, LoopReadInv
<1>4. RunnerReadInv'
  <2>1. CASE RunnerClears
    BY <1>1, <1>2, <2>1 DEF RunnerClears, ReadInv, RunnerReadInv
  <2>2. CASE RunnerReads /\ backend # "none" /\ IsReview(JobOut, backend)
    BY <1>1, <1>2, <2>2 DEF RunnerReads, RunnerReadInv
  <2>3. CASE RunnerReads /\ ~(backend # "none" /\ IsReview(JobOut, backend))
    BY <1>1, <1>2, <2>3 DEF RunnerReads, ReadInv, RunnerReadInv
  <2> QED
    BY <2>1, <2>2, <2>3
<1> QED
  BY <1>1, <1>3, <1>4 DEF ReadInv

(* Every step keeps what was read right.                                   *)
LEMMA StepRead ==
  ASSUME ReadInv, [Next]_vars
  PROVE  ReadInv'
<1>1. CASE UNCHANGED readVars
  <2>1. UNCHANGED <<backend, stdout, answer, loop_reads, runner_reads, loop_review,
                    runner_review, loop_result, runner_result>>
    BY <1>1 DEF readVars
  <2> QED
    BY <2>1 DEF ReadInv, LoopReadInv, RunnerReadInv, JobOut, IsReview, Unwrap, AgyAnswer,
       AgyFailure, KeptAfterError
<1>2. CASE ReadNext
  BY <1>2, LoopReadStep, RunnerReadStep DEF ReadNext
<1> QED
  BY <1>1, <1>2 DEF Next, vars

(* A slot's result is its own CLI's whole review, in both modes.           *)
THEOREM ReadingCorrect == Spec => []ReadsItsOwnReview
<1>1. Init => ReadInv
  BY InitRead
<1>2. ReadInv /\ [Next]_vars => ReadInv'
  BY StepRead
<1>3. ReadInv => ReadsItsOwnReview
  <2> SUFFICES ASSUME ReadInv PROVE ReadsItsOwnReview
    OBVIOUS
  <2>1. backend # "none" => /\ IsReview(stdout, backend) <=> Wrote(stdout, backend)
                            /\ IsReview(answer, backend) <=> Wrote(answer, backend)
    BY ReviewsAreWritten DEF ReadInv
  <2> QED
    BY <2>1 DEF ReadInv, LoopReadInv, RunnerReadInv, JobOut, ReadsItsOwnReview
<1> QED
  BY <1>1, <1>2, <1>3, PTL DEF Spec
=============================================================================
