------------------------------- MODULE AgyModel -------------------------------
(***************************************************************************)
(* Which model agy runs: scripts/review_loop/agy.py, agy_model_choice and  *)
(* what it picks from `agy models`, asked once at detection and again at   *)
(* each launch of slot 3.  The listing is a network answer: it may fail,   *)
(* and differ from one call to the next.                                   *)
(***************************************************************************)
EXTENDS Integers, Sequences, FiniteSets

CONSTANTS
  Slugs,       \* the models a listing may name
  MaxAsked     \* bound: how often a model is asked for

(* A slug: whether it names a Gemini model that writes text, its version's *)
(* parts, its tier and its effort, "unsaid" where it names none.           *)
AnySlug ==
  [gemini : BOOLEAN, version : Seq(Nat) \ {<<>>}, tier : {"lite", "flash", "pro"},
   effort : {"low", "medium", "high", "unsaid"}]

ASSUME ModelAssumption == Slugs \subseteq AnySlug /\ MaxAsked \in Nat

Named == "AGY_MODEL"

VARIABLES
  agy_model,   \* AGY_MODEL: unset, bad (no slug), or named
  kept,        \* _PICK: the model picked this run, or none
  listing,     \* what the last `agy models` listed
  answers,     \* the models agy_model_choice answered with
  asked

modelVars == <<agy_model, kept, listing, answers, asked>>

ModelInit ==
  /\ agy_model \in {"unset", "bad", "named"}
  /\ kept = <<>> /\ listing = {} /\ answers = {} /\ asked = 0

-----------------------------------------------------------------------------
(* _agy_rank                                                               *)

(* 4 and 4.0 are one version: the zeros it ends in go, but for a first     *)
(* part that is one.                                                       *)
Trimmed(version) ==
  LET length == CHOOSE n \in 1..Len(version) :
                  /\ n = 1 \/ version[n] # 0
                  /\ \A j \in (n + 1)..Len(version) : version[j] = 0
  IN  SubSeq(version, 1, length)

Tier(slug) == IF slug.tier = "lite" THEN 0 ELSE IF slug.tier = "flash" THEN 1 ELSE 2

(* Medium first: high took longer than a reviewer is given.                *)
Effort(slug) == IF slug.effort = "low" THEN 0 ELSE IF slug.effort = "high" THEN 1 ELSE 2

(* A plausible bug: the version is ranked as it is written. *)
AgyRankAsWritten(slug) ==
  [version |-> slug.version, tier |-> Tier(slug), effort |-> Effort(slug)]

AgyRank(slug) ==
  [version |-> Trimmed(slug.version), tier |-> Tier(slug), effort |-> Effort(slug)]

(* Python's order of tuples: for two versions, of which a prefix is the    *)
(* lower, and for two ranks.                                               *)
Older(v, w) ==
  \E i \in 1..Len(w) :
    /\ \A j \in 1..(i - 1) : j <= Len(v) /\ v[j] = w[j]
    /\ i > Len(v) \/ v[i] < w[i]

Below(a, b) ==
  \/ Older(a.version, b.version)
  \/ /\ a.version = b.version
     /\ a.tier < b.tier \/ (a.tier = b.tier /\ a.effort < b.effort)

(* best_agy_model: the highest rank among those that can review.  Of two   *)
(* slugs that rank alike the name decides, which is either here.           *)
Best(slugs) ==
  {s \in slugs : /\ s.gemini
                 /\ \A t \in slugs : t.gemini => ~Below(AgyRank(s), AgyRank(t))}

-----------------------------------------------------------------------------
(* agy_model_choice: what AGY_MODEL names, or what was picked before, or   *)
(* the best of a new listing, which is kept unless there was none.         *)
ChooseModel ==
  /\ asked < MaxAsked /\ asked' = asked + 1
  /\ \/ agy_model # "unset" /\ UNCHANGED <<kept, listing>>
     \/ agy_model = "unset" /\ kept # <<>> /\ UNCHANGED <<kept, listing>>
     \/ /\ agy_model = "unset" /\ kept = <<>>
        /\ \E listed \in SUBSET Slugs :
             /\ listing' = listed
             /\ IF Best(listed) = {} THEN UNCHANGED kept
                                     ELSE \E best \in Best(listed) : kept' = <<best>>
  /\ answers' = answers \cup
       (IF agy_model = "named" THEN {<<Named>>}
        ELSE IF agy_model = "bad" \/ kept' = <<>> THEN {} ELSE {kept'})
  /\ UNCHANGED agy_model

-----------------------------------------------------------------------------
(* Newer, by the number a version is and not by how it is written.         *)
Part(slug, i) == IF i <= Len(slug.version) THEN slug.version[i] ELSE 0

Newer(s, t) ==
  \E i \in 1..Len(s.version) : /\ Part(s, i) > Part(t, i)
                              /\ \A j \in 1..(i - 1) : Part(s, j) = Part(t, j)

Same(s, t) == ~Newer(s, t) /\ ~Newer(t, s)

(* Every round of a run reviews with one model, whatever the account lists *)
(* later; and it is the newest Gemini listed, then the highest tier, then  *)
(* at medium effort, high before low.                                      *)
OneModelTheBest ==
  /\ Cardinality(answers) <= 1
  /\ kept # <<>> =>
       \A slug \in {s \in listing : s.gemini} :
         /\ ~Newer(slug, kept[1])
         /\ Same(slug, kept[1]) =>
              \/ Tier(slug) < Tier(kept[1])
              \/ Tier(slug) = Tier(kept[1]) /\
                   (slug.effort = "high" => kept[1].effort # "low")
                   /\ (slug.effort \in {"medium", "unsaid"} =>
                         kept[1].effort \in {"medium", "unsaid"})

-----------------------------------------------------------------------------
(* What it rests on: the inductive invariant of its proof (SlotsProofs).   *)

(* The model kept is the best of the listing it was picked from, which was *)
(* the last; and nothing else was ever answered with.                      *)
ModelInv ==
  /\ listing \subseteq Slugs
  /\ kept # <<>> => agy_model = "unset" /\ \E best \in Best(listing) : kept = <<best>>
  /\ answers \subseteq IF agy_model = "named" THEN {<<Named>>}
                       ELSE IF kept # <<>> THEN {kept} ELSE {}
=============================================================================
