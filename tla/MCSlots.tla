------------------------------- MODULE MCSlots --------------------------------
(***************************************************************************)
(* Slots for TLC: slots 1 to 3 on every host, and listings of up to eight  *)
(* models whose versions, tiers and efforts pull different ways.           *)
(***************************************************************************)
EXTENDS Slots, TLC

FirstThree == {1, 2, 3}
Slug(gemini, version, tier, effort) ==
  [gemini |-> gemini, version |-> version, tier |-> tier, effort |-> effort]
SomeSlugs ==
  {Slug(TRUE, <<3, 9>>, "pro", "medium"), Slug(TRUE, <<3, 10>>, "flash", "low"),
   Slug(TRUE, <<4>>, "pro", "high"), Slug(TRUE, <<4>>, "pro", "unsaid"),
   Slug(TRUE, <<4, 0>>, "flash", "medium"), Slug(TRUE, <<4>>, "lite", "medium"),
   Slug(TRUE, <<4, 0>>, "pro", "low"), Slug(FALSE, <<5>>, "pro", "medium")}
=============================================================================
