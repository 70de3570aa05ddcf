------------------------------- MODULE MCRound -------------------------------
(***************************************************************************)
(* ReviewerRound for TLC: two slots, the second of them codex's.           *)
(***************************************************************************)
EXTENDS RoundProperties, TLC

Only == {1}
Second == {2}
AllPlatforms == {"waitid", "ps"}
Linux == {"waitid"}
=============================================================================
