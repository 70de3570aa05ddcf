------------------------------ MODULE MCScrubber ------------------------------
(***************************************************************************)
(* Scrubber for TLC: every content its patterns tell apart, and objects of *)
(* up to three keys, one of which is a redacted key's future name.         *)
(***************************************************************************)
EXTENDS Scrubber, TLC

AllModes == {"diff", "agent-repo", "text", "list", "object"}
AllFiles == {"ordinary", "safe", "lookalike", "secret"}
AllContents ==
  {c \in AnyContent : c.marks \in {"begin", "begin end", "end begin"} => c.shape}
SomeKeys ==
  {[text |-> "credential", index |-> i, tail |-> 0] : i \in {0, 1}}
    \cup {[text |-> "field", index |-> 0, tail |-> 0]}
    \cup {Marker(0, 0), Marker(1, 0), Marker(1, 1)}
=============================================================================
