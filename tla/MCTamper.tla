------------------------------- MODULE MCTamper -------------------------------
(***************************************************************************)
(* Tamper for TLC: a path of every kind, and four trees to begin with.     *)
(***************************************************************************)
EXTENDS Tamper, TLC

AllFiles == {"code", "script", "moved", "env", "sub", "hook", "bashrc", "git", "diff", "raw",
             "extra", "dotfile", "log"}
KindOf ==
  [code |-> "tree", script |-> "tree", moved |-> "tree", env |-> "ignored", sub |-> "nested",
   hook |-> "control", bashrc |-> "control", git |-> "program", diff |-> "input",
   raw |-> "output", extra |-> "stranger", dotfile |-> "elsewhere", log |-> "ignored"]

SomeConfigs == {{"own", "module"}, {"module", "unread"}}
TheLog == {"log"}
TwoTargets == {"dotfile", "bashrc"}
A == File("a", "s", FALSE)
SomeNodes ==
  {Absent, Link("dotfile"), Link("bashrc"), File("b", "s", FALSE), File("b", "t", FALSE),
   File("a", "t", FALSE), File("a", "s", TRUE)}

(* All of it there and committed; a modified file, nothing ignored but the *)
(* log; links to a startup file; nothing but what a round needs, and a     *)
(* rename staged.                                                          *)
Plain == [f \in AllFiles |-> IF f \in {"raw", "extra", "moved"} THEN Absent ELSE A]
Renamed == [Plain EXCEPT !["code"] = Absent, !["moved"] = A,
                         !["git"] = Link("dotfile"), !["sub"] = Absent, !["dotfile"] = Absent]
Committed(d) == [f \in AllFiles |-> IF f \in {"code", "script"} THEN Stored(d[f]) ELSE Absent]
Tree(d, ix, hd, out) == [disk |-> d, index |-> ix, head |-> hd, stdout |-> out]
FourTrees ==
  {Tree(Plain, Committed(Plain), Committed(Plain), {}),
   Tree([Plain EXCEPT !["code"] = File("b", "t", FALSE), !["env"] = Absent, !["hook"] = Absent],
        Committed(Plain), [Committed(Plain) EXCEPT !["script"] = Absent], {"log"}),
   Tree([Plain EXCEPT !["bashrc"] = Link("dotfile"), !["env"] = Link("bashrc"),
                      !["code"] = Link("dotfile")],
        [Committed(Plain) EXCEPT !["code"] = Absent],
        [Committed(Plain) EXCEPT !["code"] = Absent], {"log", "sub"}),
   Tree(Renamed, [Committed(Renamed) EXCEPT !["moved"] = Stored(A)], Committed(Plain), {"log"})}
=============================================================================
