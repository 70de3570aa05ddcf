-------------------------------- MODULE Tamper --------------------------------
(***************************************************************************)
(* The tamper check, scripts/review_loop/tamper.py: what one snapshot of   *)
(* the tree covers, the second snapshot, which may not run git when the    *)
(* files that make git run a command have changed, and the report made of  *)
(* the two.  One round: ConvergenceLoop has its verdict only.              *)
(*                                                                         *)
(* A path is a file with two contents, two values for its size and mtime,  *)
(* and an exec bit; a link; or absent.  Which paths there are of each kind *)
(* is a constant.                                                          *)
(***************************************************************************)
EXTENDS Integers, FiniteSets

CONSTANTS
  Files,
  Where,       \* the kind of each path
  LogFiles,    \* --log-file, resolved at the start
  Filter,      \* the script in the tree that a configured filter runs
  Configured,  \* in which configs one may be configured
  Targets,     \* where a link may lead
  Nodes,       \* what a reviewer may put at a path
  Trees,       \* what may be there when the round begins
  MaxWrites    \* bound: how often the reviewers write

(* tree: git lists it when it differs; ignored: git lists it always;       *)
(* nested: in a repository inside the tree, which git lists as one entry;  *)
(* control: git's config and hooks, the home's startup files; program: on  *)
(* PATH, by size and mtime; input, output, stranger: in the round's own    *)
(* directory; elsewhere: all that no snapshot looks at.                    *)
Kinds == {"tree", "ignored", "nested", "control", "program", "input", "output",
          "stranger", "elsewhere"}

Kind(kind) == {f \in Files : Where[f] = kind}

File(bytes, stamp, exec) ==
  [type |-> "file", bytes |-> bytes, stamp |-> stamp, exec |-> exec, target |-> "none"]
Link(target) ==
  [type |-> "link", bytes |-> "none", stamp |-> "none", exec |-> FALSE, target |-> target]
Absent ==
  [type |-> "absent", bytes |-> "none", stamp |-> "none", exec |-> FALSE, target |-> "none"]

AnyNode ==
  {Absent} \cup {Link(target) : target \in Files}
    \cup [type : {"file"}, bytes : {"a", "b"}, stamp : {"s", "t"}, exec : BOOLEAN,
          target : {"none"}]

(* What git keeps of a node: not when it was written.                      *)
Stored(node) == [node EXCEPT !.stamp = "none"]
GitNode == {Stored(node) : node \in AnyNode}

(* What is at each path, git's index and head, and the paths whose file    *)
(* the loop's own output goes to.                                          *)
AnyTree ==
  [disk : [Files -> AnyNode], index : [Files -> GitNode], head : [Files -> GitNode],
   stdout : SUBSET Files]

(* The round's directory is new, named for the second it was begun in: the *)
(* loop has put its inputs there, and nothing leads into it.  The names of *)
(* the logs were resolved.                                                 *)
RoundIsFresh(t) ==
  /\ \A f \in Kind("stranger") : t.disk[f] = Absent
  /\ \A f \in Kind("input") \cup Kind("output") \cup LogFiles : t.disk[f].type # "link"
  /\ \A f \in Files : t.disk[f].target \notin Kind("output")

(* git's configs: the repository's own, with the global and the system's;  *)
(* those of submodules, in its git directory; and what else git status     *)
(* reads in a submodule: its config in the tree, what a config includes.   *)
Configs == {"own", "module", "unread"}

ASSUME TamperAssumption ==
  /\ IsFiniteSet(Files) /\ "none" \notin Files /\ "nested" \notin Files
  /\ Where \in [Files -> Kinds]
  /\ LogFiles \subseteq Files /\ Targets \subseteq Files /\ Filter \in Kind("tree")
  /\ Configured \subseteq SUBSET Configs
  /\ Nodes \subseteq AnyNode
  /\ \A t \in Trees : t \in AnyTree /\ RoundIsFresh(t)
  /\ MaxWrites \in Nat

VARIABLES
  at,
  tree,        \* what is at each path, git's index and head, stdout
  filters,     \* the configs a filter is configured in
  before,      \* the first snapshot, a set of lines
  control,     \* the second's lines, as far as it is
  touched      \* report's list

(* For the properties only: the tree that was snapshot first, how often a  *)
(* reviewer wrote, what the second git status ran, whether git failed.     *)
VARIABLES began, writes, ran, blind

checkVars == <<before, control, touched>>
truthVars == <<began, writes, ran, blind>>
vars == <<at, tree, filters, checkVars, truthVars>>

Init ==
  /\ at = "snapshot" /\ tree \in Trees /\ filters \in Configured
  /\ before = {} /\ control = {} /\ touched = {}
  /\ began = tree /\ writes = 0 /\ ran = {} /\ blind = FALSE

-----------------------------------------------------------------------------
(* _fingerprint *)

(* Where the links lead, and no link leads to "none".                      *)
Ways(d) == [f \in Files |-> IF d[f].type = "link" THEN d[f].target ELSE "none"]

(* Where each path is after so many of them.                               *)
Follow(way) ==
  LET follow[n \in 0..Cardinality(Files)] ==
        IF n = 0 THEN [f \in Files |-> f]
        ELSE [f \in Files |-> IF way[f] = "none" THEN f ELSE follow[n - 1][way[f]]]
  IN  follow

(* Where a path leads, links followed; a path in a loop of links to one of *)
(* them.                                                                   *)
End(d, path) == Follow(Ways(d))[Cardinality(Files)][path]

(* A plausible bug: the loop's own output counts as anybody's.             *)
OwnOutputsUnknown(t) == {}

(* _own_outputs: stdout's file, and --log-file's, wherever it leads now.   *)
OwnOutputs(t) == t.stdout \cup {End(t.disk, f) : f \in LogFiles}

Mark(form) ==
  [form |-> form, link |-> "none", exec |-> FALSE, bytes |-> "none", under |-> {}]

Content(t, f, cheap) ==
  IF t.disk[f].type = "absent" THEN Mark("unreadable")
  ELSE IF f \in OwnOutputs(t) THEN Mark("the loop's output")
  ELSE [Mark("file") EXCEPT !.exec = t.disk[f].exec,
                             !.bytes = IF cheap THEN t.disk[f].stamp ELSE t.disk[f].bytes]

(* A plausible bug: a link is where it points, whatever that holds.        *)
FingerprintOfLink(t, f, cheap) ==
  IF t.disk[f].type # "link" THEN Content(t, f, cheap)
  ELSE [Mark("link") EXCEPT !.link = t.disk[f].target]

(* A link's is its target's, and that it is one.                           *)
Through(t, end, cheap) ==
  IF t.disk[end].type = "link" THEN Mark("loop")
  ELSE IF t.disk[end].type = "absent" THEN Mark("dangling")
  ELSE Content(t, end, cheap)

Fingerprint(t, f, cheap) ==
  IF t.disk[f].type # "link" THEN Content(t, f, cheap)
  ELSE [Through(t, End(t.disk, f), cheap) EXCEPT !.link = t.disk[f].target]

(* _tree: what is inside a nested repository, by size and mtime; its links *)
(* are not followed and the loop's own output in it is left out.           *)
Recorded(t) == {f \in Kind("nested") : t.disk[f].type # "absent" /\ f \notin OwnOutputs(t)}

Records(t) ==
  {[file |-> f,
    print |-> IF t.disk[f].type = "link" THEN [Mark("link") EXCEPT !.link = t.disk[f].target]
              ELSE Content(t, f, TRUE)] : f \in Recorded(t)}

-----------------------------------------------------------------------------
(* snapshot *)

LineOf(sort, f, status, print) ==
  [sort |-> sort, file |-> f, status |-> status, print |-> print]

(* _control_lines                                                          *)
ControlLines(t) ==
  {LineOf("control", f, "", Fingerprint(t, f, Where[f] = "program")) :
     f \in {g \in Kind("control") \cup Kind("program") : t.disk[g].type # "absent"}}

InputLines(t) == {LineOf("round", f, "", Fingerprint(t, f, FALSE)) : f \in Kind("input")}

(* What git status lists: git's own work, an external program.             *)
InGit == Kind("tree") \cup Kind("ignored")

Untracked(t, f) == t.index[f] = Absent /\ t.disk[f] # Absent
Staged(t, f)    == t.index[f] # t.head[f]
Modified(t, f)  == t.index[f] # Absent /\ Stored(t.disk[f]) # t.index[f]

(* A file that left the index may be one that is new there, with the same  *)
(* content; of several, git has its way to choose, each taken once.        *)
Moves(t) ==
  {move \in InGit \X InGit :
     /\ t.index[move[1]] = Absent /\ t.head[move[1]] # Absent
     /\ t.head[move[2]] = Absent
     /\ t.index[move[2]] = [t.head[move[1]] EXCEPT !.exec = t.index[move[2]].exec]}

OneToOne(pairs) == \A p, q \in pairs : p[1] = q[1] <=> p[2] = q[2]

Renames(t) ==
  CHOOSE pairs \in SUBSET Moves(t) :
    /\ OneToOne(pairs)
    /\ \A move \in Moves(t) \ pairs : ~OneToOne(pairs \cup {move})

IsOld(renames, f) == \E move \in renames : move[1] = f
IsNew(renames, f) == \E move \in renames : move[2] = f

Statuses == {"!!", "??", "R ", "RM", "MM", "M ", " M"}

(* A path's: a rename is listed under its new name.                        *)
Entries(t, renames, f) ==
  LET staged == Staged(t, f) /\ ~IsOld(renames, f) /\ ~IsNew(renames, f)
  IN  {status \in Statuses :
         \/ status = "!!" /\ Untracked(t, f) /\ Where[f] = "ignored"
         \/ status = "??" /\ Untracked(t, f) /\ Where[f] # "ignored"
         \/ status = "R " /\ IsNew(renames, f) /\ ~Modified(t, f)
         \/ status = "RM" /\ IsNew(renames, f) /\ Modified(t, f)
         \/ status = "MM" /\ staged /\ Modified(t, f)
         \/ status = "M " /\ staged /\ ~Modified(t, f)
         \/ status = " M" /\ ~Staged(t, f) /\ Modified(t, f)}

Listed(t) ==
  LET renames == Renames(t)
      of(f)   == {[file |-> f, status |-> status] : status \in Entries(t, renames, f)}
  IN  UNION {of(f) : f \in InGit}

(* _status_lines, when git could say: of a rename's entry, whose source is *)
(* skipped, as of any other, a line for its path.                          *)
StatusLines(t) ==
  {LineOf("status", entry.file, entry.status,
          Fingerprint(t, entry.file, entry.status = "!!")) : entry \in Listed(t)}
    \cup (IF Recorded(t) = {} THEN {}
          ELSE {LineOf("status", "nested", "??", [Mark("dir") EXCEPT !.under = Records(t)])})

(* Not knowing is not "unchanged": each such line is like no other.        *)
FailedLine(when) == LineOf("failed", "none", "", Mark(when))

SkippedLine == LineOf("skipped", "none", "", Mark("skipped"))

(* A plausible bug: only the repository's own config is read. *)
OnlyItsOwnFilters == filters \cap {"own"}

(* _filters, with _module_configs: the configs read for filters, each of   *)
(* which is switched off.                                                  *)
SwitchedOff == filters \cap {"own", "module"}

(* What git status would run: git itself, what its control files name, and *)
(* a filter left on.                                                       *)
WouldRun ==
  Kind("control") \cup Kind("program")
    \cup (IF filters \ SwitchedOff # {} THEN {Filter} ELSE {})

-----------------------------------------------------------------------------
(* The round *)

Snapshots ==
  /\ at = "snapshot" /\ at' = "reviewers"
  /\ \E failed \in BOOLEAN :
       /\ before' = ControlLines(tree) \cup InputLines(tree)
                      \cup (IF failed THEN {FailedLine("first")} ELSE StatusLines(tree))
       /\ blind' = failed
  /\ began' = tree
  /\ UNCHANGED <<tree, filters, control, touched, writes, ran>>

(* git mv *)
GitMoves(f, g) ==
  /\ tree.index[f] # Absent /\ tree.disk[f] # Absent /\ tree.disk[g] = Absent
  /\ tree' = [tree EXCEPT !.disk[g] = tree.disk[f], !.disk[f] = Absent,
                          !.index[g] = tree.index[f], !.index[f] = Absent,
                          !.stdout = IF f \in @ THEN (@ \ {f}) \cup {g} ELSE @]

(* A reviewer writes, or deletes, in place or anew; what it runs git for.  *)
ReviewerWrites ==
  /\ at = "reviewers" /\ writes < MaxWrites /\ writes' = writes + 1
  /\ \/ \E f \in Files, node \in Nodes, anew \in BOOLEAN :
          /\ node # tree.disk[f]
          /\ tree' = [tree EXCEPT !.disk[f] = node,
                                  !.stdout = IF anew \/ node.type # "file" THEN @ \ {f} ELSE @]
     \/ \E f \in InGit : tree' = [tree EXCEPT !.index[f] = Stored(tree.disk[f])]
     \/ \E f, g \in InGit : GitMoves(f, g)
     \/ tree' = [tree EXCEPT !.head = tree.index]
  /\ UNCHANGED <<at, filters, checkVars, began, ran, blind>>

(* The loop prints, while anything runs; and a process copies it.          *)
LogGrows ==
  /\ at # "done"
  /\ \E f \in tree.stdout \cup LogFiles :
       /\ tree.disk[f].type = "file"
       /\ tree' = [tree EXCEPT !.disk[f] = File("b", "t", tree.disk[f].exec)]
  /\ UNCHANGED <<at, filters, checkVars, truthVars>>

(* The reviewers are stopped and what they wrote is published.             *)
Publishes ==
  /\ at = "reviewers" /\ at' = "control"
  /\ \E outputs \in SUBSET Kind("output") :
       tree' = [tree EXCEPT !.disk = [f \in Files |-> IF f \in outputs THEN File("b", "t", FALSE)
                                                      ELSE tree.disk[f]]]
  /\ UNCHANGED <<filters, checkVars, truthVars>>

(* The second snapshot, which is given the first.                          *)
ReadsControl ==
  /\ at = "control" /\ at' = "status"
  /\ control' = ControlLines(tree) \cup InputLines(tree)
  /\ UNCHANGED <<tree, filters, before, touched, truthVars>>

Controls(lines) == {line \in lines : line.sort = "control"}

(* A plausible bug: only a new or a changed control file counts.           *)
ControlIsTheSameOrGone == Controls(control) \subseteq Controls(before)

(* Compared whole: one deleted counts too.                                 *)
ControlIsTheSame == Controls(control) = Controls(before)

(* changed: what is new or different, and what is gone.                    *)
Changed(now) ==
  {[gone |-> FALSE, line |-> line] : line \in now \ before}
    \cup {[gone |-> TRUE, line |-> line] : line \in before \ now}

(* _strangers: no regular file of the round's names.                       *)
Strangers ==
  {[gone |-> FALSE, line |-> LineOf("stranger", f, "??", Mark("stranger"))] :
     f \in {g \in Kind("stranger") : tree.disk[g].type # "absent"}
             \cup {g \in Kind("input") \cup Kind("output") : tree.disk[g].type = "link"}}

Reports ==
  /\ at = "status" /\ at' = "done"
  /\ \/ /\ ~ControlIsTheSame
        /\ touched' = Changed(control \cup {SkippedLine}) \cup Strangers
        /\ blind' = TRUE /\ UNCHANGED ran
     \/ /\ ControlIsTheSame
        /\ \E failed \in BOOLEAN :
             /\ touched' = Changed(control \cup (IF failed THEN {FailedLine("second")}
                                                 ELSE StatusLines(tree)))
                             \cup Strangers
             /\ blind' = (blind \/ failed)
        /\ ran' = WouldRun
  /\ UNCHANGED <<tree, filters, before, control, began, writes>>

Next ==
  \/ Snapshots \/ ReviewerWrites \/ LogGrows \/ Publishes \/ ReadsControl \/ Reports

Spec == Init /\ [][Next]_vars

-----------------------------------------------------------------------------
(* Properties *)

(* What a path holds, links followed -- a loop of them holds nothing --:   *)
(* the bytes, or the size and mtime.                                       *)
Holds(t, f) ==
  LET end == t.disk[End(t.disk, f)]
  IN  [node |-> Stored(t.disk[f]), end |-> IF end.type = "link" THEN Absent ELSE Stored(end)]
Looks(t, f) ==
  LET end == t.disk[End(t.disk, f)]
  IN  [target |-> t.disk[f].target, type |-> end.type, stamp |-> end.stamp, exec |-> end.exec]

(* What leads to the loop's own output, and did when the round began.      *)
IsOwn(f) ==
  /\ End(tree.disk, f) \in OwnOutputs(tree)
  /\ End(began.disk, f) \in OwnOutputs(began)

(* What the check concedes: a rewrite that keeps the size and mtime where  *)
(* only they are compared; the loop's own log, which in a repository       *)
(* within is left out wherever it was or is; the names the round writes    *)
(* itself; what a reviewer also committed; a file renamed into one that    *)
(* another's new name was already; and all it does not look at.            *)
Conceded(f) ==
  \/ IsOwn(f)
  \/ Where[f] \in {"ignored", "nested", "program"} /\ Looks(tree, f) = Looks(began, f)
  \/ /\ Where[f] \in {"tree", "ignored"}
     /\ Stored(tree.disk[f]) = tree.index[f] /\ tree.index[f] = tree.head[f]
  \/ /\ tree.disk[f] = Absent
     /\ \E move \in Renames(tree), other \in Renames(began) :
          move[1] = f /\ other[1] # f /\ move[2] = other[2]
  \/ Where[f] = "nested" /\ f \in OwnOutputs(tree) \cup OwnOutputs(began)
  \/ /\ Where[f] = "nested"
     /\ tree.disk[f].type = "link" /\ tree.disk[f].target = began.disk[f].target
  \/ Where[f] = "output" /\ tree.disk[f].type # "link"
  \/ Where[f] = "elsewhere"

Named(f) ==
  \E entry \in touched :
    \/ entry.line.file = f
    \/ Where[f] = "nested" /\ entry.line.file = "nested"

(* Whatever a reviewer wrote is reported under its own path, or under that *)
(* of the link that leads to it, or what it renamed under the new name --  *)
(* a file already modified, or one ignored or in a repository of its own,  *)
(* a startup file that is a link, a hook made executable or deleted, a     *)
(* link put in a file's place -- or else git could not be asked, which is  *)
(* reported too.                                                           *)
NothingUnseen ==
  at = "done" =>
    /\ \A f \in Files :
         \/ Holds(tree, f) = Holds(began, f)
         \/ Conceded(f) \/ Named(f)
         \/ \E move \in Renames(tree) : move[1] = f /\ Named(move[2])
         \/ blind /\ Where[f] \in {"tree", "ignored", "nested"}
    /\ blind => touched # {}

(* A round whose reviewers wrote nothing reports nothing: not its own log  *)
(* growing in the tree between the two snapshots (one that git tracks is   *)
(* modified by it, and reported), not its own outputs, nor anything that   *)
(* was modified, untracked or dangling before it began.                    *)
LogIsUntracked ==
  \A f \in OwnOutputs(began) : began.index[f] = Absent /\ began.head[f] = Absent

NoFalseAlarm ==
  at = "done" /\ writes = 0 /\ ~blind /\ LogIsUntracked => touched = {}

(* The check's git status runs nothing a reviewer changed: no config, hook *)
(* or program that is not what it was -- unless it was rewritten with its  *)
(* size and mtime kept -- and no filter's script, wherever of the two      *)
(* configs that are read the filter is configured.                         *)
GitRunsNothingPlanted ==
  \A f \in ran :
    \/ Holds(tree, f) = Holds(began, f)
    \/ IsOwn(f)
    \/ Where[f] = "program" /\ Looks(tree, f) = Looks(began, f)
    \/ f = Filter /\ "unread" \in filters

-----------------------------------------------------------------------------
(* What they rest on: the inductive invariant of their proofs              *)
(* (TamperProofs).                                                         *)

Typed ==
  /\ at \in {"snapshot", "reviewers", "control", "status", "done"}
  /\ tree \in AnyTree /\ began \in AnyTree /\ filters \subseteq Configs
  /\ writes \in Nat /\ blind \in BOOLEAN

(* The first snapshot is of the tree the round began with, and the part of *)
(* the second that has been taken is of the tree as it is: a log that grew *)
(* since makes no difference to it.                                        *)
SnapshotsInv ==
  /\ at \in {"reviewers", "control", "status"} =>
       before = ControlLines(began) \cup InputLines(began)
                  \cup (IF blind THEN {FailedLine("first")} ELSE StatusLines(began))
  /\ at = "status" => control = ControlLines(tree) \cup InputLines(tree)
  /\ at # "done" => ran = {}

(* As long as no reviewer writes, the tree differs from the one the round  *)
(* began with in the loop's own log and in the outputs.                    *)
OnlyTheLoopWrote ==
  /\ tree.index = began.index /\ tree.head = began.head /\ tree.stdout = began.stdout
  /\ \A f \in Files :
       \/ tree.disk[f] = began.disk[f]
       \/ /\ f \in tree.stdout \cup LogFiles
          /\ tree.disk[f].type = "file" /\ began.disk[f].type = "file"
          /\ tree.disk[f].exec = began.disk[f].exec
       \/ /\ Where[f] = "output"
          /\ tree.disk[f].type # "link" /\ began.disk[f].type # "link"

QuietInv ==
  /\ RoundIsFresh(began)
  /\ at = "snapshot" => writes = 0
  /\ writes = 0 => OnlyTheLoopWrote
=============================================================================
