----------------------------- MODULE TamperProofs ------------------------------
(***************************************************************************)
(* Proofs about the tamper check, for any paths of any kinds, any trees a  *)
(* round may begin with, links among them, and any number of writes.       *)
(***************************************************************************)
EXTENDS Tamper, FiniteSetTheorems, WellFoundedInduction, TLAPS

-----------------------------------------------------------------------------
(* Links *)

Less == {pair \in Nat \X Nat : pair[1] < pair[2]}

(* A set of numbers has a least one.                                       *)
LEMMA LeastOf ==
  ASSUME NEW S \in SUBSET Nat, S # {}
  PROVE  \E n \in S : \A m \in S : n <= m
<1>1. IsWellFoundedOn(Less, Nat)
  BY NatLessThanWellFounded DEF OpToRel, Less
<1>2. PICK n \in S : \A m \in S : <<m, n>> \notin Less
  BY <1>1, WFMin
<1>3. \A m \in S : m \in Nat
  OBVIOUS
<1>4. \A m \in S : ~(m < n)
  BY <1>2, <1>3 DEF Less
<1>5. \A m \in S : n <= m
  BY <1>3, <1>4
<1> QED
  BY <1>5

(* So what holds of 0, and of a number's successor with it, holds of all.  *)
LEMMA AllOf ==
  ASSUME NEW T, 0 \in T, \A n \in Nat : n \in T => n + 1 \in T
  PROVE  Nat \subseteq T
<1> DEFINE S == Nat \ T
<1>1. SUFFICES ASSUME S # {} PROVE FALSE
  OBVIOUS
<1>2. PICK n \in S : \A m \in S : n <= m
  BY <1>1, LeastOf
<1>3. n # 0 /\ n - 1 \in Nat
  OBVIOUS
<1>4. n - 1 \in T
  BY <1>2, <1>3
<1> QED
  BY <1>3, <1>4

Step(way, g, n) ==
  IF n = 0 THEN [f \in Files |-> f]
  ELSE [f \in Files |-> IF way[f] = "none" THEN f ELSE g[n - 1][way[f]]]

(* Follow is what its definition says it is: there is such a function.     *)
LEMMA FollowIs ==
  ASSUME NEW way
  PROVE  Follow(way) = [n \in 0..Cardinality(Files) |-> Step(way, Follow(way), n)]
<1> DEFINE T == {m \in Nat : \E g : g = [n \in 0..m |-> Step(way, g, n)]}
<1>1. 0 \in T
  <2> DEFINE g == [n \in 0..0 |-> [f \in Files |-> f]]
  <2>1. g = [n \in 0..0 |-> Step(way, g, n)]
    BY DEF Step
  <2> QED
    BY <2>1
<1>2. ASSUME NEW m \in Nat, m \in T PROVE m + 1 \in T
  <2>1. PICK g : g = [n \in 0..m |-> Step(way, g, n)]
    BY <1>2
  <2> DEFINE h == [n \in 0..(m + 1) |-> IF n = m + 1 THEN Step(way, g, n) ELSE g[n]]
  <2>2. ASSUME NEW n \in 0..(m + 1) PROVE h[n] = Step(way, h, n)
    <3>1. CASE n = m + 1
      <4>1. n - 1 \in 0..(m + 1) /\ n - 1 # m + 1 /\ n # 0
        BY <3>1
      <4>2. h[n - 1] = g[n - 1] /\ h[n] = Step(way, g, n)
        BY <3>1, <4>1
      <4> QED
        BY <4>2 DEF Step
    <3>2. CASE n # m + 1
      <4>1. n \in 0..m
        BY <3>2
      <4>2. h[n] = Step(way, g, n)
        BY <2>1, <3>2, <4>1
      <4>3. n # 0 => h[n - 1] = g[n - 1]
        BY <4>1
      <4> QED
        BY <4>2, <4>3 DEF Step
    <3> QED
      BY <3>1, <3>2
  <2>3. h = [n \in 0..(m + 1) |-> Step(way, h, n)]
    <3>1. h = [n \in 0..(m + 1) |-> h[n]]
      OBVIOUS
    <3> HIDE DEF h
    <3> QED
      BY <2>2, <3>1
  <2>4. \E k : k = [n \in 0..(m + 1) |-> Step(way, k, n)]
    <3> HIDE DEF h
    <3> QED
      BY <2>3
  <2> QED
    BY <2>4
<1>3. Cardinality(Files) \in T
  <2> HIDE DEF T
  <2>1. Nat \subseteq T
    BY <1>1, <1>2, AllOf
  <2>2. Cardinality(Files) \in Nat
    BY FS_CardinalityType, TamperAssumption
  <2> QED
    BY <2>1, <2>2
<1>4. Follow(way) = CHOOSE g : g = [n \in 0..Cardinality(Files) |-> Step(way, g, n)]
  BY DEF Follow, Step
<1>5. \E g : g = [n \in 0..Cardinality(Files) |-> Step(way, g, n)]
  BY <1>3
<1> QED
  BY <1>4, <1>5

(* Where a path leads is a path: itself if it is no link, and else where   *)
(* some link points.                                                       *)
LEMMA EndIs ==
  ASSUME NEW d \in [Files -> AnyNode], NEW path \in Files
  PROVE  /\ End(d, path) \in Files
         /\ d[path].type # "link" => End(d, path) = path
         /\ d[path].type = "link" =>
              \E g \in Files : d[g].type = "link" /\ End(d, path) = d[g].target
<1> DEFINE way == Ways(d)
           C == Cardinality(Files)
           Leads(n, h) ==
             /\ Follow(way)[n][h] \in Files
             /\ way[h] = "none" => Follow(way)[n][h] = h
             /\ Follow(way)[n][h] = h \/ \E g \in Files : d[g].type = "link" /\ Follow(way)[n][h] = d[g].target
           T == {n \in Nat : n <= C => \A h \in Files : Leads(n, h)}
<1>1. C \in Nat /\ C # 0
  <2>1. IsFiniteSet(Files) /\ Files # {}
    BY TamperAssumption
  <2> QED
    BY <2>1, FS_CardinalityType, FS_EmptySet
<1>2. ASSUME NEW n \in 0..C, NEW h \in Files
      PROVE  Follow(way)[n][h] = IF n = 0 \/ way[h] = "none" THEN h
                                 ELSE Follow(way)[n - 1][way[h]]
  <2>1. Follow(way)[n] = Step(way, Follow(way), n)
    BY FollowIs, <1>1
  <2>2. CASE n = 0
    BY <2>1, <2>2 DEF Step
  <2>3. CASE n # 0
    BY <2>1, <2>3 DEF Step
  <2> QED
    BY <2>2, <2>3
<1>3. ASSUME NEW h \in Files
      PROVE  /\ d[h].type # "link" => way[h] = "none"
             /\ d[h].type = "link" => /\ way[h] = d[h].target /\ way[h] # "none"
                                      /\ way[h] \in Files
  <2>1. d[h] \in AnyNode
    OBVIOUS
  <2>3. d[h].type = "link" => d[h].target \in Files
    BY <2>1 DEF AnyNode, Link, Absent
  <2>2. "none" \notin Files
    BY TamperAssumption
  <2> QED
    BY <2>2, <2>3 DEF Ways
<1> HIDE DEF way, C
<1>4. 0 \in T
  BY <1>1, <1>2
<1>5. ASSUME NEW n \in Nat, n \in T PROVE n + 1 \in T
  <2> SUFFICES ASSUME n + 1 <= C, NEW h \in Files PROVE Leads(n + 1, h)
    OBVIOUS
  <2>1. \A k \in Files : Leads(n, k)
    BY <1>1, <1>5
  <2>2. Follow(way)[n + 1][h] = IF way[h] = "none" THEN h ELSE Follow(way)[n][way[h]]
    BY <1>1, <1>2
  <2>3. CASE way[h] = "none"
    BY <2>2, <2>3
  <2>4. CASE way[h] # "none"
    <3>1. d[h].type = "link" /\ way[h] = d[h].target /\ way[h] \in Files
      BY <1>3, <2>4
    <3>2. Leads(n, way[h])
      BY <2>1, <3>1
    <3>3. Follow(way)[n + 1][h] = Follow(way)[n][way[h]]
      BY <2>2, <2>4
    <3> QED
      BY <2>4, <3>1, <3>2, <3>3
  <2> QED
    BY <2>3, <2>4
<1>6. \A n \in Nat : n <= C => \A h \in Files : Leads(n, h)
  <2> HIDE DEF Leads
  <2>1. Nat \subseteq T
    <3> HIDE DEF T
    <3> QED
      BY <1>4, <1>5, AllOf
  <2>2. SUFFICES ASSUME NEW n \in Nat PROVE n <= C => \A h \in Files : Leads(n, h)
    OBVIOUS
  <2>3. n \in T
    BY <2>1
  <2> QED
    BY <2>3
<1>7. End(d, path) = Follow(way)[C][path]
  BY DEF End, way, C
<1>8. Leads(C, path)
  <2> HIDE DEF Leads
  <2> QED
    BY <1>1, <1>6
<1>9. ASSUME d[path].type = "link"
      PROVE  \E g \in Files : d[g].type = "link" /\ End(d, path) = d[g].target
  <2>1. Follow(way)[C][path] = Follow(way)[C - 1][way[path]]
    BY <1>1, <1>2, <1>3, <1>9
  <2>2. way[path] \in Files /\ way[path] = d[path].target
    BY <1>3, <1>9
  <2>3. Leads(C - 1, way[path])
    <3> HIDE DEF Leads
    <3> QED
      BY <1>1, <1>6, <2>2
  <2> QED
    BY <1>7, <1>9, <2>1, <2>2, <2>3
<1> QED
  BY <1>3, <1>7, <1>8, <1>9

-----------------------------------------------------------------------------
(* Fingerprints *)

(* What every node is.                                                     *)
LEMMA Node ==
  ASSUME NEW node \in AnyNode
  PROVE  /\ node.type \in {"absent", "link", "file"}
         /\ node.type = "absent" => node = Absent
         /\ node.type = "link" => /\ node = Link(node.target)
                                  /\ node.target \in Files /\ node.target # "none"
         /\ node.type = "file" => node = File(node.bytes, node.stamp, node.exec)
<1>1. "none" \notin Files
  BY TamperAssumption
<1>2. CASE node = Absent
  BY <1>2 DEF Absent
<1>3. CASE node \in {Link(target) : target \in Files}
  BY <1>1, <1>3 DEF Link
<1>4. CASE node \in [type : {"file"}, bytes : {"a", "b"}, stamp : {"s", "t"},
                     exec : BOOLEAN, target : {"none"}]
  BY <1>4 DEF File
<1> QED
  BY <1>2, <1>3, <1>4 DEF AnyNode

Prints ==
  [form : {"unreadable", "the loop's output", "file", "loop", "dangling"}, link : {"none"},
   exec : BOOLEAN, bytes : {"none", "a", "b", "s", "t"}, under : {{}}]

(* What is printed of a file's content, and of a link's target's.          *)
LEMMA PrintType ==
  ASSUME NEW t \in AnyTree, NEW f \in Files, NEW cheap \in BOOLEAN
  PROVE  /\ Content(t, f, cheap) \in Prints /\ Through(t, f, cheap) \in Prints
         /\ t.disk[f].type = "file" =>
              /\ Through(t, f, cheap) = Content(t, f, cheap)
              /\ f \in OwnOutputs(t) <=> Content(t, f, cheap).form = "the loop's output"
<1>1. t.disk[f] \in AnyNode
  BY DEF AnyTree
<1>2. CASE t.disk[f].type = "absent"
  BY <1>2 DEF Content, Through, Mark, Prints
<1>3. CASE t.disk[f].type = "link"
  <2>1. t.disk[f].exec = FALSE /\ t.disk[f].bytes = "none" /\ t.disk[f].stamp = "none"
    BY <1>1, <1>3, Node DEF Link
  <2> QED
    BY <1>3, <2>1 DEF Content, Through, Mark, Prints
<1>4. CASE t.disk[f].type = "file"
  <2>1. /\ t.disk[f].exec \in BOOLEAN /\ t.disk[f].bytes \in {"a", "b"}
        /\ t.disk[f].stamp \in {"s", "t"}
    BY <1>1, <1>4 DEF AnyNode, Absent, Link
  <2> QED
    BY <1>4, <2>1 DEF Content, Through, Mark, Prints
<1> QED
  BY <1>1, <1>2, <1>3, <1>4, Node

(* A fingerprint that did not change is the loop's own output then and     *)
(* now, or the bytes, links followed, or where it is cheap what it looks   *)
(* like.                                                                   *)
LEMMA PrintTells ==
  ASSUME NEW a \in AnyTree, NEW b \in AnyTree, NEW f \in Files, NEW cheap \in BOOLEAN,
         Fingerprint(a, f, cheap) = Fingerprint(b, f, cheap)
  PROVE  \/ End(a.disk, f) \in OwnOutputs(a) /\ End(b.disk, f) \in OwnOutputs(b)
         \/ ~cheap /\ Holds(a, f) = Holds(b, f)
         \/ cheap /\ Looks(a, f) = Looks(b, f)
<1> DEFINE x == End(a.disk, f)
           y == End(b.disk, f)
<1>1. /\ a.disk \in [Files -> AnyNode] /\ b.disk \in [Files -> AnyNode]
  BY DEF AnyTree
<1>2. /\ x \in Files /\ (a.disk[f].type # "link" => x = f)
      /\ y \in Files /\ (b.disk[f].type # "link" => y = f)
  BY <1>1, EndIs
<1> HIDE DEF x, y
<1>3. /\ a.disk[f] \in AnyNode /\ a.disk[x] \in AnyNode
      /\ b.disk[f] \in AnyNode /\ b.disk[y] \in AnyNode
  BY <1>1, <1>2
<1>4. SUFFICES ASSUME ~(x \in OwnOutputs(a) /\ y \in OwnOutputs(b))
               PROVE  \/ ~cheap /\ Holds(a, f) = Holds(b, f)
                      \/ cheap /\ Looks(a, f) = Looks(b, f)
  BY DEF x, y
<1>5. /\ Holds(a, f) = [node |-> Stored(a.disk[f]),
                        end |-> IF a.disk[x].type = "link" THEN Absent ELSE Stored(a.disk[x])]
      /\ Holds(b, f) = [node |-> Stored(b.disk[f]),
                        end |-> IF b.disk[y].type = "link" THEN Absent ELSE Stored(b.disk[y])]
  BY DEF Holds, x, y
<1>6. /\ Looks(a, f) = [target |-> a.disk[f].target, type |-> a.disk[x].type,
                        stamp |-> a.disk[x].stamp, exec |-> a.disk[x].exec]
      /\ Looks(b, f) = [target |-> b.disk[f].target, type |-> b.disk[y].type,
                        stamp |-> b.disk[y].stamp, exec |-> b.disk[y].exec]
  BY DEF Looks, x, y
<1>7. /\ Fingerprint(a, f, cheap) = IF a.disk[f].type # "link" THEN Content(a, f, cheap)
                                    ELSE [Through(a, x, cheap) EXCEPT !.link = a.disk[f].target]
      /\ Fingerprint(b, f, cheap) = IF b.disk[f].type # "link" THEN Content(b, f, cheap)
                                    ELSE [Through(b, y, cheap) EXCEPT !.link = b.disk[f].target]
  BY DEF Fingerprint, x, y
<1>13. /\ Content(a, f, cheap) \in Prints /\ Through(a, x, cheap) \in Prints
       /\ Content(b, f, cheap) \in Prints /\ Through(b, y, cheap) \in Prints
  BY <1>2, PrintType
<1>8. ASSUME NEW t \in AnyTree, NEW e \in Files, t.disk[e].type = "file", e \notin OwnOutputs(t)
      PROVE  Content(t, e, cheap) =
               [form |-> "file", link |-> "none", exec |-> t.disk[e].exec, under |-> {},
                bytes |-> IF cheap THEN t.disk[e].stamp ELSE t.disk[e].bytes]
  BY <1>8 DEF Content, Mark
<1>9. CASE a.disk[f].type # "link" /\ b.disk[f].type # "link"
  <2>1. x = f /\ y = f /\ Content(a, f, cheap) = Content(b, f, cheap)
    BY <1>2, <1>7, <1>9
  <2>2. CASE a.disk[f].type = "absent" \/ b.disk[f].type = "absent"
    <3>1. a.disk[f].type = "absent" /\ b.disk[f].type = "absent"
      BY <2>1, <2>2 DEF Content, Mark
    <3>2. a.disk[f] = Absent /\ b.disk[f] = Absent
      BY <1>3, <3>1, Node
    <3> QED
      BY <1>5, <1>6, <2>1, <3>2
  <2>3. CASE a.disk[f].type = "file" /\ b.disk[f].type = "file"
    <3>1. f \notin OwnOutputs(a) /\ f \notin OwnOutputs(b)
      BY <1>4, <2>1, <2>3 DEF Content, Mark
    <3>2. /\ a.disk[f].exec = b.disk[f].exec
          /\ ~cheap => a.disk[f].bytes = b.disk[f].bytes
          /\ cheap => a.disk[f].stamp = b.disk[f].stamp
      BY <1>8, <2>1, <2>3, <3>1
    <3>3. /\ a.disk[f] = File(a.disk[f].bytes, a.disk[f].stamp, a.disk[f].exec)
          /\ b.disk[f] = File(b.disk[f].bytes, b.disk[f].stamp, b.disk[f].exec)
      BY <1>3, <2>3, Node
    <3>4. /\ ~cheap => Stored(a.disk[f]) = Stored(b.disk[f])
          /\ cheap => a.disk[f].target = b.disk[f].target
      BY <3>2, <3>3 DEF Stored, File
    <3> QED
      BY <1>5, <1>6, <2>1, <2>3, <3>2, <3>4
  <2> QED
    BY <1>3, <1>9, <2>2, <2>3, Node
<1>10. CASE a.disk[f].type = "link" /\ b.disk[f].type = "link"
  <2>1. /\ a.disk[f].target = b.disk[f].target
        /\ Through(a, x, cheap).form = Through(b, y, cheap).form
        /\ Through(a, x, cheap).exec = Through(b, y, cheap).exec
        /\ Through(a, x, cheap).bytes = Through(b, y, cheap).bytes
    <3>1. [Through(a, x, cheap) EXCEPT !.link = a.disk[f].target]
            = [Through(b, y, cheap) EXCEPT !.link = b.disk[f].target]
      BY <1>7, <1>10
    <3> QED
      BY <1>13, <3>1 DEF Prints
  <2>2. a.disk[f] = b.disk[f]
    BY <1>3, <1>10, <2>1, Node
  <2>3. CASE a.disk[x].type = "link" \/ b.disk[y].type = "link"
    <3>1. a.disk[x].type = "link" /\ b.disk[y].type = "link"
      BY <2>1, <2>3 DEF Through, Content, Mark
    <3>2. /\ a.disk[x].stamp = "none" /\ a.disk[x].exec = FALSE
          /\ b.disk[y].stamp = "none" /\ b.disk[y].exec = FALSE
      BY <1>3, <3>1, Node DEF Link
    <3> QED
      BY <1>5, <1>6, <2>2, <3>1, <3>2
  <2>4. CASE a.disk[x].type = "absent" \/ b.disk[y].type = "absent"
    <3>1. a.disk[x].type = "absent" /\ b.disk[y].type = "absent"
      BY <2>1, <2>4 DEF Through, Content, Mark
    <3>2. a.disk[x] = Absent /\ b.disk[y] = Absent
      BY <1>3, <3>1, Node
    <3> QED
      BY <1>5, <1>6, <2>2, <3>2
  <2>5. CASE a.disk[x].type = "file" /\ b.disk[y].type = "file"
    <3>1. Through(a, x, cheap) = Content(a, x, cheap) /\ Through(b, y, cheap) = Content(b, y, cheap)
      BY <2>5 DEF Through
    <3>2. x \notin OwnOutputs(a) /\ y \notin OwnOutputs(b)
      <4>1. /\ x \in OwnOutputs(a) <=> Content(a, x, cheap).form = "the loop's output"
            /\ y \in OwnOutputs(b) <=> Content(b, y, cheap).form = "the loop's output"
        BY <1>2, <2>5, PrintType
      <4> QED
        BY <1>4, <2>1, <3>1, <4>1
    <3>3. /\ a.disk[x].exec = b.disk[y].exec
          /\ ~cheap => a.disk[x].bytes = b.disk[y].bytes
          /\ cheap => a.disk[x].stamp = b.disk[y].stamp
      BY <1>2, <1>8, <2>1, <2>5, <3>1, <3>2
    <3>4. /\ a.disk[x] = File(a.disk[x].bytes, a.disk[x].stamp, a.disk[x].exec)
          /\ b.disk[y] = File(b.disk[y].bytes, b.disk[y].stamp, b.disk[y].exec)
      BY <1>3, <2>5, Node
    <3>5. ~cheap => Stored(a.disk[x]) = Stored(b.disk[y])
      BY <3>3, <3>4 DEF Stored, File
    <3> QED
      BY <1>5, <1>6, <2>2, <2>5, <3>3, <3>5
  <2> QED
    BY <1>3, <2>3, <2>4, <2>5, Node
<1>11. ASSUME a.disk[f].type = "link", b.disk[f].type # "link" PROVE FALSE
  <2>1. [Through(a, x, cheap) EXCEPT !.link = a.disk[f].target] = Content(b, f, cheap)
    BY <1>7, <1>11
  <2>2. a.disk[f].target # "none"
    BY <1>3, <1>11, Node
  <2> QED
    BY <1>13, <2>1, <2>2 DEF Prints
<1>12. ASSUME a.disk[f].type # "link", b.disk[f].type = "link" PROVE FALSE
  <2>1. [Through(b, y, cheap) EXCEPT !.link = b.disk[f].target] = Content(a, f, cheap)
    BY <1>7, <1>12
  <2>2. b.disk[f].target # "none"
    BY <1>3, <1>12, Node
  <2> QED
    BY <1>13, <2>1, <2>2 DEF Prints
<1> QED
  BY <1>9, <1>10, <1>11, <1>12

-----------------------------------------------------------------------------
(* Trees that differ in the loop's own output                              *)

(* No link of one is not in the other, and the loop's output goes the same *)
(* way.                                                                    *)
Unmoved(a, b) == Ways(a.disk) = Ways(b.disk) /\ a.stdout = b.stdout

(* A path whose node is the same, or the loop's own output in both.        *)
Seen(a, b, f) ==
  \/ a.disk[f] = b.disk[f]
  \/ f \in OwnOutputs(a) /\ a.disk[f].type = "file" /\ b.disk[f].type = "file"

(* And so for all that is fingerprinted, where each leads too.             *)
Alike(a, b) ==
  /\ Unmoved(a, b)
  /\ \A f \in Files : Where[f] # "output" => Seen(a, b, f) /\ Seen(a, b, End(a.disk, f))

(* Nodes of which none is a link but it is the same lead nowhere else.     *)
LEMMA NoLinkMoved ==
  ASSUME NEW a \in AnyTree, NEW b \in AnyTree, a.stdout = b.stdout,
         \A f \in Files : \/ a.disk[f] = b.disk[f]
                          \/ a.disk[f].type # "link" /\ b.disk[f].type # "link"
  PROVE  Unmoved(a, b)
  BY DEF Unmoved, Ways

(* Then what leads somewhere leads there still, and is the loop's still.   *)
LEMMA UnmovedEnds ==
  ASSUME NEW a, NEW b, Unmoved(a, b)
  PROVE  /\ \A f : End(a.disk, f) = End(b.disk, f)
         /\ OwnOutputs(a) = OwnOutputs(b)
<1>1. \A f : End(a.disk, f) = End(b.disk, f)
  BY DEF Unmoved, End
<1> QED
  BY <1>1 DEF OwnOutputs, Unmoved

(* A fingerprint does not tell such trees apart.                           *)
LEMMA SamePrint ==
  ASSUME NEW a \in AnyTree, NEW b \in AnyTree, Alike(a, b),
         NEW f \in Files, Where[f] # "output", NEW cheap \in BOOLEAN
  PROVE  /\ a.disk[f].type = b.disk[f].type
         /\ Fingerprint(a, f, cheap) = Fingerprint(b, f, cheap)
<1> DEFINE e == End(a.disk, f)
<1>1. End(b.disk, f) = e /\ OwnOutputs(a) = OwnOutputs(b)
  BY UnmovedEnds DEF Alike
<1>2. Seen(a, b, f) /\ Seen(a, b, e)
  BY DEF Alike
<1>3. ASSUME NEW g, Seen(a, b, g)
      PROVE  /\ a.disk[g].type = b.disk[g].type
             /\ Content(a, g, cheap) = Content(b, g, cheap)
             /\ Through(a, g, cheap) = Through(b, g, cheap)
  BY <1>1, <1>3 DEF Seen, Content, Through
<1>4. a.disk[f].type = "link" => a.disk[f] = b.disk[f]
  BY <1>2 DEF Seen
<1> HIDE DEF e
<1>5. a.disk[f].type = b.disk[f].type /\ Content(a, f, cheap) = Content(b, f, cheap)
  BY <1>2, <1>3
<1>6. Through(a, e, cheap) = Through(b, e, cheap)
  BY <1>2, <1>3
<1>7. CASE a.disk[f].type # "link"
  BY <1>5, <1>7 DEF Fingerprint
<1>8. CASE a.disk[f].type = "link"
  BY <1>1, <1>4, <1>6, <1>8 DEF Fingerprint, e
<1> QED
  BY <1>5, <1>7, <1>8

(* Nor do the lines of the files git lists nowhere.                        *)
LEMMA SameControl ==
  ASSUME NEW a \in AnyTree, NEW b \in AnyTree, Alike(a, b)
  PROVE  ControlLines(a) = ControlLines(b) /\ InputLines(a) = InputLines(b)
<1>1. ASSUME NEW f \in Files, Where[f] # "output"
      PROVE  /\ a.disk[f].type = b.disk[f].type
             /\ \A cheap \in BOOLEAN : Fingerprint(a, f, cheap) = Fingerprint(b, f, cheap)
  BY <1>1, SamePrint
<1>2. {g \in Kind("control") \cup Kind("program") : a.disk[g].type # "absent"}
        = {g \in Kind("control") \cup Kind("program") : b.disk[g].type # "absent"}
  BY <1>1 DEF Kind
<1> DEFINE files == {g \in Kind("control") \cup Kind("program") : a.disk[g].type # "absent"}
           print(t, f) == LineOf("control", f, "", Fingerprint(t, f, Where[f] = "program"))
<1>3. ControlLines(a) = ControlLines(b)
  <2>1. \A f \in files : print(a, f) = print(b, f)
    <3> SUFFICES ASSUME NEW f \in files PROVE print(a, f) = print(b, f)
      OBVIOUS
    <3>1. f \in Files /\ Where[f] # "output" /\ (Where[f] = "program") \in BOOLEAN
      BY DEF Kind
    <3> QED
      BY <1>1, <3>1
  <2>2. ControlLines(a) = {print(a, f) : f \in files} /\ ControlLines(b) = {print(b, f) : f \in files}
    BY <1>2 DEF ControlLines
  <2> HIDE DEF print, files
  <2> QED
    BY <2>1, <2>2
<1>4. InputLines(a) = InputLines(b)
  BY <1>1 DEF InputLines, Kind
<1> QED
  BY <1>3, <1>4

(* A log that grows is seen by no snapshot of what git lists nowhere.      *)
LEMMA GrowthIsUnseen ==
  ASSUME Typed, LogGrows
  PROVE  /\ tree' \in AnyTree /\ Alike(tree, tree')
         /\ \E f \in tree.stdout \cup LogFiles :
              /\ f \in Files /\ tree.disk[f].type = "file"
              /\ tree' = [tree EXCEPT !.disk[f] = File("b", "t", tree.disk[f].exec)]
<1>1. PICK f \in tree.stdout \cup LogFiles :
        /\ tree.disk[f].type = "file"
        /\ tree' = [tree EXCEPT !.disk[f] = File("b", "t", tree.disk[f].exec)]
  BY DEF LogGrows
<1>2. f \in Files /\ tree \in AnyTree
  BY TamperAssumption DEF Typed, AnyTree
<1>3. tree.disk[f].exec \in BOOLEAN
  BY <1>1, <1>2 DEF AnyTree, AnyNode, Link, Absent
<1>4. File("b", "t", tree.disk[f].exec) \in AnyNode
  BY <1>3 DEF AnyNode, File
<1>5. tree' \in AnyTree
  BY <1>1, <1>2, <1>4 DEF AnyTree
<1>6. /\ tree'.stdout = tree.stdout /\ tree'.disk[f].type = "file"
      /\ \A g \in Files \ {f} : tree'.disk[g] = tree.disk[g]
  BY <1>1, <1>2 DEF AnyTree, File
<1>7. Unmoved(tree, tree')
  BY <1>1, <1>2, <1>5, <1>6, NoLinkMoved
<1>8. End(tree.disk, f) = f
  BY <1>1, <1>2, EndIs DEF AnyTree
<1>9. f \in OwnOutputs(tree)
  BY <1>1, <1>8 DEF OwnOutputs
<1>10. \A g \in Files : Seen(tree, tree', g)
  BY <1>1, <1>6, <1>9 DEF Seen
<1>11. \A g \in Files : End(tree.disk, g) \in Files
  BY <1>2, EndIs DEF AnyTree
<1> QED
  BY <1>1, <1>2, <1>5, <1>7, <1>10, <1>11 DEF Alike

-----------------------------------------------------------------------------
(* The invariants                                                          *)

(* git keeps of what is absent that it is.                                 *)
LEMMA StoredAbsent == Stored(Absent) = Absent
BY DEF Stored, Absent

(* What each step does to the tree: a reviewer anything, the loop its own  *)
(* output.                                                                 *)
LEMMA TypedWrites ==
  ASSUME Typed, ReviewerWrites
  PROVE  Typed'
<1>1. tree \in AnyTree
  BY DEF Typed
<1>2. tree' \in AnyTree
  <2>1. CASE \E f \in Files, node \in Nodes, anew \in BOOLEAN :
               tree' = [tree EXCEPT !.disk[f] = node,
                                    !.stdout = IF anew \/ node.type # "file" THEN @ \ {f} ELSE @]
    <3>1. PICK f \in Files, node \in Nodes, anew \in BOOLEAN :
            tree' = [tree EXCEPT !.disk[f] = node,
                                 !.stdout = IF anew \/ node.type # "file" THEN @ \ {f} ELSE @]
      BY <2>1
    <3>2. node \in AnyNode
      BY TamperAssumption
    <3> QED
      BY <1>1, <3>1, <3>2 DEF AnyTree
  <2>2. CASE \E f \in InGit : tree' = [tree EXCEPT !.index[f] = Stored(tree.disk[f])]
    <3>1. PICK f \in Files : tree' = [tree EXCEPT !.index[f] = Stored(tree.disk[f])]
      BY <2>2 DEF InGit, Kind
    <3>2. Stored(tree.disk[f]) \in GitNode
      BY <1>1 DEF AnyTree, GitNode
    <3> QED
      BY <1>1, <3>1, <3>2 DEF AnyTree
  <2>3. CASE \E f, g \in InGit : GitMoves(f, g)
    <3>1. PICK f \in Files, g \in Files :
            tree' = [tree EXCEPT !.disk[g] = tree.disk[f], !.disk[f] = Absent,
                                 !.index[g] = tree.index[f], !.index[f] = Absent,
                                 !.stdout = IF f \in @ THEN (@ \ {f}) \cup {g} ELSE @]
      BY <2>3 DEF GitMoves, InGit, Kind
    <3>2. /\ tree.disk[f] \in AnyNode /\ Absent \in AnyNode
          /\ tree.index[f] \in GitNode /\ Absent \in GitNode
      BY <1>1, StoredAbsent DEF AnyTree, AnyNode, GitNode
    <3> QED
      BY <1>1, <3>1, <3>2 DEF AnyTree
  <2>4. CASE tree' = [tree EXCEPT !.head = tree.index]
    BY <1>1, <2>4 DEF AnyTree
  <2> QED
    BY <2>1, <2>2, <2>3, <2>4 DEF ReviewerWrites
<1>3. UNCHANGED <<at, filters, began, blind>> /\ writes' = writes + 1
  BY Zenon DEF ReviewerWrites
<1>4. writes' \in Nat
  BY <1>3 DEF Typed
<1> QED
  BY <1>2, <1>3, <1>4 DEF Typed

(* Publishing writes files under the outputs' names, and nothing else.     *)
LEMMA TypedPublishes ==
  ASSUME Typed, Publishes
  PROVE  /\ Typed'
         /\ tree'.index = tree.index /\ tree'.head = tree.head /\ tree'.stdout = tree.stdout
         /\ \A f \in Files : \/ tree'.disk[f] = tree.disk[f]
                             \/ Where[f] = "output" /\ tree'.disk[f].type # "link"
<1>1. PICK outputs \in SUBSET Kind("output") :
        tree' = [tree EXCEPT !.disk = [f \in Files |-> IF f \in outputs THEN File("b", "t", FALSE)
                                                       ELSE tree.disk[f]]]
  BY DEF Publishes
<1>2. tree \in AnyTree
  BY DEF Typed
<1>3. File("b", "t", FALSE) \in AnyNode /\ File("b", "t", FALSE).type # "link"
  BY DEF AnyNode, File
<1>4. /\ tree' \in AnyTree
      /\ tree'.index = tree.index /\ tree'.head = tree.head /\ tree'.stdout = tree.stdout
      /\ \A f \in Files : tree'.disk[f] = IF f \in outputs THEN File("b", "t", FALSE)
                                          ELSE tree.disk[f]
  BY <1>1, <1>2, <1>3 DEF AnyTree
<1>5. Typed'
  BY <1>4 DEF Typed, Publishes, checkVars, truthVars
<1> QED
  BY <1>3, <1>4, <1>5 DEF Kind

(* Every step keeps the types.                                             *)
LEMMA TypedInductive ==
  /\ Init => Typed
  /\ Typed /\ [Next]_vars => Typed'
<1>1. ASSUME Init PROVE Typed
  BY <1>1, TamperAssumption DEF Init, Typed
<1>2. ASSUME Typed, [Next]_vars PROVE Typed'
  <2>1. CASE Snapshots
    BY <1>2, <2>1 DEF Typed, Snapshots
  <2>2. CASE ReviewerWrites
    BY <1>2, <2>2, TypedWrites
  <2>3. CASE LogGrows
    <3>1. tree' \in AnyTree
      BY <1>2, <2>3, GrowthIsUnseen
    <3> QED
      BY <1>2, <2>3, <3>1 DEF Typed, LogGrows, checkVars, truthVars
  <2>4. CASE Publishes
    BY <1>2, <2>4, TypedPublishes
  <2>5. CASE ReadsControl
    BY <1>2, <2>5 DEF Typed, ReadsControl, truthVars
  <2>6. CASE Reports
    BY <1>2, <2>6 DEF Typed, Reports
  <2>7. CASE UNCHANGED vars
    BY <1>2, <2>7 DEF Typed, vars, checkVars, truthVars
  <2> QED
    BY <1>2, <2>1, <2>2, <2>3, <2>4, <2>5, <2>6, <2>7 DEF Next
<1> QED
  BY <1>1, <1>2

(* Both snapshots are of the trees they were taken of.                     *)
LEMMA SnapshotsInductive ==
  /\ Init => SnapshotsInv
  /\ Typed /\ SnapshotsInv /\ [Next]_vars => SnapshotsInv'
<1>1. ASSUME Init PROVE SnapshotsInv
  BY <1>1 DEF Init, SnapshotsInv
<1>2. ASSUME Typed, SnapshotsInv, [Next]_vars PROVE SnapshotsInv'
  <2>1. CASE Snapshots
    BY <1>2, <2>1 DEF SnapshotsInv, Snapshots
  <2>2. CASE ReviewerWrites
    BY <1>2, <2>2 DEF SnapshotsInv, ReviewerWrites, checkVars
  <2>3. CASE LogGrows
    <3>1. ControlLines(tree) = ControlLines(tree') /\ InputLines(tree) = InputLines(tree')
      BY <1>2, <2>3, GrowthIsUnseen, SameControl DEF Typed
    <3>2. UNCHANGED <<at, before, control, began, ran, blind>>
      BY <2>3 DEF LogGrows, checkVars, truthVars
    <3> QED
      BY <1>2, <3>1, <3>2 DEF SnapshotsInv
  <2>4. CASE Publishes
    BY <1>2, <2>4 DEF SnapshotsInv, Publishes, checkVars, truthVars
  <2>5. CASE ReadsControl
    BY <1>2, <2>5 DEF SnapshotsInv, ReadsControl, truthVars
  <2>6. CASE Reports
    BY <1>2, <2>6 DEF SnapshotsInv, Reports
  <2>7. CASE UNCHANGED vars
    BY <1>2, <2>7 DEF SnapshotsInv, vars, checkVars, truthVars
  <2> QED
    BY <1>2, <2>1, <2>2, <2>3, <2>4, <2>5, <2>6, <2>7 DEF Next
<1> QED
  BY <1>1, <1>2

(* The loop's own writes keep the round's directory as it was made.        *)
LEMMA StillFresh ==
  ASSUME Typed, RoundIsFresh(began), OnlyTheLoopWrote
  PROVE  RoundIsFresh(tree)
<1>1. \A f \in Files : tree.disk[f] \in AnyNode
  BY DEF Typed, AnyTree
<1>2. "none" \notin Files /\ LogFiles \subseteq Files
  BY TamperAssumption
<1>3. ASSUME NEW f \in Kind("stranger") PROVE tree.disk[f] = Absent
  BY <1>3 DEF OnlyTheLoopWrote, RoundIsFresh, Kind, Absent
<1>4. ASSUME NEW f \in Kind("input") \cup Kind("output") \cup LogFiles
      PROVE  tree.disk[f].type # "link"
  <2>1. f \in Files /\ began.disk[f].type # "link"
    BY <1>2 DEF Kind, RoundIsFresh
  <2> QED
    BY <2>1 DEF OnlyTheLoopWrote
<1>5. ASSUME NEW f \in Files PROVE tree.disk[f].target \notin Kind("output")
  <2>1. CASE tree.disk[f].type = "link"
    BY <2>1 DEF OnlyTheLoopWrote, RoundIsFresh
  <2>2. CASE tree.disk[f].type # "link"
    <3>1. tree.disk[f].target = "none"
      BY <1>1, <2>2, Node DEF File, Absent
    <3> QED
      BY <1>2, <3>1 DEF Kind
  <2> QED
    BY <2>1, <2>2
<1> QED
  BY <1>3, <1>4, <1>5 DEF RoundIsFresh

(* As long as no reviewer writes, the loop's own writes are all there is.  *)
LEMMA QuietInductive ==
  /\ Init => QuietInv
  /\ Typed /\ QuietInv /\ [Next]_vars => QuietInv'
<1>1. ASSUME Init PROVE QuietInv
  BY <1>1, TamperAssumption DEF Init, QuietInv, OnlyTheLoopWrote
<1>2. ASSUME Typed, QuietInv, [Next]_vars PROVE QuietInv'
  <2>1. CASE Snapshots
    <3>1. RoundIsFresh(tree)
      BY <1>2, <2>1, StillFresh DEF QuietInv, Snapshots
    <3>2. began' = tree /\ tree' = tree /\ at' # "snapshot"
      BY <2>1 DEF Snapshots
    <3>3. OnlyTheLoopWrote'
      BY <3>2 DEF OnlyTheLoopWrote
    <3> QED
      BY <3>1, <3>2, <3>3 DEF QuietInv
  <2>2. CASE ReviewerWrites
    <3>1. writes' = writes + 1 /\ began' = began /\ at' = "reviewers"
      BY <2>2, Zenon DEF ReviewerWrites
    <3>2. writes' # 0
      BY <1>2, <3>1 DEF Typed
    <3> QED
      BY <1>2, <3>1, <3>2 DEF QuietInv
  <2>3. CASE LogGrows
    <3>1. PICK f \in tree.stdout \cup LogFiles :
            /\ f \in Files /\ tree.disk[f].type = "file"
            /\ tree' = [tree EXCEPT !.disk[f] = File("b", "t", tree.disk[f].exec)]
      BY <1>2, <2>3, GrowthIsUnseen
    <3>2. /\ tree'.index = tree.index /\ tree'.head = tree.head /\ tree'.stdout = tree.stdout
          /\ tree'.disk[f].type = "file" /\ tree'.disk[f].exec = tree.disk[f].exec
          /\ \A g \in Files \ {f} : tree'.disk[g] = tree.disk[g]
      BY <1>2, <3>1 DEF Typed, AnyTree, File
    <3>3. UNCHANGED <<at, began, writes>>
      BY <2>3 DEF LogGrows, truthVars
    <3>4. ASSUME OnlyTheLoopWrote PROVE OnlyTheLoopWrote'
      BY <3>1, <3>2, <3>3, <3>4 DEF OnlyTheLoopWrote
    <3> QED
      BY <1>2, <3>3, <3>4 DEF QuietInv
  <2>4. CASE Publishes
    <3>1. UNCHANGED <<began, writes>> /\ at' # "snapshot"
      BY <2>4 DEF Publishes, truthVars
    <3>2. /\ tree'.index = tree.index /\ tree'.head = tree.head /\ tree'.stdout = tree.stdout
          /\ \A f \in Files : \/ tree'.disk[f] = tree.disk[f]
                              \/ Where[f] = "output" /\ tree'.disk[f].type # "link"
      BY <1>2, <2>4, TypedPublishes
    <3>3. \A f \in Files : Where[f] = "output" => began.disk[f].type # "link"
      BY <1>2 DEF QuietInv, RoundIsFresh, Kind
    <3>4. ASSUME OnlyTheLoopWrote PROVE OnlyTheLoopWrote'
      BY <3>1, <3>2, <3>3, <3>4 DEF OnlyTheLoopWrote
    <3> QED
      BY <1>2, <3>1, <3>4 DEF QuietInv
  <2>5. CASE ReadsControl
    BY <1>2, <2>5 DEF QuietInv, OnlyTheLoopWrote, ReadsControl, truthVars
  <2>6. CASE Reports
    BY <1>2, <2>6 DEF QuietInv, OnlyTheLoopWrote, Reports
  <2>7. CASE UNCHANGED vars
    BY <1>2, <2>7 DEF QuietInv, OnlyTheLoopWrote, vars, checkVars, truthVars
  <2> QED
    BY <1>2, <2>1, <2>2, <2>3, <2>4, <2>5, <2>6, <2>7 DEF Next
<1> QED
  BY <1>1, <1>2

Inv == Typed /\ SnapshotsInv /\ QuietInv

(* The three together are inductive.                                       *)
LEMMA InvIsInvariant == Spec => []Inv
<1>1. Init => Inv
  BY TypedInductive, SnapshotsInductive, QuietInductive DEF Inv
<1>2. Inv /\ [Next]_vars => Inv'
  BY TypedInductive, SnapshotsInductive, QuietInductive DEF Inv
<1> QED
  BY <1>1, <1>2, PTL DEF Spec

-----------------------------------------------------------------------------
(* The lines of a snapshot                                                 *)

(* A line of a startup file, a hook or a program is of one that is there,  *)
(* and says what it is.                                                    *)
LEMMA ControlSays ==
  ASSUME NEW t \in AnyTree
  PROVE  /\ \A line \in ControlLines(t) :
              /\ line.sort = "control"
              /\ line.file \in Kind("control") \cup Kind("program")
              /\ t.disk[line.file].type # "absent"
              /\ line.print = Fingerprint(t, line.file, Where[line.file] = "program")
         /\ \A f \in Kind("control") \cup Kind("program") :
              t.disk[f].type # "absent" =>
                LineOf("control", f, "", Fingerprint(t, f, Where[f] = "program")) \in ControlLines(t)
<1>1. ASSUME NEW line \in ControlLines(t)
      PROVE  /\ line.sort = "control"
             /\ line.file \in Kind("control") \cup Kind("program")
             /\ t.disk[line.file].type # "absent"
             /\ line.print = Fingerprint(t, line.file, Where[line.file] = "program")
  <2>1. PICK f \in {g \in Kind("control") \cup Kind("program") : t.disk[g].type # "absent"} :
          line = LineOf("control", f, "", Fingerprint(t, f, Where[f] = "program"))
    BY DEF ControlLines
  <2> QED
    BY <2>1 DEF LineOf
<1> QED
  BY <1>1 DEF ControlLines

(* An input of the round always has its line.                              *)
LEMMA InputSays ==
  ASSUME NEW t \in AnyTree
  PROVE  /\ \A line \in InputLines(t) :
              /\ line.sort = "round" /\ line.file \in Kind("input")
              /\ line.print = Fingerprint(t, line.file, FALSE)
         /\ \A f \in Kind("input") :
              LineOf("round", f, "", Fingerprint(t, f, FALSE)) \in InputLines(t)
<1>1. ASSUME NEW line \in InputLines(t)
      PROVE  /\ line.sort = "round" /\ line.file \in Kind("input")
             /\ line.print = Fingerprint(t, line.file, FALSE)
  <2>1. PICK f \in Kind("input") : line = LineOf("round", f, "", Fingerprint(t, f, FALSE))
    BY DEF InputLines
  <2> QED
    BY <2>1 DEF LineOf
<1> QED
  BY <1>1 DEF InputLines

(* git lists a path with each status it has.                               *)
LEMMA ListedIs ==
  ASSUME NEW t
  PROVE  /\ \A entry \in Listed(t) :
              entry.file \in InGit /\ entry.status \in Entries(t, Renames(t), entry.file)
         /\ \A f \in InGit : \A status \in Entries(t, Renames(t), f) :
              [file |-> f, status |-> status] \in Listed(t)
<1> DEFINE of(f) == {[file |-> f, status |-> status] : status \in Entries(t, Renames(t), f)}
<1>1. Listed(t) = UNION {of(f) : f \in InGit}
  BY DEF Listed
<1>2. ASSUME NEW entry \in Listed(t)
      PROVE  entry.file \in InGit /\ entry.status \in Entries(t, Renames(t), entry.file)
  <2>1. PICK f \in InGit : entry \in of(f)
    BY <1>1
  <2> QED
    BY <2>1
<1>3. ASSUME NEW f \in InGit, NEW status \in Entries(t, Renames(t), f)
      PROVE  [file |-> f, status |-> status] \in Listed(t)
  <2>1. [file |-> f, status |-> status] \in of(f)
    OBVIOUS
  <2> HIDE DEF of
  <2> QED
    BY <1>1, <2>1
<1> QED
  BY <1>2, <1>3

(* git's line of a path has a status git gives it, and what it is; there   *)
(* is one of all that repositories within hold.                            *)
LEMMA StatusSays ==
  ASSUME NEW t \in AnyTree
  PROVE  /\ \A line \in StatusLines(t) :
              /\ line.sort = "status"
              /\ \/ /\ line.file \in InGit
                    /\ line.status \in Entries(t, Renames(t), line.file)
                    /\ line.print = Fingerprint(t, line.file, line.status = "!!")
                 \/ /\ line.file = "nested" /\ Recorded(t) # {}
                    /\ line.print = [Mark("dir") EXCEPT !.under = Records(t)]
         /\ \A f \in InGit : \A status \in Entries(t, Renames(t), f) :
              LineOf("status", f, status, Fingerprint(t, f, status = "!!")) \in StatusLines(t)
         /\ Recorded(t) # {} =>
              LineOf("status", "nested", "??", [Mark("dir") EXCEPT !.under = Records(t)])
                \in StatusLines(t)
<1> DEFINE lineOf(entry) == LineOf("status", entry.file, entry.status,
                                   Fingerprint(t, entry.file, entry.status = "!!"))
           files == {lineOf(entry) : entry \in Listed(t)}
           within == LineOf("status", "nested", "??", [Mark("dir") EXCEPT !.under = Records(t)])
<1>1. StatusLines(t) = files \cup (IF Recorded(t) = {} THEN {} ELSE {within})
  BY DEF StatusLines
<1>2. ASSUME NEW line \in files
      PROVE  /\ line.sort = "status"
             /\ line.file \in InGit
             /\ line.status \in Entries(t, Renames(t), line.file)
             /\ line.print = Fingerprint(t, line.file, line.status = "!!")
  <2>1. PICK entry \in Listed(t) :
          line = LineOf("status", entry.file, entry.status,
                        Fingerprint(t, entry.file, entry.status = "!!"))
    OBVIOUS
  <2>2. entry.file \in InGit /\ entry.status \in Entries(t, Renames(t), entry.file)
    BY ListedIs
  <2> QED
    BY <2>1, <2>2 DEF LineOf
<1>3. /\ within.sort = "status" /\ within.file = "nested"
      /\ within.print = [Mark("dir") EXCEPT !.under = Records(t)]
  BY DEF LineOf
<1>4. ASSUME NEW f \in InGit, NEW status \in Entries(t, Renames(t), f)
      PROVE  LineOf("status", f, status, Fingerprint(t, f, status = "!!")) \in files
  <2> DEFINE entry == [file |-> f, status |-> status]
  <2>1. entry \in Listed(t)
    BY ListedIs
  <2>2. entry.file = f /\ entry.status = status
    OBVIOUS
  <2> HIDE DEF entry
  <2>3. lineOf(entry) \in files
    <3> HIDE DEF lineOf
    <3> QED
      BY <2>1
  <2>4. lineOf(entry) = LineOf("status", f, status, Fingerprint(t, f, status = "!!"))
    BY <2>2
  <2> HIDE DEF files, lineOf
  <2> QED
    BY <2>3, <2>4
<1> HIDE DEF files, within
<1>5. \A line \in StatusLines(t) : line \in files \/ (line = within /\ Recorded(t) # {})
  BY <1>1
<1>6. ASSUME NEW line \in StatusLines(t)
      PROVE  /\ line.sort = "status"
             /\ \/ /\ line.file \in InGit
                   /\ line.status \in Entries(t, Renames(t), line.file)
                   /\ line.print = Fingerprint(t, line.file, line.status = "!!")
                \/ /\ line.file = "nested" /\ Recorded(t) # {}
                   /\ line.print = [Mark("dir") EXCEPT !.under = Records(t)]
  BY <1>2, <1>3, <1>5
<1>7. Recorded(t) # {} => within \in StatusLines(t)
  BY <1>1
<1> QED
  BY <1>1, <1>4, <1>6, <1>7 DEF within

(* Some choice of renames is such that there is no further one.            *)
LEMMA RenamesAre ==
  ASSUME NEW t
  PROVE  Renames(t) \in SUBSET Moves(t)
<1> DEFINE M == Moves(t)
           Left(pairs) == Cardinality(M) - Cardinality(pairs)
           S == {n \in Nat : \E pairs \in SUBSET M : OneToOne(pairs) /\ n = Left(pairs)}
<1>1. IsFiniteSet(M) /\ Cardinality(M) \in Nat
  <2>1. InGit \subseteq Files /\ IsFiniteSet(Files)
    BY TamperAssumption DEF InGit, Kind
  <2>2. IsFiniteSet(InGit)
    BY <2>1, FS_Subset
  <2>3. IsFiniteSet(InGit \X InGit)
    BY <2>2, FS_Product
  <2>4. M \subseteq InGit \X InGit
    BY DEF Moves
  <2>5. IsFiniteSet(M)
    BY <2>3, <2>4, FS_Subset
  <2> QED
    BY <2>5, FS_CardinalityType
<1> HIDE DEF M
<1>2. ASSUME NEW pairs \in SUBSET M
      PROVE  IsFiniteSet(pairs) /\ Cardinality(pairs) \in Nat /\ Left(pairs) \in Nat
  <2>1. /\ IsFiniteSet(pairs) /\ Cardinality(pairs) \in Nat
        /\ Cardinality(pairs) <= Cardinality(M)
    BY <1>1, FS_Subset, FS_CardinalityType
  <2> QED
    BY <1>1, <2>1
<1>3. S # {}
  <2>1. {} \in SUBSET M /\ OneToOne({}) /\ Left({}) \in Nat
    BY <1>2 DEF OneToOne
  <2> HIDE DEF Left
  <2> QED
    BY <2>1
<1>4. PICK n \in S : \A m \in S : n <= m
  BY <1>3, LeastOf
<1>5. PICK pairs \in SUBSET M : OneToOne(pairs) /\ n = Left(pairs)
  BY <1>4
<1>6. ASSUME NEW move \in M \ pairs, OneToOne(pairs \cup {move}) PROVE FALSE
  <2>1. Cardinality(pairs \cup {move}) = Cardinality(pairs) + 1
    BY <1>2, <1>6, FS_AddElement
  <2>2. pairs \cup {move} \in SUBSET M /\ Left(pairs \cup {move}) \in Nat
    BY <1>2, <1>6
  <2>3. Left(pairs \cup {move}) \in S
    <3> HIDE DEF Left
    <3> QED
      BY <1>6, <2>2
  <2>4. Left(pairs \cup {move}) = Left(pairs) - 1
    BY <1>1, <1>2, <2>1
  <2>5. n <= Left(pairs) - 1
    BY <1>4, <2>3, <2>4
  <2> QED
    BY <1>2, <1>5, <2>5
<1>7. \E chosen \in SUBSET M :
        OneToOne(chosen) /\ \A move \in M \ chosen : ~OneToOne(chosen \cup {move})
  BY <1>5, <1>6
<1> QED
  BY <1>7 DEF Renames, M

(* git does not list a path that is as it was committed, nor one that left *)
(* the index and the tree when it lists it under its new name; and it does *)
(* list every other.                                                       *)
LEMMA UnlistedIsCommitted ==
  ASSUME NEW t \in AnyTree, NEW f \in Files, Entries(t, Renames(t), f) = {}
  PROVE  \/ Stored(t.disk[f]) = t.index[f] /\ t.index[f] = t.head[f]
         \/ /\ t.disk[f] = Absent
            /\ \E move \in Renames(t) :
                 /\ move[1] = f /\ move[2] \in InGit
                 /\ Entries(t, Renames(t), move[2]) \cap {"R ", "RM"} # {}
<1>1. \A status \in Statuses : status \notin Entries(t, Renames(t), f)
  OBVIOUS
<1>2. /\ ~Untracked(t, f)
      /\ Staged(t, f) => IsOld(Renames(t), f) \/ IsNew(Renames(t), f)
      /\ ~IsNew(Renames(t), f)
      /\ Modified(t, f) => Staged(t, f)
  BY <1>1 DEF Entries, Statuses
<1>3. CASE ~Staged(t, f)
  BY <1>2, <1>3, StoredAbsent DEF Untracked, Staged, Modified
<1>4. CASE Staged(t, f)
  <2>1. PICK move \in Renames(t) : move[1] = f
    BY <1>2, <1>4 DEF IsOld
  <2>2. move \in Moves(t)
    BY RenamesAre
  <2>3. t.index[f] = Absent /\ move[2] \in InGit
    BY <2>1, <2>2 DEF Moves
  <2>4. t.disk[f] = Absent
    BY <1>2, <2>3 DEF Untracked
  <2>5. IsNew(Renames(t), move[2])
    BY DEF IsNew
  <2>6. "R " \in Entries(t, Renames(t), move[2]) \/ "RM" \in Entries(t, Renames(t), move[2])
    BY <2>5 DEF Entries, Statuses
  <2> QED
    BY <2>1, <2>3, <2>4, <2>6
<1> QED
  BY <1>3, <1>4

(* Two equal records of what repositories within hold: whatever is there,  *)
(* and not the loop's own, looks the same, or is a link to the same place. *)
LEMMA RecordsTell ==
  ASSUME NEW a \in AnyTree, NEW b \in AnyTree, Records(a) = Records(b),
         NEW f \in Kind("nested"), f \notin OwnOutputs(a), f \notin OwnOutputs(b)
  PROVE  \/ Holds(a, f) = Holds(b, f)
         \/ Looks(a, f) = Looks(b, f)
         \/ a.disk[f].type = "link" /\ a.disk[f].target = b.disk[f].target
<1> DEFINE print(t, g) == IF t.disk[g].type = "link"
                          THEN [Mark("link") EXCEPT !.link = t.disk[g].target]
                          ELSE Content(t, g, TRUE)
           record(t, g) == [file |-> g, print |-> print(t, g)]
<1>1. /\ f \in Files /\ a.disk \in [Files -> AnyNode] /\ b.disk \in [Files -> AnyNode]
  BY DEF Kind, AnyTree
<1>2. ASSUME NEW s \in AnyTree, NEW t \in AnyTree, Records(s) = Records(t), f \in Recorded(s)
      PROVE  f \in Recorded(t) /\ print(s, f) = print(t, f)
  <2> HIDE DEF print
  <2>1. Records(s) = {record(s, g) : g \in Recorded(s)} /\ Records(t) = {record(t, g) : g \in Recorded(t)}
    BY DEF Records, print
  <2>2. record(s, f) \in Records(t)
    BY <1>2, <2>1
  <2>3. PICK g \in Recorded(t) : record(s, f) = record(t, g)
    BY <2>1, <2>2
  <2>4. record(s, f).file = f /\ record(t, g).file = g
        /\ record(s, f).print = print(s, f) /\ record(t, g).print = print(t, g)
    OBVIOUS
  <2> QED
    BY <2>3, <2>4
<1>3. /\ f \in Recorded(a) <=> a.disk[f].type # "absent"
      /\ f \in Recorded(b) <=> b.disk[f].type # "absent"
  BY DEF Recorded
<1>4. CASE a.disk[f].type = "absent"
  <2>1. b.disk[f].type = "absent"
    BY <1>2, <1>3, <1>4
  <2>2. a.disk[f] = Absent /\ b.disk[f] = Absent
    BY <1>1, <1>4, <2>1, Node
  <2>3. End(a.disk, f) = f /\ End(b.disk, f) = f
    BY <1>1, <1>4, <2>1, EndIs
  <2> QED
    BY <2>2, <2>3 DEF Holds
<1>5. CASE a.disk[f].type # "absent"
  <2>1. b.disk[f].type # "absent" /\ print(a, f) = print(b, f)
    BY <1>2, <1>3, <1>5
  <2>2. ASSUME NEW t \in AnyTree
        PROVE  /\ Content(t, f, TRUE).form # "link"
               /\ [Mark("link") EXCEPT !.link = t.disk[f].target].form = "link"
               /\ [Mark("link") EXCEPT !.link = t.disk[f].target].link = t.disk[f].target
    BY <1>1, PrintType DEF Mark, Prints
  <2>3. CASE a.disk[f].type = "link"
    <3>1. b.disk[f].type = "link"
      BY <2>1, <2>2, <2>3
    <3> QED
      BY <2>1, <2>2, <2>3, <3>1
  <2>4. CASE a.disk[f].type # "link"
    <3>1. b.disk[f].type # "link"
      BY <2>1, <2>2, <2>4
    <3>2. a.disk[f].type = "file" /\ b.disk[f].type = "file"
      BY <1>1, <1>5, <2>1, <2>4, <3>1, Node
    <3>3. Content(a, f, TRUE) = Content(b, f, TRUE)
      BY <2>1, <2>4, <3>1
    <3>4. a.disk[f].exec = b.disk[f].exec /\ a.disk[f].stamp = b.disk[f].stamp
      BY <3>2, <3>3 DEF Content, Mark
    <3>5. End(a.disk, f) = f /\ End(b.disk, f) = f
      BY <1>1, <3>2, EndIs
    <3>6. a.disk[f].target = b.disk[f].target
      <4>1. a.disk[f] \in AnyNode /\ b.disk[f] \in AnyNode
        BY <1>1
      <4> QED
        BY <3>2, <4>1, Node DEF File
    <3> QED
      BY <3>2, <3>4, <3>5, <3>6 DEF Looks
  <2> QED
    BY <2>3, <2>4
<1> QED
  BY <1>4, <1>5

-----------------------------------------------------------------------------
(* What git is run with                                                    *)

(* Two snapshots whose control lines are the same are of the same hooks,   *)
(* startup files and programs, as far as their fingerprints tell.          *)
LEMMA ControlTells ==
  ASSUME NEW a \in AnyTree, NEW b \in AnyTree,
         NEW f \in Kind("control") \cup Kind("program"),
         \A line : line.sort = "control" /\ line.file = f =>
                      (line \in ControlLines(a) <=> line \in ControlLines(b))
  PROVE  \/ End(a.disk, f) \in OwnOutputs(a) /\ End(b.disk, f) \in OwnOutputs(b)
         \/ Holds(a, f) = Holds(b, f)
         \/ Where[f] = "program" /\ Looks(a, f) = Looks(b, f)
<1> DEFINE cheap == Where[f] = "program"
           line(t) == LineOf("control", f, "", Fingerprint(t, f, cheap))
<1>1. f \in Files /\ cheap \in BOOLEAN
  BY DEF Kind
<1>2. \A t : line(t).sort = "control" /\ line(t).file = f /\ line(t).print = Fingerprint(t, f, cheap)
  BY DEF LineOf
<1>3. ASSUME NEW s \in AnyTree, NEW t \in AnyTree, s.disk[f].type # "absent",
             line(s) \in ControlLines(t)
      PROVE  t.disk[f].type # "absent" /\ Fingerprint(s, f, cheap) = Fingerprint(t, f, cheap)
  <2>1. /\ line(s).file = f /\ line(s).print = Fingerprint(s, f, cheap)
    BY <1>2
  <2> HIDE DEF line
  <2>2. /\ t.disk[line(s).file].type # "absent"
        /\ line(s).print = Fingerprint(t, line(s).file, Where[line(s).file] = "program")
    BY <1>3, ControlSays
  <2> QED
    BY <2>1, <2>2
<1>4. CASE a.disk[f].type = "absent" /\ b.disk[f].type = "absent"
  <2>1. a.disk \in [Files -> AnyNode] /\ b.disk \in [Files -> AnyNode]
    BY DEF AnyTree
  <2>2. a.disk[f] = Absent /\ b.disk[f] = Absent
    BY <1>1, <1>4, <2>1, Node
  <2>3. End(a.disk, f) = f /\ End(b.disk, f) = f
    BY <1>1, <1>4, <2>1, EndIs
  <2> QED
    BY <2>2, <2>3 DEF Holds
<1>5. CASE a.disk[f].type # "absent" \/ b.disk[f].type # "absent"
  <2>1. /\ a.disk[f].type # "absent" => line(a) \in ControlLines(a)
        /\ b.disk[f].type # "absent" => line(b) \in ControlLines(b)
    BY ControlSays
  <2>2. /\ line(a) \in ControlLines(a) => line(a) \in ControlLines(b)
        /\ line(b) \in ControlLines(b) => line(b) \in ControlLines(a)
    <3> HIDE DEF line
    <3> QED
      BY <1>2
  <2>3. Fingerprint(a, f, cheap) = Fingerprint(b, f, cheap)
    BY <1>3, <1>5, <2>1, <2>2
  <2> HIDE DEF cheap
  <2>4. \/ End(a.disk, f) \in OwnOutputs(a) /\ End(b.disk, f) \in OwnOutputs(b)
        \/ ~cheap /\ Holds(a, f) = Holds(b, f)
        \/ cheap /\ Looks(a, f) = Looks(b, f)
    BY <1>1, <2>3, PrintTells
  <2> QED
    BY <2>4 DEF cheap
<1> QED
  BY <1>4, <1>5

(* Of the lines of the first snapshot, those that are of control files are *)
(* the control lines.                                                      *)
LEMMA ControlsAre ==
  ASSUME Typed, SnapshotsInv, at = "status"
  PROVE  Controls(control) = ControlLines(tree) /\ Controls(before) = ControlLines(began)
<1>1. tree \in AnyTree /\ began \in AnyTree
  BY DEF Typed
<1>2. ASSUME NEW t \in AnyTree, NEW lines,
             \A line \in lines : line.sort \in {"status", "failed"}
      PROVE  Controls(ControlLines(t) \cup InputLines(t) \cup lines) = ControlLines(t)
  <2>1. \A line \in ControlLines(t) : line.sort = "control"
    BY ControlSays
  <2>2. \A line \in InputLines(t) : line.sort = "round"
    BY InputSays
  <2> QED
    BY <1>2, <2>1, <2>2 DEF Controls
<1>3. Controls(control) = ControlLines(tree)
  <2>1. control = ControlLines(tree) \cup InputLines(tree) \cup {}
    BY DEF SnapshotsInv
  <2>2. Controls(ControlLines(tree) \cup InputLines(tree) \cup {}) = ControlLines(tree)
    BY <1>1, <1>2
  <2> QED
    BY <2>1, <2>2
<1>4. Controls(before) = ControlLines(began)
  <2> DEFINE rest == IF blind THEN {FailedLine("first")} ELSE StatusLines(began)
  <2>1. before = ControlLines(began) \cup InputLines(began) \cup rest
    BY DEF SnapshotsInv
  <2>2. FailedLine("first").sort = "failed"
    BY DEF FailedLine, LineOf
  <2>3. \A line \in StatusLines(began) : line.sort = "status"
    BY <1>1, StatusSays
  <2>4. \A line \in rest : line.sort \in {"status", "failed"}
    BY <2>2, <2>3
  <2> HIDE DEF rest
  <2>5. Controls(ControlLines(began) \cup InputLines(began) \cup rest) = ControlLines(began)
    BY <1>1, <1>2, <2>4
  <2> QED
    BY <2>1, <2>5
<1> QED
  BY <1>3, <1>4

(* The check runs git only when all that git would run is what it was.     *)
LEMMA GitRunsInductive ==
  /\ Init => GitRunsNothingPlanted
  /\ Inv /\ GitRunsNothingPlanted /\ [Next]_vars => GitRunsNothingPlanted'
<1>1. ASSUME Init PROVE GitRunsNothingPlanted
  BY <1>1 DEF Init, GitRunsNothingPlanted
<1>2. ASSUME Inv, GitRunsNothingPlanted, [Next]_vars PROVE GitRunsNothingPlanted'
  <2>0. Typed /\ SnapshotsInv /\ (at # "done" => ran = {})
    BY <1>2 DEF Inv, SnapshotsInv
  <2>1. CASE ran' = {}
    BY <2>1 DEF GitRunsNothingPlanted
  <2>2. CASE Reports /\ ran' # {}
    <3>1. /\ at = "status" /\ UNCHANGED <<tree, began, filters>>
          /\ ControlIsTheSame /\ ran' = WouldRun
      <4>1. at = "status" /\ UNCHANGED <<tree, began, filters>>
        BY <2>2 DEF Reports
      <4>2. ~(UNCHANGED ran)
        BY <2>0, <2>2, <4>1
      <4> QED
        BY <2>2, <4>1, <4>2, Zenon DEF Reports
    <3>2. ControlLines(tree) = ControlLines(began)
      BY <2>0, <3>1, ControlsAre DEF ControlIsTheSame
    <3>3. tree \in AnyTree /\ began \in AnyTree
      BY <2>0 DEF Typed
    <3>4. ASSUME NEW f \in ran'
          PROVE  \/ Holds(tree, f) = Holds(began, f)
                 \/ IsOwn(f)
                 \/ Where[f] = "program" /\ Looks(tree, f) = Looks(began, f)
                 \/ f = Filter /\ "unread" \in filters
      <4>1. CASE f \in Kind("control") \cup Kind("program")
        BY <3>2, <3>3, <4>1, ControlTells DEF IsOwn
      <4>2. CASE f \notin Kind("control") \cup Kind("program")
        <5>1. f = Filter /\ filters \ SwitchedOff # {}
          BY <3>1, <4>2 DEF WouldRun
        <5>2. filters \in SUBSET Configs
          BY <2>0 DEF Typed
        <5> QED
          BY <5>1, <5>2 DEF SwitchedOff, Configs
      <4> QED
        BY <4>1, <4>2
    <3>5. ASSUME NEW f \in ran'
          PROVE  \/ Holds(tree', f) = Holds(began', f)
                 \/ IsOwn(f)'
                 \/ Where[f] = "program" /\ Looks(tree', f) = Looks(began', f)
                 \/ f = Filter /\ "unread" \in filters'
      <4>1. tree' = tree /\ began' = began /\ filters' = filters
        BY <3>1
      <4>2. IsOwn(f)' <=> IsOwn(f)
        BY <4>1 DEF IsOwn
      <4> QED
        BY <3>4, <4>1, <4>2
    <3> QED
      BY <3>5 DEF GitRunsNothingPlanted
  <2>3. CASE UNCHANGED vars
    BY <1>2, <2>3 DEF GitRunsNothingPlanted, IsOwn, vars, truthVars
  <2>4. ASSUME Snapshots \/ ReviewerWrites \/ LogGrows \/ Publishes \/ ReadsControl
        PROVE  ran' = {}
    <3>1. at # "done" /\ ran' = ran
      BY <2>4, Zenon DEF Snapshots, ReviewerWrites, LogGrows, Publishes, ReadsControl, truthVars
    <3> QED
      BY <2>0, <3>1
  <2> QED
    BY <1>2, <2>1, <2>2, <2>3, <2>4 DEF Next
<1> QED
  BY <1>1, <1>2

(* The check's git status runs no hook, program or filter that a reviewer  *)
(* planted or changed, whatever links the trees hold.                      *)
THEOREM GitRunsCorrect == Spec => []GitRunsNothingPlanted
<1>1. Inv /\ GitRunsNothingPlanted /\ [Next]_vars => GitRunsNothingPlanted'
  BY GitRunsInductive
<1> QED
  BY <1>1, InvIsInvariant, GitRunsInductive, PTL DEF Spec

-----------------------------------------------------------------------------
(* What is reported                                                        *)

(* The second snapshot: the lines it shares with the first, and git's, or  *)
(* one that says they could not be had.                                    *)
Rest(t, rest) ==
  rest \in {StatusLines(t), {FailedLine("first")}, {FailedLine("second")}, {SkippedLine}}

Snapshot(t, rest) == ControlLines(t) \cup InputLines(t) \cup rest

(* Of which each sort of line is in a part of its own.                     *)
LEMMA SortsOfLines ==
  ASSUME NEW t \in AnyTree, NEW rest, Rest(t, rest), NEW line
  PROVE  /\ line.sort = "control" =>
              (line \in Snapshot(t, rest) <=> line \in ControlLines(t))
         /\ line.sort = "round" =>
              (line \in Snapshot(t, rest) <=> line \in InputLines(t))
         /\ line.sort \in {"status", "failed", "skipped"} =>
              (line \in Snapshot(t, rest) <=> line \in rest)
<1>1. line \in ControlLines(t) => line.sort = "control"
  BY ControlSays
<1>2. line \in InputLines(t) => line.sort = "round"
  BY InputSays
<1>3. line \in StatusLines(t) => line.sort = "status"
  BY StatusSays
<1>4. /\ FailedLine("first").sort = "failed" /\ FailedLine("second").sort = "failed"
      /\ SkippedLine.sort = "skipped"
  BY DEF FailedLine, SkippedLine, LineOf
<1>5. line \in rest => line.sort \in {"status", "failed", "skipped"}
  BY <1>3, <1>4 DEF Rest
<1> QED
  BY <1>1, <1>2, <1>5 DEF Snapshot

(* The report compares two such snapshots, of the tree the round began     *)
(* with and of the tree as it is; that one is not whole is known.          *)
LEMMA ReportIs ==
  ASSUME Inv, Reports
  PROVE  /\ Rest(began, IF blind THEN {FailedLine("first")} ELSE StatusLines(began))
         /\ before = Snapshot(began, IF blind THEN {FailedLine("first")} ELSE StatusLines(began))
         /\ \E rest :
              /\ Rest(tree, rest) /\ touched' = Changed(Snapshot(tree, rest)) \cup Strangers
              /\ \/ rest = StatusLines(tree) /\ blind' = blind
                 \/ rest \in {{SkippedLine}, {FailedLine("second")}} /\ blind' = TRUE
<1>1. at = "status" /\ Typed /\ SnapshotsInv
  BY Zenon DEF Reports, Inv
<1>2. control = ControlLines(tree) \cup InputLines(tree)
  BY <1>1 DEF SnapshotsInv
<1>3. \A rest : control \cup rest = Snapshot(tree, rest)
  BY <1>2 DEF Snapshot
<1>4. before = Snapshot(began, IF blind THEN {FailedLine("first")} ELSE StatusLines(began))
  BY <1>1 DEF SnapshotsInv, Snapshot
<1>5. \/ touched' = Changed(control \cup {SkippedLine}) \cup Strangers /\ blind' = TRUE
      \/ \E failed \in BOOLEAN :
           /\ touched' = Changed(control \cup (IF failed THEN {FailedLine("second")}
                                               ELSE StatusLines(tree)))
                           \cup Strangers
           /\ blind' = (blind \/ failed)
  BY Zenon DEF Reports
<1>6. CASE touched' = Changed(control \cup {SkippedLine}) \cup Strangers /\ blind' = TRUE
  BY <1>3, <1>4, <1>6 DEF Rest
<1>7. ASSUME NEW failed \in BOOLEAN,
             touched' = Changed(control \cup (IF failed THEN {FailedLine("second")}
                                              ELSE StatusLines(tree)))
                          \cup Strangers,
             blind' = (blind \/ failed)
      PROVE  \E rest :
               /\ Rest(tree, rest) /\ touched' = Changed(Snapshot(tree, rest)) \cup Strangers
               /\ \/ rest = StatusLines(tree) /\ blind' = blind
                  \/ rest \in {{SkippedLine}, {FailedLine("second")}} /\ blind' = TRUE
  <2>1. CASE failed
    BY <1>3, <1>7, <2>1 DEF Rest
  <2>2. CASE ~failed
    BY <1>1, <1>3, <1>7, <2>2 DEF Rest, Typed
  <2> QED
    BY <2>1, <2>2
<1>8. Rest(began, IF blind THEN {FailedLine("first")} ELSE StatusLines(began))
  BY DEF Rest
<1> QED
  BY <1>4, <1>5, <1>6, <1>7, <1>8

(* A path of which no line is reported holds what it held, or is conceded. *)
LEMMA UnnamedIsConceded ==
  ASSUME Inv, NEW rest, Rest(tree, rest), NEW first, Rest(began, first),
         before = Snapshot(began, first),
         NEW f \in Files,
         Where[f] \in {"tree", "ignored", "nested"} =>
           rest = StatusLines(tree) /\ first = StatusLines(began),
         \A entry \in Changed(Snapshot(tree, rest)) \cup Strangers :
           entry.line.file # f /\ (Where[f] = "nested" => entry.line.file # "nested")
  PROVE  \/ Holds(tree, f) = Holds(began, f) \/ Conceded(f)
         \/ \E move \in Renames(tree) :
              /\ move[1] = f
              /\ \E entry \in Changed(Snapshot(tree, rest)) : entry.line.file = move[2]
<1> DEFINE now == Snapshot(tree, rest)
<1>1. /\ tree \in AnyTree /\ began \in AnyTree /\ RoundIsFresh(began)
      /\ tree.disk \in [Files -> AnyNode] /\ began.disk \in [Files -> AnyNode]
  BY DEF Inv, Typed, QuietInv, AnyTree
<1>2. ASSUME NEW line, line.file = f \/ (Where[f] = "nested" /\ line.file = "nested")
      PROVE  line \in now <=> line \in before
  <2> HIDE DEF now
  <2>1. line \in now \ before => [gone |-> FALSE, line |-> line] \in Changed(now)
    BY DEF Changed
  <2>2. line \in before \ now => [gone |-> TRUE, line |-> line] \in Changed(now)
    BY DEF Changed
  <2>3. \A entry \in Changed(now) :
          entry.line.file # f /\ (Where[f] = "nested" => entry.line.file # "nested")
    BY DEF now
  <2> QED
    BY <1>2, <2>1, <2>2, <2>3
<1> HIDE DEF now
<1>3. f # "nested" /\ Where[f] \in Kinds
  BY TamperAssumption
<1>4. CASE Where[f] \in {"control", "program"}
  <2>1. f \in Kind("control") \cup Kind("program")
    BY <1>4 DEF Kind
  <2>2. ASSUME NEW line, line.sort = "control", line.file = f
        PROVE  line \in ControlLines(tree) <=> line \in ControlLines(began)
    <3>1. line \in now <=> line \in before
      BY <1>2, <2>2
    <3> QED
      BY <1>1, <2>2, <3>1, SortsOfLines DEF now
  <2>3. \/ End(tree.disk, f) \in OwnOutputs(tree) /\ End(began.disk, f) \in OwnOutputs(began)
        \/ Holds(tree, f) = Holds(began, f)
        \/ Where[f] = "program" /\ Looks(tree, f) = Looks(began, f)
    BY <1>1, <2>1, <2>2, ControlTells
  <2> QED
    BY <2>3 DEF Conceded, IsOwn
<1>5. CASE Where[f] = "input"
  <2> DEFINE line == LineOf("round", f, "", Fingerprint(tree, f, FALSE))
  <2>1. line \in InputLines(tree) /\ f \in Kind("input")
    BY <1>1, <1>5, InputSays DEF Kind
  <2>2. line.sort = "round" /\ line.file = f /\ line.print = Fingerprint(tree, f, FALSE)
    BY DEF LineOf
  <2> HIDE DEF line
  <2>3. line \in InputLines(began)
    BY <1>1, <1>2, <2>1, <2>2, SortsOfLines DEF now
  <2>4. Fingerprint(tree, f, FALSE) = Fingerprint(began, f, FALSE)
    BY <1>1, <2>2, <2>3, InputSays
  <2>5. \/ End(tree.disk, f) \in OwnOutputs(tree) /\ End(began.disk, f) \in OwnOutputs(began)
        \/ Holds(tree, f) = Holds(began, f)
    BY <1>1, <2>4, PrintTells
  <2> QED
    BY <2>5 DEF Conceded, IsOwn
<1>6. CASE Where[f] \in {"tree", "ignored"}
  <2>0. rest = StatusLines(tree) /\ first = StatusLines(began)
    BY <1>6
  <2>3. f \in InGit
    BY <1>6 DEF InGit, Kind
  <2>1. ASSUME Entries(tree, Renames(tree), f) = {}, tree.disk[f] = Absent,
               NEW move \in Renames(tree), move[1] = f, move[2] \in InGit,
               NEW status \in {"R ", "RM"}, status \in Entries(tree, Renames(tree), move[2])
        PROVE  \/ Holds(tree, f) = Holds(began, f) \/ Conceded(f)
               \/ \E entry \in Changed(now) : entry.line.file = move[2]
    <3> DEFINE line == LineOf("status", move[2], status, Fingerprint(tree, move[2], status = "!!"))
    <3>1. line \in StatusLines(tree)
      BY <1>1, <2>1, StatusSays
    <3>2. line.sort = "status" /\ line.file = move[2] /\ line.status = status
      BY DEF LineOf
    <3> HIDE DEF line
    <3>3. line \in now
      BY <1>1, <2>0, <3>1, <3>2, SortsOfLines DEF now
    <3>4. CASE line \notin before
      <4>1. [gone |-> FALSE, line |-> line] \in Changed(now)
        BY <3>3, <3>4 DEF Changed
      <4> QED
        BY <3>2, <4>1
    <3>5. CASE line \in before
      <4>1. line \in StatusLines(began)
        BY <1>1, <2>0, <3>2, <3>5, SortsOfLines
      <4>2. move[2] # "nested"
        BY <2>1, TamperAssumption DEF InGit, Kind
      <4>3. status \in Entries(began, Renames(began), move[2])
        BY <1>1, <3>2, <4>1, <4>2, StatusSays
      <4>4. PICK other \in Renames(began) : other[2] = move[2]
        BY <2>1, <4>3 DEF Entries, IsNew
      <4>5. CASE other[1] # f
        BY <2>1, <4>4, <4>5 DEF Conceded
      <4>6. CASE other[1] = f
        <5>1. began.index[f] = Absent
          BY <4>6, RenamesAre DEF Moves
        <5>2. began.disk[f] = Absent
          <6>1. SUFFICES ASSUME began.disk[f] # Absent PROVE FALSE
            OBVIOUS
          <6>2. PICK st \in {"!!", "??"} : st \in Entries(began, Renames(began), f)
            BY <5>1, <6>1 DEF Entries, Statuses, Untracked
          <6> DEFINE was == LineOf("status", f, st, Fingerprint(began, f, st = "!!"))
          <6>3. was \in StatusLines(began)
            BY <1>1, <2>3, <6>2, StatusSays
          <6>4. was.sort = "status" /\ was.file = f
            BY DEF LineOf
          <6> HIDE DEF was
          <6>5. was \in StatusLines(tree)
            BY <1>1, <1>2, <2>0, <6>3, <6>4, SortsOfLines DEF now
          <6> QED
            BY <1>1, <1>3, <2>1, <6>4, <6>5, StatusSays
        <5>3. tree.disk[f] = Absent
          BY <2>1, Zenon
        <5>4. Absent.type = "absent"
          BY DEF Absent
        <5>5. End(tree.disk, f) = f /\ End(began.disk, f) = f
          BY <1>1, <5>2, <5>3, <5>4, EndIs
        <5> QED
          BY <5>2, <5>3, <5>5 DEF Holds
      <4> QED
        BY <4>5, <4>6
    <3> QED
      BY <3>4, <3>5
  <2>2. CASE Entries(tree, Renames(tree), f) # {}
    <3>1. PICK status \in Entries(tree, Renames(tree), f) : TRUE
      BY <2>2
    <3> DEFINE cheap == status = "!!"
               line == LineOf("status", f, status, Fingerprint(tree, f, cheap))
    <3>2. f \in InGit
      BY <1>6 DEF InGit, Kind
    <3>3. line \in StatusLines(tree)
      BY <1>1, <3>2, StatusSays
    <3>4. /\ line.sort = "status" /\ line.file = f /\ line.status = status
          /\ line.print = Fingerprint(tree, f, cheap)
      BY DEF LineOf
    <3> HIDE DEF line
    <3>5. line \in StatusLines(began)
      BY <1>1, <1>2, <1>6, <3>3, <3>4, SortsOfLines DEF now
    <3>6. line.print = Fingerprint(began, f, cheap)
      BY <1>1, <1>3, <3>4, <3>5, StatusSays
    <3>7. cheap \in BOOLEAN /\ (cheap => Where[f] = "ignored")
      BY DEF Entries
    <3> HIDE DEF cheap
    <3>8. \/ End(tree.disk, f) \in OwnOutputs(tree) /\ End(began.disk, f) \in OwnOutputs(began)
          \/ ~cheap /\ Holds(tree, f) = Holds(began, f)
          \/ cheap /\ Looks(tree, f) = Looks(began, f)
      BY <1>1, <3>4, <3>6, <3>7, PrintTells
    <3> QED
      BY <3>7, <3>8 DEF Conceded, IsOwn
  <2>4. CASE Entries(tree, Renames(tree), f) = {}
    <3>1. CASE Stored(tree.disk[f]) = tree.index[f] /\ tree.index[f] = tree.head[f]
      BY <1>6, <3>1 DEF Conceded
    <3>2. CASE ~(Stored(tree.disk[f]) = tree.index[f] /\ tree.index[f] = tree.head[f])
      <4>0. /\ tree.disk[f] = Absent
            /\ \E move \in Renames(tree) :
                 /\ move[1] = f /\ move[2] \in InGit
                 /\ Entries(tree, Renames(tree), move[2]) \cap {"R ", "RM"} # {}
        BY <1>1, <2>4, <3>2, UnlistedIsCommitted, Zenon
      <4>1. PICK move \in Renames(tree) :
              /\ tree.disk[f] = Absent /\ move[1] = f /\ move[2] \in InGit
              /\ Entries(tree, Renames(tree), move[2]) \cap {"R ", "RM"} # {}
        BY <4>0
      <4>2. PICK status \in {"R ", "RM"} : status \in Entries(tree, Renames(tree), move[2])
        BY <4>1
      <4>3. \/ Holds(tree, f) = Holds(began, f) \/ Conceded(f)
            \/ \E entry \in Changed(now) : entry.line.file = move[2]
        BY <2>1, <2>4, <4>1, <4>2
      <4> QED
        BY <4>1, <4>3 DEF now
    <3> QED
      BY <3>1, <3>2
  <2> QED
    BY <2>2, <2>4
<1>7. CASE Where[f] = "nested"
  <2>1. ASSUME NEW s \in AnyTree, NEW t \in AnyTree, Recorded(s) # {},
               \A line : line.sort = "status" /\ line.file = "nested" =>
                            (line \in StatusLines(s) => line \in StatusLines(t))
        PROVE  Recorded(t) # {} /\ Records(s) = Records(t)
    <3> DEFINE line == LineOf("status", "nested", "??", [Mark("dir") EXCEPT !.under = Records(s)])
    <3>1. line \in StatusLines(s)
      BY <2>1, StatusSays
    <3>2. /\ line.sort = "status" /\ line.file = "nested"
          /\ line.print = [Mark("dir") EXCEPT !.under = Records(s)]
      BY DEF LineOf
    <3> HIDE DEF line
    <3>3. line \in StatusLines(t)
      BY <2>1, <3>1, <3>2
    <3>4. line.file \notin InGit
      BY <3>2, TamperAssumption DEF InGit, Kind
    <3>5. /\ Recorded(t) # {}
          /\ [Mark("dir") EXCEPT !.under = Records(s)] = [Mark("dir") EXCEPT !.under = Records(t)]
      BY <3>2, <3>3, <3>4, StatusSays
    <3> QED
      BY <3>5 DEF Mark
  <2>2. \A line : line.sort = "status" /\ line.file = "nested" =>
                     (line \in StatusLines(tree) <=> line \in StatusLines(began))
    BY <1>1, <1>2, <1>7, SortsOfLines DEF now
  <2>3. Records(tree) = Records(began)
    <3>1. CASE Recorded(tree) # {}
      BY <1>1, <2>1, <2>2, <3>1
    <3>2. CASE Recorded(began) # {}
      BY <1>1, <2>1, <2>2, <3>2
    <3>3. CASE Recorded(tree) = {} /\ Recorded(began) = {}
      BY <3>3 DEF Records
    <3> QED
      BY <3>1, <3>2, <3>3
  <2>4. CASE f \in OwnOutputs(tree) \cup OwnOutputs(began)
    BY <1>7, <2>4 DEF Conceded
  <2>5. CASE f \notin OwnOutputs(tree) /\ f \notin OwnOutputs(began)
    <3>1. \/ Holds(tree, f) = Holds(began, f)
          \/ Looks(tree, f) = Looks(began, f)
          \/ tree.disk[f].type = "link" /\ tree.disk[f].target = began.disk[f].target
      <4>1. f \in Kind("nested")
        BY <1>7 DEF Kind
      <4> QED
        BY <1>1, <2>3, <2>5, <4>1, RecordsTell
    <3> QED
      BY <1>7, <3>1 DEF Conceded
  <2> QED
    BY <2>4, <2>5
<1>8. CASE Where[f] \in {"output", "stranger"}
  <2> DEFINE entry == [gone |-> FALSE, line |-> LineOf("stranger", f, "??", Mark("stranger"))]
             there == {g \in Kind("stranger") : tree.disk[g].type # "absent"}
                        \cup {g \in Kind("input") \cup Kind("output") : tree.disk[g].type = "link"}
  <2>1. entry.line.file = f
    BY DEF LineOf
  <2>2. f \notin there
    <3>1. f \in there => entry \in Strangers
      BY DEF Strangers
    <3> HIDE DEF there, entry
    <3> QED
      BY <2>1, <3>1
  <2>3. CASE Where[f] = "output"
    <3>1. tree.disk[f].type # "link"
      BY <2>2, <2>3 DEF Kind
    <3> QED
      BY <2>3, <3>1 DEF Conceded
  <2>4. CASE Where[f] = "stranger"
    <3>1. tree.disk[f].type = "absent" /\ f \in Kind("stranger")
      BY <2>2, <2>4 DEF Kind
    <3>2. tree.disk[f] = Absent /\ began.disk[f] = Absent
      BY <1>1, <3>1, Node DEF RoundIsFresh
    <3>3. Absent.type = "absent"
      BY DEF Absent
    <3>4. End(tree.disk, f) = f /\ End(began.disk, f) = f
      BY <1>1, <3>2, <3>3, EndIs
    <3> QED
      BY <3>2, <3>4 DEF Holds
  <2> QED
    BY <1>8, <2>3, <2>4
<1>9. CASE Where[f] = "elsewhere"
  BY <1>9 DEF Conceded
<1> QED
  BY <1>3, <1>4, <1>5, <1>6, <1>7, <1>8, <1>9 DEF Kinds

(* When a snapshot could not be taken whole, that is reported.             *)
LEMMA BlindIsReported ==
  ASSUME Inv, Reports, blind'
  PROVE  touched' # {}
<1> DEFINE first == IF blind THEN {FailedLine("first")} ELSE StatusLines(began)
<1>1. Rest(began, first) /\ before = Snapshot(began, first)
  BY ReportIs
<1>2. PICK rest :
        /\ Rest(tree, rest) /\ touched' = Changed(Snapshot(tree, rest)) \cup Strangers
        /\ \/ rest = StatusLines(tree) /\ blind' = blind
           \/ rest \in {{SkippedLine}, {FailedLine("second")}} /\ blind' = TRUE
  BY ReportIs
<1>3. tree \in AnyTree /\ began \in AnyTree
  BY DEF Inv, Typed
<1>4. /\ FailedLine("first").sort = "failed" /\ FailedLine("second").sort = "failed"
      /\ SkippedLine.sort = "skipped"
      /\ FailedLine("first").print.form = "first" /\ FailedLine("second").print.form = "second"
  BY DEF FailedLine, SkippedLine, LineOf, Mark
<1>5. \A line : line \in StatusLines(tree) \cup StatusLines(began) => line.sort = "status"
  BY <1>3, StatusSays
<1>6. ASSUME NEW line, line \in Snapshot(tree, rest), line \notin before
      PROVE  touched' # {}
  <2>1. [gone |-> FALSE, line |-> line] \in Changed(Snapshot(tree, rest))
    BY <1>6 DEF Changed
  <2> QED
    BY <1>2, <2>1
<1>7. CASE rest \in {{SkippedLine}, {FailedLine("second")}}
  <2>1. PICK line \in {SkippedLine, FailedLine("second")} : rest = {line}
    BY <1>7
  <2>2. line \in Snapshot(tree, rest)
    BY <2>1 DEF Snapshot
  <2>3. line \notin first
    BY <1>4, <1>5
  <2>4. line \notin before
    BY <1>1, <1>3, <1>4, <2>3, SortsOfLines
  <2> QED
    BY <1>6, <2>2, <2>4
<1>8. CASE rest = StatusLines(tree) /\ blind
  <2>1. FailedLine("first") \in before
    BY <1>1, <1>8 DEF Snapshot
  <2>2. FailedLine("first") \notin rest
    BY <1>4, <1>5, <1>8
  <2>3. FailedLine("first") \notin Snapshot(tree, rest)
    BY <1>2, <1>3, <1>4, <2>2, SortsOfLines
  <2>4. [gone |-> TRUE, line |-> FailedLine("first")] \in Changed(Snapshot(tree, rest))
    BY <2>1, <2>3 DEF Changed
  <2> QED
    BY <1>2, <2>4
<1> QED
  BY <1>2, <1>7, <1>8

(* The report says all that a reviewer wrote, but what is conceded.        *)
LEMMA ReportsUnseen ==
  ASSUME Inv, Reports
  PROVE  NothingUnseen'
<1> DEFINE first == IF blind THEN {FailedLine("first")} ELSE StatusLines(began)
<1>1. Rest(began, first) /\ before = Snapshot(began, first)
  BY ReportIs
<1>2. PICK rest :
        /\ Rest(tree, rest) /\ touched' = Changed(Snapshot(tree, rest)) \cup Strangers
        /\ \/ rest = StatusLines(tree) /\ blind' = blind
           \/ rest \in {{SkippedLine}, {FailedLine("second")}} /\ blind' = TRUE
  BY ReportIs
<1>3. tree' = tree /\ began' = began
  BY Zenon DEF Reports
<1>4. ASSUME NEW f \in Files
      PROVE  \/ Holds(tree, f) = Holds(began, f)
             \/ Conceded(f) \/ Named(f)'
             \/ \E move \in Renames(tree) : move[1] = f /\ Named(move[2])'
             \/ blind' /\ Where[f] \in {"tree", "ignored", "nested"}
  <2>1. SUFFICES ASSUME ~(Named(f)'), ~(blind' /\ Where[f] \in {"tree", "ignored", "nested"})
                 PROVE  \/ Holds(tree, f) = Holds(began, f) \/ Conceded(f)
                        \/ \E move \in Renames(tree) : move[1] = f /\ Named(move[2])'
    OBVIOUS
  <2>2. Where[f] \in {"tree", "ignored", "nested"} =>
          rest = StatusLines(tree) /\ first = StatusLines(began)
    BY <1>2, <2>1
  <2>3. \A entry \in Changed(Snapshot(tree, rest)) \cup Strangers :
          entry.line.file # f /\ (Where[f] = "nested" => entry.line.file # "nested")
    BY <1>2, <2>1 DEF Named
  <2> HIDE DEF first
  <2>4. \/ Holds(tree, f) = Holds(began, f) \/ Conceded(f)
        \/ \E move \in Renames(tree) :
             /\ move[1] = f
             /\ \E entry \in Changed(Snapshot(tree, rest)) : entry.line.file = move[2]
    BY <1>1, <1>2, <2>2, <2>3, UnnamedIsConceded
  <2> QED
    BY <1>2, <2>4 DEF Named
<1>5. \A f \in Files : Conceded(f)' <=> Conceded(f)
  BY <1>3 DEF Conceded, IsOwn
<1>6. blind' => touched' # {}
  BY BlindIsReported
<1> QED
  BY <1>3, <1>4, <1>5, <1>6 DEF NothingUnseen

(* Nothing happens when the report is made.                                *)
LEMMA DoneIsDone ==
  ASSUME [Next]_vars, at' = "done", ~Reports
  PROVE  at = "done" /\ UNCHANGED <<tree, began, writes, touched, blind>>
<1>1. CASE UNCHANGED vars
  BY <1>1 DEF vars, checkVars, truthVars
<1>2. CASE Snapshots \/ ReviewerWrites \/ LogGrows \/ Publishes \/ ReadsControl
  <2>1. /\ Snapshots => at' = "reviewers"
        /\ ReviewerWrites => at' = "reviewers"
        /\ LogGrows => at # "done" /\ at' = at
        /\ Publishes => at' = "control"
        /\ ReadsControl => at' = "status"
    BY Zenon DEF Snapshots, ReviewerWrites, LogGrows, Publishes, ReadsControl
  <2> QED
    BY <1>2, <2>1
<1> QED
  BY <1>1, <1>2 DEF Next

(* The report is made once, and nothing moves after it.                    *)
LEMMA UnseenInductive ==
  /\ Init => NothingUnseen
  /\ Inv /\ NothingUnseen /\ [Next]_vars => NothingUnseen'
<1>1. ASSUME Init PROVE NothingUnseen
  BY <1>1 DEF Init, NothingUnseen
<1>2. ASSUME Inv, NothingUnseen, [Next]_vars PROVE NothingUnseen'
  <2>1. CASE Reports
    BY <1>2, <2>1, ReportsUnseen
  <2>2. CASE at' = "done" /\ ~Reports
    <3>1. at = "done" /\ UNCHANGED <<tree, began, writes, touched, blind>>
      BY <1>2, <2>2, DoneIsDone
    <3> QED
      BY <1>2, <3>1 DEF NothingUnseen, Conceded, IsOwn, Named
  <2>3. CASE at' # "done"
    BY <2>3 DEF NothingUnseen
  <2> QED
    BY <2>1, <2>2, <2>3
<1> QED
  BY <1>1, <1>2

(* Whatever a reviewer wrote is reported, or is one of the things the      *)
(* check concedes, or git could not be asked, and that is reported.        *)
THEOREM UnseenCorrect == Spec => []NothingUnseen
<1>1. Inv /\ NothingUnseen /\ [Next]_vars => NothingUnseen'
  BY UnseenInductive
<1> QED
  BY <1>1, InvIsInvariant, UnseenInductive, PTL DEF Spec

-----------------------------------------------------------------------------
(* No false alarm                                                          *)

(* What git says of a path, and what is recorded of one within a           *)
(* repository of its own, when the loop's log is not in git.               *)
LEMMA SameStatus ==
  ASSUME NEW a \in AnyTree, NEW b \in AnyTree, Alike(a, b),
         a.index = b.index, a.head = b.head,
         \A f \in OwnOutputs(a) : a.index[f] = Absent /\ a.head[f] = Absent
  PROVE  StatusLines(a) = StatusLines(b)
<1>1. OwnOutputs(a) = OwnOutputs(b)
  BY UnmovedEnds DEF Alike
<1>2. ASSUME NEW f \in Files, Where[f] # "output"
      PROVE  /\ a.disk[f].type = b.disk[f].type /\ Seen(a, b, f)
             /\ \A cheap \in BOOLEAN : Fingerprint(a, f, cheap) = Fingerprint(b, f, cheap)
  BY <1>2, SamePrint DEF Alike
<1>3. ASSUME NEW f \in InGit
      PROVE  Entries(a, Renames(a), f) = Entries(b, Renames(b), f)
  <2>0. Renames(a) = Renames(b)
    BY DEF Renames, Moves
  <2>1. f \in Files /\ Where[f] # "output"
    BY DEF InGit, Kind
  <2>2. CASE a.disk[f] = b.disk[f]
    BY <2>0, <2>2 DEF Entries, Untracked, Staged, Modified
  <2>3. CASE f \in OwnOutputs(a) /\ a.disk[f].type = "file" /\ b.disk[f].type = "file"
    <3>1. /\ a.index[f] = Absent /\ a.head[f] = Absent /\ b.index[f] = Absent /\ b.head[f] = Absent
          /\ a.disk[f] # Absent /\ b.disk[f] # Absent
      BY <2>3 DEF Absent
    <3>2. /\ Untracked(a, f) <=> Untracked(b, f)
          /\ Staged(a, f) <=> Staged(b, f)
          /\ Modified(a, f) <=> Modified(b, f)
      BY <3>1 DEF Untracked, Staged, Modified
    <3> QED
      BY <2>0, <3>2 DEF Entries
  <2> QED
    BY <1>2, <2>1, <2>2, <2>3 DEF Seen
<1>4. Listed(a) = Listed(b)
  <2> DEFINE of(t, f) == {[file |-> f, status |-> status] : status \in Entries(t, Renames(t), f)}
  <2>1. \A f \in InGit : of(a, f) = of(b, f)
    BY <1>3
  <2>2. \A t : Listed(t) = UNION {of(t, f) : f \in InGit}
    BY DEF Listed
  <2> HIDE DEF of
  <2> QED
    BY <2>1, <2>2
<1> DEFINE line(t, entry) == LineOf("status", entry.file, entry.status,
                                    Fingerprint(t, entry.file, entry.status = "!!"))
           files(t) == {line(t, entry) : entry \in Listed(t)}
           print(t, f) == IF t.disk[f].type = "link"
                          THEN [Mark("link") EXCEPT !.link = t.disk[f].target]
                          ELSE Content(t, f, TRUE)
           record(t, f) == [file |-> f, print |-> print(t, f)]
           records(t) == {record(t, f) : f \in Recorded(t)}
<1>5. files(a) = files(b)
  <2>1. ASSUME NEW entry \in Listed(a) PROVE line(a, entry) = line(b, entry)
    <3>1. entry.file \in Files /\ Where[entry.file] # "output" /\ (entry.status = "!!") \in BOOLEAN
      BY ListedIs DEF InGit, Kind
    <3> QED
      BY <1>2, <3>1
  <2> HIDE DEF line
  <2> QED
    BY <1>4, <2>1
<1>6. Recorded(a) = Recorded(b)
  BY <1>1, <1>2 DEF Recorded, Kind
<1>7. Records(a) = Records(b)
  <2>1. ASSUME NEW f \in Recorded(a) PROVE record(a, f) = record(b, f)
    <3>1. Seen(a, b, f) /\ f \notin OwnOutputs(a)
      BY <1>2 DEF Recorded, Kind
    <3>2. a.disk[f] = b.disk[f]
      BY <3>1 DEF Seen
    <3> QED
      BY <1>1, <3>2 DEF Content
  <2>2. Records(a) = records(a) /\ Records(b) = records(b)
    BY DEF Records
  <2> HIDE DEF record
  <2> QED
    BY <1>6, <2>1, <2>2
<1>8. \A t : StatusLines(t) =
        files(t) \cup (IF Recorded(t) = {} THEN {}
                      ELSE {LineOf("status", "nested", "??", [Mark("dir") EXCEPT !.under = Records(t)])})
  BY DEF StatusLines
<1> HIDE DEF files
<1> QED
  BY <1>5, <1>6, <1>7, <1>8

(* A tree in which only the loop wrote is like the one it was.             *)
LEMMA OnlyTheLoopIsAlike ==
  ASSUME Inv, writes = 0
  PROVE  Alike(began, tree)
<1>1. /\ tree \in AnyTree /\ began \in AnyTree /\ RoundIsFresh(began) /\ OnlyTheLoopWrote
      /\ began.disk \in [Files -> AnyNode]
  BY DEF Inv, Typed, QuietInv, AnyTree
<1>2. Unmoved(began, tree)
  <2>1. \A f \in Files : \/ began.disk[f] = tree.disk[f]
                         \/ began.disk[f].type # "link" /\ tree.disk[f].type # "link"
    BY <1>1 DEF OnlyTheLoopWrote
  <2>2. began.stdout = tree.stdout
    BY <1>1 DEF OnlyTheLoopWrote
  <2> QED
    BY <1>1, <2>1, <2>2, NoLinkMoved
<1>3. ASSUME NEW f \in Files, Where[f] # "output" PROVE Seen(began, tree, f)
  <2>1. CASE began.disk[f] = tree.disk[f]
    BY <2>1 DEF Seen
  <2>2. CASE began.disk[f] # tree.disk[f]
    <3>1. /\ f \in began.stdout \cup LogFiles
          /\ tree.disk[f].type = "file" /\ began.disk[f].type = "file"
      BY <1>1, <1>3, <2>2 DEF OnlyTheLoopWrote
    <3>2. End(began.disk, f) = f
      BY <1>1, <3>1, EndIs
    <3>3. f \in OwnOutputs(began)
      BY <3>1, <3>2 DEF OwnOutputs
    <3> QED
      BY <3>1, <3>3 DEF Seen
  <2> QED
    BY <2>1, <2>2
<1>4. ASSUME NEW f \in Files, Where[f] # "output"
      PROVE  End(began.disk, f) \in Files /\ Where[End(began.disk, f)] # "output"
  <2>1. CASE began.disk[f].type = "link"
    <3>1. PICK g \in Files : began.disk[g].type = "link" /\ End(began.disk, f) = began.disk[g].target
      BY <1>1, <2>1, EndIs
    <3> QED
      BY <1>1, <3>1, EndIs DEF RoundIsFresh, Kind
  <2>2. CASE began.disk[f].type # "link"
    BY <1>1, <1>4, <2>2, EndIs
  <2> QED
    BY <2>1, <2>2
<1> QED
  BY <1>2, <1>3, <1>4 DEF Alike

(* The report of a round in which no reviewer wrote is empty.              *)
LEMMA ReportsQuiet ==
  ASSUME Inv, Reports
  PROVE  NoFalseAlarm'
<1>1. /\ tree \in AnyTree /\ began \in AnyTree /\ RoundIsFresh(began)
      /\ writes = 0 => OnlyTheLoopWrote
  BY DEF Inv, Typed, QuietInv
<1>2. tree' = tree /\ began' = began /\ writes' = writes
  BY Zenon DEF Reports
<1>3. SUFFICES ASSUME writes = 0, ~(blind'), LogIsUntracked
               PROVE  touched' = {}
  BY <1>2 DEF NoFalseAlarm, LogIsUntracked
<1>4. /\ before = Snapshot(began, StatusLines(began))
      /\ touched' = Changed(Snapshot(tree, StatusLines(tree))) \cup Strangers
  <2>1. PICK rest :
          /\ touched' = Changed(Snapshot(tree, rest)) \cup Strangers
          /\ rest = StatusLines(tree) /\ blind' = blind
    BY <1>3, ReportIs
  <2> QED
    BY <1>3, <2>1, ReportIs
<1>5. Alike(began, tree)
  BY <1>3, OnlyTheLoopIsAlike
<1>6. ControlLines(began) = ControlLines(tree) /\ InputLines(began) = InputLines(tree)
  BY <1>1, <1>5, SameControl
<1>7. StatusLines(began) = StatusLines(tree)
  <2>1. began.index = tree.index /\ began.head = tree.head
    BY <1>1, <1>3 DEF OnlyTheLoopWrote
  <2>2. \A f \in OwnOutputs(began) : began.index[f] = Absent /\ began.head[f] = Absent
    BY <1>3 DEF LogIsUntracked
  <2> QED
    BY <1>1, <1>5, <2>1, <2>2, SameStatus
<1>8. Changed(Snapshot(tree, StatusLines(tree))) = {}
  BY <1>4, <1>6, <1>7 DEF Changed, Snapshot
<1>9. Strangers = {}
  <2>1. RoundIsFresh(tree)
    BY <1>1, <1>3, StillFresh DEF Inv
  <2>2. {g \in Kind("stranger") : tree.disk[g].type # "absent"}
          \cup {g \in Kind("input") \cup Kind("output") : tree.disk[g].type = "link"} = {}
    BY <2>1 DEF RoundIsFresh, Absent
  <2> QED
    BY <2>2 DEF Strangers
<1> QED
  BY <1>4, <1>8, <1>9

(* And stays empty.                                                        *)
LEMMA QuietlyInductive ==
  /\ Init => NoFalseAlarm
  /\ Inv /\ NoFalseAlarm /\ [Next]_vars => NoFalseAlarm'
<1>1. ASSUME Init PROVE NoFalseAlarm
  BY <1>1 DEF Init, NoFalseAlarm
<1>2. ASSUME Inv, NoFalseAlarm, [Next]_vars PROVE NoFalseAlarm'
  <2>1. CASE Reports
    BY <1>2, <2>1, ReportsQuiet
  <2>2. CASE at' = "done" /\ ~Reports
    <3>1. at = "done" /\ UNCHANGED <<tree, began, writes, touched, blind>>
      BY <1>2, <2>2, DoneIsDone
    <3> QED
      BY <1>2, <3>1 DEF NoFalseAlarm, LogIsUntracked
  <2>3. CASE at' # "done"
    BY <2>3 DEF NoFalseAlarm
  <2> QED
    BY <2>1, <2>2, <2>3
<1> QED
  BY <1>1, <1>2

(* A round in which no reviewer wrote is reported as one, whatever was     *)
(* modified, untracked or dangling before it began, and wherever its log   *)
(* is, so long as git does not track it.                                   *)
THEOREM QuietCorrect == Spec => []NoFalseAlarm
<1>1. Inv /\ NoFalseAlarm /\ [Next]_vars => NoFalseAlarm'
  BY QuietlyInductive
<1> QED
  BY <1>1, InvIsInvariant, QuietlyInductive, PTL DEF Spec
=============================================================================
