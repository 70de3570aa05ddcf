---------------------------- MODULE ScrubberProofs ----------------------------
(***************************************************************************)
(* Proofs about the scrubber, for every set of contents, files and keys:   *)
(* inputs of any length, any section after any other.                      *)
(***************************************************************************)
EXTENDS Scrubber, FiniteSetTheorems, TLAPS

(* What TypeOK leaves out of the entries, and what it says of the rest.    *)
Kinded ==
  /\ mode \in Modes
  /\ in_safe \in BOOLEAN /\ in_secret \in BOOLEAN /\ in_key \in BOOLEAN
  /\ in_hunk \in BOOLEAN /\ redacted \in BOOLEAN
  /\ exempt \in BOOLEAN /\ secret \in BOOLEAN
  /\ broken \in BOOLEAN /\ excess \in BOOLEAN
  /\ exit \in {"none", "0", "1", "2"}
  /\ place \in {"top", "header", "hunk"}
  /\ key_open \subseteq {"old", "new"} /\ crossed \in BOOLEAN

(* The flags are true of what is being read: of its section, of whether    *)
(* it is inside a hunk, of whether either version has a key open there --  *)
(* in text always, in a diff unless something crossed it -- which is never *)
(* so before something was redacted.  What leaks is a key's so crossed.    *)
FlagsAreTrue ==
  /\ Kinded
  /\ in_safe = exempt /\ in_secret = secret
  /\ ~(in_safe /\ in_secret)
  /\ in_hunk <=> place = "hunk"
  /\ in_key => key_open # {}
  /\ key_open # {} => redacted /\ (in_key \/ crossed)
  /\ mode \notin {"diff", "agent-repo"} => ~crossed /\ leaked = {}
  /\ leaked \subseteq {"crossed key body"} /\ (leaked # {} => redacted)
  /\ ~broken /\ ~excess
  /\ exit = "0" => ~redacted

(* The fields of a line, whichever it is.                                  *)
LEMMA LineFields ==
  ASSUME NEW line \in NextLines, FlagsAreTrue
  PROVE  /\ line.kind \in {"diff", "at", "names", "meta", "body"}
         /\ line.content \in AnyContent
         /\ line.content.marks \in {"begin", "begin end", "end begin"}
              => line.content.shape
         /\ line.kind = "names" => place = "header"
         /\ line.kind = "body" => /\ place = "hunk"
                                  /\ line.versions # {} /\ line.versions \subseteq {"old", "new"}
         /\ line.like_header \in BOOLEAN
<1>0. place \in {"top", "header", "hunk"}
  BY DEF FlagsAreTrue, Kinded
<1>1. CASE line \in Headers
  <2>1. PICK file \in Files, form \in {"--git", "--cc"} :
               line = Line("diff", file, form, {}, Unread, FALSE)
    BY <1>1, SMT DEF Headers, Line
  <2> QED
    BY <2>1 DEF Line, Unread, AnyContent, Marks
<1>2. CASE line \in BodyLines /\ place = "hunk"
  <2>1. PICK versions \in {{"old"}, {"new"}, {"old", "new"}}, c \in Contents, like \in BOOLEAN :
               line = Line("body", "ordinary", "none", versions, c, like)
    BY <1>2 DEF BodyLines
  <2>2. /\ line.kind = "body" /\ line.content = c /\ line.versions = versions
        /\ line.like_header = like
    BY <2>1 DEF Line
  <2> QED
    BY <1>2, <2>2, ScrubberAssumption
<1>3. ASSUME NEW kind \in {"at", "names", "meta"}, line = StructureLine(kind),
             kind = "names" => place = "header"
      PROVE  line.kind = kind /\ line.content = Unread /\ line.like_header = FALSE
  BY <1>3 DEF StructureLine, Line
<1>4. Unread \in AnyContent /\ Unread.marks = "none"
  BY DEF Unread, AnyContent, Marks
<1>5. \/ line \in Headers
      \/ line \in BodyLines /\ place = "hunk"
      \/ \E kind \in {"at", "names", "meta"} :
           line = StructureLine(kind) /\ (kind = "names" => place = "header")
  BY <1>0 DEF NextLines
<1> QED
  BY <1>1, <1>2, <1>3, <1>4, <1>5

(* A line of a diff keeps the flags true, and is redacted for a reason or  *)
(* not at all.                                                             *)
LEMMA ReadsLineFlags == FlagsAreTrue /\ ReadsLine => FlagsAreTrue'
<1> SUFFICES ASSUME FlagsAreTrue, ReadsLine PROVE FlagsAreTrue'
  OBVIOUS
<1> DEFINE starts(line) == line.kind = "diff"
           whole(line)  == IF starts(line) THEN IsSecretFile(line) ELSE in_secret
           hunk(line)   == ~starts(line) /\ (in_hunk \/ line.kind = "at")
           body(line)   == IsBodyLine(line, hunk(line))
           within(line) == in_key /\ ~starts(line) /\ body(line)
           marked(line) == \/ within(line)
                           \/ /\ body(line)
                              /\ Redacts(line.content, SafeAfter(line), whole(line))
<1>1. PICK line \in NextLines :
        /\ in_safe' = SafeAfter(line) /\ in_secret' = whole(line) /\ in_hunk' = hunk(line)
        /\ in_key' = IF within(line) THEN KeyOpenAfter(line.content, TRUE)
                     ELSE marked(line) /\ OpensKey(line.content)
        /\ redacted' = (redacted \/ marked(line))
        /\ place' = CASE starts(line) -> "header"
                      [] line.kind = "at" -> "hunk"
                      [] OTHER -> place
        /\ exempt' = IF starts(line) THEN IsExempt(line) ELSE exempt
        /\ secret' = IF starts(line) THEN IsSecretFile(line) ELSE secret
        /\ key_open' = KeysAfter(line) /\ crossed' = CrossedAfter(line)
        /\ leaked' = IF marked(line) THEN leaked
                     ELSE leaked \cup Credentials(line) \cup KeyLines(line)
        /\ broken' = (broken \/ (marked(line) /\ line.kind \in Structure))
        /\ excess' = (excess \/ (marked(line) /\ Credentials(line) = {} /\ key_open = {}))
  BY Zenon DEF ReadsLine
<1>2. mode \in {"diff", "agent-repo"} /\ exit = "none" /\ UNCHANGED <<mode, exit>>
  BY DEF ReadsLine
<1>3. /\ line.kind \in {"diff", "at", "names", "meta", "body"}
      /\ line.content \in AnyContent
      /\ line.content.marks \in {"begin", "begin end", "end begin"} => line.content.shape
      /\ line.kind = "names" => place = "header"
      /\ line.kind = "body" => /\ place = "hunk"
                               /\ line.versions # {} /\ line.versions \subseteq {"old", "new"}
      /\ line.like_header \in BOOLEAN
  BY LineFields
<1> DEFINE c == line.content
<1>4. /\ c.shape \in BOOLEAN /\ c.keyword \in BOOLEAN /\ c.reviewed \in BOOLEAN
      /\ c.fixture \in BOOLEAN /\ c.marks \in Marks
  BY <1>3 DEF AnyContent
<1>5. body(line) <=> line.kind = "body"
  BY <1>3 DEF IsBodyLine, IsBody, ReadsAsName, FlagsAreTrue, Kinded
<1>8. broken' \in BOOLEAN /\ excess' \in BOOLEAN
  BY <1>1, Zenon DEF FlagsAreTrue, Kinded
<1>9. crossed' \in BOOLEAN
  BY <1>1 DEF CrossedAfter, KeyOpenAfter, FlagsAreTrue, Kinded
<1> HIDE DEF marked, within
<1>6. CASE line.kind # "body"
  <2>1. ~marked(line) /\ ~within(line)
    BY <1>5, <1>6 DEF marked, within
  <2>2. Credentials(line) = {} /\ KeyLines(line) = {}
    BY <1>6 DEF Credentials, KeyLines
  <2>3. in_key' = FALSE /\ leaked' = leaked /\ ~broken' /\ ~excess' /\ redacted' = redacted
    BY <1>1, <2>1, <2>2 DEF FlagsAreTrue, Kinded
  <2>4. key_open' = {} \/ key_open' = key_open
    BY <1>1, <1>6 DEF KeysAfter
  <2>5. in_safe' = exempt' /\ in_secret' = secret' /\ ~(in_safe' /\ in_secret')
        /\ in_safe' \in BOOLEAN /\ in_secret' \in BOOLEAN
    BY <1>1 DEF SafeAfter, IsExempt, IsSecretFile, FlagsAreTrue, Kinded
  <2>6. /\ in_hunk' \in BOOLEAN /\ (in_hunk' <=> place' = "hunk")
        /\ place' \in {"top", "header", "hunk"}
    BY <1>1, <1>3, <1>6 DEF FlagsAreTrue, Kinded
  <2> QED
    <3>1. key_open' \subseteq {"old", "new"} /\ (key_open' # {} => redacted' /\ crossed')
      BY <1>1, <1>6, <2>3, <2>4 DEF CrossedAfter, FlagsAreTrue, Kinded
    <3>2. in_key' \in BOOLEAN /\ redacted' \in BOOLEAN /\ exempt' \in BOOLEAN /\ secret' \in BOOLEAN
      BY <2>3, <2>5 DEF FlagsAreTrue, Kinded
    <3>3. Kinded'
      BY <1>2, <1>8, <1>9, <2>3, <2>5, <2>6, <3>1, <3>2 DEF FlagsAreTrue, Kinded
    <3> QED
      BY <1>2, <2>3, <2>5, <2>6, <3>1, <3>3 DEF FlagsAreTrue
<1>7. CASE line.kind = "body"
  <2>1. /\ in_safe' = in_safe /\ in_secret' = in_secret /\ in_hunk' = TRUE
        /\ place' = place /\ exempt' = exempt /\ secret' = secret /\ place = "hunk"
    BY <1>1, <1>3, <1>7 DEF SafeAfter, FlagsAreTrue, Kinded
  <2>2. within(line) <=> in_key
    BY <1>5, <1>7 DEF within
  <2> DEFINE found == ~(exempt /\ c.fixture) /\ (c.shape \/ (c.keyword /\ ~c.reviewed))
  <2>3. marked(line) <=> (in_key \/ secret \/ found)
    BY <1>5, <1>7, <2>1, <2>2 DEF marked, Redacts, SafeAfter, FlagsAreTrue, Kinded
  <2>4. Credentials(line) = {} <=> ~secret /\ ~found
    BY <1>4, <1>7 DEF Credentials, FlagsAreTrue, Kinded
  <2>5. leaked' \subseteq {"crossed key body"} /\ (leaked' # {} => redacted')
    <3>1. CASE marked(line)
      BY <1>1, <3>1 DEF FlagsAreTrue
    <3>2. CASE ~marked(line)
      <4>1. Credentials(line) = {} /\ ~in_key
        BY <2>3, <2>4, <3>2
      <4>2. /\ KeyLines(line) \subseteq {"crossed key body"}
            /\ KeyLines(line) # {} => key_open # {}
        BY <4>1 DEF KeyLines, FlagsAreTrue
      <4>3. leaked' = leaked \cup KeyLines(line) /\ (redacted => redacted')
        BY <1>1, <3>2, <4>1
      <4> QED
        BY <4>2, <4>3 DEF FlagsAreTrue
    <3> QED
      BY <3>1, <3>2
  <2>6. ~broken'
    BY <1>1, <1>7 DEF Structure, FlagsAreTrue
  <2>7. ~excess'
    BY <1>1, <2>3, <2>4 DEF FlagsAreTrue
  <2>8. key_open' = {v \in {"old", "new"} :
                       IF v \in line.versions
                       THEN KeyOpenAfter(c, v \in key_open)
                              /\ (v \in key_open \/ ~(exempt /\ c.fixture))
                       ELSE v \in key_open}
    BY <1>1, <1>7 DEF KeysAfter
  <2> HIDE DEF c, found
  <2>9. in_key' => key_open' # {}
    <3>1. CASE in_key
      <4>1. in_key' = KeyOpenAfter(c, TRUE)
        BY <1>1, <2>2, <3>1 DEF c
      <4>2. PICK v \in key_open : v \in {"old", "new"}
        BY <3>1 DEF FlagsAreTrue, Kinded
      <4> QED
        BY <2>8, <4>1, <4>2 DEF KeyOpenAfter
    <3>2. CASE ~in_key
      <4>1. in_key' <=> marked(line) /\ c.marks \in {"begin", "end begin"}
        BY <1>1, <2>2, <3>2 DEF OpensKey, KeyOpenAfter, c
      <4>2. marked(line) => ~(exempt /\ c.fixture)
        BY <2>3, <3>2 DEF found, FlagsAreTrue, Kinded
      <4>3. PICK v \in line.versions : v \in {"old", "new"}
        BY <1>3, <1>7
      <4> QED
        BY <2>8, <4>1, <4>2, <4>3 DEF KeyOpenAfter
    <3> QED
      BY <3>1, <3>2
  <2>10. key_open' # {} => redacted'
    <3> SUFFICES ASSUME NEW v \in key_open', ~redacted PROVE redacted'
      BY <1>1 DEF FlagsAreTrue, Kinded
    <3>1. key_open = {}
      BY DEF FlagsAreTrue
    <3>2. c.marks \in {"begin", "end begin"} /\ ~(exempt /\ c.fixture)
      BY <2>8, <3>1 DEF KeyOpenAfter
    <3> QED
      BY <1>1, <1>3, <2>3, <3>2 DEF c, found
  <2>11. in_key' \in BOOLEAN /\ redacted' \in BOOLEAN
    BY <1>1 DEF KeyOpenAfter, OpensKey, FlagsAreTrue, Kinded
  <2>12. key_open' # {} => in_key' \/ crossed'
    <3> SUFFICES ASSUME NEW v \in key_open', ~crossed' PROVE in_key'
      OBVIOUS
    <3>1. ~crossed /\ KeyOpenAfter(c, TRUE)
      BY <1>1 DEF CrossedAfter, c, FlagsAreTrue, Kinded
    <3>2. CASE in_key
      BY <1>1, <2>2, <3>1, <3>2 DEF c
    <3>3. CASE ~in_key
      <4>1. key_open = {}
        BY <3>1, <3>3 DEF FlagsAreTrue
      <4>2. c.marks \in {"begin", "end begin"} /\ ~(exempt /\ c.fixture)
        BY <2>8, <4>1 DEF KeyOpenAfter
      <4>3. marked(line) /\ OpensKey(c)
        BY <1>3, <2>3, <4>2 DEF c, found, OpensKey, KeyOpenAfter
      <4> QED
        BY <1>1, <2>2, <3>3, <4>3 DEF c
    <3> QED
      BY <3>2, <3>3
  <2> QED
    BY <1>2, <1>8, <1>9, <2>1, <2>5, <2>6, <2>7, <2>8, <2>9, <2>10, <2>11, <2>12
    DEF FlagsAreTrue, Kinded
<1> QED
  BY <1>6, <1>7

(* Text, and a list of strings: what a BEGIN opens was redacted.           *)
LEMMA ReadsContentFlags ==
  ASSUME FlagsAreTrue, mode \in {"text", "list"}, exit = "none",
         NEW c \in Contents, NEW begins \in BOOLEAN,
         begins => RedactsText(c) \/ OpensKey(c),
         RedactsText(c) => begins,
         ReadsContent(c, begins)
  PROVE  FlagsAreTrue'
<1>1. /\ c.shape \in BOOLEAN /\ c.marks \in Marks
      /\ c.marks \in {"begin", "begin end", "end begin"} => c.shape
  BY ScrubberAssumption DEF AnyContent
<1>2. c.marks \in {"begin", "end begin"} => begins
  BY <1>1 DEF RedactsText, Redacts
<1>3. begins => RedactsText(c)
  BY <1>1 DEF RedactsText, Redacts, OpensKey, KeyOpenAfter
<1>4. in_key <=> key_open # {}
  BY DEF FlagsAreTrue
<1>5. /\ in_key' = (IF in_key THEN KeyOpenAfter(c, TRUE) ELSE begins /\ OpensKey(c))
      /\ redacted' = (redacted \/ in_key \/ begins)
      /\ key_open' = IF KeyOpenAfter(c, key_open # {}) THEN {"new"} ELSE {}
      /\ UNCHANGED <<mode, in_safe, in_secret, in_hunk, exit, place, exempt, secret, crossed,
                     broken>>
  BY DEF ReadsContent
<1>6. leaked' = {} /\ excess' = FALSE
  BY <1>3, <1>4 DEF ReadsContent, FlagsAreTrue, Kinded
<1>7. in_key' \in BOOLEAN /\ redacted' \in BOOLEAN
  BY <1>5 DEF KeyOpenAfter, OpensKey, FlagsAreTrue, Kinded
<1>8. in_key' <=> key_open' # {}
  BY <1>2, <1>4, <1>5 DEF KeyOpenAfter, OpensKey
<1>9. key_open' # {} => redacted'
  BY <1>2, <1>4, <1>5 DEF KeyOpenAfter, FlagsAreTrue, Kinded
<1> QED
  BY <1>5, <1>6, <1>7, <1>8, <1>9 DEF FlagsAreTrue, Kinded

(* Nothing is written as it came of what is a value's secret part.         *)
LEMMA ValueKept ==
  ASSUME NEW key, NEW value \in Values
  PROVE  WrittenAsIs(key, value) \cap SecretParts(key, value) = {}
<1>1. CASE key.text # "field"
  BY <1>1 DEF WrittenAsIs, SecretParts
<1>2. CASE key.text = "field" /\ HoldsValue(value)
  BY <1>2 DEF WrittenAsIs, SecretField
<1>3. CASE key.text = "field" /\ ~HoldsValue(value)
  BY <1>3 DEF HoldsValue, SecretParts
<1> QED
  BY <1>1, <1>2, <1>3

(* Before the first line no flag is set.                                   *)
LEMMA InitFlags == Init => FlagsAreTrue
  BY DEF Init, FlagsAreTrue, Kinded

(* Every other step.                                                       *)
LEMMA StepFlags == FlagsAreTrue /\ [Next]_vars => FlagsAreTrue'
<1> SUFFICES ASSUME FlagsAreTrue, [Next]_vars PROVE FlagsAreTrue'
  OBVIOUS
<1>1. CASE ReadsLine
  BY <1>1, ReadsLineFlags
<1>2. CASE ReadsText
  <2>1. PICK c \in Contents : ReadsContent(c, RedactsText(c))
    BY <1>2 DEF ReadsText
  <2>2. RedactsText(c) \in BOOLEAN
    BY ScrubberAssumption DEF RedactsText, Redacts, AnyContent
  <2> QED
    BY <1>2, <2>1, <2>2, ReadsContentFlags DEF ReadsText
<1>3. CASE ReadsItem
  <2>1. PICK c \in Contents : ReadsContent(c, OpensKey(c) \/ RedactsText(c))
    BY <1>3 DEF ReadsItem
  <2> DEFINE begins == OpensKey(c) \/ RedactsText(c)
  <2>2. begins \in BOOLEAN
    BY ScrubberAssumption DEF RedactsText, Redacts, AnyContent, OpensKey, KeyOpenAfter
  <2>3. (begins => RedactsText(c) \/ OpensKey(c)) /\ (RedactsText(c) => begins)
    OBVIOUS
  <2>4. mode \in {"text", "list"} /\ exit = "none" /\ ReadsContent(c, begins)
    BY <1>3, <2>1 DEF ReadsItem
  <2> HIDE DEF begins
  <2> QED
    BY <2>2, <2>3, <2>4, ReadsContentFlags
<1>4. CASE WalksEntry
  <2>1. PICK key \in todo, value \in Values :
          /\ redacted' = (redacted \/ key.text = "credential"
                            \/ value.parts \ WrittenAsIs(key, value) # {})
          /\ leaked' = IF WrittenAsIs(key, value) \cap SecretParts(key, value) = {}
                       THEN leaked ELSE leaked \cup {"value"}
    BY <1>4 DEF WalksEntry
  <2>2. WrittenAsIs(key, value) \cap SecretParts(key, value) = {}
    BY ValueKept
  <2>3. /\ UNCHANGED <<mode, flagVars, exit, truthVars, faultVars>>
        /\ redacted' \in BOOLEAN /\ (redacted => redacted') /\ exit = "none"
    BY <1>4, <2>1, <2>2 DEF WalksEntry, FlagsAreTrue, Kinded, faultVars
  <2> QED
    BY <2>3 DEF FlagsAreTrue, Kinded, flagVars, truthVars, faultVars
<1>5. CASE Exits
  BY <1>5 DEF Exits, FlagsAreTrue, Kinded, flagVars, truthVars, faultVars
<1>6. CASE Fails
  BY <1>6 DEF Fails, FlagsAreTrue, Kinded, flagVars, truthVars, faultVars
<1>7. CASE UNCHANGED vars
  BY <1>7 DEF vars, FlagsAreTrue, Kinded, flagVars, truthVars, faultVars
<1> QED
  BY <1>1, <1>2, <1>3, <1>4, <1>5, <1>6, <1>7 DEF Next

(* The flags are true in every state.                                      *)
LEMMA FlagsInvariant == Spec => []FlagsAreTrue
  BY InitFlags, StepFlags, PTL DEF Spec

(* No credential goes through as it came but a diff's key lines past the   *)
(* other version's END, and status 0 excludes those: scrub_diff.py's main, *)
(* scrub_text and walk, for inputs of any length and objects of any keys.  *)
THEOREM LeaksCorrect == Spec => []NothingLeaks
<1>1. FlagsAreTrue => NothingLeaks
  BY DEF FlagsAreTrue, Kinded, NothingLeaks
<1> QED
  BY <1>1, FlagsInvariant, PTL

(* No line of a diff's structure is changed (_is_body_line).               *)
THEOREM StructureCorrect == Spec => []StructureIsKept
<1>1. FlagsAreTrue => StructureIsKept
  BY DEF FlagsAreTrue, StructureIsKept
<1> QED
  BY <1>1, FlagsInvariant, PTL

(* No line is redacted without a reason (scrub_line, _key_open_after).     *)
THEOREM ReasonCorrect == Spec => []OnlyWithReason
<1>1. FlagsAreTrue => OnlyWithReason
  BY DEF FlagsAreTrue, OnlyWithReason
<1> QED
  BY <1>1, FlagsInvariant, PTL
-----------------------------------------------------------------------------
(* The entries written so far: one for each key walked, under its own name *)
(* or, for a credential, under one no key of the object has.               *)
EntriesAreTrue ==
  /\ IsFiniteSet(node) /\ node \subseteq Keys /\ todo \subseteq node
  /\ out \subseteq [name : Keys \cup Markers, key : node \ todo]
  /\ \A e \in out : IF e.key.text = "credential" THEN e.name \in Markers \ node
                                               ELSE e.name = e.key
  /\ \A key \in node \ todo : \E e \in out : e.key = key

(* A new name is a marker nobody has, and any other key keeps its own.     *)
LEMMA NewNames ==
  ASSUME IsFiniteSet(node), NEW key, NEW name \in NewName(key)
  PROVE  IF key.text = "credential" THEN name \in Markers \ (node \cup Names)
                                    ELSE name = key
<1>1. CASE key.text # "credential"
  BY <1>1 DEF NewName
<1>2. CASE key.text = "credential"
  <2> DEFINE index == Cardinality(node \ todo)
             free  == {tail \in 0..Cardinality(node \cup Names) :
                         Marker(index, tail) \notin node \cup Names}
  <2>1. index \in Nat
    BY FS_Difference, FS_CardinalityType
  <2>2. PICK tail \in free : name = Marker(index, tail)
    BY <1>2 DEF NewName
  <2>3. tail \in Nat
    OBVIOUS
  <2> QED
    BY <1>2, <2>1, <2>2, <2>3 DEF Marker, Markers
<1> QED
  BY <1>1, <1>2

(* No entry is written.                                                    *)
LEMMA InitEntries == Init => EntriesAreTrue
  BY DEF Init, EntriesAreTrue

(* Every step writes an entry under a name no other has.                   *)
LEMMA StepEntries == EntriesAreTrue /\ [Next]_vars => EntriesAreTrue'
<1> SUFFICES ASSUME EntriesAreTrue, [Next]_vars PROVE EntriesAreTrue'
  OBVIOUS
<1>1. CASE UNCHANGED dictVars
  BY <1>1 DEF dictVars, EntriesAreTrue
<1>2. CASE WalksEntry
  <2>0. PICK key \in todo :
          /\ todo' = todo \ {key} /\ node' = node
          /\ \E name \in NewName(key) :
               out' = {e \in out : e.name # name} \cup {[name |-> name, key |-> key]}
    BY <1>2 DEF WalksEntry
  <2>1. PICK name \in NewName(key) :
          out' = {e \in out : e.name # name} \cup {[name |-> name, key |-> key]}
    BY <2>0
  <2> DEFINE new == [name |-> name, key |-> key]
  <2>2. IsFiniteSet(node) /\ key \in Keys /\ key \in node /\ node \subseteq Keys
    BY DEF EntriesAreTrue
  <2>3. IF key.text = "credential" THEN name \in Markers \ (node \cup Names) ELSE name = key
    BY <2>2, NewNames
  <2>4. \A e \in out : e.name # name
    <3> SUFFICES ASSUME NEW e \in out, e.name = name PROVE FALSE
      OBVIOUS
    <3>1. e.name \in Names /\ e.key \in node \ todo
      BY DEF Names, EntriesAreTrue
    <3>2. key.text # "credential" /\ e.name = key
      BY <2>3, <3>1
    <3> QED
      BY <2>2, <3>1, <3>2 DEF EntriesAreTrue
  <2>5. out' = out \cup {new}
    BY <2>1, <2>4
  <2>6. new \in [name : Keys \cup Markers, key : node' \ todo']
    BY <2>0, <2>1, <2>2, <2>3
  <2>7. out \subseteq [name : Keys \cup Markers, key : node' \ todo']
    BY <2>0, <2>1 DEF EntriesAreTrue
  <2>8. \A e \in out' : IF e.key.text = "credential" THEN e.name \in Markers \ node'
                                                  ELSE e.name = e.key
    BY <2>0, <2>1, <2>3, <2>5 DEF EntriesAreTrue
  <2>9. \A k \in node' \ todo' : \E e \in out' : e.key = k
    <3> SUFFICES ASSUME NEW k \in node' \ todo' PROVE \E e \in out' : e.key = k
      OBVIOUS
    <3>1. CASE k = key
      <4>1. new \in out' /\ new.key = k
        BY <2>5, <3>1
      <4> HIDE DEF new
      <4> QED
        BY <4>1
    <3>2. CASE k # key
      <4>1. k \in node \ todo
        BY <2>0, <3>2
      <4> QED
        BY <2>5, <4>1 DEF EntriesAreTrue
    <3> QED
      BY <3>1, <3>2
  <2> QED
    BY <2>0, <2>1, <2>5, <2>6, <2>7, <2>8, <2>9 DEF EntriesAreTrue
<1>3. CASE ReadsLine \/ Exits \/ Fails \/ UNCHANGED vars
  BY <1>1, <1>3 DEF ReadsLine, Exits, Fails, vars
<1>4. CASE ReadsText \/ ReadsItem
  BY <1>1, <1>4 DEF ReadsText, ReadsItem, ReadsContent
<1> QED
  BY <1>2, <1>3, <1>4 DEF Next

(* So the entries' names differ throughout.                                *)
LEMMA EntriesInvariant == Spec => []EntriesAreTrue
  BY InitEntries, StepEntries, PTL DEF Spec

(* No entry of an object is lost, and none keeps a credential for its key  *)
(* (scrub_json's walk), whatever its keys are.                             *)
THEOREM EntriesCorrect == Spec => []NoEntryIsLost
<1>1. EntriesAreTrue => NoEntryIsLost
  BY DEF EntriesAreTrue, NoEntryIsLost, Markers
<1> QED
  BY <1>1, EntriesInvariant, PTL

(* Every variable holds a value of its kind.                               *)
THEOREM ScrubberTypes == Spec => []TypeOK
<1>1. EntriesAreTrue /\ FlagsAreTrue => TypeOK
  BY DEF EntriesAreTrue, FlagsAreTrue, Kinded, TypeOK
<1> QED
  BY <1>1, EntriesInvariant, FlagsInvariant, PTL
=============================================================================
