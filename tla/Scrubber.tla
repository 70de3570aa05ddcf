------------------------------- MODULE Scrubber -------------------------------
(***************************************************************************)
(* The secret scrubber, scripts/scrub_diff.py: its three readers -- of a   *)
(* diff (main), of text (scrub_text) and of a JSON document's lists and    *)
(* objects (scrub_json's walk) -- one line, item or entry at a time, so    *)
(* that an input of any length is covered.                                 *)
(*                                                                         *)
(* What the patterns find in a line is a record of the answers; which      *)
(* patterns there are is abstracted.  A diff is git's: a section begins    *)
(* with its diff line, a hunk with its @@ line, and only a hunk holds      *)
(* content.                                                                *)
(***************************************************************************)
EXTENDS Integers, FiniteSets

CONSTANTS
  Modes,        \* how it may be called: diff, agent-repo, text, list, object
  Contents,     \* what a line of content may hold
  Files,        \* which files a section's header may name
  Keys,         \* the keys an object may have
  MaxEntries    \* bound: entries of an object

(* A line's markers of a private key, in their order on the line.          *)
Marks == {"none", "begin", "end", "begin end", "end begin"}

AnyContent ==
  [shape    : BOOLEAN,   \* SHAPE_PATTERNS: a credential by its own shape
   keyword  : BOOLEAN,   \* KEYWORD_PATTERNS: one by the name next to it
   reviewed : BOOLEAN,   \* noqa: S105, S106 or S107
   literal  : BOOLEAN,   \* a URL's password, read as text is
   fixture  : BOOLEAN,   \* _is_intentional_fixture_line
   marks    : Marks]

(* An object's key: a credential itself, the name of one, or neither; or   *)
(* what a redacted key's name becomes, which a document can hold as well.  *)
Marker(index, tail) == [text |-> "redacted", index |-> index, tail |-> tail]
Markers == [text : {"redacted"}, index : Nat, tail : Nat]

ASSUME ScrubberAssumption ==
  /\ Modes \subseteq {"diff", "agent-repo", "text", "list", "object"}
  /\ Contents \subseteq AnyContent
  /\ \A c \in Contents : c.marks \in {"begin", "begin end", "end begin"} => c.shape
  /\ Files \subseteq {"ordinary", "safe", "lookalike", "secret"}
  /\ Keys \subseteq [text : {"credential", "field", "plain", "redacted"}, index : Nat,
                     tail : Nat]
  /\ MaxEntries \in Nat

VARIABLES
  mode,
  in_safe, in_secret, in_key, in_hunk,     \* main's flags, in_key every reader's
  redacted,     \* n_redacted > 0
  node, todo,   \* an object's keys, and those not yet walked
  out,          \* the entries written: [name, key]
  exit          \* none while it reads; 0, 1, or 2 when it fails

(* What the input really is, and what went wrong: for the properties only. *)
VARIABLES
  place,        \* in a diff: top, header or hunk
  exempt,       \* the section is the agent's own fixtures'
  secret,       \* the section is a credential's, whole
  key_open,     \* the versions -- old, new -- whose lines are inside a key
  crossed,      \* one's END, or no line of either, came while a key was open
  leaked,       \* what was written out as it came and is a secret's
  broken,       \* a line of the diff's structure was changed
  excess        \* a line was redacted for no reason

flagVars  == <<in_safe, in_secret, in_key, in_hunk>>
dictVars  == <<node, todo, out>>
truthVars == <<place, exempt, secret, key_open, crossed>>
faultVars == <<leaked, broken, excess>>
vars == <<mode, flagVars, redacted, dictVars, exit, truthVars, faultVars>>

Init ==
  /\ mode \in Modes
  /\ in_safe = FALSE /\ in_secret = FALSE /\ in_key = FALSE /\ in_hunk = FALSE
  /\ redacted = FALSE /\ exit = "none"
  /\ node \in {keys \in SUBSET Keys : /\ IsFiniteSet(keys)
                                      /\ Cardinality(keys) <= MaxEntries
                                      /\ mode # "object" => keys = {}}
  /\ todo = node /\ out = {}
  /\ place = "top" /\ exempt = FALSE /\ secret = FALSE
  /\ key_open = {} /\ crossed = FALSE
  /\ leaked = {} /\ broken = FALSE /\ excess = FALSE

-----------------------------------------------------------------------------
(* Reading a line *)

(* The lines of a diff.  A body line's content may begin like a file       *)
(* header: a removed SQL comment reads "--- ...".                          *)
IsBody(line) == line.kind = "body"
ReadsAsName(line) == line.kind = "names" \/ (IsBody(line) /\ line.like_header)

(* A plausible bug: a file header is told by how it begins alone. *)
IsBodyLineByPrefix(line, hunk) == IsBody(line) /\ ~ReadsAsName(line)

(* A plausible bug: every line that begins with +, - or a space is content. *)
IsBodyLineAlways(line, hunk) == IsBody(line) \/ ReadsAsName(line)

IsBodyLine(line, hunk) ==
  /\ IsBody(line) \/ line.kind = "names"
  /\ ~(~hunk /\ ReadsAsName(line))

(* _key_open_after: the last marker decides.                               *)
KeyOpenAfter(c, before) ==
  CASE c.marks \in {"begin", "end begin"} -> TRUE
    [] c.marks \in {"end", "begin end"}   -> FALSE
    [] OTHER                              -> before

(* A plausible bug: any BEGIN opens a key, its END on the same line or not. *)
OpensAnyKey(c) == c.marks \in {"begin", "begin end", "end begin"}

OpensKey(c) == KeyOpenAfter(c, FALSE)

(* scrub_line, of a body line's content.                                   *)
Redacts(c, safe, whole) ==
  \/ whole
  \/ /\ ~(safe /\ c.fixture)
     /\ c.shape \/ (c.keyword /\ ~c.reviewed)

(* redacts: as an added line of a diff is, and a URL's password as text.   *)
RedactsText(c) == Redacts(c, FALSE, FALSE) \/ c.literal

-----------------------------------------------------------------------------
(* The diff *)

Unread == [shape |-> FALSE, keyword |-> FALSE, reviewed |-> FALSE, literal |-> FALSE,
           fixture |-> FALSE, marks |-> "none"]

Structure == {"diff", "at", "names", "meta"}

(* The lines git writes where it is.                                       *)
Line(kind, file, form, versions, content, like) ==
  [kind |-> kind, file |-> file, form |-> form, versions |-> versions,
   content |-> content, like_header |-> like]

StructureLine(kind) == Line(kind, "ordinary", "none", {}, Unread, FALSE)

Headers == {Line("diff", file, form, {}, Unread, FALSE) :
              file \in Files, form \in {"--git", "--cc"}}

BodyLines ==
  {Line("body", "ordinary", "none", versions, c, like) :
     versions \in {{"old"}, {"new"}, {"old", "new"}}, c \in Contents, like \in BOOLEAN}

NextLines ==
  CASE place = "top"    -> Headers
    [] place = "header" -> Headers \cup {StructureLine(k) : k \in {"at", "names", "meta"}}
    [] place = "hunk"   -> Headers \cup {StructureLine(k) : k \in {"at", "meta"}}
                             \cup BodyLines

(* _is_safe_file, and _is_secret_file: of a section's header.              *)
IsExempt(line) ==
  mode = "agent-repo" /\ line.form = "--git" /\ line.file = "safe"

IsSecretFile(line) == line.file = "secret"

(* What a line really holds: a credential, and inside whose key.           *)
Credentials(line) ==
  IF line.kind # "body" THEN {} ELSE
    {what \in {"shape", "keyword", "secret file"} :
       CASE what = "shape"       -> line.content.shape /\ ~(exempt /\ line.content.fixture)
         [] what = "keyword"     -> /\ line.content.keyword /\ ~line.content.reviewed
                                    /\ ~(exempt /\ line.content.fixture)
         [] what = "secret file" -> secret}

(* The old version's keys and the new one's, each by its own lines; a key  *)
(* among the exempt fixtures is none.                                      *)
KeysAfter(line) ==
  CASE line.kind \in {"diff", "at"} -> {}
    [] line.kind = "body" ->
         {v \in {"old", "new"} :
            IF v \in line.versions
            THEN KeyOpenAfter(line.content, v \in key_open)
                   /\ (v \in key_open \/ ~(exempt /\ line.content.fixture))
            ELSE v \in key_open}
    [] OTHER -> key_open

(* A line of a version with a key open is that key's.                      *)
KeyLines(line) ==
  IF line.kind # "body" \/ line.versions \cap key_open = {} THEN {}
  ELSE {IF crossed THEN "crossed key body" ELSE "key body"}

(* main has one in_key for both versions: an END of either closes it, and  *)
(* so does a line that is no content.                                      *)
CrossedAfter(line) ==
  /\ KeysAfter(line) # {}
  /\ crossed \/ line.kind # "body" \/ ~KeyOpenAfter(line.content, TRUE)

(* A plausible bug: the bypass of the agent's own files latches. *)
SafeAfterLatched(line) == in_safe \/ IsExempt(line)

(* _is_safe_file: exactly the file's own header, on both sides.            *)
SafeAfter(line) == IF line.kind = "diff" THEN IsExempt(line) ELSE in_safe

(* One turn of main's loop: the flags first, then the line.                *)
ReadsLine ==
  /\ mode \in {"diff", "agent-repo"} /\ exit = "none"
  /\ \E line \in NextLines :
       LET starts == line.kind = "diff"
           whole  == IF starts THEN IsSecretFile(line) ELSE in_secret
           hunk   == ~starts /\ (in_hunk \/ line.kind = "at")
           body   == IsBodyLine(line, hunk)
           within == in_key /\ ~starts /\ body
           marked == \/ within
                     \/ body /\ Redacts(line.content, SafeAfter(line), whole)
       IN  /\ in_safe' = SafeAfter(line) /\ in_secret' = whole /\ in_hunk' = hunk
           /\ in_key' = IF within THEN KeyOpenAfter(line.content, TRUE)
                                  ELSE marked /\ OpensKey(line.content)
           /\ redacted' = (redacted \/ marked)
           /\ place' = CASE starts -> "header"
                         [] line.kind = "at" -> "hunk"
                         [] OTHER -> place
           /\ exempt' = IF starts THEN IsExempt(line) ELSE exempt
           /\ secret' = IF starts THEN IsSecretFile(line) ELSE secret
           /\ key_open' = KeysAfter(line) /\ crossed' = CrossedAfter(line)
           /\ leaked' = IF marked THEN leaked
                        ELSE leaked \cup Credentials(line) \cup KeyLines(line)
           /\ broken' = (broken \/ (marked /\ line.kind \in Structure))
           /\ excess' = (excess \/ (marked /\ Credentials(line) = {} /\ key_open = {}))
  /\ UNCHANGED <<mode, dictVars, exit>>

-----------------------------------------------------------------------------
(* Text, and a JSON document's list of strings *)

(* One version only: the text's.  Everything inside a key is one's body.   *)
ReadsContent(c, begins) ==
  LET marked == in_key \/ begins
  IN  /\ in_key' = IF in_key THEN KeyOpenAfter(c, TRUE) ELSE begins /\ OpensKey(c)
      /\ redacted' = (redacted \/ marked)
      /\ key_open' = IF KeyOpenAfter(c, key_open # {}) THEN {"new"} ELSE {}
      /\ leaked' = IF marked THEN leaked
                   ELSE leaked \cup (IF RedactsText(c) THEN {"text"} ELSE {})
                               \cup (IF key_open # {} THEN {"key body"} ELSE {})
      /\ excess' = (excess \/ (marked /\ ~RedactsText(c) /\ key_open = {}))
      /\ UNCHANGED <<mode, in_safe, in_secret, in_hunk, dictVars, exit, place, exempt,
                     secret, crossed, broken>>

ReadsText ==
  /\ mode = "text" /\ exit = "none"
  /\ \E c \in Contents : ReadsContent(c, RedactsText(c))

(* A key's line opens a block; any other string is walked on its own, and  *)
(* so is a nested list or object, in which the key's state is another.     *)
ReadsItem ==
  /\ mode = "list" /\ exit = "none"
  /\ \E c \in Contents : ReadsContent(c, OpensKey(c) \/ RedactsText(c))

-----------------------------------------------------------------------------
(* A JSON document's object *)

Names == {entry.name : entry \in out}

(* A plausible bug: a redacted key's name is taken as it is. *)
NewNameUnchecked(key) ==
  IF key.text = "credential" THEN {Marker(Cardinality(node \ todo), 0)} ELSE {key}

(* name += "_" while it is a key of the document, or already written.      *)
NewName(key) ==
  IF key.text # "credential" THEN {key}
  ELSE LET index == Cardinality(node \ todo)
           free  == {tail \in 0..Cardinality(node \cup Names) :
                       Marker(index, tail) \notin node \cup Names}
       IN  {Marker(index, tail) : tail \in {t \in free : \A u \in free : t <= u}}

(* A value: a string, number or flag, or a list or object (branch), whose  *)
(* own strings and numbers are parts.  A part is a credential by itself,   *)
(* or an ordinary one, which may be one beside its key, or too short.      *)
Parts  == {"credential", "ordinary", "short"}
Values == [branch : {FALSE}, parts : {{part} : part \in Parts}]
            \cup [branch : {TRUE}, parts : SUBSET Parts]

(* _secret_field: the key names a credential, or holds one.                *)
SecretField(key) == key.text \in {"field", "credential"}

(* A plausible bug: what a list or object holds has no value. *)
HoldsStringOnly(value) == ~value.branch /\ value.parts # {"short"}

(* _holds_value: a list or object does unless it is empty.                 *)
HoldsValue(value) == IF value.branch THEN value.parts # {} ELSE value.parts # {"short"}

(* What is written of a value as it came: nothing of a secret field's, and *)
(* of another's what walk does not redact by itself.                       *)
WrittenAsIs(key, value) ==
  IF SecretField(key) /\ HoldsValue(value) THEN {} ELSE value.parts \ {"credential"}

(* What of a value is secret: under a key that names a credential, all of  *)
(* some length; elsewhere what is a credential by itself.                  *)
SecretParts(key, value) ==
  IF key.text = "field" THEN value.parts \ {"short"} ELSE value.parts \cap {"credential"}

(* One entry of walk's loop over a dict; a nested one is walked likewise.  *)
WalksEntry ==
  /\ mode = "object" /\ exit = "none" /\ todo # {}
  /\ \E key \in todo, value \in Values :
       /\ todo' = todo \ {key}
       /\ \E name \in NewName(key) :
            out' = {e \in out : e.name # name} \cup {[name |-> name, key |-> key]}
       /\ redacted' = (redacted \/ key.text = "credential"
                         \/ value.parts \ WrittenAsIs(key, value) # {})
       /\ leaked' = IF WrittenAsIs(key, value) \cap SecretParts(key, value) = {}
                    THEN leaked ELSE leaked \cup {"value"}
  /\ UNCHANGED <<mode, flagVars, node, exit, truthVars, broken, excess>>

-----------------------------------------------------------------------------
(* The end: main's status, or __main__'s when reading failed.              *)
Exits ==
  /\ exit = "none" /\ todo = {}
  /\ exit' = IF redacted THEN "1" ELSE "0"
  /\ UNCHANGED <<mode, flagVars, redacted, dictVars, truthVars, faultVars>>

Fails ==
  /\ exit = "none" /\ exit' = "2"
  /\ UNCHANGED <<mode, flagVars, redacted, dictVars, truthVars, faultVars>>

Next == ReadsLine \/ ReadsText \/ ReadsItem \/ WalksEntry \/ Exits \/ Fails

Spec == Init /\ [][Next]_vars

-----------------------------------------------------------------------------
(* Properties *)

(* Every variable holds a value of its kind; and a section is never both   *)
(* passed as the agent's own and redacted whole.                           *)
TypeOK ==
  /\ mode \in Modes
  /\ in_safe \in BOOLEAN /\ in_secret \in BOOLEAN /\ in_key \in BOOLEAN
  /\ in_hunk \in BOOLEAN /\ redacted \in BOOLEAN
  /\ exempt \in BOOLEAN /\ secret \in BOOLEAN
  /\ broken \in BOOLEAN /\ excess \in BOOLEAN
  /\ exit \in {"none", "0", "1", "2"}
  /\ node \subseteq Keys /\ todo \subseteq node
  /\ out \subseteq [name : Keys \cup Markers, key : node]
  /\ place \in {"top", "header", "hunk"}
  /\ key_open \subseteq {"old", "new"} /\ crossed \in BOOLEAN
  /\ leaked \subseteq {"shape", "keyword", "secret file", "text", "value",
                       "key body", "crossed key body"}
  /\ ~(in_safe /\ in_secret)

(* What goes through as it came is no credential: not a removed line that  *)
(* reads like a file header, not a line of another section that follows    *)
(* the agent's own files', not one of a credential's file, no value of an  *)
(* object beside a key that names it or anywhere in what such a key holds, *)
(* and no line of a key's body -- but in a diff, after the other version's *)
(* END or a line of neither, while the key is open: there the status says  *)
(* it, since the key's BEGIN was redacted.  For 0 says that nothing went   *)
(* through, nothing was redacted and no key is open.                       *)
NothingLeaks ==
  /\ leaked \subseteq (IF mode \in {"diff", "agent-repo"} THEN {"crossed key body"} ELSE {})
  /\ exit = "0" => leaked = {} /\ ~redacted /\ key_open = {}

(* A scrubbed diff is still a diff: no line of its structure is changed,   *)
(* whatever the file it names is called.                                   *)
StructureIsKept == ~broken

(* A redaction aborts a review, so each has a reason: the line's patterns, *)
(* its file, or a key that one of the two versions has open there.         *)
OnlyWithReason == ~excess

(* No entry of an object is lost to another's new name, and none keeps a   *)
(* key that is a credential.                                               *)
NoEntryIsLost ==
  /\ \A key \in node \ todo : \E entry \in out : entry.key = key
  /\ \A entry \in out : entry.name.text # "credential"
=============================================================================
