-------------------------------- MODULE Diff ---------------------------------
(***************************************************************************)
(* How two snapshots of a server differ, each difference breaking,         *)
(* compatible or cosmetic: the verdict `coco diff` exits with and the      *)
(* window's banner shows.  A schema constrains what clients send (input)   *)
(* or what they receive (output), and stricter means the opposite in each. *)
(*                                                                         *)
(* Source: crates/mcp-diff/src/schema.rs (walk, types, tighten, loosen)    *)
(* and lib.rs (diff and its parts).  The reference it is checked against   *)
(* is what the keywords mean: the values a schema admits.                  *)
(*                                                                         *)
(* A schema is a record of the keywords it has; of keywords treated alike  *)
(* one stands for all; `closed` is additionalProperties: false and `extra` *)
(* a schema in its place.  Left out: the depth limit; paths and wording.   *)
(***************************************************************************)
EXTENDS Integers, Sequences, FiniteSets

CONSTANTS
  Families,    \* sets of snapshots, compared with those of their set
  Elsewhere,   \* what references name that lead out of their schema
  Values       \* what clients send and receive

VARIABLES
  asked,       \* the pair compared
  found        \* SnapshotDiff: its outcome, changes and skipped lists

vars == <<asked, found>>

NotAsked == <<>>

Change(severity, what) == {[severity |-> severity, what |-> what]}

Tighten(d) == IF d = "input" THEN "breaking" ELSE "compatible"
Loosen(d) == IF d = "input" THEN "compatible" ELSE "breaking"

Has(s, key) == key \in DOMAIN s
Get(s, key, default) == IF Has(s, key) THEN s[key] ELSE default
Differ(a, b, key) == Has(a, key) # Has(b, key) \/ (Has(a, key) /\ a[key] # b[key])

-----------------------------------------------------------------------------
(* One keyword after the other.                                            *)

MetadataChanges(a, b) ==
  IF Differ(a, b, "title") THEN Change("cosmetic", "title") ELSE {}

\* `type`, and "null" for an alternative of that type.
Types(s) ==
  Get(s, "type", {})
    \cup {"null" : i \in {j \in DOMAIN Get(s, "anyOf", <<>>) :
                            Get(s.anyOf[j], "type", {}) = {"null"}}}

TypeChanges(a, b, d) ==
  IF Types(a) = Types(b) THEN {}
  ELSE Change(IF Types(a) = {} \/ Types(b) = {} THEN "breaking"
              ELSE IF Types(a) \subseteq Types(b) THEN Loosen(d)
              ELSE IF Types(b) \subseteq Types(a) THEN Tighten(d)
              ELSE "breaking", "type")

\* A schema without `enum` has the empty one.
EnumChanges(a, b, d) ==
  LET was == Get(a, "enum", {})
      is == Get(b, "enum", {})
  IN (IF was \ is # {} THEN Change(Tighten(d), "enum removed") ELSE {})
       \cup (IF is \ was # {} THEN Change(Loosen(d), "enum added") ELSE {})

ConstChanges(a, b) == IF Differ(a, b, "const") THEN Change("breaking", "const") ELSE {}

\* Mutant of Stricter: a lower minimum is the stricter.
StricterLower(a, b, key) ==
  IF Has(a, key) /\ Has(b, key) THEN (b[key] > a[key]) # (key = "minimum") ELSE Has(b, key)
\* Of a bound that changed: for a minimum the higher, for a maximum the lower.
Stricter(a, b, key) ==
  IF Has(a, key) /\ Has(b, key) THEN (b[key] > a[key]) = (key = "minimum") ELSE Has(b, key)

\* minimum and maximum, of numbers, lengths and counts.
BoundChanges(a, b, d) ==
  UNION {IF Differ(a, b, key)
           THEN Change(IF Stricter(a, b, key) THEN Tighten(d) ELSE Loosen(d), key) ELSE {} :
         key \in {"minimum", "maximum"}}

\* pattern, format, multipleOf and uniqueItems.
PatternChanges(a, b, d) ==
  IF ~Differ(a, b, "pattern") THEN {}
  ELSE Change(IF ~Has(a, "pattern") THEN Tighten(d)
              ELSE IF ~Has(b, "pattern") THEN Loosen(d) ELSE "breaking", "pattern")

\* additionalProperties: false, or anything else: a schema in its place is not
\* looked at.
Forbids(s) == Get(s, "closed", FALSE)
AdditionalChanges(a, b, d) ==
  IF Forbids(a) = Forbids(b) THEN {}
  ELSE Change(IF Forbids(b) THEN Tighten(d) ELSE Loosen(d), "closed")

Properties(s) == Get(s, "properties", <<>>)
Required(s) == Get(s, "required", {})

RequiredChange(a, b, d, name) ==
  CASE name \in Required(b) \ Required(a) -> Change(Tighten(d), "now required")
    [] name \in Required(a) \ Required(b) -> Change(Loosen(d), "now optional")
    [] OTHER -> {}

PropertyRemoved(b, d) ==
  Change(IF d = "output" \/ Forbids(b) THEN "breaking" ELSE "compatible", "removed")

PropertyAdded(b, d, name) ==
  Change(IF d = "input" /\ name \in Required(b) THEN "breaking" ELSE "compatible", "added")

RECURSIVE Walk(_, _, _)

PropertyChanges(a, b, c) ==
  LET was == DOMAIN Properties(a)
      is == DOMAIN Properties(b)
  IN UNION {RequiredChange(a, b, c.direction, n)
                 \cup Walk(a.properties[n], b.properties[n], c) :
              n \in was \cap is}
       \cup UNION {PropertyRemoved(b, c.direction) : n \in was \ is}
       \cup UNION {PropertyAdded(b, c.direction, n) : n \in is \ was}

ItemsChanges(a, b, c) ==
  CASE Has(a, "items") /\ Has(b, "items") -> Walk(a.items, b.items, c)
    [] Has(a, "items") # Has(b, "items") -> Change("breaking", "items")
    [] OTHER -> {}

\* anyOf, oneOf and allOf: as many alternatives are compared one by one, more
\* or fewer by their number.
AlternativesChanges(a, b, c, key) ==
  IF ~Has(a, key) /\ ~Has(b, key) THEN {}
  ELSE IF Has(a, key) # Has(b, key) THEN Change("breaking", key)
  ELSE IF Len(a[key]) = Len(b[key])
    THEN UNION {Walk(a[key][i], b[key][i], c) : i \in DOMAIN a[key]}
    ELSE Change(IF (Len(b[key]) > Len(a[key])) = (key = "allOf")
                         THEN Tighten(c.direction) ELSE Loosen(c.direction), key)

UnknownChanges(a, b) == IF Differ(a, b, "unknown") THEN Change("breaking", "unknown") ELSE {}

\* A reference is followed in the schema's own definitions (none is circular
\* here, which the depth of the walk bounds), and the keywords beside it go.
\* One that leads elsewhere stays, and no change of it is reported.
Resolve(defs, s) == IF Has(s, "ref") /\ s.ref \in DOMAIN defs THEN defs[s.ref] ELSE s

\* Parts that are alike are passed over, with the references in them.
Walk(was, is, c) ==
  LET a == Resolve(c.a, was)
      b == Resolve(c.b, is)
      d == c.direction
  IN IF a = b THEN {} ELSE
       MetadataChanges(a, b) \cup TypeChanges(a, b, d) \cup EnumChanges(a, b, d)
         \cup ConstChanges(a, b) \cup BoundChanges(a, b, d) \cup PatternChanges(a, b, d)
         \cup AdditionalChanges(a, b, d) \cup PropertyChanges(a, b, c) \cup ItemsChanges(a, b, c)
         \cup AlternativesChanges(a, b, c, "anyOf") \cup AlternativesChanges(a, b, c, "allOf")
         \cup UnknownChanges(a, b)

Definitions(s) == Get(s, "defs", <<>>)

\* schema::compare
SchemaChanges(a, b, d) ==
  Walk(a, b, [a |-> Definitions(a), b |-> Definitions(b), direction |-> d])

-----------------------------------------------------------------------------
(* Snapshots: lists of named items.  A list that failed is empty.          *)

Kinds == {"tools", "resources", "templates", "prompts"}

OfItem(kind, name, changes) ==
  {[kind |-> kind, name |-> name, severity |-> c.severity, what |-> c.what] : c \in changes}

TextChanges(old, new) ==
  IF old.text # new.text THEN Change("cosmetic", "description") ELSE {}

\* One schema for the arguments, and one for the results where declared.
ToolChanges(old, new) ==
  TextChanges(old, new) \cup SchemaChanges(old.input, new.input, "input")
    \cup (IF Has(old, "output") /\ Has(new, "output")
             THEN SchemaChanges(old.output, new.output, "output")
           ELSE IF Has(new, "output") THEN Change("compatible", "output schema declared")
           ELSE IF Has(old, "output") THEN Change("breaking", "output schema removed") ELSE {})

\* Of a resource, and of a template.
ResourceChanges(old, new) ==
  TextChanges(old, new)
    \cup (IF old.mime # new.mime THEN Change("breaking", "mime type") ELSE {})

\* Arguments: of each, whether it is required.
PromptChanges(old, new) ==
  LET was == DOMAIN old.arguments
      is == DOMAIN new.arguments
  IN TextChanges(old, new)
       \cup UNION {CASE ~old.arguments[n] /\ new.arguments[n] -> Change("breaking", "now required")
                     [] old.arguments[n] /\ ~new.arguments[n] -> Change("compatible", "now optional")
                     [] OTHER -> {} : n \in was \cap is}
       \cup UNION {Change("compatible", "argument removed") : n \in was \ is}
       \cup UNION {Change(IF new.arguments[n] THEN "breaking" ELSE "compatible", "argument added") :
                    n \in is \ was}

ItemChanges(kind, old, new) ==
  CASE kind = "tools" -> ToolChanges(old, new)
    [] kind = "prompts" -> PromptChanges(old, new)
    [] OTHER -> ResourceChanges(old, new)

ListChanges(kind, was, is) ==
  UNION {OfItem(kind, n, ItemChanges(kind, was[n], is[n])) : n \in DOMAIN was \cap DOMAIN is}
    \cup UNION {OfItem(kind, n, Change("breaking", "removed")) : n \in DOMAIN was \ DOMAIN is}
    \cup UNION {OfItem(kind, n, Change("compatible", "added")) : n \in DOMAIN is \ DOMAIN was}

ServerChanges(before, after) ==
  (IF before.version # after.version THEN OfItem("server", "server", Change("compatible", "version"))
                                     ELSE {})
    \cup UNION {OfItem("server", c, Change("breaking", "removed")) :
                 c \in before.capabilities \ after.capabilities}
    \cup UNION {OfItem("server", c, Change("compatible", "added")) :
                 c \in after.capabilities \ before.capabilities}

\* What the digest is of: all but which lists failed, and more than the diff
\* compares (an item's other fields).
Content(s) == [s EXCEPT !.failed = {}]

\* Lists not read on one side: their items are unknown, not removed.
Skipped(before, after) == before.failed \cup after.failed

Compare(before, after) ==
  IF Content(before) = Content(after) THEN {} ELSE
    ServerChanges(before, after)
      \cup UNION {ListChanges(k, before.lists[k], after.lists[k]) :
                   k \in Kinds \ Skipped(before, after)}

Init == asked = NotAsked /\ found = [outcome |-> "none", changes |-> {}, skipped |-> {}]

\* diff: an earlier snapshot, or none on first contact.
First(after) ==
  /\ asked = NotAsked /\ asked' = [after |-> after]
  /\ found' = [outcome |-> "first", changes |-> {}, skipped |-> {}]

Diff(before, after) ==
  /\ asked = NotAsked /\ asked' = [before |-> before, after |-> after]
  /\ LET changes == Compare(before, after)
     IN found' = [outcome |-> IF changes = {} THEN "unchanged" ELSE "changed",
                  changes |-> changes, skipped |-> Skipped(before, after)]

Next == \E F \in Families : \E after \in F :
  First(after) \/ \E before \in F : Diff(before, after)
Spec == Init /\ [][Next]_vars

-----------------------------------------------------------------------------
(* The reference: what schemas mean, and what clients rely on.             *)

RECURSIVE AdmitsIn(_, _, _)
AdmitsIn(defs, s, v) ==
  /\ Has(s, "ref") =>
       IF s.ref \in DOMAIN defs THEN AdmitsIn(defs, defs[s.ref], v)
                               ELSE AdmitsIn(<<>>, Elsewhere[s.ref], v)
  /\ Has(s, "type") => v.t \in s.type
  /\ Has(s, "enum") => v \in s.enum
  /\ Has(s, "const") => v = s.const
  /\ v.t = "integer" => /\ Has(s, "minimum") => v.n >= s.minimum
                        /\ Has(s, "maximum") => v.n <= s.maximum
                        /\ Has(s, "pattern") => v.n \in s.pattern
  /\ v.t = "object" => /\ Required(s) \subseteq DOMAIN v.of
                       /\ Forbids(s) => DOMAIN v.of \subseteq DOMAIN Properties(s)
                       /\ \A n \in DOMAIN Properties(s) \cap DOMAIN v.of :
                            AdmitsIn(defs, s.properties[n], v.of[n])
                       /\ \A n \in DOMAIN v.of \ DOMAIN Properties(s) :
                            Has(s, "extra") => AdmitsIn(defs, s.extra, v.of[n])
  /\ v.t = "array" /\ Has(s, "items") => \A i \in DOMAIN v.of : AdmitsIn(defs, s.items, v.of[i])
  /\ Has(s, "anyOf") => \E i \in DOMAIN s.anyOf : AdmitsIn(defs, s.anyOf[i], v)
  /\ Has(s, "allOf") => \A i \in DOMAIN s.allOf : AdmitsIn(defs, s.allOf[i], v)

Admits(s, v) == AdmitsIn(Definitions(s), s, v)

\* Of an object, the part a client knows of: the properties declared to it and
\* the names required of it; all of it, where any name of a schema is said.
Known(s, v) ==
  IF v.t # "object" \/ Has(s, "extra") THEN v
  ELSE [v EXCEPT !.of = [n \in DOMAIN v.of \cap (DOMAIN Properties(s) \cup Required(s)) |-> v.of[n]]]

\* A client sends what it knows of, and reads of a result what it knows of.
ArgumentsKept(old, new) ==
  \A v \in Values : Admits(old, v) /\ Known(old, v) = v => Admits(new, v)
ResultsKept(old, new) == \A v \in Values : Admits(new, v) => Admits(old, Known(old, v))

ItemKept(kind, old, new) ==
  CASE kind = "tools" ->
         /\ ArgumentsKept(old.input, new.input)
         /\ Has(old, "output") => Has(new, "output") /\ ResultsKept(old.output, new.output)
    [] kind = "prompts" ->
         \A n \in DOMAIN new.arguments :
           new.arguments[n] => n \in DOMAIN old.arguments /\ old.arguments[n]
    [] OTHER -> old.mime = new.mime

\* "Existing clients keep working", as far as the lists were read.
ClientsKept(before, after) ==
  /\ before.capabilities \subseteq after.capabilities
  /\ \A k \in Kinds \ (before.failed \cup after.failed) :
       \A n \in DOMAIN before.lists[k] :
         /\ n \in DOMAIN after.lists[k]
         /\ ItemKept(k, before.lists[k][n], after.lists[k][n])

Breaking == {c \in found.changes : c.severity = "breaking"}
Compared == found.outcome \in {"unchanged", "changed"}

RECURSIVE Refers(_)
Refers(s) ==
  \/ Has(s, "ref")
  \/ \E key \in {"anyOf", "allOf"} : \E i \in DOMAIN Get(s, key, <<>>) : Refers(s[key][i])
  \/ \E n \in DOMAIN Properties(s) : Refers(s.properties[n])
  \/ \E key \in {"items", "extra"} : Has(s, key) /\ Refers(s[key])

\* Required, and not declared.
Undeclared(s) == Required(s) \ DOMAIN Properties(s)

\* The keywords that following a reference passes over.
Beside(defs, s) ==
  IF Resolve(defs, s) = s THEN <<>> ELSE [k \in DOMAIN s \ {"ref", "defs", "title"} |-> s[k]]

\* Ways in which a schema gets stricter unseen, those the families meet:
\* - an enum declared or dropped is taken for one with values added or removed;
\* - alternatives that are more or fewer are not compared;
\* - a name is required, or no longer, that `properties` does not declare;
\* - a schema of the additional properties is not compared, neither with another
\*   one nor with the properties that it stands in for;
\* - a reference that leads elsewhere is not compared, and neither are the
\*   keywords beside one that is followed;
\* - parts alike on both sides are passed over though they refer to definitions
\*   that are not alike.
RECURSIVE Unseen(_, _, _)
Unseen(was, is, c) ==
  LET a == Resolve(c.a, was)
      b == Resolve(c.b, is)
  IN \/ a = b /\ Refers(a) /\ c.a # c.b
     \/ Has(a, "enum") # Has(b, "enum")
     \/ Differ(a, b, "ref") \/ Beside(c.a, was) # Beside(c.b, is)
     \/ Undeclared(b) \ Required(a) # {} \/ Undeclared(a) \ Required(b) # {}
     \/ /\ Has(a, "extra") \/ Has(b, "extra")
        /\ Differ(a, b, "extra") \/ DOMAIN Properties(a) # DOMAIN Properties(b)
     \/ \E key \in {"anyOf", "allOf"} :
          /\ Has(a, key) /\ Has(b, key)
          /\ \/ Len(a[key]) # Len(b[key])
             \/ \E i \in DOMAIN a[key] : Unseen(a[key][i], b[key][i], c)
     \/ \E n \in DOMAIN Properties(a) \cap DOMAIN Properties(b) :
          Unseen(a.properties[n], b.properties[n], c)
     \/ Has(a, "items") /\ Has(b, "items") /\ Unseen(a.items, b.items, c)

UnseenOf(a, b) == Unseen(a, b, [a |-> Definitions(a), b |-> Definitions(b)])

UnseenIn(before, after) ==
  \E n \in DOMAIN before.lists["tools"] \cap DOMAIN after.lists["tools"] :
    LET old == before.lists["tools"][n]
        new == after.lists["tools"][n]
    IN \/ UnseenOf(old.input, new.input)
       \/ Has(old, "output") /\ Has(new, "output") /\ UnseenOf(old.output, new.output)

\* A diff without a breaking change breaks no client, but for the ways above
\* (diff, schema::walk: exit status 0 of `coco diff`).
NoneBroken ==
  Compared /\ Breaking = {} /\ ~UnseenIn(asked.before, asked.after)
    => ClientsKept(asked.before, asked.after)

\* A list unread on either side is named, and nothing is said of its items;
\* snapshots that say the same do not differ.
UnreadSkipped ==
  Compared =>
    /\ found.skipped = asked.before.failed \cup asked.after.failed
    /\ \A c \in found.changes : c.kind \notin asked.before.failed \cup asked.after.failed
    /\ asked.before = asked.after => found.outcome = "unchanged"

\* What the diff promises: NoneBroken and UnreadSkipped.
DiffSound == NoneBroken /\ UnreadSkipped
=============================================================================
