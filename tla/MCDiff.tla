------------------------------- MODULE MCDiff --------------------------------
(* Snapshots of a tool, a resource and a prompt in forms that differ.      *)
EXTENDS Naturals, Sequences, FiniteSets

Num(k) == [t |-> "integer", n |-> k]
Null == [t |-> "null"]
Object(f) == [t |-> "object", of |-> f]
Array(s) == [t |-> "array", of |-> s]

Leaves == {Num(0), Num(1), Num(2), Null}
MCValues ==
  Leaves \cup {Array(<<v>>) : v \in Leaves} \cup {Array(<<Array(<<v>>)>>) : v \in Leaves}
    \cup UNION {{Object(f) : f \in [names -> {Num(0), Num(1), Null}]} : names \in SUBSET {"p", "q"}}

\* A record with the fields of those of the optional ones that are present.
With(r, key, options) ==
  {r} \cup {[k \in DOMAIN r \cup {key} |-> IF k = key THEN v ELSE r[k]] : v \in options}
Each(S, key, options) == UNION {With(r, key, options) : r \in S}

Empty == [title |-> "t"]
Typed == With(Empty, "type", {{"integer"}, {"integer", "null"}})
Leafs ==
  {Each(Each(Typed, "minimum", {1, 2}), "maximum", {1}),
   Each(Each(Typed, "enum", {{Num(1)}, {Num(1), Num(2)}}), "minimum", {2}),
   Each(Each(Typed, "pattern", {{0, 1}, {1}}), "const", {Num(1)})
     \cup {[title |-> "u", type |-> {"null"}], [title |-> "t", unknown |-> "x"]}}

Alternative == {[type |-> {"integer"}], [type |-> {"null"}], [type |-> {"integer"}, minimum |-> 1]}
MixedSchemas ==
  {[anyOf |-> s] : s \in UNION {[1..n -> Alternative] : n \in 1..2}}
    \cup {[allOf |-> s] : s \in UNION {[1..n -> {[minimum |-> 1], [maximum |-> 1]}] : n \in 1..2}}
    \cup {[items |-> s] : s \in Alternative} \cup {[title |-> "t"]}

\* Items, or items of items, defined apart or elsewhere.
MCElsewhere == [X |-> [type |-> {"integer"}], Y |-> [type |-> {"null"}]]
Defined == {[type |-> {"integer"}], [type |-> {"integer", "null"}], [minimum |-> 1]}
ReferringSchemas ==
  {[items |-> s, defs |-> [P |-> d]] :
     <<s, d>> \in {[ref |-> "P"], [items |-> [ref |-> "P"]], [anyOf |-> <<[ref |-> "P"]>>]} \X Defined}
    \cup {[items |-> [ref |-> "P", minimum |-> k], defs |-> [P |-> [type |-> {"integer"}]]] : k \in 1..2}
    \cup {[items |-> s] : s \in {[ref |-> "X"], [ref |-> "Y"], [title |-> "t"]}}

PropertySchemas == {[type |-> {"integer"}], [type |-> {"integer", "null"}]}
Plain == [type |-> {"object"}]
\* Names are required that are not declared too, but where nothing else may be
\* there: such a schema would admit nothing.
ObjectSchemas ==
  UNION {{[type |-> {"object"}, properties |-> f, required |-> r, closed |-> c] :
            <<f, r>> \in [n -> PropertySchemas] \X SUBSET (IF c THEN n ELSE {"p", "q"})} :
         <<n, c>> \in (SUBSET {"p", "q"}) \X BOOLEAN}
    \cup {Plain, [type |-> {"object"}, required |-> {"p"}]}
\* Objects of any names, all of one schema.
MapSchemas ==
  Each(Each({Plain}, "properties", {[p |-> s] : s \in PropertySchemas}), "extra", PropertySchemas)
    \cup {[type |-> {"object"}, closed |-> TRUE]}

Snapshot(tools, resources, prompts, failed) ==
  [version |-> 1, capabilities |-> {"tools"}, failed |-> failed,
   lists |-> [tools |-> tools, resources |-> resources, templates |-> resources,
              prompts |-> prompts]]

Nothing == <<>>
OfTool(tool) == Snapshot([search |-> tool], Nothing, Nothing, {})
Taking(s) == OfTool([text |-> "t", input |-> s])
Giving(s) == OfTool([text |-> "t", input |-> Empty, output |-> s])

Items ==
  {Snapshot(t, r, p, f) :
     t \in {Nothing, [search |-> [text |-> "t", input |-> Empty]],
           [search |-> [text |-> "u", input |-> Empty, output |-> Empty]]},
     r \in {Nothing, [file |-> [text |-> "t", mime |-> "json"]],
           [file |-> [text |-> "t", mime |-> "text"]]},
     p \in {Nothing, [greet |-> [text |-> "t", arguments |-> <<>>]],
           [greet |-> [text |-> "t", arguments |-> [who |-> FALSE]]],
           [greet |-> [text |-> "t", arguments |-> [who |-> TRUE]]]},
     f \in {{}}}
Partial ==
  {Snapshot(Nothing, r, Nothing, {"tools"}) :
     r \in {Nothing, [file |-> [text |-> "t", mime |-> "json"]]}}
Older == [Snapshot(Nothing, Nothing, Nothing, {}) EXCEPT !.version = 0, !.capabilities = {}]

Uses(S) == {{Taking(s) : s \in S}, {Giving(s) : s \in S}}
MCFamilies ==
  {Items \cup Partial \cup {Older}}
    \cup UNION {Uses(S) : S \in Leafs} \cup Uses(MixedSchemas) \cup Uses(ReferringSchemas)
    \cup Uses(ObjectSchemas) \cup Uses(MapSchemas)

VARIABLES asked, found
INSTANCE Diff WITH Families <- MCFamilies, Values <- MCValues, Elsewhere <- MCElsewhere
=============================================================================
