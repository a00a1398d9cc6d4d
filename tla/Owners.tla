------------------------------- MODULE Owners -------------------------------
(***************************************************************************)
(* Which server behind the root a resource belongs to: the URIs each       *)
(* server listed, those a tool's result pointed at, and the templates.     *)
(*                                                                         *)
(* Source: mcp-gateway/src/merge.rs, Owners.  A value of this type is a    *)
(* record; its operations are operators that give the new one.  Which      *)
(* template matches which URI is a parameter (see Templates).              *)
(***************************************************************************)
EXTENDS Naturals, Sequences, FiniteSets, SequencesExt

CONSTANTS
  URIs,         \* resources
  Patterns,     \* resource templates
  Expands,      \* pairs of a template and a URI it matches
  MaxLinked     \* URIs remembered from tool results, at most

ASSUME OwnersAssumption ==
  Expands \subseteq Patterns \X URIs /\ MaxLinked \in Nat \ {0}

NoOwners == [uris |-> [u \in URIs |-> {}], linked |-> <<>>, templates |-> {}]

Listing(o, n, u) == [o EXCEPT !.uris[u] = @ \union {n}]
Templating(o, n, p) == [o EXCEPT !.templates = @ \union {<<n, p>>}]
ForgetUris(o, n) == [o EXCEPT !.uris = [u \in URIs |-> @[u] \ {n}]]
ForgetTemplates(o, n) ==
  [o EXCEPT !.templates = {t \in @ : t[1] # n}]

\* The oldest link makes room for a new one; one known already is left where
\* it is.
Linking(o, n, u) ==
  IF <<n, u>> \in ToSet(o.linked) THEN o
  ELSE [o EXCEPT !.linked =
          Append(IF Len(@) >= MaxLinked THEN Tail(@) ELSE @, <<n, u>>)]

ListedBy(o, u) == o.uris[u]
LinkedBy(o, u) == {l[1] : l \in {k \in ToSet(o.linked) : k[2] = u}}
MatchedBy(o, u) == {t[1] : t \in {k \in o.templates : <<k[2], u>> \in Expands}}

\* The first of S, or None: servers are tried in the order of their numbers.
First(S, None) == IF S = {} THEN None ELSE Min(S)

\* A server that listed the URI, else one that linked it, else one with a
\* template for it; of several the first of those that are tried.
Owner(o, u, tried, None) ==
  LET Of(S) == S \intersect tried
  IN IF Of(ListedBy(o, u)) # {} THEN First(Of(ListedBy(o, u)), None)
     ELSE IF Of(LinkedBy(o, u)) # {} THEN First(Of(LinkedBy(o, u)), None)
     ELSE First(Of(MatchedBy(o, u)), None)
=============================================================================
