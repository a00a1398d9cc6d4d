----------------------------- MODULE MCAggregate ----------------------------
EXTENDS Aggregate

CONSTANTS r1, r2, u, p

\* The second server lists the resource, the first has a template for it.
TargetOf == [r \in {r1, r2} |-> u]
ServingOf == <<{}, {u}>>
OfferingOf == <<{p}, {}>>
ExpandsOf == {<<p, u>>}

Scene(a, b, ending, asking, leaving) ==
  [kind |-> r1 :> a @@ r2 :> b, ends |-> ending, asks |-> asking, leaves |-> leaving]

\* A list read again under a read; servers that end under a call, a list, a
\* read; the agent leaving in the middle of each; a server that asks.
ScenesOf ==
  {Scene("read", "resources", {}, {}, FALSE),
   Scene("read", "read", {}, {}, FALSE),
   Scene("read", "local", {}, {}, TRUE),
   Scene("call", "local", {1, 2}, {}, FALSE),
   Scene("call", "call", {1}, {}, FALSE),
   Scene("call", "local", {1}, {}, TRUE),
   Scene("level", "local", {1}, {2}, FALSE),
   Scene("tools", "call", {2}, {}, FALSE)}
=============================================================================
