-------------------------- MODULE MCGatewayServer --------------------------
(* GatewayServer on small instances.                                       *)
EXTENDS GatewayServer, TLC

CONSTANTS a, b

Entry(ns, how) == [ns |-> ns, via |-> how]

\* One server; another placed before it; the two swapped and the first of them
\* opened differently; a list that names one namespace twice; nothing.  So a
\* server is kept, moved or opened differently while another is added, moved or
\* removed before or after it.
MCLists ==
  { <<Entry(a, 1)>>,
    <<Entry(b, 1), Entry(a, 1)>>,
    <<Entry(a, 2), Entry(b, 1)>>,
    <<Entry(a, 1), Entry(a, 2)>>,
    <<>> }

\* The root and one server, which is also opened differently or removed.
MCFew == { <<Entry(a, 1)>>, <<Entry(a, 2)>>, <<>> }
=============================================================================
