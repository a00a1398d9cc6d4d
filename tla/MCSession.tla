----------------------------- MODULE MCSession -----------------------------
(* Session on small instances: see the cfg files for the values.           *)
EXTENDS Session
=============================================================================
