-------------------------------- MODULE MCJobs --------------------------------
(***************************************************************************)
(*  - flag: writes of two values, three of each out at most;               *)
(*  - dialogs: two requests of the first session and one of the second,    *)
(*    which uses an id of the first again; or as many questions of calls,  *)
(*    the first two under one key;                                         *)
(*  - rows: two tools and three calls, one of each found by the filter.    *)
(***************************************************************************)
EXTENDS Jobs

CONSTANTS a, b, c

Second(r, S) == IF r \in S THEN 2 ELSE 1
SessionsOf == [r \in {a, b, c} |-> Second(r, {c})]
IdsOf == [r \in {a, b, c} |-> Second(r, {b})]
KeysOf == [r \in {a, b, c} |-> Second(r, {c})]
=============================================================================
