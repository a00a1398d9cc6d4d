------------------------------ MODULE MCWindow -------------------------------
(***************************************************************************)
(* The parts of Window, and beside them the diffs of MCDiff:               *)
(*                                                                         *)
(*  - diff: the pairs of snapshots of MCDiff;                              *)
(*  - sidebar: two servers and a third that may be added, three actions;   *)
(*  - store: three takings of a snapshot, by the app or the command line,  *)
(*    of two contents or of one not all read, at three instants;           *)
(*  - keyring: two entries and four jobs;                                  *)
(*  - serving: three actions of the user on the app's gateway, two ports,  *)
(*    two lists of servers and one that cannot be built;                   *)
(*  - agents: a connection that makes two calls, room for one, a path that *)
(*    passes to another server, two runs of the gateway.                   *)
(***************************************************************************)
EXTENDS Window, TLC

VARIABLES asked, found  \* MCDiff's

Snapshots == INSTANCE MCDiff

MCStored == <<1, 2>>

\* Two servers at their paths, and one of them deleted, the other at its path.
MCPlans == {("p" :> "s") @@ ("q" :> "t"), ("p" :> "t") @@ ("q" :> "none")}
MCPathOf == "c" :> "p"
MCConnOf == ("x" :> "c") @@ ("y" :> "c")

\* Ports and lists are alike.
MCInit ==
  /\ part \in {"diff", "sidebar", "store", "keyring", "serving", "agents"}
  /\ Beginning /\ Snapshots!Init
  /\ port = 8 /\ list = 1 /\ plan["p"] = "s"

MCNext ==
  \/ WindowNext /\ UNCHANGED <<asked, found>>
  \/ part = "diff" /\ Snapshots!Next /\ UNCHANGED all

MCSpec == MCInit /\ [][MCNext]_<<all, asked, found>>

DiffSound == Snapshots!DiffSound
=============================================================================
