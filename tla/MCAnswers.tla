------------------------------ MODULE MCAnswers ------------------------------
(***************************************************************************)
(*  - calls: a resource and a recorded call, two requests, two sessions,   *)
(*    one change of the resource;                                          *)
(*  - listener: three changes of two resources, one notification unread;   *)
(*  - history: a call stored before, one of Coco's own and an agent's, one *)
(*    export, two deletes in all.                                          *)
(***************************************************************************)
EXTENDS Answers
=============================================================================
