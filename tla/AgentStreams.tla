---------------------------- MODULE AgentStreams -----------------------------
(***************************************************************************)
(* What an agent is promised of the streams its requests open, whichever   *)
(* side of the gateway keeps them: a stream opens with its request, bears  *)
(* one response at most, and bears nothing once it is over.  Relay and     *)
(* Aggregate each implement this.                                          *)
(***************************************************************************)
EXTENDS Naturals, Sequences

CONSTANTS
  Requests,
  MayFollow   \* BOOLEAN: a message may still come after the response

VARIABLES
  phase,      \* of each request's stream
  stream      \* what its reader was given or will be

vars == <<phase, stream>>

Init ==
  /\ phase = [r \in Requests |-> "idle"]
  /\ stream = [r \in Requests |-> <<>>]

Opens(r) ==
  /\ phase[r] = "idle"
  /\ phase' = [phase EXCEPT ![r] = "open"]
  /\ UNCHANGED stream

\* A message of the server's own is told on the stream.
Bears(r) ==
  /\ phase[r] = "open" \/ (MayFollow /\ phase[r] = "answered")
  /\ stream' = [stream EXCEPT ![r] = Append(@, "message")]
  /\ phase' \in {phase, [phase EXCEPT ![r] = "over"]}

\* The response, after which the stream is over at once or takes no other.
Answers(r) ==
  /\ phase[r] = "open"
  /\ stream' = [stream EXCEPT ![r] = Append(@, "response")]
  /\ phase' \in {[phase EXCEPT ![r] = "over"]}
                 \cup (IF MayFollow THEN {[phase EXCEPT ![r] = "answered"]} ELSE {})

\* Streams end, of an agent that leaves or a connection that closes.
End(S) ==
  /\ UNCHANGED stream
  /\ phase' = [r \in Requests |-> IF r \in S THEN "over" ELSE phase[r]]

\* The agent leaves a stream, and with it what it has not read.
Leaves(r) ==
  /\ phase[r] # "idle"
  /\ phase' = [phase EXCEPT ![r] = "over"]
  /\ \E read \in 0..Len(stream[r]) : stream' = [stream EXCEPT ![r] = SubSeq(@, 1, read)]

\* (That something changes is asked first: it is cheap to tell.)
Next ==
  /\ vars' # vars
  /\ \/ \E r \in Requests : Opens(r) \/ Bears(r) \/ Answers(r) \/ Leaves(r)
     \/ \E S \in SUBSET {r \in Requests : phase[r] # "idle"} : End(S)

Spec == Init /\ [][Next]_vars
=============================================================================
