---------------------------- MODULE AnswersProofs ---------------------------
(***************************************************************************)
(* What is proved of the three parts of Answers, for any constants that    *)
(* its assumption allows:                                                  *)
(*  - calls: a key that waits shows so and waits for a request that is     *)
(*    out, and what it shows answers the newest request of that key;       *)
(*  - listener: the set listened for agrees with what the callers were     *)
(*    told, and the stream bears no less and no more;                      *)
(*  - history: the list is what the rows are, once each, and those who     *)
(*    wait for it are told.                                                *)
(***************************************************************************)
EXTENDS Answers, Sift, SequenceTheorems, FiniteSetTheorems, FunctionTheorems, TLAPS

\* A request's task, and what is shown under a key.
Task == [at : {"no", "sent", "settled", "recording", "over"}, key : Keys,
         of : 0..MaxSessions, record : BOOLEAN,
         status : {"none"} \cup Statuses, version : 0..MaxVersion]
Response == [status : {"none", "pending"} \cup Statuses, answer : 0..MaxCalls,
             version : 0..MaxVersion]

\* The types of the responses, and of the rest.
ResponsesTyped ==
  /\ shown \in [Keys -> Response]
  /\ waiting \in [Keys -> 0..MaxCalls] /\ stamp \in 0..MaxCalls
  /\ call \in [Stamps -> Task]
  /\ stopped \subseteq Stamps /\ forgotten \in [Keys -> 0..MaxCalls]
RestTyped ==
  /\ session \in 0..MaxSessions
  /\ current \in 0..MaxSessions /\ ended \in BOOLEAN
  /\ connects \in 0..MaxSessions /\ deleted \in BOOLEAN
  /\ version \in 0..MaxVersion /\ subscribed \in BOOLEAN
  /\ watched \in BOOLEAN
  /\ toggle \in [Toggles -> [at : {"no", "asked", "done", "over"},
                             on : BOOLEAN, of : 0..MaxSessions]]
  /\ update \in 0..MaxVersion /\ heard \in 0..MaxVersion /\ skipped \subseteq Ways

\* Stamps are given in order, and nothing has one that was not given.
StampsInOrder ==
  /\ \A c \in Stamps : call[c].at # "no" <=> c <= stamp
  /\ \A k \in Keys : waiting[k] <= stamp /\ forgotten[k] <= stamp

\* A request that came back brings an answer.
AnswersHeld ==
  \A c \in Stamps : call[c].at \in {"settled", "recording"} => call[c].status \in Statuses

\* CallsSound is not inductive: that an answer is newer than the forgetting of
\* its key rests on the order of the stamps, and that a key stops waiting when
\* it is answered on what the task came back with.
ResponsesInv ==
  ResponsesTyped /\ WaitsForOne /\ AnswersNewest /\ StampsInOrder /\ AnswersHeld
CallsInv == ResponsesInv /\ RestTyped

\* The two halves are the types of Calls.
LEMMA Typed == TypeOK <=> ResponsesTyped /\ RestTyped
BY DEF TypeOK, ResponsesTyped, RestTyped, Response, Task

\* At first nothing is shown and nothing sent.
LEMMA InitCalls == Init => CallsInv
<1> SUFFICES ASSUME Init PROVE CallsInv
  OBVIOUS
<1>1. 0 \in 0..MaxCalls /\ 0 \in 0..MaxSessions /\ 0 \in 0..MaxVersion /\ 1 \in 0..MaxVersion
  BY CallsAssumption
<1>2. Nothing \in Response /\ Unsent \in Task
  BY <1>1, CallsAssumption DEF Nothing, Unsent, Response, Task, None
<1>3. ResponsesTyped
  BY <1>1, <1>2 DEF Init, ResponsesTyped
<1>4. RestTyped
  BY <1>1 DEF Init, RestTyped, None
<1>5. WaitsForOne /\ AnswersNewest /\ AnswersHeld
  BY DEF Init, WaitsForOne, AnswersNewest, AnswersHeld, Pending, Nothing, Unsent
<1>6. StampsInOrder
  BY DEF Init, StampsInOrder, Unsent, Stamps
<1> QED BY <1>3, <1>4, <1>5, <1>6 DEF CallsInv, ResponsesInv

-----------------------------------------------------------------------------
(* The operations on the responses.                                        *)

\* Nothing of the responses is touched.
LEMMA ResponsesSame == ResponsesInv /\ UNCHANGED responses => ResponsesInv'
BY DEF ResponsesInv, responses, ResponsesTyped, WaitsForOne, AnswersNewest, StampsInOrder,
       AnswersHeld, Pending

\* A request sent has the newest stamp, and its key waits for it.
LEMMA BeginKeeps ==
  ASSUME ResponsesInv, RestTyped, NEW k \in Keys, NEW r \in BOOLEAN, Begin(k, r)
  PROVE  ResponsesInv'
<1>0. ResponsesTyped /\ WaitsForOne /\ AnswersNewest /\ StampsInOrder /\ AnswersHeld
  BY DEF ResponsesInv
<1> DEFINE pending == [status |-> "pending", answer |-> stamp', version |-> 0]
           task == [at |-> "sent", key |-> k, of |-> session,
                    record |-> r, status |-> "none", version |-> 0]
<1>1. /\ stamp \in 0..MaxCalls /\ stamp < MaxCalls /\ MaxCalls \in Nat
      /\ stamp' = stamp + 1 /\ stamp' \in Stamps /\ stamp' \in 0..MaxCalls
      /\ 0 \in 0..MaxVersion
  BY <1>0, CallsAssumption DEF Begin, ResponsesTyped, Stamps
<1>2. /\ waiting' = [waiting EXCEPT ![k] = stamp']
      /\ shown' = [shown EXCEPT ![k] = pending]
      /\ call' = [call EXCEPT ![stamp'] = task]
      /\ stopped' = stopped /\ forgotten' = forgotten
  BY DEF Begin
<1>3. pending \in Response /\ task \in Task
  BY <1>1 DEF Response, Task, RestTyped
<1>4. /\ pending.status = "pending" /\ pending.answer = stamp' /\ pending # Nothing
      /\ task.at = "sent" /\ task.key = k
  BY DEF Nothing
<1> HIDE DEF pending, task
<1>5. ResponsesTyped'
  BY <1>0, <1>1, <1>2, <1>3 DEF ResponsesTyped
<1>6. /\ \A j \in Keys \ {k} : waiting'[j] = waiting[j] /\ shown'[j] = shown[j]
      /\ waiting'[k] = stamp' /\ shown'[k] = pending
      /\ \A c \in Stamps \ {stamp'} : call'[c] = call[c]
      /\ call'[stamp'] = task
  BY <1>0, <1>1, <1>2 DEF ResponsesTyped
<1>7. \A j \in Keys : waiting[j] \in 0..MaxCalls /\ waiting[j] # stamp' /\ forgotten[j] \in 0..MaxCalls
                      /\ waiting[j] <= stamp /\ forgotten[j] <= stamp
  BY <1>0, <1>1 DEF StampsInOrder, ResponsesTyped
<1>8. WaitsForOne'
  <2>1. \A j \in Keys : Pending(j)' <=> waiting'[j] # 0
    BY DEF Pending
  <2>2. \A j \in Keys \ {k} : Pending(j)' => waiting[j] \in Stamps \ {stamp'}
    BY <1>6, <1>7, <2>1 DEF Stamps
  <2>3. \A j \in Keys \ {k} :
           /\ Pending(j)' <=> shown'[j].status = "pending"
           /\ Pending(j)' => /\ shown'[j].answer = waiting'[j] /\ call'[waiting'[j]].key = j
                             /\ call'[waiting'[j]].at \notin {"no", "over"}
    BY <1>0, <1>6, <2>1, <2>2 DEF WaitsForOne, Pending
  <2>4. /\ Pending(k)' /\ shown'[k].status = "pending"
        /\ shown'[k].answer = waiting'[k] /\ call'[waiting'[k]].key = k
        /\ call'[waiting'[k]].at \notin {"no", "over"}
    BY <1>1, <1>4, <1>6, <2>1 DEF Stamps
  <2> QED BY <2>3, <2>4 DEF WaitsForOne
<1>9. AnswersNewest'
  <2>1. ASSUME NEW j \in Keys, shown'[j] # Nothing, j # k
        PROVE  /\ shown'[j].answer > forgotten'[j]
               /\ \A c \in Stamps : call'[c].at # "no" /\ call'[c].key = j => c <= shown'[j].answer
    BY <1>0, <1>2, <1>4, <1>6, <2>1 DEF AnswersNewest
  <2>2. /\ shown'[k].answer > forgotten'[k]
        /\ \A c \in Stamps : call'[c].at # "no" /\ call'[c].key = k => c <= shown'[k].answer
    <3>1. \A c \in Stamps : call'[c].at # "no" => c <= stamp'
      BY <1>0, <1>1, <1>6 DEF StampsInOrder, Stamps
    <3> QED BY <1>1, <1>2, <1>4, <1>6, <1>7, <3>1
  <2> QED BY <2>1, <2>2 DEF AnswersNewest
<1>10. StampsInOrder'
  <2>1. \A c \in Stamps : call'[c].at # "no" <=> c <= stamp'
    BY <1>0, <1>1, <1>4, <1>6 DEF StampsInOrder, Stamps
  <2> QED BY <1>1, <1>2, <1>6, <1>7, <2>1 DEF StampsInOrder
<1>11. AnswersHeld'
  BY <1>0, <1>4, <1>6 DEF AnswersHeld
<1> QED BY <1>5, <1>8, <1>9, <1>10, <1>11 DEF ResponsesInv

\* A request's task goes on, as the request of the same key.
LEMMA TaskKeeps ==
  ASSUME ResponsesInv, NEW c \in Stamps, NEW t \in Task,
         call[c].at \in {"sent", "settled"}, t.at \in {"settled", "recording"},
         t.key = call[c].key, t.status \in Statuses,
         call' = [call EXCEPT ![c] = t],
         UNCHANGED <<shown, waiting, stamp, stopped, forgotten>>
  PROVE  ResponsesInv'
<1>0. ResponsesTyped /\ WaitsForOne /\ AnswersNewest /\ StampsInOrder /\ AnswersHeld
  BY DEF ResponsesInv
<1>1. /\ \A d \in Stamps \ {c} : call'[d] = call[d]
      /\ call'[c] = t
  BY <1>0 DEF ResponsesTyped
<1>2. ResponsesTyped'
  BY <1>0 DEF ResponsesTyped
<1>3. WaitsForOne'
  <2>1. \A k \in Keys : Pending(k) => waiting[k] \in Stamps
    BY <1>0, CallsAssumption DEF ResponsesTyped, Pending, Stamps
  <2> QED BY <1>0, <1>1, <2>1 DEF WaitsForOne, Pending
<1>4. AnswersNewest'
  BY <1>0, <1>1 DEF AnswersNewest
<1>5. StampsInOrder'
  BY <1>0, <1>1 DEF StampsInOrder
<1>6. AnswersHeld'
  BY <1>0, <1>1 DEF AnswersHeld
<1> QED BY <1>2, <1>3, <1>4, <1>5, <1>6 DEF ResponsesInv

\* An answer is shown if its key still waits for it.
LEMMA FinishKeeps ==
  ASSUME ResponsesInv, NEW c \in Stamps, call[c].at \in {"settled", "recording"}, Finish(c)
  PROVE  ResponsesInv'
<1>0. ResponsesTyped /\ WaitsForOne /\ AnswersNewest /\ StampsInOrder /\ AnswersHeld
  BY DEF ResponsesInv
<1> DEFINE over == [Unsent EXCEPT !.at = "over", !.key = call[c].key]
<1>1. /\ 0 \in 0..MaxCalls /\ 0 \in 0..MaxSessions /\ 0 \in 0..MaxVersion /\ MaxCalls \in Nat
      /\ c \in 0..MaxCalls /\ c # 0
  BY CallsAssumption DEF Stamps
<1>2. /\ over \in Task /\ over.at = "over" /\ over.key = call[c].key
      /\ Answer(c) \in Response /\ Answer(c).status \in Statuses /\ Answer(c).answer = c
      /\ call[c].key \in Keys
  <2>1. call[c] \in Task /\ call[c].status \in Statuses
    BY <1>0 DEF ResponsesTyped, AnswersHeld
  <2> QED BY <1>1, <2>1, CallsAssumption DEF Task, Response, Unsent, Answer, None
<1>3. PICK k \in Keys : k = call[c].key
  BY <1>2
<1>4. call' = [call EXCEPT ![c] = over] /\ stamp' = stamp /\ forgotten' = forgotten
      /\ stopped' = stopped \ {c}
  BY DEF Finish
<1>5. IF waiting[k] = c
        THEN waiting' = [waiting EXCEPT ![k] = 0] /\ shown' = [shown EXCEPT ![k] = Answer(c)]
        ELSE waiting' = waiting /\ shown' = shown
  BY <1>3 DEF Finish, Wanted, Current
<1> HIDE DEF over
<1>6. \A d \in Stamps \ {c} : call'[d] = call[d]
  BY <1>0, <1>4 DEF ResponsesTyped
<1>7. call'[c] = over
  BY <1>0, <1>4 DEF ResponsesTyped
<1>8. ResponsesTyped'
  BY <1>0, <1>1, <1>2, <1>4, <1>5 DEF ResponsesTyped
<1>9. StampsInOrder' /\ AnswersHeld'
  <2>1. \A j \in Keys : waiting'[j] = waiting[j] \/ waiting'[j] = 0
    BY <1>0, <1>5 DEF ResponsesTyped
  <2>2. stamp \in Nat
    BY <1>0, <1>1 DEF ResponsesTyped
  <2> QED BY <1>0, <1>2, <1>4, <1>6, <1>7, <2>1, <2>2 DEF StampsInOrder, AnswersHeld
<1>10. \A j \in Keys : waiting[j] = c => j = k
  BY <1>0, <1>1, <1>3 DEF WaitsForOne, Pending
<1>11. \A j \in Keys \ {k} : waiting'[j] = waiting[j] /\ shown'[j] = shown[j]
  BY <1>0, <1>5 DEF ResponsesTyped
<1>12. WaitsForOne'
  <2>1. ASSUME NEW j \in Keys, waiting'[j] = waiting[j], shown'[j] = shown[j], waiting[j] # c
        PROVE  /\ Pending(j)' <=> shown'[j].status = "pending"
               /\ Pending(j)' => /\ shown'[j].answer = waiting'[j] /\ call'[waiting'[j]].key = j
                                 /\ call'[waiting'[j]].at \notin {"no", "over"}
    <3>1. waiting[j] # 0 => waiting[j] \in Stamps \ {c}
      BY <1>0, <1>1, <2>1 DEF ResponsesTyped, Stamps
    <3> QED BY <1>0, <1>6, <2>1, <3>1 DEF WaitsForOne, Pending
  <2>2. CASE waiting[k] = c
    <3>1. waiting'[k] = 0 /\ shown'[k] = Answer(c)
      BY <1>0, <1>5, <2>2 DEF ResponsesTyped
    <3>2. ~Pending(k)' /\ shown'[k].status # "pending"
      BY <1>2, <3>1 DEF Pending, Statuses
    <3>3. \A j \in Keys \ {k} : waiting[j] # c
      BY <1>10
    <3> QED BY <1>11, <2>1, <3>2, <3>3 DEF WaitsForOne
  <2>3. CASE waiting[k] # c
    BY <1>5, <1>10, <2>1, <2>3 DEF WaitsForOne
  <2> QED BY <2>2, <2>3
<1>13. AnswersNewest'
  <2>1. \A d \in Stamps : /\ call'[d].key = call[d].key
                          /\ call'[d].at # "no" <=> call[d].at # "no"
    BY <1>2, <1>6, <1>7
  <2>2. \A j \in Keys : shown'[j] # Nothing => shown[j] # Nothing /\ shown'[j].answer = shown[j].answer
    <3>1. waiting[k] = c => shown[k].answer = c /\ shown[k].status = "pending" /\ shown[k] # Nothing
      BY <1>0, <1>1 DEF WaitsForOne, Pending, Nothing
    <3>2. waiting[k] = c => shown'[k] = Answer(c)
      BY <1>0, <1>5 DEF ResponsesTyped
    <3> QED BY <1>2, <1>5, <1>11, <3>1, <3>2
  <2> QED BY <1>0, <1>4, <2>1, <2>2 DEF AnswersNewest
<1> QED BY <1>8, <1>9, <1>12, <1>13 DEF ResponsesInv

\* What is forgotten shows nothing and waits for nothing.
LEMMA ForgetKeeps ==
  ASSUME ResponsesInv, NEW S \in SUBSET Keys, Forget(S)
  PROVE  ResponsesInv'
<1>0. ResponsesTyped /\ WaitsForOne /\ AnswersNewest /\ StampsInOrder /\ AnswersHeld
  BY DEF ResponsesInv
<1>1. /\ shown' = [k \in Keys |-> IF k \in S THEN Nothing ELSE shown[k]]
      /\ waiting' = [k \in Keys |-> IF k \in S THEN 0 ELSE waiting[k]]
      /\ forgotten' = [k \in Keys |-> IF k \in S THEN stamp ELSE forgotten[k]]
      /\ stopped' = stopped \cup {waiting[k] : k \in {j \in S : Pending(j)}}
      /\ stamp' = stamp /\ call' = call
  BY DEF Forget
<1>2. /\ 0 \in 0..MaxCalls /\ Nothing \in Response /\ Nothing.status = "none"
      /\ stamp \in Nat /\ stamp \in 0..MaxCalls /\ MaxCalls \in Nat
  BY <1>0, CallsAssumption DEF Nothing, Response, ResponsesTyped
<1>3. ResponsesTyped'
  <2>1. \A k \in Keys : Pending(k) => waiting[k] \in Stamps
    BY <1>0, <1>2 DEF ResponsesTyped, Pending, Stamps
  <2> QED BY <1>0, <1>1, <1>2, <2>1 DEF ResponsesTyped
<1>4. WaitsForOne'
  BY <1>0, <1>1, <1>2 DEF WaitsForOne, Pending
<1>5. AnswersNewest'
  BY <1>0, <1>1 DEF AnswersNewest
<1>6. StampsInOrder' /\ AnswersHeld'
  BY <1>0, <1>1, <1>2 DEF StampsInOrder, AnswersHeld
<1> QED BY <1>3, <1>4, <1>5, <1>6 DEF ResponsesInv

-----------------------------------------------------------------------------
\* Every step keeps the responses.
LEMMA ResponsesStep == CallsInv /\ [Next]_vars => ResponsesInv'
<1> SUFFICES ASSUME CallsInv, [Next]_vars PROVE ResponsesInv'
  OBVIOUS
<1>0. ResponsesInv /\ RestTyped /\ ResponsesTyped
  BY DEF CallsInv, ResponsesInv
<1>1. ASSUME NEW k \in Keys, Sends(k) PROVE ResponsesInv'
  BY <1>0, <1>1, BeginKeeps DEF Sends
<1>2. ASSUME NEW k \in Keys, Cancel(k) PROVE ResponsesInv'
  <2>1. waiting[k] \in 0..MaxCalls /\ waiting[k] # 0 /\ stopped' = stopped \cup {waiting[k]}
    BY <1>0, <1>2 DEF Cancel, Pending, ResponsesTyped
  <2>2. waiting[k] \in Stamps
    BY <2>1, CallsAssumption DEF Stamps
  <2>3. stopped' \subseteq Stamps
    BY <1>0, <2>1, <2>2 DEF ResponsesTyped
  <2> QED BY <1>0, <1>2, <2>3 DEF Cancel, ResponsesInv, ResponsesTyped, WaitsForOne,
        AnswersNewest,
                               StampsInOrder, AnswersHeld, Pending
<1>3. ASSUME NEW c \in Stamps, ServerAnswers(c) \/ GivesUp(c) PROVE ResponsesInv'
  <2>1. PICK s \in Statuses, v \in 0..MaxVersion : Settle(c, s, v)
    <3>1. 0 \in 0..MaxVersion /\ version \in 0..MaxVersion
      BY <1>0, CallsAssumption DEF RestTyped
    <3> QED BY <1>3, <3>1 DEF ServerAnswers, GivesUp, Statuses
  <2> DEFINE t == [call[c] EXCEPT !.at = "settled", !.of = None, !.status = s, !.version = v]
  <2>2. call[c] \in Task /\ call[c].at = "sent"
    BY <1>0, <1>3 DEF ResponsesTyped, ServerAnswers, GivesUp
  <2>3. t \in Task /\ t.at = "settled" /\ t.key = call[c].key /\ t.status = s
    <3>1. None \in 0..MaxSessions
      BY CallsAssumption DEF None
    <3> QED BY <2>2, <3>1 DEF Task
  <2>4. call' = [call EXCEPT ![c] = t]
    BY <2>1 DEF Settle
  <2>5. UNCHANGED <<shown, waiting, stamp, stopped, forgotten>>
    BY <1>3 DEF ServerAnswers, GivesUp
  <2> HIDE DEF t
  <2> QED BY <1>0, <2>2, <2>3, <2>4, <2>5, TaskKeeps
<1>4. ASSUME NEW c \in Stamps, Record(c) PROVE ResponsesInv'
  <2> DEFINE t == [call[c] EXCEPT !.at = "recording"]
  <2>1. call[c] \in Task /\ call[c].at = "settled" /\ call[c].status \in Statuses
    BY <1>0, <1>4 DEF ResponsesTyped, Record, ResponsesInv, AnswersHeld
  <2>2. t \in Task /\ t.at = "recording" /\ t.key = call[c].key /\ t.status \in Statuses
    BY <2>1 DEF Task
  <2>3. call' = [call EXCEPT ![c] = t] /\ UNCHANGED <<shown, waiting, stamp, stopped, forgotten>>
    BY <1>4 DEF Record
  <2> HIDE DEF t
  <2> QED BY <1>0, <2>1, <2>2, <2>3, TaskKeeps
<1>5. ASSUME NEW c \in Stamps, Answered(c) PROVE ResponsesInv'
  BY <1>0, <1>5, FinishKeeps DEF Answered
<1>6. ASSUME NEW S \in SUBSET Replays, CallsGone(S) PROVE ResponsesInv'
  BY <1>0, <1>6, ForgetKeeps, CallsAssumption DEF CallsGone
<1>7. CASE ServerGone
  BY <1>0, <1>7, ForgetKeeps DEF ServerGone
<1>8. CASE Updated
  <2>1. Begin(Resource, FALSE) \/ UNCHANGED responses
    BY <1>8 DEF Updated
  <2> QED BY <1>0, <2>1, BeginKeeps, ResponsesSame, CallsAssumption
<1>9. CASE \/ Connect \/ Disconnect \/ SessionEnds \/ EndFiled \/ ServerChanges \/ UNCHANGED vars
           \/ \E t \in Toggles : Toggle(t) \/ ServerToggles(t) \/ ToggleFails(t) \/ Toggled(t)
  <2>1. UNCHANGED responses
    BY <1>9 DEF Connect, Disconnect, SessionEnds, EndFiled, ServerChanges, vars, Toggle,
                ServerToggles, ToggleFails, Toggled
  <2> QED BY <1>0, <2>1, ResponsesSame
<1> QED BY <1>1, <1>2, <1>3, <1>4, <1>5, <1>6, <1>7, <1>8, <1>9 DEF Next, Program

\* Every step keeps the types of the rest.
LEMMA RestStep == CallsInv /\ [Next]_vars => RestTyped'
<1> SUFFICES ASSUME CallsInv, [Next]_vars PROVE RestTyped'
  OBVIOUS
<1> USE DEF entry, subscription, told
<1>0. /\ RestTyped /\ 0 \in 0..MaxSessions /\ 0 \in 0..MaxVersion
      /\ MaxSessions \in Nat /\ MaxVersion \in Nat
  BY CallsAssumption DEF CallsInv
<1>1. CASE Connect
  <2>1. connects + 1 \in 0..MaxSessions
    BY <1>0, <1>1 DEF Connect, RestTyped
  <2> QED BY <1>0, <1>1, <2>1 DEF Connect, Ended, RestTyped
<1>2. CASE Disconnect \/ ServerGone
  BY <1>0, <1>2 DEF Disconnect, ServerGone, Closes, Ended, RestTyped, None
<1>3. CASE ServerChanges
  <2>1. version + 1 \in 0..MaxVersion
    BY <1>0, <1>3 DEF ServerChanges, RestTyped
  <2> QED BY <1>0, <1>3, <2>1 DEF ServerChanges, RestTyped
<1>4. CASE Updated \/ EndFiled \/ SessionEnds
  <2>1. \A s : Skips(s) \subseteq Ways
    BY DEF Skips, Ways
  <2>2. CASE Updated
    BY <1>0, <2>1, <2>2 DEF Updated, Hears, RestTyped
  <2>3. CASE EndFiled
    BY <1>0, <2>1, <2>3 DEF EndFiled, Hears, RestTyped, None
  <2>4. CASE SessionEnds
    BY <1>0, <2>4 DEF SessionEnds, RestTyped
  <2> QED BY <1>4, <2>2, <2>3, <2>4
<1>5. ASSUME NEW k \in Keys, Sends(k) \/ Cancel(k) PROVE RestTyped'
  BY <1>0, <1>5 DEF Sends, Cancel, RestTyped
<1>6. ASSUME NEW c \in Stamps, ServerAnswers(c) \/ GivesUp(c) \/ Record(c) PROVE RestTyped'
  BY <1>0, <1>6 DEF ServerAnswers, GivesUp, Record, RestTyped
<1>7. ASSUME NEW c \in Stamps, Answered(c) PROVE RestTyped'
  <2>1. /\ session' \in {session, 0} /\ watched' \in {watched, FALSE}
        /\ update' \in {update, 0} /\ current' \in {current, 0} /\ ended' \in {ended, FALSE}
    BY <1>7 DEF Answered, Finish, Closes, Ended, None
  <2>2. UNCHANGED <<connects, deleted, subscribed, toggle, heard, skipped, version>>
    BY <1>7 DEF Answered, Finish
  <2> QED BY <1>0, <2>1, <2>2 DEF RestTyped
<1>8. ASSUME NEW S \in SUBSET Replays, CallsGone(S) PROVE RestTyped'
  BY <1>0, <1>8 DEF CallsGone, RestTyped
<1>9. ASSUME NEW t \in Toggles, Toggle(t) \/ ServerToggles(t) \/ ToggleFails(t) \/ Toggled(t)
      PROVE  RestTyped'
  <2>1. CASE Toggle(t)
    BY <1>0, <2>1 DEF Toggle, RestTyped
  <2>2. CASE ServerToggles(t)
    BY <1>0, <2>2 DEF ServerToggles, RestTyped
  <2>3. CASE ToggleFails(t) \/ Toggled(t)
    <3>1. toggle' = ToggleOver(t) /\ (subscribed' = subscribed \/ subscribed' = toggle[t].on)
      BY <2>3 DEF ToggleFails, Toggled
    <3>2. UNCHANGED <<session, current, ended, connects, deleted, version, watched, update,
                      heard, skipped>>
      BY <2>3 DEF ToggleFails, Toggled
    <3>3. toggle' \in [Toggles -> [at : {"no", "asked", "done", "over"},
                                  on : BOOLEAN, of : 0..MaxSessions]]
      BY <1>0, <3>1 DEF ToggleOver, RestTyped, None
    <3>4. subscribed' \in BOOLEAN
      BY <1>0, <3>1 DEF RestTyped
    <3> QED BY <1>0, <3>2, <3>3, <3>4 DEF RestTyped
  <2> QED BY <1>9, <2>1, <2>2, <2>3
<1>10. CASE UNCHANGED vars
  BY <1>0, <1>10 DEF vars, RestTyped
<1> QED BY <1>1, <1>2, <1>3, <1>4, <1>5, <1>6, <1>7, <1>8, <1>9, <1>10 DEF Next, Program

-----------------------------------------------------------------------------
\* The responses are in order in every state.
THEOREM CallsInvariant == Spec => []CallsInv
<1>1. CallsInv /\ [Next]_vars => CallsInv'
  BY ResponsesStep, RestStep DEF CallsInv
<1> QED BY <1>1, InitCalls, PTL DEF Spec

\* A key that waits shows so, under the stamp of a request whose task is still
\* to file its answer; what is shown answers the newest request of its key and
\* none sent before the key was forgotten (Responses::begin, finish, forget).
THEOREM CallsAreSound == Spec => []CallsSound
<1>1. CallsInv => CallsSound
  BY Typed DEF CallsInv, ResponsesInv, CallsSound
<1> QED BY <1>1, CallsInvariant, PTL

-----------------------------------------------------------------------------
(* Listener.                                                               *)

\* A change is out once, taken or not, and its caller waits for it.
Held == L!Elements(queue) \cup L!Elements(applied)
CallsHeld ==
  /\ \A c \in Held : answer[c] = "waiting" /\ what[c] \in L!Changes
  /\ \A i, j \in DOMAIN queue : queue[i] = queue[j] => i = j
  /\ L!Elements(queue) \cap L!Elements(applied) = {}

\* A change applied and not answered is the last of its resource.
AppliedLast ==
  \A c \in L!Elements(applied) :
    latest[what[c].uri] = c /\ (what[c].uri \in uris <=> L!Subscribes(c))

\* The last change applied of a resource is of that resource, and was made.
LatestOf ==
  \A u \in Uris : latest[u] # NoChange =>
    /\ answer[latest[u]] # "none" /\ what[latest[u]] \in L!Changes
    /\ what[latest[u]].uri = u

\* What holds at each place of the task.
Places ==
  /\ applied # <<>> => place \in {"top", "opening", "over"}
  /\ place = "opening" => asked = uris
  /\ place = "reading" => uris \subseteq asked /\ accepted \subseteq uris
  /\ arriving # <<>> => place \in {"reading", "over"}
  /\ L!Elements(arriving) \subseteq accepted \cup {Lists}

\* AnswersHold is not inductive: that an answer is of the last change of its
\* resource rests on one change at a time being applied, which the places say;
\* and QuietAfterUnsubscribe on a stream being left before a change is applied.
ListenerInv ==
  /\ L!TypeOK /\ L!AnswersHold /\ CallsHeld /\ AppliedLast /\ LatestOf
  /\ Places /\ L!QuietAfterUnsubscribe

-----------------------------------------------------------------------------
\* What is in a sequence.
LEMMA Elems == ASSUME NEW S, NEW s \in Seq(S)
  PROVE  /\ DOMAIN s = 1..Len(s) /\ Len(s) \in Nat /\ \A i \in 1..Len(s) : s[i] \in S
         /\ L!Elements(s) \subseteq S
         /\ s = <<>> <=> L!Elements(s) = {}
         /\ s = <<>> <=> Len(s) = 0
<1>1. DOMAIN s = 1..Len(s) /\ Len(s) \in Nat /\ \A i \in 1..Len(s) : s[i] \in S
  BY LenProperties, ElementOfSeq
<1>2. s = <<>> <=> Len(s) = 0
  BY EmptySeq
<1>3. Len(s) # 0 => 1 \in 1..Len(s)
  BY <1>1
<1>4. Len(s) # 0 => s[1] \in L!Elements(s)
  BY <1>1, <1>3 DEF L!Elements
<1>5. Len(s) = 0 => L!Elements(s) = {}
  BY <1>1 DEF L!Elements
<1>6. L!Elements(s) \subseteq S
  BY <1>1 DEF L!Elements
<1> QED BY <1>1, <1>2, <1>4, <1>5, <1>6

\* A sequence with one element more.
LEMMA Appended == ASSUME NEW S, NEW s \in Seq(S), NEW x \in S
  PROVE  /\ Append(s, x) \in Seq(S) /\ Len(Append(s, x)) = Len(s) + 1
         /\ L!Elements(Append(s, x)) = L!Elements(s) \cup {x}
         /\ (\A i, j \in DOMAIN s : s[i] = s[j] => i = j) /\ x \notin L!Elements(s) =>
              \A i, j \in DOMAIN Append(s, x) : Append(s, x)[i] = Append(s, x)[j] => i = j
<1>1. /\ Append(s, x) \in Seq(S) /\ Len(Append(s, x)) = Len(s) + 1
      /\ \A i \in 1..Len(s) : Append(s, x)[i] = s[i]
      /\ Append(s, x)[Len(s) + 1] = x
  BY AppendProperties
<1>2. /\ DOMAIN s = 1..Len(s) /\ Len(s) \in Nat
      /\ DOMAIN Append(s, x) = (1..Len(s)) \cup {Len(s) + 1}
  BY <1>1, Elems
<1>3. L!Elements(Append(s, x)) = L!Elements(s) \cup {x}
  BY <1>1, <1>2 DEF L!Elements
<1>4. ASSUME \A i, j \in DOMAIN s : s[i] = s[j] => i = j, x \notin L!Elements(s)
      PROVE  \A i, j \in DOMAIN Append(s, x) : Append(s, x)[i] = Append(s, x)[j] => i = j
  <2>1. \A i \in 1..Len(s) : s[i] # x
    BY <1>2, <1>4 DEF L!Elements
  <2> QED BY <1>1, <1>2, <1>4, <2>1
<1> QED BY <1>1, <1>3, <1>4

\* A sequence without its first element.
LEMMA Shortened == ASSUME NEW S, NEW s \in Seq(S), s # <<>>
  PROVE  /\ Tail(s) \in Seq(S) /\ Head(s) \in S
         /\ L!Elements(s) = {Head(s)} \cup L!Elements(Tail(s))
         /\ (\A i, j \in DOMAIN s : s[i] = s[j] => i = j) =>
              /\ Head(s) \notin L!Elements(Tail(s))
              /\ \A i, j \in DOMAIN Tail(s) : Tail(s)[i] = Tail(s)[j] => i = j
<1>1. /\ Tail(s) \in Seq(S) /\ Head(s) \in S /\ Len(Tail(s)) = Len(s) - 1
      /\ \A i \in 1..(Len(s) - 1) : Tail(s)[i] = s[i + 1]
      /\ Head(s) = s[1] /\ Len(s) >= 1
  BY HeadTailProperties, LenProperties, EmptySeq
<1>2. /\ DOMAIN Tail(s) = 1..(Len(s) - 1) /\ DOMAIN s = 1..Len(s) /\ Len(s) \in Nat
      /\ \A i \in 1..(Len(s) - 1) : i + 1 \in 1..Len(s) /\ i + 1 # 1 /\ i \in Nat
  BY <1>1, Elems
<1>3. \A i \in 1..Len(s) : i = 1 \/ (i - 1 \in 1..(Len(s) - 1) /\ Tail(s)[i - 1] = s[i])
  <2>1. ASSUME NEW i \in 1..Len(s), i # 1
        PROVE  i - 1 \in 1..(Len(s) - 1) /\ (i - 1) + 1 = i
    BY <1>2, <2>1
  <2> QED BY <1>1, <2>1
<1>4. L!Elements(s) \subseteq {Head(s)} \cup L!Elements(Tail(s))
  <2>1. ASSUME NEW i \in 1..Len(s) PROVE s[i] \in {Head(s)} \cup L!Elements(Tail(s))
    <3>1. CASE i = 1
      BY <1>1, <3>1
    <3>2. CASE i - 1 \in 1..(Len(s) - 1) /\ Tail(s)[i - 1] = s[i]
      BY <1>2, <3>2 DEF L!Elements
    <3> QED BY <1>3, <3>1, <3>2
  <2> QED BY <1>2, <2>1 DEF L!Elements
<1>5. {Head(s)} \cup L!Elements(Tail(s)) \subseteq L!Elements(s)
  BY <1>1, <1>2 DEF L!Elements
<1>6. ASSUME \A i, j \in DOMAIN s : s[i] = s[j] => i = j
      PROVE  /\ Head(s) \notin L!Elements(Tail(s))
             /\ \A i, j \in DOMAIN Tail(s) : Tail(s)[i] = Tail(s)[j] => i = j
  <2>1. \A i \in 1..(Len(s) - 1) : s[i + 1] # s[1]
    BY <1>1, <1>2, <1>6
  <2>2. \A i, j \in 1..(Len(s) - 1) : s[i + 1] = s[j + 1] => i = j
    BY <1>2, <1>6
  <2> QED BY <1>1, <1>2, <2>1, <2>2 DEF L!Elements
<1> QED BY <1>1, <1>4, <1>5, <1>6

\* The empty sequence.
LEMMA Empty == L!Elements(<<>>) = {} /\ Len(<<>>) = 0 /\ \A S : <<>> \in Seq(S)
BY EmptySeq DEF L!Elements

-----------------------------------------------------------------------------
\* At first nothing is asked of the task.
LEMMA InitListener == L!Init => ListenerInv
<1> SUFFICES ASSUME L!Init PROVE ListenerInv
  OBVIOUS
<1>1. L!TypeOK
  <2>1. /\ <<>> \in Seq(Callers) /\ <<>> \in Seq(Uris \cup {Lists}) /\ Len(<<>>) <= 1
    BY Empty
  <2> QED BY <2>1 DEF L!Init, L!TypeOK
<1>2. DOMAIN queue = {}
  BY Elems, Empty DEF L!Init
<1>3. L!AnswersHold /\ L!QuietAfterUnsubscribe /\ AppliedLast /\ LatestOf /\ CallsHeld /\ Places
  BY <1>2, Empty DEF L!Init, L!AnswersHold, LatestOf, L!QuietAfterUnsubscribe,
        AppliedLast, CallsHeld, Held, Places
<1> QED BY <1>1, <1>3 DEF ListenerInv

\* A call is put last in the queue, or is closed.
LEMMA CallKeeps ==
  ASSUME ListenerInv, NEW c \in Callers, NEW change \in L!Changes, L!Call(c, change)
  PROVE  ListenerInv'
<1> USE DEF L!wanted, L!stream
<1>0. /\ L!TypeOK /\ L!AnswersHold /\ CallsHeld /\ AppliedLast /\ LatestOf
      /\ Places /\ L!QuietAfterUnsubscribe
  BY DEF ListenerInv
<1>1. /\ answer[c] = "none" /\ what' = [what EXCEPT ![c] = change]
      /\ UNCHANGED <<lists, uris, applied, latest, asked, accepted, arriving, place, cancelled>>
      /\ c \notin Held /\ queue \in Seq(Callers)
  BY <1>0 DEF L!Call, CallsHeld, L!TypeOK
<1>2. \/ /\ place = "over" /\ queue' = queue /\ answer' = [answer EXCEPT ![c] = "closed"]
      \/ /\ place # "over" /\ queue' = Append(queue, c)
         /\ answer' = [answer EXCEPT ![c] = "waiting"]
  BY DEF L!Call
<1>3. \A d \in Callers \ {c} : what'[d] = what[d] /\ answer'[d] = answer[d]
  BY <1>0, <1>1, <1>2 DEF L!TypeOK
<1>4. what'[c] = change /\ answer'[c] \in {"closed", "waiting"}
  BY <1>0, <1>1, <1>2 DEF L!TypeOK
<1>5. /\ queue' \in Seq(Callers) /\ L!Elements(queue') \subseteq L!Elements(queue) \cup {c}
      /\ c \in L!Elements(queue') => answer'[c] = "waiting"
      /\ \A i, j \in DOMAIN queue' : queue'[i] = queue'[j] => i = j
  <2>1. CASE queue' = queue
    BY <1>0, <1>1, <2>1 DEF CallsHeld, Held
  <2>2. CASE queue' = Append(queue, c) /\ answer' = [answer EXCEPT ![c] = "waiting"]
    <3>1. c \notin L!Elements(queue) /\ \A i, j \in DOMAIN queue : queue[i] = queue[j] => i = j
      BY <1>0, <1>1 DEF Held, CallsHeld
    <3>2. /\ Append(queue, c) \in Seq(Callers)
          /\ L!Elements(Append(queue, c)) = L!Elements(queue) \cup {c}
          /\ \A i, j \in DOMAIN Append(queue, c) : Append(queue, c)[i] = Append(queue, c)[j] => i = j
      BY <1>1, <3>1, Appended
    <3> QED BY <1>0, <2>2, <3>2 DEF L!TypeOK
  <2> QED BY <1>2, <2>1, <2>2
<1>6. L!TypeOK'
  BY <1>0, <1>1, <1>2, <1>5 DEF L!TypeOK
<1>7. \A d \in Held : d \in Callers
  BY <1>0, Elems DEF L!TypeOK, Held
<1>8. CallsHeld'
  <2>1. ASSUME NEW d \in Held' PROVE answer'[d] = "waiting" /\ what'[d] \in L!Changes
    <3>1. d \in Held \/ d = c
      BY <1>1, <1>5 DEF Held
    <3>2. d = c => d \in L!Elements(queue')
      BY <1>1 DEF Held
    <3> QED BY <1>0, <1>1, <1>3, <1>4, <1>5, <1>7, <3>1, <3>2 DEF CallsHeld
  <2> QED BY <1>0, <1>1, <1>5, <2>1 DEF CallsHeld, Held
<1>9. AppliedLast'
  <2>1. \A d \in L!Elements(applied) : d \in Callers \ {c}
    BY <1>1, <1>7 DEF Held
  <2> QED BY <1>0, <1>1, <1>3, <2>1 DEF AppliedLast, L!Subscribes
<1>10. \A u \in Uris : latest[u] # NoChange => latest[u] \in Callers \ {c}
  BY <1>0, <1>1 DEF LatestOf, L!TypeOK
<1>11. L!AnswersHold' /\ L!QuietAfterUnsubscribe'
  BY <1>0, <1>1, <1>3, <1>10 DEF L!AnswersHold, L!QuietAfterUnsubscribe, L!Subscribes
<1>12. LatestOf' /\ Places'
  BY <1>0, <1>1, <1>3, <1>10 DEF LatestOf, Places
<1> QED BY <1>6, <1>8, <1>9, <1>11, <1>12 DEF ListenerInv

\* Steps that answer and apply nothing.
LEMMA StreamKeeps ==
  ASSUME ListenerInv,
         \/ L!SessionEnds \/ L!DropAborts \/ L!Open \/ L!StreamReads \/ L!StreamCloses \/ L!StreamBreaks
         \/ L!PauseEnds \/ UNCHANGED L!vars \/ \E m \in Uris \cup {Lists} : L!ServerSays(m)
  PROVE  L!TypeOK' /\ L!AnswersHold' /\ CallsHeld' /\ AppliedLast' /\ LatestOf' /\ Places'
<1> USE DEF L!calls, L!wanted, L!stream
<1>0. L!TypeOK /\ L!AnswersHold /\ CallsHeld /\ AppliedLast /\ LatestOf /\ Places
  BY DEF ListenerInv
<1>1. /\ UNCHANGED <<what, answer, queue, lists, uris, applied, latest>>
      /\ place' = "over" \/ place # "over" \/ place' = place
  BY DEF L!SessionEnds, L!DropAborts, L!Open, L!StreamReads, L!StreamCloses,
        L!StreamBreaks, L!PauseEnds, L!vars,
         L!ServerSays, L!Left
<1>2. CallsHeld' /\ AppliedLast' /\ LatestOf'
  BY <1>0, <1>1 DEF CallsHeld, AppliedLast, LatestOf, Held, L!Subscribes
<1>3. L!AnswersHold'
  BY <1>0, <1>1 DEF L!AnswersHold, L!Subscribes
<1>4. /\ arriving \in Seq(Uris \cup {Lists})
      /\ arriving' \in Seq(Uris \cup {Lists}) /\ asked' \subseteq Uris /\ accepted' \subseteq asked'
      /\ place' \in {"top", "opening", "reading", "pausing", "idle", "over"} /\ cancelled' \in BOOLEAN
      /\ Places'
  <2>1. CASE L!SessionEnds \/ UNCHANGED L!vars
    BY <1>0, <2>1 DEF L!SessionEnds, L!vars, L!TypeOK, Places
  <2>2. CASE L!DropAborts
    <3>1. applied = <<>>
      BY <1>0, <2>2, Elems DEF L!DropAborts, CallsHeld, Held, L!TypeOK
    <3> QED BY <1>0, <2>2, <3>1 DEF L!DropAborts, L!TypeOK, Places
  <2>3. CASE L!Open
    <3>1. arriving = <<>>
      BY <1>0, <2>3 DEF L!Open, Places
    <3> QED BY <1>0, <2>3, <3>1, Empty DEF L!Open, L!TypeOK, Places
  <2>4. CASE L!StreamReads
    <3>1. /\ Tail(arriving) \in Seq(Uris \cup {Lists})
          /\ L!Elements(Tail(arriving)) \subseteq L!Elements(arriving)
      BY <1>0, <2>4, Shortened DEF L!StreamReads, L!TypeOK
    <3> QED BY <1>0, <2>4, <3>1 DEF L!StreamReads, L!TypeOK, Places
  <2>5. CASE L!StreamCloses \/ L!StreamBreaks \/ L!PauseEnds
    BY <1>0, <2>5, Empty DEF L!StreamCloses, L!StreamBreaks, L!PauseEnds, L!Left,
          L!TypeOK, Places
  <2>6. ASSUME NEW m \in Uris \cup {Lists}, L!ServerSays(m)
        PROVE  /\ arriving' \in Seq(Uris \cup {Lists}) /\ asked' \subseteq Uris
               /\ accepted' \subseteq asked' /\ place' = place /\ cancelled' = cancelled /\ Places'
    <3>1. /\ Append(arriving, m) \in Seq(Uris \cup {Lists})
          /\ L!Elements(Append(arriving, m)) = L!Elements(arriving) \cup {m}
      BY <1>0, <2>6, Appended DEF L!TypeOK
    <3> QED BY <1>0, <2>6, <3>1 DEF L!ServerSays, L!TypeOK, Places
  <2> QED BY <1>0, <2>1, <2>2, <2>3, <2>4, <2>5, <2>6 DEF L!TypeOK
<1>5. L!TypeOK'
  BY <1>0, <1>1, <1>4 DEF L!TypeOK
<1> QED BY <1>2, <1>3, <1>4, <1>5
\* The change waiting is answered; a refused subscription is forgotten.
LEMMA SettledKeeps ==
  ASSUME ListenerInv, place \in {"top", "opening"},
         NEW denied, denied \subseteq {c \in L!Elements(applied) : L!Subscribes(c)},
         L!Settled(denied), UNCHANGED <<what, queue, latest>>
  PROVE  /\ L!AnswersHold' /\ CallsHeld' /\ AppliedLast' /\ LatestOf'
         /\ answer' \in [Callers -> {"none", "waiting", "ok", "refused", "closed"}]
         /\ uris' = uris \ L!Forgotten(denied) /\ applied' = <<>>
<1>0. L!TypeOK /\ L!AnswersHold /\ CallsHeld /\ AppliedLast /\ LatestOf
  BY DEF ListenerInv
<1>1. /\ answer' = [c \in Callers |-> IF c \in denied THEN "refused"
                                      ELSE IF c \in L!Elements(applied) THEN "ok" ELSE answer[c]]
      /\ uris' = uris \ L!Forgotten(denied) /\ applied' = <<>>
  BY DEF L!Settled
<1>2. L!Elements(applied) \subseteq Callers /\ L!Elements(queue) \subseteq Callers
  BY <1>0, Elems DEF L!TypeOK
<1>3. L!Elements(applied') = {}
  BY <1>1, Empty
<1>4. \A c \in L!Elements(queue) : answer'[c] = answer[c]
  BY <1>0, <1>1, <1>2 DEF CallsHeld
<1>5. CallsHeld'
  BY <1>0, <1>3, <1>4 DEF CallsHeld, Held
<1>6. AppliedLast'
  BY <1>3 DEF AppliedLast
<1>7. LatestOf'
  BY <1>0, <1>1 DEF LatestOf, L!TypeOK
<1>8. \A c, d \in L!Elements(applied) : c = d
  <2>1. applied \in Seq(Callers) /\ Len(applied) <= 1
    BY <1>0 DEF L!TypeOK
  <2>2. DOMAIN applied = 1..Len(applied) /\ Len(applied) \in Nat
    BY <2>1, Elems
  <2>3. \A i, j \in DOMAIN applied : i = j
    BY <2>1, <2>2
  <2> QED BY <2>3 DEF L!Elements
<1>9. ASSUME NEW u \in Uris, latest[u] # NoChange, NEW c \in Callers, c = latest[u]
      PROVE  /\ answer'[c] = "ok" => (u \in uris' <=> L!Subscribes(c))
             /\ answer'[c] = "refused" => u \notin uris'
             /\ answer'[c] \in {"ok", "refused"}
  <2>1. answer[c] = "ok" => (u \in uris <=> L!Subscribes(c))
    BY <1>0, <1>9 DEF L!AnswersHold
  <2>2. answer[c] = "refused" => u \notin uris
    BY <1>0, <1>9 DEF L!AnswersHold
  <2>3. answer[c] \notin {"ok", "refused"} => c \in L!Elements(applied)
    BY <1>0, <1>9 DEF L!AnswersHold
  <2>4. what[c].uri = u
    BY <1>0, <1>9 DEF LatestOf
  <2>5. CASE c \in L!Elements(applied)
    <3>1. L!Forgotten(denied) = IF c \in denied THEN {u} ELSE {}
      BY <1>8, <2>4, <2>5 DEF L!Forgotten
    <3>2. u \in uris <=> L!Subscribes(c)
      BY <1>0, <2>4, <2>5 DEF AppliedLast
    <3> QED BY <1>1, <2>5, <3>1, <3>2
  <2>6. CASE c \notin L!Elements(applied)
    <3>1. answer'[c] = answer[c]
      BY <1>1, <2>6
    <3>2. \A d \in L!Elements(applied) : what[d].uri # u
      BY <1>0, <1>9, <2>6 DEF AppliedLast
    <3>3. u \notin L!Forgotten(denied)
      BY <3>2 DEF L!Forgotten
    <3> QED BY <1>1, <2>1, <2>2, <2>3, <2>6, <3>1, <3>3
  <2> QED BY <2>5, <2>6
<1>10. L!AnswersHold'
  <2>1. \A u \in Uris : latest[u] # NoChange => latest[u] \in Callers
    BY <1>0 DEF L!TypeOK
  <2> QED BY <1>9, <2>1 DEF L!AnswersHold, L!Subscribes
<1>11. answer' \in [Callers -> {"none", "waiting", "ok", "refused", "closed"}]
  BY <1>0, <1>1 DEF L!TypeOK
<1> QED BY <1>1, <1>5, <1>6, <1>7, <1>10, <1>11

\* A stream opened, refused, or not needed.
LEMMA OpeningKeeps ==
  ASSUME ListenerInv, L!OpenNothing \/ L!OpenFails \/ \E kept \in SUBSET asked : L!Opened(kept)
  PROVE  L!TypeOK' /\ L!AnswersHold' /\ CallsHeld' /\ AppliedLast' /\ LatestOf' /\ Places'
<1> USE DEF L!stream
<1>0. L!TypeOK /\ Places
  BY DEF ListenerInv
<1>1. CASE L!OpenNothing
  <2>1. /\ L!AnswersHold' /\ CallsHeld' /\ AppliedLast' /\ LatestOf'
        /\ answer' \in [Callers -> {"none", "waiting", "ok", "refused", "closed"}]
        /\ uris' = uris \ L!Forgotten({}) /\ applied' = <<>>
    BY <1>1, SettledKeeps DEF L!OpenNothing
  <2>2. L!TypeOK'
    BY <1>0, <1>1, <2>1, Empty DEF L!OpenNothing, L!TypeOK
  <2>3. Places'
    BY <1>0, <1>1, <2>1 DEF L!OpenNothing, Places
  <2> QED BY <2>1, <2>2, <2>3
<1>2. CASE L!OpenFails
  <2> DEFINE denied == {c \in L!Elements(applied) : L!Subscribes(c)}
  <2>1. /\ L!AnswersHold' /\ CallsHeld' /\ AppliedLast' /\ LatestOf'
        /\ answer' \in [Callers -> {"none", "waiting", "ok", "refused", "closed"}]
        /\ uris' = uris \ L!Forgotten(denied) /\ applied' = <<>>
    BY <1>2, SettledKeeps DEF L!OpenFails
  <2>2. L!TypeOK'
    BY <1>0, <1>2, <2>1, Empty DEF L!OpenFails, L!TypeOK
  <2>3. Places'
    BY <1>0, <1>2, <2>1 DEF L!OpenFails, Places
  <2> QED BY <2>1, <2>2, <2>3
<1>3. ASSUME NEW kept \in SUBSET asked, L!Opened(kept)
      PROVE  L!TypeOK' /\ L!AnswersHold' /\ CallsHeld' /\ AppliedLast' /\ LatestOf' /\ Places'
  <2> DEFINE denied == {c \in L!Elements(applied) : L!Subscribes(c) /\ what[c].uri \notin kept}
  <2>1. /\ L!AnswersHold' /\ CallsHeld' /\ AppliedLast' /\ LatestOf'
        /\ answer' \in [Callers -> {"none", "waiting", "ok", "refused", "closed"}]
        /\ uris' = uris \ L!Forgotten(denied) /\ applied' = <<>>
    BY <1>3, SettledKeeps DEF L!Opened
  <2>2. L!TypeOK'
    BY <1>0, <1>3, <2>1, Empty DEF L!Opened, L!TypeOK
  <2>3. L!Forgotten(denied) \cap kept = {}
    BY DEF L!Forgotten
  <2>4. /\ place = "opening" /\ asked = uris /\ arriving = <<>> /\ place' = "reading"
        /\ asked' = asked /\ accepted' = kept /\ arriving' = arriving
    BY <1>0, <1>3 DEF L!Opened, Places
  <2>5. Places'
    BY <2>1, <2>3, <2>4, Empty DEF Places
  <2> QED BY <2>1, <2>2, <2>5
<1> QED BY <1>1, <1>2, <1>3

\* A change taken is the last of its resource, and the only one waiting.
LEMMA TakeKeeps ==
  ASSUME ListenerInv, L!TakeChange
  PROVE  L!TypeOK' /\ L!AnswersHold' /\ CallsHeld' /\ AppliedLast' /\ LatestOf' /\ Places'
<1>0. L!TypeOK /\ L!AnswersHold /\ CallsHeld /\ AppliedLast /\ LatestOf /\ Places
  BY DEF ListenerInv
<1> DEFINE c == Head(queue)
           u == what[c].uri
<1>1. /\ queue \in Seq(Callers) /\ queue # <<>> /\ applied = <<>> /\ place # "over"
      /\ queue' = Tail(queue) /\ arriving' = <<>> /\ place' = "top"
      /\ uris' = IF L!Subscribes(c) THEN uris \cup {u} ELSE uris \ {u}
      /\ applied' = Append(applied, c)
      /\ latest' = [latest EXCEPT ![u] = c]
      /\ UNCHANGED <<what, answer, lists, asked, accepted, cancelled>>
  BY <1>0 DEF L!TakeChange, L!Applied, L!Left, Places, L!TypeOK
<1>2. /\ Tail(queue) \in Seq(Callers) /\ c \in Callers
      /\ L!Elements(queue) = {c} \cup L!Elements(Tail(queue))
      /\ c \notin L!Elements(Tail(queue))
      /\ \A i, j \in DOMAIN Tail(queue) : Tail(queue)[i] = Tail(queue)[j] => i = j
  BY <1>0, <1>1, Shortened DEF CallsHeld
<1>3. answer[c] = "waiting" /\ what[c] \in L!Changes /\ u \in Uris
  BY <1>0, <1>2 DEF CallsHeld, Held, L!Changes
<1> HIDE DEF c, u
<1>4. /\ applied' \in Seq(Callers) /\ Len(applied') = 1 /\ L!Elements(applied') = {c}
      /\ L!Elements(applied) = {}
  <2>1. \A s \in Seq(Callers), x \in Callers :
          /\ Append(s, x) \in Seq(Callers) /\ Len(Append(s, x)) = Len(s) + 1
          /\ L!Elements(Append(s, x)) = L!Elements(s) \cup {x}
    BY Appended
  <2>2. applied \in Seq(Callers) /\ Len(applied) = 0 /\ L!Elements(applied) = {}
    BY <1>0, <1>1, Elems DEF L!TypeOK
  <2>3. /\ Append(applied, c) \in Seq(Callers)
        /\ Len(Append(applied, c)) = Len(applied) + 1
        /\ L!Elements(Append(applied, c)) = L!Elements(applied) \cup {c}
    BY <1>2, <2>1, <2>2
  <2> QED BY <1>1, <2>2, <2>3
<1>5. L!TypeOK'
  <2>1. uris' \subseteq Uris
    BY <1>0, <1>1, <1>3 DEF L!TypeOK
  <2>2. latest' \in [Uris -> Callers \cup {NoChange}]
    BY <1>0, <1>1, <1>2 DEF L!TypeOK
  <2> QED BY <1>0, <1>1, <1>2, <1>4, <2>1, <2>2, Empty DEF L!TypeOK
<1>6. CallsHeld'
  BY <1>0, <1>1, <1>2, <1>3, <1>4 DEF CallsHeld, Held
<1>7. /\ latest'[u] = c
      /\ (u \in uris' <=> L!Subscribes(c))
      /\ \A v \in Uris \ {u} : latest'[v] = latest[v] /\ (v \in uris' <=> v \in uris)
  BY <1>0, <1>1, <1>3 DEF L!TypeOK
<1>8. what[c].uri = u
  BY DEF u
<1>9. AppliedLast'
  BY <1>1, <1>4, <1>7, <1>8 DEF AppliedLast, L!Subscribes
<1>10. LatestOf'
  BY <1>0, <1>1, <1>3, <1>7, <1>8 DEF LatestOf
<1>11. L!AnswersHold'
  <2>1. ASSUME NEW v \in Uris, v # u, latest[v] # NoChange
        PROVE  /\ answer[latest[v]] = "ok" => (v \in uris <=> L!Subscribes(latest[v]))
               /\ answer[latest[v]] = "refused" => v \notin uris
               /\ answer[latest[v]] \in {"ok", "refused"}
    BY <1>0, <1>1, <1>4, <2>1 DEF L!AnswersHold
  <2> QED BY <1>1, <1>3, <1>4, <1>7, <2>1 DEF L!AnswersHold, L!Subscribes
<1>12. Places'
  BY <1>1, Empty DEF Places
<1> QED BY <1>5, <1>6, <1>9, <1>10, <1>11, <1>12

\* The task returns.
LEMMA StopsKeeps ==
  ASSUME ListenerInv, L!Stops
  PROVE  L!TypeOK' /\ L!AnswersHold' /\ CallsHeld' /\ AppliedLast' /\ LatestOf' /\ Places'
<1>0. L!TypeOK /\ LatestOf
  BY DEF ListenerInv
<1>1. /\ place' = "over" /\ queue' = <<>> /\ applied' = <<>> /\ arriving' = <<>>
      /\ answer' = [c \in Callers |-> IF answer[c] = "waiting" THEN "closed" ELSE answer[c]]
      /\ UNCHANGED <<what, lists, uris, latest, asked, accepted, cancelled>>
  BY DEF L!Stops, L!Left
<1>2. L!TypeOK'
  BY <1>0, <1>1, Empty DEF L!TypeOK
<1>3. DOMAIN queue' = {}
  BY <1>1, Elems, Empty
<1>4. CallsHeld' /\ AppliedLast' /\ Places' /\ L!AnswersHold'
  BY <1>1, <1>3, Empty DEF CallsHeld, Held, AppliedLast, Places, L!AnswersHold
<1>5. LatestOf'
  BY <1>0, <1>1 DEF LatestOf, L!TypeOK
<1> QED BY <1>2, <1>4, <1>5

\* Nothing unsubscribed from is left to be reported.
LEMMA QuietKept ==
  ASSUME Lists \notin Uris, ListenerInv, L!AnswersHold', Places', LatestOf', L!TypeOK',
         \/ place' = "reading" \/ arriving' = <<>>
         \/ UNCHANGED <<what, answer, latest, arriving>>
  PROVE  L!QuietAfterUnsubscribe'
<1>1. CASE arriving' = <<>>
  BY <1>1, Empty DEF L!QuietAfterUnsubscribe
<1>2. CASE UNCHANGED <<what, answer, latest, arriving>>
  BY <1>2 DEF ListenerInv, L!QuietAfterUnsubscribe, L!Subscribes
<1>3. CASE place' = "reading"
  <2>1. \A u \in Uris : u \in L!Elements(arriving') => u \in uris'
    BY <1>3 DEF Places
  <2>2. \A u \in Uris : latest'[u] # NoChange /\ answer'[latest'[u]] = "ok" =>
                          (u \in uris' <=> what'[latest'[u]].op = "subscribe")
    BY <1>3 DEF L!AnswersHold, L!Subscribes
  <2> QED BY <2>1, <2>2 DEF L!QuietAfterUnsubscribe, L!Subscribes
<1> QED BY <1>1, <1>2, <1>3

\* Every step keeps the listener in order.
LEMMA ListenerKept ==
  ASSUME Lists \notin Uris
  PROVE  ListenerInv /\ [L!Next]_L!vars => ListenerInv'
<1> SUFFICES ASSUME ListenerInv, [L!Next]_L!vars PROVE ListenerInv'
  OBVIOUS
<1>1. ASSUME NEW c \in Callers, NEW change \in L!Changes, L!Call(c, change) PROVE ListenerInv'
  BY <1>1, CallKeeps
<1>2. CASE \/ L!SessionEnds \/ L!DropAborts \/ L!Open \/ L!StreamReads \/ L!StreamCloses \/ L!StreamBreaks
           \/ L!PauseEnds \/ UNCHANGED L!vars \/ \E m \in Uris \cup {Lists} : L!ServerSays(m)
  <2>1. L!TypeOK' /\ L!AnswersHold' /\ CallsHeld' /\ AppliedLast' /\ LatestOf' /\ Places'
    BY <1>2, StreamKeeps
  <2>2. \/ place' = "reading" \/ arriving' = <<>>
        \/ UNCHANGED <<what, answer, latest, arriving>>
    BY <1>2 DEF L!SessionEnds, L!DropAborts, L!Open, L!StreamReads, L!StreamCloses,
          L!StreamBreaks, L!PauseEnds,
                L!vars, L!ServerSays, L!Left, L!calls, L!wanted, L!stream
  <2> QED BY <2>1, <2>2, QuietKept DEF ListenerInv
<1>3. CASE L!OpenNothing \/ L!OpenFails \/ \E kept \in SUBSET asked : L!Opened(kept)
  <2>1. L!TypeOK' /\ L!AnswersHold' /\ CallsHeld' /\ AppliedLast' /\ LatestOf' /\ Places'
    BY <1>3, OpeningKeeps
  <2>2. place' = "reading" \/ arriving' = <<>>
    BY <1>3 DEF L!OpenNothing, L!OpenFails, L!Opened, L!stream, ListenerInv, Places
  <2> QED BY <2>1, <2>2, QuietKept DEF ListenerInv
<1>4. CASE L!TakeChange \/ L!Stops
  <2>1. L!TypeOK' /\ L!AnswersHold' /\ CallsHeld' /\ AppliedLast' /\ LatestOf' /\ Places'
    BY <1>4, TakeKeeps, StopsKeeps
  <2>2. arriving' = <<>>
    BY <1>4 DEF L!TakeChange, L!Stops, L!Left
  <2> QED BY <2>1, <2>2, QuietKept DEF ListenerInv
<1> QED BY <1>1, <1>2, <1>3, <1>4 DEF L!Next

-----------------------------------------------------------------------------
\* The set listened for agrees with what the callers were last told, and the
\* stream being read was opened for it and bears nothing unsubscribed from,
\* through refused, broken and reopened streams (run, settle,
\* settle_accepted).  A list's notification is no resource's.
THEOREM ListenerIsSound ==
  ASSUME Lists \notin Uris
  PROVE  L!Init /\ [][L!Next]_L!vars => []L!ListenerSound
<1>1. ListenerInv /\ [L!Next]_L!vars => ListenerInv'
  BY ListenerKept
<1>2. ListenerInv => L!ListenerSound
  BY DEF ListenerInv, L!ListenerSound, L!StreamSound, L!StreamAsksAll, Places
<1> QED BY <1>1, <1>2, InitListener, PTL

\* So it is in every run of Answers (settle, settle_accepted, run).
THEOREM ListenerStaysSound == AnswersSpec => []ListenerSound
<1>1. Lists \notin Uris
  BY AnswersAssumption
<1>2. AnswersInit => L!Init
  BY DEF AnswersInit
<1>3. [AnswersNext]_all => [L!Next]_L!vars
  BY DEF AnswersNext, CallsStep, ListenerStep, HistoryStep, all, ofListener, L!vars
<1>4. L!ListenerSound => ListenerSound
  BY DEF ListenerSound
<1> QED BY <1>1, <1>2, <1>3, <1>4, ListenerIsSound, PTL DEF AnswersSpec

-----------------------------------------------------------------------------
(* Sequences.                                                              *)

Unique(s) == \A i, j \in DOMAIN s : s[i] = s[j] => i = j

\* Each number of a finite set is its n-th, of exactly one n.
LEMMA NthOf ==
  ASSUME NEW M \in SUBSET Int, IsFiniteSet(M)
  PROVE  /\ Cardinality(M) \in Nat
         /\ \A i \in M : Cardinality(Ahead(M, i)) \in Nat /\ Cardinality(Ahead(M, i)) + 1 \in 1..Cardinality(M)
         /\ \A i, j \in M : i < j => Cardinality(Ahead(M, i)) < Cardinality(Ahead(M, j))
         /\ \A n \in 1..Cardinality(M) :
              Nth(M, n) \in M /\ Cardinality(Ahead(M, Nth(M, n))) + 1 = n
         /\ \A i \in M : Nth(M, Cardinality(Ahead(M, i)) + 1) = i
<1>1. Cardinality(M) \in Nat
  BY FS_CardinalityType
<1>2. \A i \in M : IsFiniteSet(Ahead(M, i)) /\ Cardinality(Ahead(M, i)) \in Nat
  <2> TAKE i \in M
  <2>1. Ahead(M, i) \in SUBSET M
    BY DEF Ahead
  <2> QED BY <2>1, FS_Subset, FS_CardinalityType
<1>3. ASSUME NEW i \in M PROVE Cardinality(Ahead(M, i)) + 1 \in 1..Cardinality(M)
  <2>1. Ahead(M, i) \cup {i} \in SUBSET M /\ i \notin Ahead(M, i)
    BY DEF Ahead
  <2>2. Cardinality(Ahead(M, i) \cup {i}) = Cardinality(Ahead(M, i)) + 1
    BY <1>2, <2>1, FS_AddElement
  <2>3. Cardinality(Ahead(M, i) \cup {i}) <= Cardinality(M)
    BY <2>1, FS_Subset
  <2> QED BY <1>1, <1>2, <2>2, <2>3
<1>4. ASSUME NEW i \in M, NEW j \in M, i < j
      PROVE  Cardinality(Ahead(M, i)) < Cardinality(Ahead(M, j))
  <2>1. Ahead(M, i) \cup {i} \in SUBSET Ahead(M, j) /\ i \notin Ahead(M, i)
    <3>1. i \in Int /\ j \in Int /\ \A k \in M : k \in Int
      OBVIOUS
    <3>2. \A k \in Ahead(M, i) : k \in Ahead(M, j)
      BY <1>4, <3>1 DEF Ahead
    <3>3. i \in Ahead(M, j) /\ i \notin Ahead(M, i)
      BY <1>4, <3>1 DEF Ahead
    <3> QED BY <3>2, <3>3
  <2>2. Cardinality(Ahead(M, i) \cup {i}) = Cardinality(Ahead(M, i)) + 1
    BY <1>2, <2>1, FS_AddElement
  <2>3. Cardinality(Ahead(M, i) \cup {i}) <= Cardinality(Ahead(M, j))
    BY <1>2, <2>1, FS_Subset
  <2> QED BY <1>2, <2>2, <2>3
<1> DEFINE rank == [i \in M |-> Cardinality(Ahead(M, i)) + 1]
           N == 1..Cardinality(M)
<1>5. rank \in Injection(M, N)
  <2>1. rank \in [M -> N]
    BY <1>3
  <2>2. ASSUME NEW i \in M, NEW j \in M, rank[i] = rank[j] PROVE i = j
    <3>1. i < j \/ j < i \/ i = j
      OBVIOUS
    <3>2. Cardinality(Ahead(M, i)) = Cardinality(Ahead(M, j))
      BY <1>2, <2>2
    <3> QED BY <1>2, <1>4, <3>1, <3>2
  <2> QED BY <2>1, <2>2, Fun_IsInj
<1>6. IsFiniteSet(N) /\ Cardinality(N) = Cardinality(M)
  BY <1>1, FS_Interval
<1>7. rank \in Surjection(M, N)
  BY <1>5, <1>6, FS_Injection
<1>8. ASSUME NEW n \in N PROVE Nth(M, n) \in M /\ Cardinality(Ahead(M, Nth(M, n))) + 1 = n
  <2>1. PICK i \in M : rank[i] = n
    BY <1>7 DEF Surjection
  <2> QED BY <2>1 DEF Nth
<1>9. ASSUME NEW i \in M PROVE Nth(M, Cardinality(Ahead(M, i)) + 1) = i
  <2> DEFINE j == Nth(M, Cardinality(Ahead(M, i)) + 1)
  <2>1. j \in M /\ Cardinality(Ahead(M, j)) + 1 = Cardinality(Ahead(M, i)) + 1
    BY <1>3, <1>8
  <2>2. rank[j] = rank[i]
    BY <2>1
  <2>3. \A a, b \in M : rank[a] = rank[b] => a = b
    BY <1>5, Fun_InjectionProperties
  <2> QED BY <2>1, <2>2, <2>3
<1> QED BY <1>1, <1>2, <1>3, <1>4, <1>8, <1>9

\* What is sifted: the elements kept, each in the place its rank gives it.
LEMMA Sifted ==
  ASSUME NEW T, NEW s \in Seq(T), NEW S
  PROVE  /\ Sift(s, S) \in Seq(T)
         /\ IsFiniteSet(Kept(s, S)) /\ Len(Sift(s, S)) = Cardinality(Kept(s, S))
         /\ \A i \in Kept(s, S) :
              LET n == Cardinality(Ahead(Kept(s, S), i)) + 1
              IN  n \in DOMAIN Sift(s, S) /\ Sift(s, S)[n] = s[i]
         /\ \A n \in DOMAIN Sift(s, S) :
              /\ Nth(Kept(s, S), n) \in Kept(s, S)
              /\ Sift(s, S)[n] = s[Nth(Kept(s, S), n)]
              /\ Cardinality(Ahead(Kept(s, S), Nth(Kept(s, S), n))) + 1 = n
<1> DEFINE M == Kept(s, S)
<1>1. M \in SUBSET (1..Len(s)) /\ IsFiniteSet(1..Len(s))
  <2>1. DOMAIN s = 1..Len(s) /\ Len(s) \in Nat
    OBVIOUS
  <2> QED BY <2>1, FS_Interval DEF Kept
<1>2. M \in SUBSET Int /\ IsFiniteSet(M)
  BY <1>1, FS_Subset
<1>3. /\ Cardinality(M) \in Nat
      /\ \A i \in M : Cardinality(Ahead(M, i)) + 1 \in 1..Cardinality(M)
      /\ \A n \in 1..Cardinality(M) : Nth(M, n) \in M /\ Cardinality(Ahead(M, Nth(M, n))) + 1 = n
      /\ \A i \in M : Nth(M, Cardinality(Ahead(M, i)) + 1) = i
  BY <1>2, NthOf
<1>4. \A i \in M : s[i] \in T
  BY <1>1
<1>5. Sift(s, S) = [n \in 1..Cardinality(M) |-> s[Nth(M, n)]]
  BY DEF Sift
<1> HIDE DEF M
<1>6. Sift(s, S) \in [1..Cardinality(M) -> T]
  BY <1>3, <1>4, <1>5
<1>7. Sift(s, S) \in Seq(T) /\ Len(Sift(s, S)) = Cardinality(M)
  BY <1>3, <1>6
<1>8. DOMAIN Sift(s, S) = 1..Cardinality(M)
  BY <1>5
<1>9. \A i \in M : LET n == Cardinality(Ahead(M, i)) + 1
                   IN  n \in DOMAIN Sift(s, S) /\ Sift(s, S)[n] = s[i]
  BY <1>3, <1>5, <1>8
<1>10. \A n \in DOMAIN Sift(s, S) :
              /\ Nth(M, n) \in M
              /\ Sift(s, S)[n] = s[Nth(M, n)]
              /\ Cardinality(Ahead(M, Nth(M, n))) + 1 = n
  BY <1>3, <1>5, <1>8
<1> QED BY <1>2, <1>7, <1>9, <1>10 DEF M

\* The sequences of History are those of this module.
LEMMA HistorySame ==
  ASSUME NEW s, NEW S
  PROVE  H!Sift(s, S) = Sift(s, S) /\ H!Falling(S) = Falling(S) /\ H!Cardinality(S) = Cardinality(S)
<1>1. H!Kept(s, S) = Kept(s, S)
  BY Zenon DEF Kept, H!Kept
<1>2. ASSUME NEW M PROVE H!Cardinality(M) = Cardinality(M)
  BY Zenon DEF Cardinality, H!Cardinality
<1>3. ASSUME NEW M, NEW i PROVE H!Ahead(M, i) = Ahead(M, i)
  BY Zenon DEF Ahead, H!Ahead
<1>4. ASSUME NEW M, NEW n PROVE H!Nth(M, n) = Nth(M, n)
  BY Zenon, <1>2, <1>3 DEF Nth, H!Nth
<1>5. H!Sift(s, S) = Sift(s, S)
  BY Zenon, <1>1, <1>2, <1>4 DEF Sift, H!Sift
<1>6. H!Falling(S) = Falling(S)
  BY Zenon, <1>2, <1>4 DEF Falling, H!Falling
<1> QED BY <1>2, <1>5, <1>6

-----------------------------------------------------------------------------
(* History.                                                                *)

\* The calls recorded.
Past == {c \in Made : at[c] > 0}

\* Each has a time of its own, and only a call recorded has one.
Stamped ==
  /\ \A c, d \in Past : at[c] = at[d] => c = d
  /\ \A c \in Made : at[c] <= Cardinality(Past)
  /\ \A c \in Made : /\ record[c] \in {"no", "queued", "failed"} => c \notin Past
                     /\ record[c] = "ran" => c \in Past
                     /\ delete[c] # "no" => c \in Past
  /\ rows \cup H!Elements(history) \cup H!Elements(found) \subseteq Past

\* The list is being read while its read is out, and nobody waits for a list
\* that is gone.
Loading ==
  /\ load = "unread" => read = "no"
  /\ load = "loading" /\ H!Shown => H!Out(read)
  /\ load = "read" /\ clear # "done" => read = "done"
  /\ ~H!Shown => \A w \in Waiters : waiter[w] # "waiting"

\* What was sent again from a row that is gone, or is shown no more.
RefusedKnown ==
  \A c \in refused : record[c] # "no" /\ (H!Shown => replayed[c] # NoCall)

\* Where a row is listed, or will be.
Coming(c) ==
  \/ c \in H!Elements(history) \/ c \in refused \/ record[c] = "ran"
  \/ read \in {"no", "queued", "failed"}
  \/ read = "ran" /\ c \in H!Elements(found)

RowsCome ==
  /\ \A c \in Made : delete[c] = "ran" => c \notin rows
  /\ H!Shown /\ ~noticed /\ clear # "done" /\ Cardinality(Past) <= Limit => \A c \in rows : Coming(c)

HistoryInv ==
  /\ H!TypeOK /\ Unique(history) /\ H!WaitersHaveRead
  /\ Stamped /\ Loading /\ RefusedKnown /\ RowsCome

\* The constants: calls are few, the list and its rows are bounded.
Keeping ==
  /\ IsFiniteSet(Made) /\ Before \in SUBSET Made /\ NoCall \notin Made
  /\ Limit \in Nat \ {0}

\* A sequence of different elements is as long as they are many.
LEMMA UniqueLength ==
  ASSUME NEW T, NEW s \in Seq(T), Unique(s)
  PROVE  /\ IsFiniteSet(H!Elements(s)) /\ Len(s) = Cardinality(H!Elements(s))
         /\ H!Elements(s) \in SUBSET T /\ Len(s) \in Nat
<1>1. Len(s) \in Nat /\ DOMAIN s = 1..Len(s) /\ \A i \in DOMAIN s : s[i] \in T
  OBVIOUS
<1>2. s \in Surjection(1..Len(s), H!Elements(s))
  BY <1>1 DEF Surjection, H!Elements
<1>3. s \in Injection(1..Len(s), H!Elements(s))
  <2>1. s \in [1..Len(s) -> H!Elements(s)]
    BY <1>2 DEF Surjection
  <2> QED BY <1>1, <2>1, Fun_IsInj DEF Unique
<1>4. IsFiniteSet(1..Len(s)) /\ Cardinality(1..Len(s)) = Len(s)
  <2>1. \A n \in Nat : IsFiniteSet(1..n) /\ Cardinality(1..n) = n
    BY FS_Interval
  <2> QED BY <1>1, <2>1
<1>5. IsFiniteSet(H!Elements(s)) /\ Cardinality(H!Elements(s)) = Cardinality(1..Len(s))
  BY <1>2, <1>3, <1>4, FS_Surjection
<1> QED BY <1>1, <1>4, <1>5 DEF H!Elements

\* What is sifted out of different elements: those of the set.
LEMMA WithoutOf ==
  ASSUME NEW s \in Seq(Made), Unique(s), NEW c
  PROVE  /\ H!Without(s, c) \in Seq(Made) /\ Unique(H!Without(s, c))
         /\ Len(H!Without(s, c)) <= Len(s)
         /\ \A d \in Made : d \in H!Elements(H!Without(s, c)) <=> d \in H!Elements(s) /\ d # c
<1> DEFINE S == Made \ {c}
           M == Kept(s, S)
<1>0. H!Without(s, c) = Sift(s, S)
  BY HistorySame DEF H!Without
<1>1. /\ Sift(s, S) \in Seq(Made)
      /\ IsFiniteSet(M) /\ Len(Sift(s, S)) = Cardinality(M)
      /\ \A i \in M : LET n == Cardinality(Ahead(M, i)) + 1
                      IN  n \in DOMAIN Sift(s, S) /\ Sift(s, S)[n] = s[i]
      /\ \A n \in DOMAIN Sift(s, S) :
           /\ Nth(M, n) \in M /\ Sift(s, S)[n] = s[Nth(M, n)]
           /\ Cardinality(Ahead(M, Nth(M, n))) + 1 = n
  BY Sifted
<1>2. \A i : i \in M <=> i \in DOMAIN s /\ s[i] \in Made /\ s[i] # c
  BY DEF Kept
<1>3. DOMAIN s = 1..Len(s) /\ Len(s) \in Nat
  OBVIOUS
<1>4. Cardinality(M) <= Len(s)
  <2>1. \A n \in Nat : IsFiniteSet(1..n) /\ Cardinality(1..n) = n
    BY FS_Interval
  <2>2. M \in SUBSET (1..Len(s))
    BY <1>2, <1>3
  <2>3. IsFiniteSet(1..Len(s)) /\ Cardinality(1..Len(s)) = Len(s)
    BY <1>3, <2>1
  <2> HIDE DEF M
  <2> QED BY <2>2, <2>3, FS_Subset
<1> HIDE DEF M, S
<1>5. Unique(Sift(s, S))
  BY <1>1, <1>2 DEF Unique
<1>6. \A d \in Made : d \in H!Elements(Sift(s, S)) <=> d \in H!Elements(s) /\ d # c
  <2>1. ASSUME NEW d \in Made, d \in H!Elements(Sift(s, S)) PROVE d \in H!Elements(s) /\ d # c
    BY <1>1, <1>2, <2>1 DEF H!Elements
  <2>2. ASSUME NEW d \in Made, d \in H!Elements(s), d # c PROVE d \in H!Elements(Sift(s, S))
    <3>1. PICK i \in DOMAIN s : s[i] = d
      BY <2>2 DEF H!Elements
    <3>2. i \in M
      BY <1>2, <2>2, <3>1
    <3> QED BY <1>1, <3>1, <3>2 DEF H!Elements
  <2> QED BY <2>1, <2>2
<1> QED BY <1>0, <1>1, <1>4, <1>5, <1>6

\* The head of a sequence, as long as the list may be.
LEMMA TruncatedOf ==
  ASSUME Keeping, NEW T, NEW s \in Seq(T), Unique(s)
  PROVE  /\ H!Truncated(s) \in Seq(T) /\ Unique(H!Truncated(s)) /\ Len(H!Truncated(s)) <= Limit
         /\ H!Elements(H!Truncated(s)) \in SUBSET H!Elements(s)
         /\ Len(s) <= Limit => H!Elements(H!Truncated(s)) = H!Elements(s)
<1> DEFINE n == IF Len(s) <= Limit THEN Len(s) ELSE Limit
<1>1. Len(s) \in Nat /\ DOMAIN s = 1..Len(s) /\ n \in Nat /\ n <= Len(s) /\ n <= Limit
  BY DEF Keeping
<1>2. \A i \in 1..n : s[i] \in T
  BY <1>1
<1> HIDE DEF n
<1>3. /\ SubSeq(s, 1, n) \in Seq(T)
      /\ Len(SubSeq(s, 1, n)) = n
      /\ \A i \in 1..n : SubSeq(s, 1, n)[i] = s[i]
  <2>1. 1 \in Int /\ n \in Int
    BY <1>1
  <2>2. /\ SubSeq(s, 1, n) \in Seq(T)
        /\ Len(SubSeq(s, 1, n)) = IF 1 <= n THEN n - 1 + 1 ELSE 0
        /\ \A i \in 1..(n - 1 + 1) : SubSeq(s, 1, n)[i] = s[1 + i - 1]
    BY <1>2, <2>1, SubSeqProperties
  <2>3. n - 1 + 1 = n /\ (~(1 <= n) => n = 0) /\ \A i \in 1..n : 1 + i - 1 = i
    BY <1>1
  <2> QED BY <2>2, <2>3
<1>4. H!Truncated(s) = SubSeq(s, 1, n)
  BY DEF H!Truncated, n
<1>5. DOMAIN H!Truncated(s) = 1..n
  BY <1>3, <1>4
<1>6. Unique(H!Truncated(s)) /\ H!Elements(H!Truncated(s)) \in SUBSET H!Elements(s)
  BY <1>1, <1>3, <1>4, <1>5 DEF Unique, H!Elements
<1>7. Len(s) <= Limit => n = Len(s)
  BY DEF n
<1>8. Len(s) <= Limit => H!Elements(H!Truncated(s)) = H!Elements(s)
  BY <1>1, <1>3, <1>4, <1>5, <1>7 DEF H!Elements
<1> QED BY <1>1, <1>3, <1>4, <1>6, <1>8

\* The calls of a set with times of their own, each once.
LEMMA NewestOf ==
  ASSUME Keeping, NEW S \in SUBSET Made, NEW when \in [Made -> Nat],
         \A c, d \in S : when[c] = when[d] => c = d
  PROVE  /\ H!NewestFirst(S, when) \in Seq(S) /\ Unique(H!NewestFirst(S, when))
         /\ Len(H!NewestFirst(S, when)) = Cardinality(S)
         /\ H!Elements(H!NewestFirst(S, when)) = S
         /\ IsFiniteSet(S) /\ Cardinality(S) \in Nat
<1> DEFINE M == {when[c] : c \in S}
           f == [c \in S |-> when[c]]
           N == Cardinality(S)
<1>1. IsFiniteSet(S) /\ N \in Nat
  BY FS_Subset, FS_CardinalityType DEF Keeping
<1>2. f \in Surjection(S, M) /\ f \in Injection(S, M)
  <2>1. f \in [S -> M]
    OBVIOUS
  <2>2. f \in Surjection(S, M)
    BY <2>1 DEF Surjection
  <2>3. \A a, b \in S : f[a] = f[b] => a = b
    OBVIOUS
  <2> QED BY <2>1, <2>2, <2>3, Fun_IsInj
<1>3. IsFiniteSet(M) /\ Cardinality(M) = N /\ M \in SUBSET Int
  <2>1. IsFiniteSet(M) /\ Cardinality(M) = N
    BY <1>1, <1>2, FS_Surjection
  <2>2. M \in SUBSET Int
    OBVIOUS
  <2> QED BY <2>1, <2>2
<1>4. /\ \A i \in M : Cardinality(Ahead(M, i)) + 1 \in 1..N
      /\ \A n \in 1..N : Nth(M, n) \in M /\ Cardinality(Ahead(M, Nth(M, n))) + 1 = n
      /\ \A i \in M : Nth(M, Cardinality(Ahead(M, i)) + 1) = i
  BY <1>3, NthOf
<1> DEFINE s == H!NewestFirst(S, when)
<1>5. /\ Falling(M) = [n \in 1..N |-> Nth(M, N + 1 - n)]
      /\ s = [n \in 1..N |-> CHOOSE c \in S : when[c] = Falling(M)[n]]
  <2>1. H!Falling(M) = Falling(M) /\ H!Cardinality(S) = N
    BY HistorySame
  <2>2. s = [n \in 1..H!Cardinality(S) |-> CHOOSE c \in S : when[c] = H!Falling(M)[n]]
    BY DEF H!NewestFirst
  <2>3. Falling(M) = [n \in 1..N |-> Nth(M, N + 1 - n)]
    BY <1>3 DEF Falling
  <2> HIDE DEF M, s
  <2> QED BY <2>1, <2>2, <2>3
<1>6. \A m \in M : \E c \in S : when[c] = m
  OBVIOUS
<1>6a. \A c \in S : when[c] \in M
  OBVIOUS
<1> HIDE DEF M, s
<1>7. \A n \in 1..N : N + 1 - n \in 1..N /\ N + 1 - (N + 1 - n) = n
  BY <1>1
<1>8. ASSUME NEW n \in 1..N PROVE s[n] \in S /\ when[s[n]] = Nth(M, N + 1 - n)
  <2>1. Falling(M)[n] = Nth(M, N + 1 - n) /\ Nth(M, N + 1 - n) \in M
    BY <1>4, <1>5, <1>7
  <2>2. s[n] = CHOOSE c \in S : when[c] = Falling(M)[n]
    BY <1>5
  <2> QED BY <1>6, <2>1, <2>2
<1>9. s \in Seq(S) /\ DOMAIN s = 1..N /\ Len(s) = N
  <2>1. s \in [1..N -> S]
    BY <1>5, <1>8
  <2> QED BY <1>1, <2>1
<1>10. Unique(s)
  <2> SUFFICES ASSUME NEW i \in 1..N, NEW j \in 1..N, s[i] = s[j] PROVE i = j
    BY <1>9 DEF Unique
  <2>1. N + 1 - i = N + 1 - j
    BY <1>4, <1>7, <1>8
  <2> QED BY <1>1, <2>1
<1>11. H!Elements(s) = S
  <2>1. ASSUME NEW c \in S PROVE c \in H!Elements(s)
    <3> DEFINE r == Cardinality(Ahead(M, when[c])) + 1
               n == N + 1 - r
    <3>1. r \in 1..N /\ Nth(M, r) = when[c]
      BY <1>4, <1>6a
    <3>2. n \in 1..N /\ N + 1 - n = r
      BY <1>7, <3>1
    <3> HIDE DEF r, n
    <3>3. s[n] \in S /\ when[s[n]] = when[c]
      BY <1>8, <3>1, <3>2
    <3> QED BY <1>9, <3>2, <3>3 DEF H!Elements
  <2> QED BY <1>8, <1>9, <2>1 DEF H!Elements
<1> QED BY <1>1, <1>9, <1>10, <1>11 DEF s

-----------------------------------------------------------------------------
(* The steps of History.                                                   *)

\* The calls recorded are few, and so is a list of them.
LEMMA PastCounted ==
  ASSUME Keeping
  PROVE  /\ IsFiniteSet(Past) /\ Cardinality(Past) \in Nat /\ Cardinality(Made) \in Nat
         /\ \A S \in SUBSET Past : IsFiniteSet(S) /\ Cardinality(S) <= Cardinality(Past)
         /\ \A s \in Seq(Made) : Unique(s) /\ H!Elements(s) \in SUBSET Past
                                    => Len(s) <= Cardinality(Past)
<1>1. /\ IsFiniteSet(Past) /\ Cardinality(Past) \in Nat /\ Cardinality(Made) \in Nat
  <2>1. Past \in SUBSET Made
    BY DEF Past
  <2> QED BY <2>1, FS_Subset, FS_CardinalityType DEF Keeping
<1>2. \A S \in SUBSET Past : IsFiniteSet(S) /\ Cardinality(S) <= Cardinality(Past)
  BY <1>1, FS_Subset
<1>3. \A s \in Seq(Made) : Unique(s) /\ H!Elements(s) \in SUBSET Past
                                    => Len(s) <= Cardinality(Past)
  BY <1>2, UniqueLength
<1> QED BY <1>1, <1>2, <1>3

\* Asking, and a job that fails, leave the rows, the list and what was read.
LEMMA AskingKeeps ==
  ASSUME Keeping, HistoryInv,
         \/ H!ShowHistory \/ \E w \in Waiters : H!HistoryReady(w)
         \/ H!ReadFails \/ H!ClearHistory \/ H!DeleteServer
         \/ \E c \in Made : H!RecordFails(c) \/ H!DeleteCall(c)
                             \/ \E d \in Made \cup {NoCall} : H!Answered(c, d)
  PROVE  HistoryInv'
<1> DEFINE Recording == \/ \E c \in Made : H!RecordFails(c) \/ H!DeleteCall(c)
                        \/ \E c \in Made : \E d \in Made \cup {NoCall} : H!Answered(c, d)
<1> USE DEF H!listing, H!reading, H!calling
<1>1. UNCHANGED <<rows, at, history, found, refused, noticed>> /\ Past' = Past
  BY DEF H!ShowHistory, H!HistoryReady, H!ReadFails, H!ClearHistory, H!DeleteServer,
        H!RecordFails, H!DeleteCall,
         H!Answered, Past
<1>2. Unique(history)'
  BY <1>1 DEF HistoryInv, Unique
<1>3. CASE H!ShowHistory \/ \E w \in Waiters : H!HistoryReady(w)
  <2>1. UNCHANGED <<record, replayed, delete, clear, removal>>
    BY <1>3 DEF H!ShowHistory, H!HistoryReady
  <2>2. /\ load' \in {"unread", "loading", "read"} /\ read' \in H!Job
        /\ waiter' \in [Waiters -> {"no", "waiting", "resolved", "dropped"}]
        /\ Loading' /\ H!WaitersHaveRead'
    BY <1>3, <2>1 DEF H!ShowHistory, H!HistoryReady, H!Reading, HistoryInv, Loading,
          H!WaitersHaveRead,
      H!TypeOK, H!Out, H!Job, H!Shown
  <2>3. read' = read \/ read' = "queued"
    BY <1>3 DEF H!ShowHistory, H!HistoryReady, H!Reading
  <2>4. read' = read \/ load = "unread"
    BY <1>3 DEF H!ShowHistory, H!HistoryReady, H!Reading
  <2>5. RowsCome'
    BY <1>1, <2>1, <2>3, <2>4 DEF HistoryInv, RowsCome, Coming, Loading, H!Shown
  <2>6. H!TypeOK'
    BY <1>1, <2>1, <2>2, HistorySame DEF HistoryInv, H!TypeOK
  <2> QED BY <1>1, <1>2, <2>1, <2>2, <2>5, <2>6 DEF HistoryInv, Stamped, RefusedKnown,
        H!Shown
<1>4. CASE H!ReadFails \/ H!ClearHistory \/ H!DeleteServer
  <2>1. UNCHANGED <<record, replayed, delete, load, waiter>>
    BY <1>4 DEF H!ReadFails, H!ClearHistory, H!DeleteServer
  <2>2. Loading' /\ H!WaitersHaveRead' /\ (H!Shown' <=> H!Shown) /\ (clear' = "done" <=> clear = "done")
    BY <1>4, <2>1 DEF H!ReadFails, H!ClearHistory, H!DeleteServer, HistoryInv, Loading,
          H!WaitersHaveRead,
      H!Out, H!Shown
  <2>3. RowsCome'
    BY <1>1, <1>4, <2>1, <2>2 DEF H!ReadFails, H!ClearHistory, H!DeleteServer, HistoryInv,
          RowsCome, Coming
  <2>4. H!TypeOK'
    BY <1>1, <1>4, <2>1, HistorySame DEF H!ReadFails, H!ClearHistory, H!DeleteServer,
          HistoryInv, H!TypeOK, H!Job
  <2> QED BY <1>1, <1>2, <2>1, <2>2, <2>3, <2>4 DEF HistoryInv, Stamped, RefusedKnown
<1>5. CASE Recording
  <2>1. UNCHANGED <<load, read, waiter, clear, removal>>
    BY <1>5 DEF H!RecordFails, H!DeleteCall, H!Answered
  <2>2. PICK c \in Made : H!RecordFails(c) \/ H!DeleteCall(c)
                           \/ \E d \in Made \cup {NoCall} : H!Answered(c, d)
    BY <1>5
  <2>3. H!TypeOK'
    <3>1. record \in [Made -> H!Job] /\ delete \in [Made -> H!Job]
          /\ replayed \in [Made -> Made \cup {NoCall}] /\ "queued" \in H!Job /\ "failed" \in H!Job
      BY HistorySame DEF HistoryInv, H!TypeOK, H!Job
    <3>2. CASE H!RecordFails(c) \/ H!DeleteCall(c)
      <4>1. record' \in [Made -> H!Job] /\ delete' \in [Made -> H!Job]
            /\ replayed' \in [Made -> Made \cup {NoCall}]
        BY <3>1, <3>2 DEF H!RecordFails, H!DeleteCall
      <4> QED BY <1>1, <2>1, <4>1, HistorySame DEF HistoryInv, H!TypeOK
    <3>3. ASSUME NEW d \in Made \cup {NoCall}, H!Answered(c, d) PROVE H!TypeOK'
      <4>1. record' \in [Made -> H!Job] /\ delete' \in [Made -> H!Job]
            /\ replayed' \in [Made -> Made \cup {NoCall}]
        BY <3>1, <3>3 DEF H!Answered
      <4> QED BY <1>1, <2>1, <4>1, HistorySame DEF HistoryInv, H!TypeOK
    <3> QED BY <2>2, <3>2, <3>3
  <2>4. Stamped'
    <3>1. H!Elements(history) \in SUBSET Past
      BY DEF HistoryInv, Stamped
    <3>2. /\ record'[c] \in {"queued", "failed", record[c]}
          /\ delete'[c] = delete[c] \/ c \in Past
          /\ record'[c] # record[c] => record[c] \in {"no", "queued"}
          /\ \A q \in Made : q # c => record'[q] = record[q] /\ delete'[q] = delete[q]
      BY <2>2, <3>1, HistorySame DEF H!RecordFails, H!DeleteCall, H!Answered, HistoryInv,
            H!TypeOK
    <3> QED BY <1>1, <3>2 DEF HistoryInv, Stamped
  <2>5. RefusedKnown'
    <3>1. CASE H!RecordFails(c)
      BY <1>1, <2>1, <3>1 DEF H!RecordFails, HistoryInv, RefusedKnown,
         H!TypeOK, H!Shown
    <3>2. CASE H!DeleteCall(c)
      BY <1>1, <2>1, <3>2 DEF H!DeleteCall, HistoryInv, RefusedKnown,
         H!TypeOK, H!Shown
    <3>3. ASSUME NEW d \in Made \cup {NoCall}, H!Answered(c, d)
          PROVE  RefusedKnown'
      BY <1>1, <2>1, <3>3 DEF H!Answered, HistoryInv, RefusedKnown,
         H!TypeOK, H!Shown
    <3> QED BY <2>2, <3>1, <3>2, <3>3
  <2>6. RowsCome'
    <3>1. CASE H!RecordFails(c)
      BY <1>1, <2>1, <3>1 DEF H!RecordFails, HistoryInv, RowsCome,
         Coming, H!TypeOK, H!Shown, Stamped
    <3>2. CASE H!DeleteCall(c)
      BY <1>1, <2>1, <3>2 DEF H!DeleteCall, HistoryInv, RowsCome,
         Coming, H!TypeOK, H!Shown, Stamped
    <3>3. ASSUME NEW d \in Made \cup {NoCall}, H!Answered(c, d)
          PROVE  RowsCome'
      BY <1>1, <2>1, <3>3 DEF H!Answered, HistoryInv, RowsCome,
         Coming, H!TypeOK, H!Shown, Stamped
    <3> QED BY <2>2, <3>1, <3>2, <3>3
  <2> QED BY <1>1, <1>2, <2>1, <2>3, <2>4, <2>5, <2>6 DEF HistoryInv, Loading,
        H!WaitersHaveRead, H!Shown, H!Out
<1> QED BY <1>3, <1>4, <1>5

\* A job that deletes rows leaves the list as it is.
LEMMA DeletingKeeps ==
  ASSUME Keeping, HistoryInv, H!ClearRuns \/ H!ServerRuns \/ \E c \in Made : H!DeleteRuns(c)
  PROVE  HistoryInv'
<1> USE DEF H!listing, H!reading, H!calling
<1>1. /\ UNCHANGED <<at, history, found, refused, noticed, load, read, waiter, record, replayed>>
      /\ rows' \in SUBSET rows /\ Past' = Past
  BY DEF H!ClearRuns, H!ServerRuns, H!DeleteRuns, Past
<1>2. /\ Unique(history)' /\ (H!Shown' <=> H!Shown) /\ (clear' = "done" <=> clear = "done")
      /\ clear' \in H!Job /\ removal' \in H!Job /\ delete' \in [Made -> H!Job]
      /\ \A c \in Made : (delete'[c] # "no" <=> delete[c] # "no")
                          /\ (delete'[c] = "ran" => delete[c] = "ran" \/ c \notin rows')
  BY <1>1, HistorySame DEF H!ClearRuns, H!ServerRuns, H!DeleteRuns, HistoryInv, Unique,
        H!Shown, H!TypeOK, H!Job
<1>3. RowsCome'
  BY <1>1, <1>2 DEF HistoryInv, RowsCome, Coming
<1>4. H!TypeOK' /\ Stamped' /\ Loading' /\ H!WaitersHaveRead' /\ RefusedKnown'
  BY <1>1, <1>2, HistorySame DEF HistoryInv, H!TypeOK, Stamped, Loading,
        H!WaitersHaveRead, RefusedKnown, H!Out
<1> QED BY <1>2, <1>3, <1>4 DEF HistoryInv

\* What is read is every row, unless there are more than the list takes.
LEMMA ReadKeeps ==
  ASSUME Keeping, HistoryInv, H!ReadRuns
  PROVE  HistoryInv'
<1> USE DEF H!listing, H!reading, H!calling
<1> DEFINE new == H!NewestFirst(rows, at)
<1>1. /\ UNCHANGED <<rows, at, history, load, waiter, record, replayed, refused, delete, clear,
                     removal, noticed>>
      /\ read = "queued" /\ read' = "ran" /\ found' = H!Truncated(new) /\ Past' = Past
  BY DEF H!ReadRuns, Past
<1>2. rows \in SUBSET Past /\ rows \in SUBSET Made /\ at \in [Made -> Nat]
      /\ \A c, d \in rows : at[c] = at[d] => c = d
  BY HistorySame DEF HistoryInv, Stamped, Past, H!TypeOK
<1>3. new \in Seq(rows) /\ Unique(new) /\ Len(new) = Cardinality(rows) /\ H!Elements(new) = rows
  BY <1>2, NewestOf
<1>4. /\ H!Truncated(new) \in Seq(rows) /\ H!Elements(H!Truncated(new)) \in SUBSET rows
      /\ Len(new) <= Limit => H!Elements(H!Truncated(new)) = rows
  BY <1>3, TruncatedOf
<1>5. Cardinality(rows) \in Nat /\ Cardinality(rows) <= Cardinality(Past) /\ Cardinality(Past) \in Nat
  BY <1>2, PastCounted, FS_CardinalityType
<1> HIDE DEF new
<1>6. Cardinality(Past) <= Limit => H!Elements(found') = rows
  BY <1>1, <1>3, <1>4, <1>5 DEF Keeping
<1>7. found' \in Seq(Made) /\ H!Elements(found') \in SUBSET rows
  BY <1>1, <1>2, <1>4
<1>8. RowsCome'
  BY <1>1, <1>6 DEF HistoryInv, RowsCome, Coming, H!Shown
<1>9. H!TypeOK' /\ Unique(history)'
  BY <1>1, <1>7, HistorySame DEF HistoryInv, H!TypeOK, H!Job, Unique
<1>10. Stamped'
  BY <1>1, <1>2, <1>7 DEF HistoryInv, Stamped
<1>11. Loading' /\ H!WaitersHaveRead' /\ RefusedKnown'
  BY <1>1 DEF HistoryInv, Loading, H!WaitersHaveRead, RefusedKnown, H!Out, H!Shown
<1> QED BY <1>8, <1>9, <1>10, <1>11 DEF HistoryInv

\* A call recorded has the latest time, and is on its way to the list.
LEMMA RecordingKeeps ==
  ASSUME Keeping, HistoryInv, NEW c \in Made, H!RecordRuns(c)
  PROVE  HistoryInv'
<1> USE DEF H!listing, H!reading, H!calling
<1>1. /\ UNCHANGED <<history, load, read, found, waiter, replayed, refused, delete, clear, removal, noticed>>
      /\ record[c] = "queued" /\ record' = [record EXCEPT ![c] = "ran"]
      /\ at' = [at EXCEPT ![c] = 1 + Cardinality(Past)]
      /\ rows' \in SUBSET (rows \cup {c})
  BY HistorySame DEF H!RecordRuns, H!Pruned, Past
<1>2. /\ c \notin Past /\ at \in [Made -> 0..Cardinality(Made)]
      /\ record \in [Made -> H!Job] /\ rows \in SUBSET Made
  BY <1>1, HistorySame DEF HistoryInv, Stamped, H!TypeOK
<1>3. /\ IsFiniteSet(Past) /\ Cardinality(Past) \in Nat /\ Cardinality(Made) \in Nat
  BY PastCounted
<1>4. Past' = Past \cup {c}
  <2>1. \A d \in Made : at'[d] > 0 <=> at[d] > 0 \/ d = c
    BY <1>1, <1>2, <1>3
  <2> QED BY <2>1 DEF Past
<1>5. Cardinality(Past') = Cardinality(Past) + 1 /\ Cardinality(Past') <= Cardinality(Made)
  <2>1. Past' \in SUBSET Made
    BY <1>4 DEF Past
  <2> QED BY <1>2, <1>3, <1>4, <2>1, FS_AddElement, FS_Subset DEF Keeping
<1>6. H!TypeOK'
  <2>1. at' \in [Made -> 0..Cardinality(Made)]
    BY <1>1, <1>2, <1>3, <1>5
  <2>2. record' \in [Made -> H!Job]
    BY <1>1, <1>2 DEF H!Job
  <2> QED BY <1>1, <2>1, <2>2, HistorySame DEF HistoryInv, H!TypeOK
<1>7. Stamped'
  <2>1. /\ \A a, b \in Past' : at'[a] = at'[b] => a = b
        /\ \A q \in Made : at'[q] <= Cardinality(Past')
    <3>1. \A q \in Made : q # c => at'[q] = at[q] /\ at[q] <= Cardinality(Past)
      BY <1>1, <1>2 DEF HistoryInv, Stamped
    <3>2. at'[c] = 1 + Cardinality(Past) /\ \A q \in Made : at[q] \in Nat
      BY <1>1, <1>2, <1>3
    <3>3. \A a, b \in Past : at[a] = at[b] => a = b
      BY DEF HistoryInv, Stamped
    <3>4. \A q \in Past : q \in Made /\ q # c
      BY <1>2 DEF Past
    <3>5. \A q \in Made : at'[q] <= Cardinality(Past')
      BY <1>3, <1>5, <3>1, <3>2
    <3>6. ASSUME NEW a \in Past', NEW b \in Past', at'[a] = at'[b] PROVE a = b
      <4>1. \A q \in Past : at'[q] = at[q] /\ at'[q] # at'[c]
        BY <1>3, <3>1, <3>2, <3>4
      <4> QED BY <1>4, <3>3, <3>6, <4>1
    <3> QED BY <3>5, <3>6
  <2>2. \A q \in Made : /\ record'[q] \in {"no", "queued", "failed"} => q \notin Past'
                        /\ record'[q] = "ran" => q \in Past'
                        /\ delete'[q] # "no" => q \in Past'
    BY <1>1, <1>2, <1>4 DEF HistoryInv, Stamped
  <2>3. rows' \cup H!Elements(history') \cup H!Elements(found') \subseteq Past'
    BY <1>1, <1>4 DEF HistoryInv, Stamped
  <2> QED BY <2>1, <2>2, <2>3 DEF Stamped
<1>8. RowsCome'
  <2>1. \A q \in Made : delete[q] = "ran" => q \notin rows /\ q # c
    BY <1>2 DEF HistoryInv, RowsCome, Stamped
  <2>2. Cardinality(Past') <= Limit => Cardinality(Past) <= Limit
    BY <1>3, <1>5 DEF Keeping
  <2>3. \A q \in rows : Coming(q) => Coming(q)'
    BY <1>1, <1>2 DEF Coming
  <2>4. Coming(c)'
    BY <1>1, <1>2 DEF Coming
  <2> QED BY <1>1, <2>1, <2>2, <2>3, <2>4 DEF HistoryInv, RowsCome, H!Shown
<1>9. RefusedKnown'
  BY <1>1, <1>2, HistorySame DEF HistoryInv, RefusedKnown, H!Shown, H!TypeOK
<1>10. Unique(history)' /\ Loading' /\ H!WaitersHaveRead'
  BY <1>1 DEF HistoryInv, Unique, Loading, H!WaitersHaveRead, H!Out, H!Shown
<1> QED BY <1>6, <1>7, <1>8, <1>9, <1>10 DEF HistoryInv

\* The calls stored and those listed meanwhile make the list, and those who
\* waited for it are told.
LEMMA ReadDoneKeeps ==
  ASSUME Keeping, HistoryInv, H!ReadDone
  PROVE  HistoryInv'
<1> USE DEF H!listing, H!reading, H!calling
<1>1. /\ UNCHANGED <<rows, at, found, record, replayed, refused, delete, clear, removal>>
      /\ read \in {"ran", "failed"} /\ read' = "done" /\ Past' = Past /\ (H!Shown' <=> H!Shown)
  BY DEF H!ReadDone, Past, H!Shown
<1>2. CASE ~H!Shown
  <2>1. UNCHANGED <<history, load, waiter, noticed>>
    BY <1>2 DEF H!ReadDone
  <2> QED BY <1>1, <1>2, <2>1, HistorySame DEF HistoryInv, H!TypeOK, Unique, Stamped,
        Loading, H!WaitersHaveRead,
        RefusedKnown, RowsCome, H!Job
<1>3. CASE H!Shown /\ read = "failed"
  <2>1. UNCHANGED history /\ noticed' = TRUE /\ load' = "read" /\ waiter' = H!Resolved
    BY <1>3 DEF H!ReadDone
  <2>2. waiter' \in [Waiters -> {"no", "waiting", "resolved", "dropped"}]
        /\ \A w \in Waiters : waiter'[w] # "waiting"
    BY <2>1, HistorySame DEF H!Resolved, HistoryInv, H!TypeOK
  <2> QED BY <1>1, <1>3, <2>1, <2>2, HistorySame DEF HistoryInv, H!TypeOK, Unique,
        Stamped, Loading, H!WaitersHaveRead,
        RefusedKnown, RowsCome, H!Job
<1>4. CASE H!Shown /\ read = "ran"
  <2> DEFINE S == H!Elements(history) \cup H!Elements(found)
             new == H!NewestFirst(S, at)
  <2>1. history' = H!Truncated(new) /\ noticed' = noticed /\ load' = "read" /\ waiter' = H!Resolved
    BY <1>4 DEF H!ReadDone, H!Merged
  <2>2. waiter' \in [Waiters -> {"no", "waiting", "resolved", "dropped"}]
        /\ \A w \in Waiters : waiter'[w] # "waiting"
    BY <2>1, HistorySame DEF H!Resolved, HistoryInv, H!TypeOK
  <2>3. S \in SUBSET Past /\ S \in SUBSET Made /\ at \in [Made -> Nat]
        /\ \A c, d \in S : at[c] = at[d] => c = d
    BY HistorySame DEF HistoryInv, Stamped, Past, H!TypeOK
  <2> HIDE DEF S
  <2>4. new \in Seq(S) /\ Unique(new) /\ Len(new) = Cardinality(S) /\ H!Elements(new) = S
    BY <2>3, NewestOf
  <2>5. /\ H!Truncated(new) \in Seq(S) /\ Unique(H!Truncated(new)) /\ Len(H!Truncated(new)) <= Limit
        /\ H!Elements(H!Truncated(new)) \in SUBSET S
        /\ Len(new) <= Limit => H!Elements(H!Truncated(new)) = S
    BY <2>4, TruncatedOf
  <2>6. Cardinality(S) \in Nat /\ Cardinality(S) <= Cardinality(Past) /\ Cardinality(Past) \in Nat
    BY <2>3, PastCounted, FS_CardinalityType
  <2> HIDE DEF new
  <2>7. Cardinality(Past) <= Limit => H!Elements(history') = S
    BY <2>1, <2>4, <2>5, <2>6 DEF Keeping
  <2>8. history' \in Seq(Made) /\ H!Elements(history') \in SUBSET Past
    BY <2>1, <2>3, <2>5
  <2>9. H!TypeOK' /\ Unique(history)'
    <3>1. Unique(history')
      BY <2>1, <2>5
    <3> QED BY <1>1, <2>1, <2>2, <2>5, <2>8, <3>1, HistorySame DEF HistoryInv, H!TypeOK,
          H!Job, Unique
  <2>10. Stamped' /\ Loading' /\ H!WaitersHaveRead' /\ RefusedKnown'
    BY <1>1, <2>1, <2>2, <2>8 DEF HistoryInv, Stamped, Loading, H!WaitersHaveRead,
          RefusedKnown, H!Out
  <2>11. RowsCome'
    BY <1>1, <1>4, <2>1, <2>7 DEF HistoryInv, RowsCome, Coming, S
  <2> QED BY <2>9, <2>10, <2>11 DEF HistoryInv
<1> QED BY <1>1, <1>2, <1>3, <1>4

\* The call recorded is put at the top, unless it is listed or refused.
LEMMA RecordDoneKeeps ==
  ASSUME Keeping, HistoryInv, NEW c \in Made, H!RecordDone(c)
  PROVE  HistoryInv'
<1> USE DEF H!listing, H!reading, H!calling
<1>1. /\ UNCHANGED <<rows, at, load, read, found, waiter, replayed, refused, delete, clear, removal>>
      /\ record[c] \in {"ran", "failed"} /\ record' = [record EXCEPT ![c] = "done"]
      /\ Past' = Past /\ (H!Shown' <=> H!Shown) /\ noticed' \in BOOLEAN /\ (noticed => noticed')
      /\ history' = history \/ (record[c] = "ran" /\ history' = H!Pushed(c))
      /\ record[c] = "ran" /\ H!Shown /\ c \notin refused => history' = H!Pushed(c)
  BY HistorySame DEF H!RecordDone, Past, H!Shown, HistoryInv, H!TypeOK
<1>2. record \in [Made -> H!Job] /\ history \in Seq(Made) /\ Unique(history) /\ Len(history) <= Limit
      /\ H!Elements(history) \in SUBSET Past
  BY HistorySame DEF HistoryInv, H!TypeOK, Stamped
<1>3. record[c] = "ran" => /\ H!Pushed(c) \in Seq(Made) /\ Unique(H!Pushed(c)) /\ Len(H!Pushed(c)) <= Limit
                           /\ H!Elements(H!Pushed(c)) \in SUBSET Past
                           /\ Cardinality(Past) <= Limit => H!Elements(H!Pushed(c)) = H!Elements(history) \cup {c}
  <2> SUFFICES ASSUME record[c] = "ran" PROVE
                  /\ H!Pushed(c) \in Seq(Made) /\ Unique(H!Pushed(c)) /\ Len(H!Pushed(c)) <= Limit
                  /\ H!Elements(H!Pushed(c)) \in SUBSET Past
                  /\ Cardinality(Past) <= Limit => H!Elements(H!Pushed(c)) = H!Elements(history) \cup {c}
    OBVIOUS
  <2>1. c \in Past
    BY DEF HistoryInv, Stamped
  <2>2. CASE c \in H!Elements(history)
    BY <1>2, <2>1, <2>2 DEF H!Pushed
  <2>3. CASE c \notin H!Elements(history)
    <3> DEFINE s == <<c>> \o history
    <3>1. /\ s \in Seq(Made) /\ DOMAIN s = 1..(Len(history) + 1) /\ Len(s) = Len(history) + 1
          /\ Len(history) \in Nat /\ DOMAIN history = 1..Len(history)
      BY <1>2
    <3>2. \A i \in DOMAIN s : s[i] = IF i = 1 THEN c ELSE history[i - 1]
      BY <1>2, <3>1
    <3>2a. \A i \in DOMAIN history : i + 1 \in DOMAIN s /\ s[i + 1] = history[i]
      BY <1>2, <3>1
    <3>3. H!Pushed(c) = H!Truncated(s)
      BY <2>3 DEF H!Pushed
    <3> HIDE DEF s
    <3>4. \A i \in DOMAIN history : history[i] # c
      BY <2>3 DEF H!Elements
    <3>5. Unique(s)
      <4> SUFFICES ASSUME NEW i \in DOMAIN s, NEW j \in DOMAIN s, s[i] = s[j] PROVE i = j
        BY DEF Unique
      <4>1. i # 1 => i - 1 \in DOMAIN history
        BY <3>1
      <4>2. j # 1 => j - 1 \in DOMAIN history
        BY <3>1
      <4>3. CASE i = 1 \/ j = 1
        BY <3>2, <3>4, <4>1, <4>2, <4>3
      <4>4. CASE i # 1 /\ j # 1
        <5>1. history[i - 1] = history[j - 1]
          BY <3>2, <4>4
        <5>2. i - 1 = j - 1
          BY <1>2, <4>1, <4>2, <4>4, <5>1 DEF Unique
        <5> QED BY <3>1, <5>2
      <4> QED BY <4>3, <4>4
    <3>6. H!Elements(s) = H!Elements(history) \cup {c}
      <4>1. ASSUME NEW i \in DOMAIN s PROVE s[i] \in H!Elements(history) \cup {c}
        <5>1. i # 1 => i - 1 \in DOMAIN history
          BY <3>1
        <5>2. \A k \in DOMAIN history : history[k] \in H!Elements(history)
          BY DEF H!Elements
        <5> QED BY <3>2, <5>1, <5>2
      <4>2. c \in H!Elements(s)
        <5>1. 1 \in DOMAIN s
          BY <3>1
        <5>2. s[1] = IF 1 = 1 THEN c ELSE history[1 - 1]
          BY <3>2, <5>1, Zenon
        <5> QED BY <5>1, <5>2 DEF H!Elements
      <4>3. ASSUME NEW i \in DOMAIN history PROVE history[i] \in H!Elements(s)
        BY <3>2a DEF H!Elements
      <4>4. \A x \in H!Elements(s) : x \in H!Elements(history) \cup {c}
        BY <4>1 DEF H!Elements
      <4>5. \A x \in H!Elements(history) : x \in H!Elements(s)
        BY <4>3 DEF H!Elements
      <4> QED BY <4>2, <4>4, <4>5
    <3>7. H!Elements(s) \in SUBSET Past
      BY <1>2, <2>1, <3>6
    <3>8. Cardinality(Past) <= Limit => Len(s) <= Limit
      <4>1. Len(s) <= Cardinality(Past) /\ Cardinality(Past) \in Nat
        BY <3>1, <3>5, <3>7, PastCounted
      <4> QED BY <3>1, <4>1 DEF Keeping
    <3> QED BY <3>1, <3>3, <3>5, <3>6, <3>7, <3>8, TruncatedOf
  <2> QED BY <2>2, <2>3
<1>4. history' \in Seq(Made) /\ Unique(history') /\ Len(history') <= Limit /\ H!Elements(history') \in SUBSET Past
  BY <1>1, <1>2, <1>3
<1>5. H!TypeOK'
  BY <1>1, <1>2, <1>4, HistorySame DEF HistoryInv, H!TypeOK, H!Job
<1>6. Unique(history)' /\ Loading' /\ H!WaitersHaveRead'
  BY <1>1, <1>4 DEF HistoryInv, Unique, Loading, H!WaitersHaveRead, H!Out
<1>7. Stamped' /\ RefusedKnown'
  BY <1>1, <1>2, <1>4 DEF HistoryInv, Stamped, RefusedKnown
<1>8. RowsCome'
  <2>1. ASSUME H!Shown, Cardinality(Past) <= Limit, NEW q \in rows, Coming(q) PROVE Coming(q)'
    <3>1. H!Elements(history) \in SUBSET H!Elements(history')
      BY <1>1, <1>3, <2>1
    <3>2. q = c /\ record[c] = "ran" /\ c \notin refused => c \in H!Elements(history')
      BY <1>1, <1>3, <2>1
    <3>3. q # c => record'[q] = record[q]
      BY <1>1, <1>2
    <3> QED BY <1>1, <2>1, <3>1, <3>2, <3>3 DEF Coming
  <2> QED BY <1>1, <2>1 DEF HistoryInv, RowsCome
<1> QED BY <1>5, <1>6, <1>7, <1>8 DEF HistoryInv

\* A call deleted leaves the list, and so does the record of one sent again
\* from it.
LEMMA DeleteDoneKeeps ==
  ASSUME Keeping, HistoryInv, NEW c \in Made, H!DeleteDone(c)
  PROVE  HistoryInv'
<1> USE DEF H!listing, H!reading, H!calling
<1>1. /\ UNCHANGED <<rows, at, load, read, found, waiter, record, replayed, clear, removal>>
      /\ delete[c] \in {"ran", "failed"} /\ delete' = [delete EXCEPT ![c] = "done"]
      /\ Past' = Past /\ (H!Shown' <=> H!Shown) /\ noticed' \in BOOLEAN /\ (noticed => noticed')
      /\ \/ history' = history /\ refused' = refused
         \/ /\ delete[c] = "ran" /\ history' = H!Without(history, c)
            /\ refused' = refused \cup H!ReplaysOf({c})
  BY HistorySame DEF H!DeleteDone, Past, H!Shown, HistoryInv, H!TypeOK
<1>2. delete \in [Made -> H!Job] /\ history \in Seq(Made) /\ Unique(history) /\ Len(history) <= Limit
      /\ H!Elements(history) \in SUBSET Past /\ refused \in SUBSET Made /\ Limit \in Nat
  BY HistorySame DEF HistoryInv, H!TypeOK, Stamped, Keeping
<1>3. /\ H!Without(history, c) \in Seq(Made) /\ Unique(H!Without(history, c))
      /\ Len(H!Without(history, c)) <= Len(history)
      /\ \A d \in Made : d \in H!Elements(H!Without(history, c)) <=> d \in H!Elements(history) /\ d # c
  BY <1>2, WithoutOf
<1>4. H!Elements(H!Without(history, c)) \in SUBSET Past
  <2>1. H!Elements(H!Without(history, c)) \in SUBSET Made
    BY <1>3, UniqueLength
  <2> QED BY <1>2, <1>3, <2>1
<1>5. history' \in Seq(Made) /\ Unique(history') /\ Len(history') <= Limit /\ H!Elements(history') \in SUBSET Past
  <2>1. Len(history) \in Nat /\ Len(H!Without(history, c)) \in Nat
    BY <1>2, <1>3
  <2> QED BY <1>1, <1>2, <1>3, <1>4, <2>1
<1>6. H!ReplaysOf({c}) \in SUBSET Made /\ \A r \in H!ReplaysOf({c}) : record[r] # "no" /\ replayed[r] = c
  BY DEF H!ReplaysOf
<1>7. H!TypeOK'
  BY <1>1, <1>2, <1>5, <1>6, HistorySame DEF HistoryInv, H!TypeOK, H!Job
<1>8. Unique(history)' /\ Loading' /\ H!WaitersHaveRead'
  BY <1>1, <1>5 DEF HistoryInv, Unique, Loading, H!WaitersHaveRead, H!Out
<1>9. Stamped'
  BY <1>1, <1>2, <1>5 DEF HistoryInv, Stamped
<1>10. RefusedKnown'
  BY <1>1, <1>6 DEF HistoryInv, RefusedKnown, Keeping
<1>11. RowsCome'
  <2>1. c \notin rows \/ history' = history
    BY <1>1 DEF HistoryInv, RowsCome
  <2>2. ASSUME NEW q \in rows, Coming(q) PROVE Coming(q)'
    <3>1. q \in Made
      BY HistorySame DEF HistoryInv, H!TypeOK
    <3>2. q \in H!Elements(history) => q \in H!Elements(history')
      BY <1>1, <1>3, <2>1, <3>1
    <3> QED BY <1>1, <2>2, <3>2 DEF Coming
  <2>3. \A q \in Made : delete'[q] = "ran" => delete[q] = "ran"
    BY <1>1, <1>2
  <2> QED BY <1>1, <2>2, <2>3 DEF HistoryInv, RowsCome
<1> QED BY <1>7, <1>8, <1>9, <1>10, <1>11 DEF HistoryInv

LEMMA EmptyList ==
  /\ <<>> \in Seq(Made) /\ Unique(<<>>) /\ H!Elements(<<>>) = {} /\ Len(<<>>) = 0
BY DEF Unique, H!Elements

\* The history cleared, and the server gone, leave nothing to list or to wait for.
LEMMA EndKeeps ==
  ASSUME Keeping, HistoryInv, H!ClearDone \/ H!ServerDone
  PROVE  HistoryInv'
<1> USE DEF H!listing, H!reading, H!calling
<1>1. /\ UNCHANGED <<rows, at, read, found, record, replayed, delete>>
      /\ Past' = Past /\ noticed' \in BOOLEAN /\ (noticed => noticed')
  BY HistorySame DEF H!ClearDone, H!ServerDone, Past, HistoryInv, H!TypeOK
<1>2. history' = history \/ history' = <<>>
  BY DEF H!ClearDone, H!ServerDone
<1>3. history' \in Seq(Made) /\ Unique(history') /\ Len(history') <= Limit /\ H!Elements(history') \in SUBSET Past
  <2>1. history \in Seq(Made) /\ Unique(history) /\ Len(history) <= Limit
        /\ H!Elements(history) \in SUBSET Past /\ 0 <= Limit
    BY HistorySame DEF HistoryInv, H!TypeOK, Stamped, Keeping
  <2>2. CASE history' = history
    BY <2>1, <2>2
  <2>3. CASE history' = <<>>
    BY <2>1, <2>3, EmptyList
  <2> QED BY <1>2, <2>2, <2>3
<1>4. Stamped' /\ Unique(history)'
  BY <1>1, <1>3 DEF HistoryInv, Stamped, Unique
<1>5. CASE H!ClearDone
  <2>1. UNCHANGED removal /\ clear' = "done" /\ clear \in {"ran", "failed"}
    BY <1>5 DEF H!ClearDone
  <2>2. CASE H!Shown /\ clear = "ran"
    <3>1. load' = "read" /\ waiter' = H!Resolved /\ refused' = refused \cup H!ReplaysOf(Made) /\ noticed' = noticed
      <4>1. noticed \in BOOLEAN
        BY HistorySame DEF HistoryInv, H!TypeOK
      <4> QED BY <1>5, <2>2, <4>1 DEF H!ClearDone
    <3>2. waiter' \in [Waiters -> {"no", "waiting", "resolved", "dropped"}]
          /\ \A w \in Waiters : waiter'[w] # "waiting"
      BY <3>1, HistorySame DEF H!Resolved, HistoryInv, H!TypeOK
    <3>3. H!ReplaysOf(Made) \in SUBSET Made
          /\ \A r \in H!ReplaysOf(Made) : record[r] # "no" /\ replayed[r] \in Made
      BY DEF H!ReplaysOf
    <3>4. H!TypeOK'
      BY <1>1, <1>3, <2>1, <3>1, <3>2, <3>3, HistorySame DEF HistoryInv, H!TypeOK, H!Job
    <3>5. Loading' /\ H!WaitersHaveRead' /\ RowsCome'
      BY <1>1, <2>1, <3>1, <3>2 DEF HistoryInv, Loading, H!WaitersHaveRead, RowsCome,
            H!Out, H!Shown
    <3>6. RefusedKnown'
      BY <1>1, <2>1, <3>1, <3>3 DEF HistoryInv, RefusedKnown, Keeping, H!Shown
    <3> QED BY <1>4, <3>4, <3>5, <3>6 DEF HistoryInv
  <2>3. CASE ~(H!Shown /\ clear = "ran")
    <3>1. UNCHANGED <<history, load, waiter, refused>>
      BY <1>5, <2>3 DEF H!ClearDone
    <3>2. H!TypeOK'
      BY <1>1, <2>1, <3>1, HistorySame DEF HistoryInv, H!TypeOK, H!Job
    <3>3. Loading' /\ H!WaitersHaveRead' /\ RowsCome' /\ RefusedKnown'
      BY <1>1, <2>1, <3>1 DEF HistoryInv, Loading, H!WaitersHaveRead, RowsCome,
            RefusedKnown, H!Out, H!Shown
    <3> QED BY <1>4, <3>2, <3>3 DEF HistoryInv
  <2> QED BY <2>2, <2>3
<1>6. CASE H!ServerDone
  <2>1. UNCHANGED <<clear, load>> /\ removal \in {"ran", "failed"} /\ H!Shown
    BY <1>6 DEF H!ServerDone, H!Shown
  <2>2. CASE removal = "ran"
    <3> DEFINE out == {c \in Made \ Agents : record[c] \in {"queued", "ran", "failed"}}
    <3>1. removal' = "done" /\ waiter' = H!Orphaned /\ refused' = refused \cup out /\ noticed' = noticed
      BY <1>6, <2>2 DEF H!ServerDone
    <3>2. waiter' \in [Waiters -> {"no", "waiting", "resolved", "dropped"}]
          /\ \A w \in Waiters : waiter'[w] # "waiting"
      BY <3>1, HistorySame DEF H!Orphaned, HistoryInv, H!TypeOK
    <3>3. out \in SUBSET Made /\ \A r \in out : record[r] # "no"
      OBVIOUS
    <3> HIDE DEF out
    <3>4. H!TypeOK'
      BY <1>1, <1>3, <2>1, <3>1, <3>2, <3>3, HistorySame DEF HistoryInv, H!TypeOK, H!Job
    <3>5. Loading' /\ H!WaitersHaveRead' /\ RowsCome'
      BY <1>1, <2>1, <3>1, <3>2 DEF HistoryInv, Loading, H!WaitersHaveRead, RowsCome,
            H!Out, H!Shown
    <3>6. RefusedKnown'
      BY <1>1, <2>1, <3>1, <3>3 DEF HistoryInv, RefusedKnown, H!Shown
    <3> QED BY <1>4, <3>4, <3>5, <3>6 DEF HistoryInv
  <2>3. CASE removal = "failed"
    <3>1. UNCHANGED <<history, waiter, refused>> /\ noticed' = TRUE /\ removal' = "no"
      BY <1>6, <2>3 DEF H!ServerDone
    <3>2. H!TypeOK'
      BY <1>1, <2>1, <3>1, HistorySame DEF HistoryInv, H!TypeOK, H!Job
    <3>3. Loading' /\ H!WaitersHaveRead' /\ RowsCome' /\ RefusedKnown'
      BY <1>1, <2>1, <2>3, <3>1 DEF HistoryInv, Loading, H!WaitersHaveRead, RowsCome,
            RefusedKnown, H!Out, H!Shown
    <3> QED BY <1>4, <3>2, <3>3 DEF HistoryInv
  <2> QED BY <2>1, <2>2, <2>3
<1> QED BY <1>5, <1>6

LEMMA HistoryKept ==
  ASSUME Keeping, HistoryInv, [H!Next]_H!vars PROVE HistoryInv'
<1>1. CASE UNCHANGED H!vars
  <2>1. UNCHANGED <<rows, at, history, load, read, found, waiter, record, replayed, refused,
                    delete, clear, removal, noticed>>
    BY <1>1 DEF H!vars
  <2> QED BY <2>1, HistorySame DEF HistoryInv, H!TypeOK, Unique, H!WaitersHaveRead,
        Stamped, Loading, RefusedKnown,
        RowsCome, Coming, Past, H!Shown, H!Out
<1>2. ASSUME NEW c \in Made, H!Jobs(c) PROVE HistoryInv'
  BY <1>2, AskingKeeps, DeletingKeeps, RecordingKeeps, RecordDoneKeeps,
        DeleteDoneKeeps DEF H!Jobs
<1>3. CASE H!TheJobs
  BY <1>3, ReadKeeps, AskingKeeps, ReadDoneKeeps, DeletingKeeps, EndKeeps DEF H!TheJobs
<1> QED BY <1>1, <1>2, <1>3, AskingKeeps DEF H!Next

LEMMA HistoryStart == ASSUME Keeping, H!Init PROVE HistoryInv
<1>1. /\ history = <<>> /\ found = <<>> /\ rows = Before /\ at \in [Made -> 0..Cardinality(Before)]
      /\ \A c \in Made : at[c] = 0 <=> c \notin Before
      /\ \A c, d \in Before : at[c] = at[d] => c = d
  BY HistorySame DEF H!Init
<1>2. Cardinality(Before) \in Nat /\ Cardinality(Before) <= Cardinality(Made) /\ Cardinality(Made) \in Nat
  BY FS_Subset, FS_CardinalityType DEF Keeping
<1>3. Past = Before
  BY <1>1, <1>2 DEF Past, Keeping
<1>4. H!TypeOK
  <2>1. at \in [Made -> 0..Cardinality(Made)]
    BY <1>1, <1>2
  <2>2. Len(history) <= Limit
    BY <1>1, EmptyList DEF Keeping
  <2> QED BY <1>1, <2>1, <2>2, EmptyList, HistorySame DEF H!Init, H!TypeOK, H!Job, Keeping
<1>5. Stamped /\ Unique(history)
  BY <1>1, <1>2, <1>3, EmptyList, HistorySame DEF H!Init, Stamped, Keeping
<1>6. H!WaitersHaveRead /\ Loading /\ RefusedKnown /\ RowsCome
  BY HistorySame DEF H!Init, H!WaitersHaveRead, Loading, RefusedKnown, RowsCome, Coming,
        H!Shown
<1> QED BY <1>4, <1>5, <1>6 DEF HistoryInv

\* The list and those who wait for it are in order, and no call is lost.
THEOREM HistoryIsSound ==
  ASSUME Keeping
  PROVE  H!Init /\ [][H!Next]_H!vars => [](H!ListSound /\ H!NoneLost)
<1>1. HistoryInv => H!ListSound
  <2>1. HistoryInv => H!ListedOnce
    BY UniqueLength, HistorySame DEF HistoryInv, H!ListedOnce, H!TypeOK
  <2> QED BY <2>1 DEF HistoryInv, H!ListSound
<1>2. HistoryInv => H!NoneLost
  <2> SUFFICES ASSUME HistoryInv, H!Quiet, H!Shown, load = "read", ~noticed, clear = "no",
                      Cardinality({c \in Made : at[c] > 0}) <= Limit, NEW c \in rows
               PROVE  c \in H!Elements(history) \/ (c \in refused /\ replayed[c] # NoCall)
    BY HistorySame DEF H!NoneLost
  <2>1. Coming(c) /\ c \in Made
    BY HistorySame DEF HistoryInv, RowsCome, H!TypeOK, Past
  <2>2. read = "done"
    BY DEF HistoryInv, Loading
  <2>3. record[c] # "ran"
    BY <2>1 DEF H!Quiet, H!Out
  <2> QED BY <2>1, <2>2, <2>3 DEF Coming, HistoryInv, RefusedKnown
<1> QED BY <1>1, <1>2, HistoryStart, HistoryKept, PTL

\* Facts of the constants and of a step of Answers.
LEMMA HistoryWithin ==
  Keeping /\ (AnswersInit => H!Init) /\ ([AnswersNext]_all => [H!Next]_H!vars)
<1>1. Keeping
  BY AnswersAssumption DEF Keeping
<1>2. AnswersInit => H!Init
  BY DEF AnswersInit
<1>3. [AnswersNext]_all => [H!Next]_H!vars
  BY DEF AnswersNext, CallsStep, ListenerStep, HistoryStep, all, ofHistory, H!vars
<1> QED BY <1>1, <1>2, <1>3

\* However reads, records and deletes cross, a call is listed once and no
\* more than the list takes, and who waits for the list has a read out that
\* will bring it (push_call, merge_history, history_ready, show_history).
THEOREM ListStaysSound == AnswersSpec => []ListSound
<1>1. H!ListSound => ListSound
  BY DEF ListSound
<1> QED BY <1>1, HistoryIsSound, HistoryWithin, PTL DEF AnswersSpec

\* With the jobs done every row is listed, but for those NoneLost excepts
\* (merge_history, push_call, delete_call, clear_history).
THEOREM NoneIsLost == AnswersSpec => []NoneLost
<1>1. H!NoneLost => NoneLost
  BY DEF NoneLost
<1> QED BY <1>1, HistoryIsSound, HistoryWithin, PTL DEF AnswersSpec
=============================================================================
