--------------------------- MODULE AggregateProofs ---------------------------
(***************************************************************************)
(* What is proved of the root of all servers, for any number of servers    *)
(* and any requests, resources and lists: its types, that answers match    *)
(* what was asked and each end is told once (RootStaysSound), that a       *)
(* cancellation finds its server (CancellationFinds), that what a list     *)
(* said is found (ReadsFind), and that the root implements AgentStreams    *)
(* (RootKeepsPromise).                                                     *)
(***************************************************************************)
EXTENDS Aggregate, SequenceTheorems, WellFoundedInduction, TLAPS

-----------------------------------------------------------------------------
(* Sequences.                                                              *)

\* The domain and the elements of a sequence over S.
LEMMA SeqDomain == ASSUME NEW S, NEW s \in Seq(S)
  PROVE DOMAIN s = 1..Len(s) /\ Len(s) \in Nat /\ \A i \in 1..Len(s) : s[i] \in S
BY LenProperties, ElementOfSeq

\* What a sequence over S holds is of S.
LEMMA ToSetIn == ASSUME NEW S, NEW s \in Seq(S) PROVE ToSet(s) \subseteq S
BY SeqDomain DEF ToSet

\* Appending adds one element, at the end.
LEMMA Appended ==
  ASSUME NEW S, NEW s \in Seq(S), NEW x \in S
  PROVE  /\ Append(s, x) \in Seq(S) /\ ToSet(Append(s, x)) = ToSet(s) \union {x}
         /\ DOMAIN Append(s, x) = DOMAIN s \union {Len(s) + 1} /\ Len(s) + 1 \notin DOMAIN s
         /\ \A i \in DOMAIN s : Append(s, x)[i] = s[i]
         /\ Append(s, x)[Len(s) + 1] = x
<1>1. /\ Append(s, x) \in Seq(S) /\ Len(Append(s, x)) = Len(s) + 1
      /\ \A i \in 1..Len(s) : Append(s, x)[i] = s[i]
      /\ Append(s, x)[Len(s) + 1] = x
  BY AppendProperties
<1>2. DOMAIN Append(s, x) = 1..(Len(s) + 1) /\ DOMAIN s = 1..Len(s) /\ Len(s) \in Nat
  BY <1>1, SeqDomain
<1>3. 1..(Len(s) + 1) = (1..Len(s)) \union {Len(s) + 1} /\ Len(s) + 1 \notin 1..Len(s)
  BY <1>2
<1> QED BY <1>1, <1>2, <1>3 DEF ToSet

\* One that is new keeps the elements apart.
LEMMA AppendedApart ==
  ASSUME NEW S, NEW s \in Seq(S), NEW x \in S, IsInjective(s), x \notin ToSet(s)
  PROVE  IsInjective(Append(s, x))
<1>1. \A i \in DOMAIN s : s[i] # x
  BY DEF ToSet
<1> QED BY <1>1, Appended DEF IsInjective

\* A sequence without one of its elements.
LEMMA TakenOut ==
  ASSUME NEW S, NEW s \in Seq(S), IsInjective(s), NEW k \in DOMAIN s
  PROVE  /\ RemoveAt(s, k) \in Seq(S) /\ IsInjective(RemoveAt(s, k))
         /\ ToSet(RemoveAt(s, k)) = ToSet(s) \ {s[k]}
<1> DEFINE a == SubSeq(s, 1, k - 1)
           b == SubSeq(s, k + 1, Len(s))
           t == RemoveAt(s, k)
<1>1. /\ DOMAIN s = 1..Len(s) /\ Len(s) \in Nat /\ k \in Nat /\ k >= 1 /\ k <= Len(s)
      /\ \A j \in 1..Len(s) : s[j] \in S
  BY SeqDomain
<1>2. a \in Seq(S) /\ Len(a) = k - 1 /\ \A j \in 1..(k - 1) : a[j] = s[j]
  BY <1>1, SubSeqProperties
<1>3. /\ b \in Seq(S) /\ Len(b) = IF k + 1 <= Len(s) THEN Len(s) - (k + 1) + 1 ELSE 0
      /\ \A j \in 1..(Len(s) - (k + 1) + 1) : b[j] = s[(k + 1) + j - 1]
  <2>1. k + 1 \in Int /\ Len(s) \in Int /\ \A j \in (k + 1)..Len(s) : s[j] \in S
    BY <1>1
  <2> QED BY <2>1, SubSeqProperties
<1>4. Len(b) = Len(s) - k
  BY <1>1, <1>3
<1>5. /\ a \o b \in Seq(S) /\ Len(a \o b) = Len(a) + Len(b)
      /\ \A j \in 1..(Len(a) + Len(b)) : (a \o b)[j] = IF j <= Len(a) THEN a[j] ELSE b[j - Len(a)]
  BY <1>2, <1>3, ConcatProperties
<1>6. t = a \o b
  BY DEF RemoveAt
<1> HIDE DEF a, b, t
<1>7. /\ Len(a) + Len(b) = Len(s) - 1 /\ t \in Seq(S) /\ DOMAIN t = 1..(Len(s) - 1)
  <2>1. Len(a) + Len(b) = Len(s) - 1
    BY <1>1, <1>2, <1>4
  <2>2. t \in Seq(S) /\ Len(t) = Len(s) - 1
    BY <1>5, <1>6, <2>1
  <2> QED BY <2>1, <2>2, SeqDomain
<1> DEFINE at(j) == IF j < k THEN j ELSE j + 1
<1>8. ASSUME NEW j \in 1..(Len(s) - 1) PROVE at(j) \in 1..Len(s) /\ at(j) # k /\ t[j] = s[at(j)]
  <2>1. CASE j < k
    <3>1. j \in 1..(k - 1) /\ j <= Len(a) /\ at(j) = j
      BY <1>1, <1>2, <2>1
    <3>2. t[j] = a[j]
      BY <1>5, <1>6, <1>7, <3>1
    <3>3. a[j] = s[j]
      BY <1>2, <3>1
    <3> QED BY <1>1, <2>1, <3>1, <3>2, <3>3
  <2>2. CASE ~(j < k)
    <3>1. j - Len(a) \in 1..(Len(s) - (k + 1) + 1) /\ ~(j <= Len(a)) /\ at(j) = j + 1
          /\ (k + 1) + (j - Len(a)) - 1 = j + 1
      BY <1>1, <1>2, <2>2
    <3>2. t[j] = b[j - Len(a)]
      BY <1>5, <1>6, <1>7, <3>1
    <3>3. t[j] = s[j + 1]
      BY <1>3, <3>1, <3>2
    <3> QED BY <1>1, <2>2, <3>1, <3>3
  <2> QED BY <2>1, <2>2
<1>9. \A i, j \in 1..(Len(s) - 1) : at(i) = at(j) => i = j
  BY <1>1
<1>10. \A j \in 1..Len(s) : j # k => \E i \in 1..(Len(s) - 1) : at(i) = j
  <2> SUFFICES ASSUME NEW j \in 1..Len(s), j # k PROVE \E i \in 1..(Len(s) - 1) : at(i) = j
    OBVIOUS
  <2>1. CASE j < k
    <3>1. j \in 1..(Len(s) - 1) /\ at(j) = j
      BY <1>1, <2>1
    <3> QED BY <3>1
  <2>2. CASE ~(j < k)
    <3>1. j - 1 \in 1..(Len(s) - 1) /\ at(j - 1) = j
      BY <1>1, <2>2
    <3> QED BY <3>1
  <2> QED BY <2>1, <2>2
<1> HIDE DEF at
<1>11. IsInjective(t)
  <2>1. \A i, j \in DOMAIN s : s[i] = s[j] => i = j
    BY DEF IsInjective
  <2>2. \A i, j \in 1..(Len(s) - 1) : t[i] = t[j] => at(i) = at(j)
    BY <1>1, <1>8, <2>1
  <2> QED BY <1>7, <1>9, <2>2 DEF IsInjective
<1>12. ToSet(t) \subseteq ToSet(s) \ {s[k]}
  <2>1. \A i, j \in DOMAIN s : s[i] = s[j] => i = j
    BY DEF IsInjective
  <2> QED BY <1>1, <1>7, <1>8, <2>1 DEF ToSet
<1>13. ToSet(s) \ {s[k]} \subseteq ToSet(t)
  <2>1. \A j \in 1..Len(s) : j # k => \E i \in 1..(Len(s) - 1) : t[i] = s[j]
    BY <1>8, <1>10
  <2> QED BY <1>1, <1>7, <2>1 DEF ToSet
<1> QED BY <1>7, <1>11, <1>12, <1>13 DEF t

-----------------------------------------------------------------------------
(* The owners of resources.                                                *)

\* A set of numbers has a smallest.
LEMMA SmallestInNat ==
  ASSUME NEW S \in SUBSET Nat, S # {}
  PROVE  Min(S) \in S /\ \A i \in S : Min(S) <= i
<1> DEFINE R == OpToRel(<, Nat)
<1>1. \A i, j \in Nat : <<i, j>> \in R <=> i < j
  BY Zenon DEF OpToRel
<1>2. IsWellFoundedOn(R, Nat)
  BY Zenon, NatLessThanWellFounded
<1> HIDE DEF R
<1>3. PICK k \in S : \A i \in S : ~(<<i, k>> \in R)
  BY <1>2, WFMin
<1>4. \A i \in S : ~(i < k)
  BY <1>1, <1>3
<1>5. \A i \in S : k <= i
  BY <1>4
<1> QED BY <1>5 DEF Min

\* The first of some servers is one of them.
LEMMA FirstIn ==
  ASSUME NEW S \in SUBSET Members
  PROVE  /\ First(S, None) \in 0..N
         /\ S # {} => First(S, None) \in S /\ \A i \in S : First(S, None) <= i
<1>1. N \in Nat /\ Members \in SUBSET Nat /\ None = 0 /\ Members \subseteq 0..N
  BY AggregateAssumption DEF Members, None
<1>2. CASE S = {}
  BY <1>1, <1>2 DEF First
<1>3. CASE S # {}
  <2>1. First(S, None) = Min(S) /\ S \in SUBSET Nat
    BY <1>1, <1>3 DEF First
  <2>2. Min(S) \in S /\ \A i \in S : Min(S) <= i
    BY <1>3, <2>1, SmallestInNat
  <2> QED BY <1>1, <2>1, <2>2
<1> QED BY <1>2, <1>3

OwnersTypes ==
  [uris : [URIs -> SUBSET Members], linked : Seq(Members \X URIs),
   templates : SUBSET (Members \X Patterns)]

\* What a resource is looked for at is a server, or none; the first of those
\* tried that list it, if one does.
LEMMA OwnerIn ==
  ASSUME NEW o \in OwnersTypes, NEW x \in URIs, NEW tried \in SUBSET Members
  PROVE  /\ Owner(o, x, tried, None) \in 0..N
         /\ o.uris[x] \intersect tried # {} =>
              Owner(o, x, tried, None) = First(o.uris[x] \intersect tried, None)
BY FirstIn DEF Owner, ListedBy, LinkedBy, MatchedBy

\* What the operations on owners do.
LEMMA OwnersChange ==
  ASSUME NEW o \in OwnersTypes, NEW m \in Members
  PROVE  /\ \A x \in URIs : /\ Linking(o, m, x) \in OwnersTypes
                            /\ Linking(o, m, x).uris = o.uris
         /\ \A x \in URIs : /\ Listing(o, m, x) \in OwnersTypes
                            /\ Listing(o, m, x).uris = [o.uris EXCEPT ![x] = @ \union {m}]
         /\ \A p \in Patterns : /\ Templating(o, m, p) \in OwnersTypes
                                /\ Templating(o, m, p).uris = o.uris
         /\ ForgetUris(o, m) \in OwnersTypes
         /\ ForgetUris(o, m).uris = [x \in URIs |-> o.uris[x] \ {m}]
         /\ ForgetTemplates(o, m) \in OwnersTypes
         /\ ForgetTemplates(o, m).uris = o.uris
<1>1. ASSUME NEW x \in URIs
      PROVE  Linking(o, m, x) \in OwnersTypes /\ Linking(o, m, x).uris = o.uris
  <2> DEFINE L == Members \X URIs
             s == IF Len(o.linked) >= MaxLinked THEN Tail(o.linked) ELSE o.linked
  <2>1. o.linked \in Seq(L) /\ <<m, x>> \in L
    BY DEF OwnersTypes
  <2>2. s \in Seq(L)
    <3>1. CASE Len(o.linked) >= MaxLinked
      <4>1. o.linked # <<>>
        BY <3>1, OwnersAssumption
      <4> QED BY <2>1, <3>1, <4>1, HeadTailProperties
    <3> QED BY <2>1, <3>1
  <2>3. Append(s, <<m, x>>) \in Seq(L)
    BY <2>1, <2>2, AppendProperties
  <2>4. Linking(o, m, x) \in {o, [o EXCEPT !.linked = Append(s, <<m, x>>)]}
    BY DEF Linking
  <2> HIDE DEF s
  <2> QED BY <2>3, <2>4 DEF OwnersTypes
<1>2. \A x \in URIs : /\ Listing(o, m, x) \in OwnersTypes
                      /\ Listing(o, m, x).uris = [o.uris EXCEPT ![x] = @ \union {m}]
  BY DEF Listing, OwnersTypes
<1>3. \A p \in Patterns : /\ Templating(o, m, p) \in OwnersTypes
                          /\ Templating(o, m, p).uris = o.uris
  BY DEF Templating, OwnersTypes
<1>4. /\ ForgetUris(o, m) \in OwnersTypes
      /\ ForgetUris(o, m).uris = [x \in URIs |-> o.uris[x] \ {m}]
  BY DEF ForgetUris, OwnersTypes
<1>5. /\ ForgetTemplates(o, m) \in OwnersTypes
      /\ ForgetTemplates(o, m).uris = o.uris
  BY DEF ForgetTemplates, OwnersTypes
<1> QED BY <1>1, <1>2, <1>3, <1>4, <1>5

-----------------------------------------------------------------------------
(* What holds in every state.                                              *)

\* A server is asked, and answers, only by a task that is past sending, and is
\* the one it was sent to; what goes back to a server goes to whose it is.
Asked == {"registered", "unwait", "unnote", "forwarded", "reply", "done"}
RoutedOf(r) ==
  /\ \A m \in Members : r \in waiting[m] => task[r].place \in Asked /\ task[r].dest = m
  /\ \A i \in Answers(r) :
       \/ stream[r][i][2] = None
       \/ task[r].place \in Asked /\ stream[r][i][2] = task[r].dest
Routed == (\A r \in Requests : RoutedOf(r)) /\ \A p \in returned : p[1] = p[2]

\* From its note on a request is found with its server, for as long as it
\* waits for it and the server is up.
NotedOf(r) ==
  /\ task[r].place \in {"noted", "registered", "unwait", "forwarded"} /\ task[r].dest \in Up
  /\ task[r].place = "noted" \/ r \in waiting[task[r].dest]
  => inflight[r] = task[r].dest
Noted == \A r \in Requests : NotedOf(r)

\* A pump that ends its server has found it down or taken it down.
PumpsDown ==
  \A m \in Members : pump[m] \in {"swapped", "retained", "answering", "last"} => m \in down

\* What was told is what is down; of the root's end, one who closes is on the
\* way through the servers, or all are down.
ToldOnce == told = [m \in Members |-> IF m \in down THEN 1 ELSE 0]
ClosersCome ==
  /\ \A c \in Closers : \A m \in Members : m < closer[c].next => m \in down
  /\ ended => down = Members \/ \E c \in Closers : closer[c].at = "closing"

\* The parts of a list: none is awaited when they are put together, only of a
\* server that is down was none asked for; and what is left to name is of the
\* server whose part it is.
PartOk(r, m) ==
  /\ task[r].asked[m] \in {"sending", "waiting"} => At(r, "asking")
  /\ At(r, "merging") => task[r].asked[m] \notin {"todo", "sending", "waiting"}
  /\ task[r].place \in {"asking", "merging"} /\ task[r].asked[m] = "no" => m \in down
LeftOk(r) ==
  task[r].forgot =>
    /\ At(r, "merging") /\ task[r].turn <= N /\ PartOf(r) = "ok"
    /\ task[r].field \in {"resources", "templates"}
    /\ task[r].left \subseteq (IF task[r].field = "resources" THEN Serving[task[r].turn]
                              ELSE Offering[task[r].turn])
Parts == \A r \in Requests : (\A m \in Members : PartOk(r, m)) /\ LeftOk(r)

\* A request that was not sent on has nothing on its stream, and one that
\* waits no answer.
UnansweredOf(r) ==
  /\ task[r].place \in {"idle", "checked"} => ~Held(r) /\ stream[r] = <<>>
  /\ r \in ToSet(order) => Answers(r) = {}
Unanswered == \A r \in Requests : UnansweredOf(r)

RootInv ==
  /\ TypeOK /\ Routed /\ Noted /\ PumpsDown /\ ToldOnce /\ ClosersCome /\ Parts
  /\ Unanswered

\* The steps that are no request's own.
OtherSteps ==
  \/ Listen
  \/ \E m \in Members : PumpSteps(m) \/ ServerSteps(m) \/ AgentAnswers(m)
  \/ \E c \in Closers : CloseChecks(c) \/ CloseSteps(c)

\* They hold at the start.
LEMMA InitRoot == Init => RootInv
<1> SUFFICES ASSUME Init PROVE RootInv
  OBVIOUS
<1> USE DEF Init, Idle
<1>1. /\ N \in Nat \ {0} /\ Members = 1..N /\ None = 0
      /\ Scenes \subseteq [kind : [Requests -> Kinds], ends : SUBSET Members,
                           asks : SUBSET Members, leaves : BOOLEAN]
      /\ 1 \in 1..MaxPages /\ 1 \in 1..(N + 1) /\ MaxPages \in Nat
  BY AggregateAssumption DEF Members, None
<1>2. TypeOK
  <2>1. task \in [Requests -> Tasks]
    <3>1. ASSUME NEW k \in Kinds PROVE Idle(k) \in Tasks
      BY <1>1 DEF Tasks, Places, Lists
    <3>2. \A r \in Requests : scene.kind[r] \in Kinds
      BY <1>1
    <3> HIDE DEF Idle
    <3> QED BY <3>1, <3>2
  <2>2. order \in Seq(Requests) /\ IsInjective(order)
    BY EmptySeq DEF IsInjective
  <2>3. stream \in [Requests -> Seq({"answer", "own"} \X (0..N))] /\ listener \in BOOLEAN
    BY EmptySeq
  <2>4. /\ own \in [Members -> {"unsaid", "kept", "given", "listener"} \union Requests]
        /\ waiting \in [Members -> SUBSET Keys] /\ inHand \in [Members -> SUBSET Keys]
        /\ inflight \in [Requests -> 0..N]
    BY <1>1
  <2>5. owners \in OwnersTypes
    BY EmptySeq DEF OwnersTypes, NoOwners
  <2>6. /\ closer \in [Closers -> [at : {"no", "passed", "closing", "done"}, next : 1..(N + 1)]]
    BY <1>1
  <2> QED BY <1>1, <2>1, <2>2, <2>3, <2>4, <2>5, <2>6 DEF TypeOK, OwnersTypes
<1>3. Routed /\ Noted /\ PumpsDown
  BY <1>1 DEF Routed, RoutedOf, Noted, NotedOf, PumpsDown, Answers
<1>4. ToldOnce
  BY DEF ToldOnce
<1>5. ClosersCome
  <2>1. \A c \in Closers : closer[c].next = 1
    OBVIOUS
  <2> QED BY <1>1, <2>1 DEF ClosersCome
<1>6. Parts
  BY <1>1 DEF Parts, PartOk, LeftOk, At
<1>7. Unanswered
  BY DEF Unanswered, UnansweredOf, Answers, Held, ToSet
<1> QED BY <1>2, <1>3, <1>4, <1>5, <1>6, <1>7 DEF RootInv

-----------------------------------------------------------------------------
(* The types.                                                              *)

\* The places, the fields and the numbers a task is written with.
LEMMA Names ==
  /\ N \in Nat \ {0} /\ Members = 1..N /\ None = 0 /\ None \in 0..N
  /\ 1 \in 1..MaxPages /\ MaxPages \in Nat /\ 1 \in 1..(N + 1) /\ Members \subseteq 0..N
  /\ \A m \in Members : Serving[m] \subseteq URIs /\ Offering[m] \subseteq Patterns
  /\ {"idle", "checked", "busy", "spawned", "chosen", "noted", "registered", "unwait", "unnote",
      "forwarded", "asking", "merging", "look", "locking", "reply", "done"} = Places
  /\ {"tools", "resources", "templates", "level"} = Lists
BY AggregateAssumption DEF Members, None, Places, Lists

\* The next server's turn.
LEMMA Turned ==
  ASSUME NEW t \in Tasks, t.turn <= N, N \in Nat
  PROVE  /\ [t EXCEPT !.turn = t.turn + 1] \in Tasks
         /\ [t EXCEPT !.forgot = FALSE, !.turn = t.turn + 1] \in Tasks
<1>1. t.turn + 1 \in 1..(N + 1)
  BY DEF Tasks
<1> DEFINE n == t.turn + 1
<1> HIDE DEF n
<1>2. n \in 1..(N + 1)
  BY <1>1 DEF n
<1>3. [t EXCEPT !.turn = n] \in Tasks /\ [t EXCEPT !.forgot = FALSE, !.turn = n] \in Tasks
  BY <1>2 DEF Tasks
<1> QED BY <1>3 DEF n

\* A task whose turn is not past the servers is at one of them.
LEMMA ItsTurn ==
  ASSUME task \in [Requests -> Tasks], NEW r \in Requests
  PROVE  /\ task[r].turn <= N => task[r].turn \in Members
         /\ ~(task[r].turn > N /\ task[r].turn <= N)
<1>1. task[r].turn \in 1..(N + 1) /\ N \in Nat /\ Members = 1..N
  BY Names DEF Tasks
<1> QED BY <1>1

\* A request's own step changes no other request's task.
LEMMA TaskTypes ==
  ASSUME TypeOK, Parts, NEW r \in Requests, Post(r) \/ TaskSteps(r)
  PROVE  task' \in [Requests -> Tasks] /\ \A q \in Requests \ {r} : task'[q] = task[q]
<1>1. task \in [Requests -> Tasks] /\ task[r] \in Tasks
  BY DEF TypeOK
<1> DEFINE Becomes(t) == t \in Tasks /\ task' = [task EXCEPT ![r] = t]
<1>2. ASSUME NEW t, Becomes(t)
      PROVE  task' \in [Requests -> Tasks] /\ \A q \in Requests \ {r} : task'[q] = task[q]
  BY <1>1, <1>2
<1> DEFINE Goal == task' \in [Requests -> Tasks] /\ \A q \in Requests \ {r} : task'[q] = task[q]
<1> SUFFICES Goal
  OBVIOUS
<1> HIDE DEF Goal
<1>3. ASSUME NEW p \in Places, task' = [task EXCEPT ![r].place = p] PROVE Goal
  <2>1. Becomes([task[r] EXCEPT !.place = p])
    BY <1>1, <1>3 DEF Tasks
  <2> QED BY <1>2, <2>1 DEF Goal
<1>4. ASSUME NEW p \in Places, NEW m \in 0..N, task' = [task EXCEPT ![r].place = p, ![r].dest = m]
      PROVE  Goal
  <2>1. Becomes([task[r] EXCEPT !.place = p, !.dest = m])
    BY <1>1, <1>4 DEF Tasks
  <2> QED BY <1>2, <2>1 DEF Goal
<1>5. CASE Post(r) \/ PostRegisters(r) \/ Reply(r)
  <2>1. PICK p \in Places : task' = [task EXCEPT ![r].place = p]
    BY <1>5, Names DEF Post, PostRegisters, Reply, Go
  <2> QED BY <1>3, <2>1, Zenon
<1>6. CASE \/ Note(r) \/ Register(r) \/ SendForwarded(r) \/ SendFails(r) \/ Unwait(r) \/ Unnote(r)
           \/ AllIn(r) \/ ListDone(r)
  <2>1. PICK p \in Places : task' = [task EXCEPT ![r].place = p]
    BY <1>6, Names, Zenon
       DEF Note, Register, SendForwarded, SendFails, Unwait, Unnote, AllIn, ListDone, Go
  <2> QED BY <1>3, <2>1, Zenon
<1>7. CASE ForwardNamed(r)
  <2>1. PICK m \in Members : task' = IF m \in Up THEN [task EXCEPT ![r].place = "chosen", ![r].dest = m]
                                   ELSE [task EXCEPT ![r].place = "reply"]
    BY <1>7 DEF ForwardNamed
  <2>2. "chosen" \in Places /\ "reply" \in Places /\ m \in 0..N
    BY Names
  <2>3. CASE task' = [task EXCEPT ![r].place = "chosen", ![r].dest = m]
    BY <1>4, <2>2, <2>3, Zenon
  <2>4. CASE task' = [task EXCEPT ![r].place = "reply"]
    BY <1>3, <2>2, <2>4, Zenon
  <2> QED BY <2>1, <2>3, <2>4
<1>8. CASE Look(r)
  <2>1. OwnerNow(r) \in 0..N
    BY OwnerIn, AggregateAssumption DEF OwnerNow, TypeOK, OwnersTypes, Up
  <2>2. CASE OwnerNow(r) # None
    <3>1. task' = [task EXCEPT ![r].place = "chosen", ![r].dest = OwnerNow(r)] /\ "chosen" \in Places
      BY <1>8, <2>2, Names DEF Look
    <3> QED BY <1>4, <2>1, <3>1, Zenon
  <2>3. CASE OwnerNow(r) = None /\ task[r].round = 1
    <3>1. task' = [task EXCEPT ![r].place = "locking"] /\ "locking" \in Places
      BY <1>8, <2>3, Names DEF Look
    <3> QED BY <1>3, <3>1, Zenon
  <2>4. CASE OwnerNow(r) = None /\ task[r].round # 1
    <3>1. task' = [task EXCEPT ![r].place = "reply", ![r].notfound = TRUE] /\ "reply" \in Places
      BY <1>8, <2>4, Names DEF Look
    <3>2. Becomes([task[r] EXCEPT !.place = "reply", !.notfound = TRUE])
      BY <1>1, <3>1 DEF Tasks
    <3> QED BY <1>2, <3>2 DEF Goal
  <2> QED BY <2>2, <2>3, <2>4
<1>9. ASSUME NEW f \in Lists, StartAsking(r, f) PROVE Goal
  <2> DEFINE asked == [m \in Members |-> IF m \in Up THEN "todo" ELSE "no"]
             page == [m \in Members |-> 1]
  <2>1. asked \in [Members -> {"no", "todo", "sending", "waiting", "ok", "failed"}] /\ page \in [Members -> 1..MaxPages]
    BY Names
  <2>2. task' = [task EXCEPT ![r].place = "asking", ![r].field = f, ![r].turn = 1,
                   ![r].asked = asked, ![r].page = page]
    BY <1>9 DEF StartAsking
  <2>3. "asking" \in Places /\ 1 \in 1..(N + 1)
    BY Names
  <2> HIDE DEF asked, page
  <2>4. Becomes([task[r] EXCEPT !.place = "asking", !.field = f, !.turn = 1, !.asked = asked,
                   !.page = page])
    BY <1>1, <2>1, <2>2, <2>3 DEF Tasks
  <2> QED BY <1>2, <2>4 DEF Goal
<1>10. CASE List(r) \/ ThenTemplates(r)
  <2>1. PICK f \in Lists : StartAsking(r, f)
    BY <1>10, Names DEF List, ThenTemplates
  <2> QED BY <1>9, <2>1, Zenon
<1>11. CASE EnsureListed(r) \/ ListedDone(r)
  <2>1. CASE EnsureListed(r) /\ ~listed
    <3>1. StartAsking(r, "resources") /\ "resources" \in Lists
      BY <2>1, Names DEF EnsureListed
    <3> QED BY <1>9, <3>1, Zenon
  <2>2. CASE (EnsureListed(r) /\ listed) \/ ListedDone(r)
    <3>1. task' = [task EXCEPT ![r].place = "look", ![r].round = 2] /\ "look" \in Places
      BY <2>2, Names DEF EnsureListed, ListedDone
    <3>2. [task[r] EXCEPT !.place = "look", !.round = 2] \in Tasks
      BY <1>1, <3>1, 2 \in 1..2 DEF Tasks
    <3>3. Becomes([task[r] EXCEPT !.place = "look", !.round = 2])
      BY <1>1, <3>1, <3>2
    <3> QED BY <1>2, <3>3 DEF Goal
  <2> QED BY <1>11, <2>1, <2>2
<1>12. CASE PassOver(r)
  <2>1. task' = [task EXCEPT ![r].turn = @ + 1] /\ task[r].turn <= N /\ N \in Nat
    BY <1>12, Names DEF PassOver, Merging
  <2>2. [task[r] EXCEPT !.turn = task[r].turn + 1] \in Tasks
    BY <1>1, <2>1, Turned
  <2>3. Becomes([task[r] EXCEPT !.turn = task[r].turn + 1])
    BY <1>1, <2>1, <2>2
  <2> QED BY <1>2, <2>3 DEF Goal
<1>13. CASE Forget(r)
  <2> DEFINE left == IF task[r].field = "resources" THEN Serving[task[r].turn] ELSE Offering[task[r].turn]
  <2>1. task' = [task EXCEPT ![r].forgot = TRUE, ![r].left = left]
    BY <1>13 DEF Forget
  <2>2. left \in SUBSET (URIs \union Patterns)
    <3>1. task[r].turn \in Members
      BY <1>1, <1>13, ItsTurn DEF Forget, Merging
    <3> QED BY <3>1, Names
  <2> HIDE DEF left
  <2>3. Becomes([task[r] EXCEPT !.forgot = TRUE, !.left = left])
    BY <1>1, <2>1, <2>2 DEF Tasks
  <2> QED BY <1>2, <2>3 DEF Goal
<1>14. CASE Know(r)
  <2>1. CASE \E i \in task[r].left : task' = [task EXCEPT ![r].left = @ \ {i}]
    <3>1. PICK i \in task[r].left : task' = [task EXCEPT ![r].left = @ \ {i}]
      BY <2>1
    <3>2. [task[r] EXCEPT !.left = task[r].left \ {i}] \in Tasks
      BY <1>1 DEF Tasks
    <3>3. Becomes([task[r] EXCEPT !.left = task[r].left \ {i}])
      BY <1>1, <3>1, <3>2
    <3> QED BY <1>2, <3>3 DEF Goal
  <2>2. CASE task' = [task EXCEPT ![r].forgot = FALSE, ![r].turn = @ + 1]
    <3>1. task[r].turn <= N /\ N \in Nat
      BY <1>14, Names DEF Know, Merging
    <3>2. [task[r] EXCEPT !.forgot = FALSE, !.turn = task[r].turn + 1] \in Tasks
      BY <1>1, <3>1, Turned
    <3>3. Becomes([task[r] EXCEPT !.forgot = FALSE, !.turn = task[r].turn + 1])
      BY <1>1, <2>2, <3>2
    <3> QED BY <1>2, <3>3 DEF Goal
  <2> QED BY <1>14, <2>1, <2>2 DEF Know
<1>15. ASSUME NEW m \in Members, Ask(r, m) \/ AskReturns(r, m) \/ AskEnds(r, m) PROVE Goal
  <2>1. PICK a \in {"failed", "sending", "waiting"} : task' = [task EXCEPT ![r].asked[m] = a]
    BY <1>15 DEF Ask, AskReturns, AskEnds
  <2>2. Becomes([task[r] EXCEPT !.asked = [@ EXCEPT ![m] = a]])
    BY <1>1, <2>1 DEF Tasks
  <2> QED BY <1>2, <2>2 DEF Goal
<1> QED BY <1>5, <1>6, <1>7, <1>8, <1>10, <1>11, <1>12, <1>13, <1>14, <1>15
        DEF TaskSteps, OwnSteps, SendReturns, Forwarding, ReadSteps, ListSteps, Goal

\* What an answer does to the streams.
LEMMA AnsweredDoes ==
  ASSUME TypeOK, NEW r \in Requests, NEW m \in 0..N, Answered(r, m)
  PROVE  /\ order' \in Seq(Requests) /\ IsInjective(order') /\ ToSet(order') = ToSet(order) \ {r}
         /\ stream' \in [Requests -> Seq({"answer", "own"} \X (0..N))]
         /\ \A q \in Requests \ {r} : stream'[q] = stream[q]
         /\ r \notin ToSet(order) => UNCHANGED <<order, stream>>
         /\ r \in ToSet(order) => stream'[r] = Append(stream[r], <<"answer", m>>)
<1> DEFINE E == {"answer", "own"} \X (0..N)
<1>1. order \in Seq(Requests) /\ IsInjective(order) /\ stream \in [Requests -> Seq(E)]
  BY DEF TypeOK
<1>2. CASE r \in ToSet(order)
  <2>1. PICK i \in DOMAIN order : order[i] = r /\ order' = RemoveAt(order, i)
    BY <1>2 DEF Answered
  <2>2. stream' = [stream EXCEPT ![r] = Append(stream[r], <<"answer", m>>)]
    BY <1>2 DEF Answered
  <2>3. Append(stream[r], <<"answer", m>>) \in Seq(E)
    <3>1. stream[r] \in Seq(E) /\ <<"answer", m>> \in E
      BY <1>1
    <3> HIDE DEF E
    <3> QED BY <3>1, AppendProperties
  <2> HIDE DEF E
  <2> QED BY <1>1, <1>2, <2>1, <2>2, <2>3, TakenOut DEF E
<1>3. CASE r \notin ToSet(order)
  BY <1>1, <1>3 DEF Answered
<1> QED BY <1>2, <1>3

\* The answers on a stream grew by one at most.
LEMMA AnswersGrow ==
  ASSUME NEW r, NEW e, NEW S, stream[r] \in Seq(S), e \in S, stream'[r] = Append(stream[r], e)
  PROVE  /\ \A i \in Answers(r)' : \/ i \in Answers(r) /\ stream'[r][i] = stream[r][i]
                                   \/ e[1] = "answer" /\ stream'[r][i] = e
         /\ e[1] # "answer" => Answers(r)' = Answers(r)
         /\ e[1] = "answer" => Answers(r)' # {}
BY Appended DEF Answers

\* A question has an id of the gateway's.
LEMMA QuestionKey ==
  ASSUME TypeOK, NEW r \in Requests, NEW m \in Members
  PROVE  Question(r, m) \in Keys /\ Question(r, m) \notin Requests
BY NamesAssumption DEF TypeOK, Tasks, Question, Keys, Questions

\* The types of what requests change.
LEMMA TaskStepTypes ==
  ASSUME TypeOK, Parts, Unanswered, NEW r \in Requests, Post(r) \/ TaskSteps(r), scene' = scene
  PROVE  TypeOK'
<1>1. task' \in [Requests -> Tasks] /\ task[r] \in Tasks
  BY TaskTypes DEF TypeOK
<1> USE DEF streams, sent, lists, ends
<1>2. CASE \/ Post(r) \/ ForwardNamed(r) \/ SendFails(r) \/ List(r) \/ AllIn(r) \/ ListDone(r)
           \/ Look(r) \/ ThenTemplates(r)
  BY <1>1, <1>2 DEF TypeOK, Post, ForwardNamed, SendFails, List, AllIn, ListDone, Look,
        ThenTemplates
<1>3. CASE PostRegisters(r)
  <2>1. r \notin ToSet(order)
    BY <1>3 DEF PostRegisters, Go, At, Unanswered, UnansweredOf, Held
  <2>2. order' \in Seq(Requests) /\ IsInjective(order')
    BY <1>3, <2>1, Appended, AppendedApart DEF TypeOK, PostRegisters
  <2> QED BY <1>1, <1>3, <2>2 DEF TypeOK, PostRegisters
<1>4. CASE Reply(r)
  BY <1>1, <1>4, AnsweredDoes, Names DEF TypeOK, Reply
<1>5. CASE Note(r) \/ Unnote(r)
  <2>1. inflight' \in [Requests -> 0..N]
    <3>1. inflight \in [Requests -> 0..N] /\ task[r].dest \in 0..N /\ None \in 0..N
      BY <1>1, Names DEF TypeOK, Tasks
    <3>2. PICK m \in 0..N : inflight' = [inflight EXCEPT ![r] = m]
      BY <1>5, <3>1 DEF Note, Unnote
    <3> QED BY <3>1, <3>2
  <2> QED BY <1>1, <1>5, <2>1 DEF TypeOK, Note, Unnote
<1>6. CASE Register(r) \/ Unwait(r)
  <2>1. waiting' \in [Members -> SUBSET Keys] /\ late' \subseteq Requests
    <3>1. waiting \in [Members -> SUBSET Keys] /\ late \subseteq Requests /\ r \in Keys
      BY DEF TypeOK, Keys
    <3>2. \/ waiting' = [waiting EXCEPT ![task[r].dest] = @ \union {r}]
          \/ waiting' = [waiting EXCEPT ![task[r].dest] = @ \ {r}]
      BY <1>6 DEF Register, Unwait
    <3>3. late' \in {late, late \union {r}}
      BY <1>6 DEF Register, Unwait
    <3> QED BY <3>1, <3>2, <3>3
  <2> QED BY <1>1, <1>6, <2>1 DEF TypeOK, Register, Unwait
<1>7. ASSUME NEW m \in Members, NEW k \in Keys, Sent(m, k) PROVE inHand' \in [Members -> SUBSET Keys]
  BY <1>7 DEF Sent, TypeOK
<1>8. CASE SendForwarded(r)
  <2>1. inHand' \in [Members -> SUBSET Keys]
    BY <1>8 DEF SendForwarded, Sent, TypeOK, Keys
  <2> QED BY <1>1, <1>8, <2>1 DEF TypeOK, SendForwarded
<1>9. ASSUME NEW m \in Members, Ask(r, m) \/ AskReturns(r, m) \/ AskEnds(r, m) PROVE TypeOK'
  <2>1. inHand' \in [Members -> SUBSET Keys] /\ waiting' \in [Members -> SUBSET Keys]
    <3> DEFINE k == Question(r, m)
    <3>1. waiting \in [Members -> SUBSET Keys] /\ inHand \in [Members -> SUBSET Keys] /\ k \in Keys
      BY QuestionKey DEF TypeOK
    <3>2. /\ waiting' \in {waiting, [waiting EXCEPT ![m] = @ \union {k}], [waiting EXCEPT ![m] = @ \ {k}]}
          /\ Sent(m, k) \/ inHand' = inHand
      BY <1>9 DEF Ask, AskReturns, AskEnds
    <3> HIDE DEF k
    <3>3. inHand' \in [Members -> SUBSET Keys]
      BY <1>7, <3>1, <3>2
    <3> QED BY <3>1, <3>2, <3>3
  <2> QED BY <1>1, <1>9, <2>1 DEF TypeOK, Ask, AskReturns, AskEnds
<1>10. CASE PassOver(r) \/ EnsureListed(r) \/ ListedDone(r)
  <2>1. listed' \in BOOLEAN /\ listing' \in Requests \union {Free} /\ listFailed' \in BOOLEAN
    BY <1>10 DEF TypeOK, PassOver, EnsureListed, ListedDone, Succeeded
  <2> QED BY <1>1, <1>10, <2>1 DEF TypeOK, PassOver, EnsureListed, ListedDone
<1>11. CASE Forget(r) \/ Know(r)
  <2>1. task[r].turn \in Members
    BY <1>11, ItsTurn DEF TypeOK, Forget, Know, Merging
  <2>2. task[r].forgot => task[r].left \subseteq (IF task[r].field = "resources" THEN URIs ELSE Patterns)
    BY <2>1, Names DEF Parts, LeftOk
  <2>3. owners \in OwnersTypes
    BY DEF TypeOK, OwnersTypes
  <2>4. owners' \in OwnersTypes
    <3> DEFINE m == task[r].turn
    <3>1. \/ owners' \in {owners, ForgetUris(owners, m), ForgetTemplates(owners, m)}
          \/ \E i \in URIs : owners' = Listing(owners, m, i)
          \/ \E i \in Patterns : owners' = Templating(owners, m, i)
      BY <1>11, <2>2 DEF Forget, Know
    <3> HIDE DEF m
    <3>2. m \in Members
      BY <2>1 DEF m
    <3>3. /\ ForgetUris(owners, m) \in OwnersTypes /\ ForgetTemplates(owners, m) \in OwnersTypes
          /\ \A i \in URIs : Listing(owners, m, i) \in OwnersTypes
          /\ \A i \in Patterns : Templating(owners, m, i) \in OwnersTypes
      BY <2>3, <3>2, OwnersChange, Zenon
    <3> QED BY <2>3, <3>1, <3>3, Zenon
  <2> QED BY <1>1, <1>11, <2>4 DEF TypeOK, Forget, Know, OwnersTypes
<1> QED BY <1>2, <1>3, <1>4, <1>5, <1>6, <1>8, <1>9, <1>10, <1>11
        DEF TaskSteps, OwnSteps, SendReturns, Forwarding, ReadSteps, ListSteps

\* The types of what the servers, the pumps, those that close and the agent
\* change.
LEMMA OtherStepTypes ==
  ASSUME TypeOK, Parts, Unanswered, scene' = scene, OtherSteps
  PROVE  TypeOK'
<1> USE DEF OtherSteps, streams, sent, lists, ends
<1>1. CASE Listen
  BY <1>1 DEF TypeOK, Listen
<1>2. ASSUME NEW m \in Members, NEW r \in Requests, ServerAnswers(m, r) PROVE TypeOK'
  <2>1. owners' \in OwnersTypes
    <3>1. owners \in OwnersTypes
      BY DEF TypeOK, OwnersTypes
    <3>2. owners' = owners \/ \E u \in URIs : owners' = Linking(owners, m, u)
      BY <1>2 DEF ServerAnswers
    <3>3. \A u \in URIs : Linking(owners, m, u) \in OwnersTypes
      BY <3>1, OwnersChange, Zenon
    <3> QED BY <3>1, <3>2, <3>3, Zenon
  <2>2. inHand' \in [Members -> SUBSET Keys] /\ waiting' \in [Members -> SUBSET Keys]
        /\ inflight' \in [Requests -> 0..N]
    <3>1. inHand' = [inHand EXCEPT ![m] = @ \ {r}]
      BY <1>2 DEF ServerAnswers
    <3>2. waiting' \in {waiting, [waiting EXCEPT ![m] = @ \ {r}]}
      BY <1>2 DEF ServerAnswers
    <3>3. inflight' \in {inflight, [inflight EXCEPT ![r] = None]}
      BY <1>2 DEF ServerAnswers
    <3>4. /\ inHand \in [Members -> SUBSET Keys] /\ waiting \in [Members -> SUBSET Keys]
          /\ inflight \in [Requests -> 0..N] /\ None \in 0..N
      BY Names DEF TypeOK
    <3>5. inHand' \in [Members -> SUBSET Keys]
      BY <3>1, <3>4
    <3>6. waiting' \in [Members -> SUBSET Keys]
      BY <3>2, <3>4
    <3>7. inflight' \in [Requests -> 0..N]
      BY <3>3, <3>4
    <3> QED BY <3>5, <3>6, <3>7
  <2>3. order' \in Seq(Requests) /\ IsInjective(order')
        /\ stream' \in [Requests -> Seq({"answer", "own"} \X (0..N))]
    <3>1. Answered(r, m) \/ UNCHANGED <<order, stream>>
      BY <1>2 DEF ServerAnswers
    <3> QED BY <3>1, AnsweredDoes, Names DEF TypeOK
  <2> QED BY <1>2, <2>1, <2>2, <2>3 DEF ServerAnswers, TypeOK, OwnersTypes
<1>3. ASSUME NEW m \in Members, NEW r \in Requests, ServerLists(m, r) PROVE TypeOK'
  <2>1. inHand' \in [Members -> SUBSET Keys] /\ waiting' \in [Members -> SUBSET Keys]
    BY <1>3 DEF ServerLists, TypeOK
  <2>2. task' \in [Requests -> Tasks]
    <3>1. task \in [Requests -> Tasks] /\ task[r] \in Tasks
      BY DEF TypeOK
    <3>2. CASE \E to \in {"ok", "failed"} : task' = [task EXCEPT ![r].asked[m] = to]
      <4>1. PICK to \in {"ok", "failed"} : task' = [task EXCEPT ![r].asked[m] = to]
        BY <3>2
      <4>2. [task[r] EXCEPT !.asked = [task[r].asked EXCEPT ![m] = to]] \in Tasks
        BY <3>1 DEF Tasks
      <4>3. task' = [task EXCEPT ![r] = [task[r] EXCEPT !.asked = [task[r].asked EXCEPT ![m] = to]]]
        BY <4>1
      <4> QED BY <3>1, <4>2, <4>3
    <3>3. CASE MorePages(r, m) /\ task' = [task EXCEPT ![r].asked[m] = "todo", ![r].page[m] = @ + 1]
      <4> DEFINE page == [task[r].page EXCEPT ![m] = task[r].page[m] + 1]
                 asked == [task[r].asked EXCEPT ![m] = "todo"]
      <4>1. page \in [Members -> 1..MaxPages] /\ asked \in [Members -> {"no", "todo", "sending", "waiting", "ok", "failed"}]
        <5>1. task[r].page \in [Members -> 1..MaxPages] /\ task[r].page[m] < MaxPages
          BY <3>1, <3>3 DEF Tasks, MorePages
        <5>2. task[r].page[m] \in 1..MaxPages
          BY <5>1
        <5>3. task[r].page[m] + 1 \in 1..MaxPages
          BY <5>1, <5>2, Names
        <5> QED BY <3>1, <5>1, <5>3 DEF Tasks
      <4>2. task' = [task EXCEPT ![r] = [task[r] EXCEPT !.asked = asked, !.page = page]]
        BY <3>1, <3>3
      <4> HIDE DEF asked, page
      <4>3. [task[r] EXCEPT !.asked = asked, !.page = page] \in Tasks
        BY <3>1, <4>1 DEF Tasks
      <4> QED BY <3>1, <4>2, <4>3
    <3> QED BY <1>3, <3>2, <3>3 DEF ServerLists
  <2> QED BY <1>3, <2>1, <2>2 DEF ServerLists, TypeOK
<1>4. ASSUME NEW m \in Members, ServerAsks(m) PROVE TypeOK'
  <2>1. Chosen \in {"kept", "listener"} \union Requests
    <3>1. order # <<>> => Last(order) \in Requests
      <4>1. order # <<>> => Len(order) \in 1..Len(order)
        BY EmptySeq, SeqDomain, LenProperties DEF TypeOK
      <4> QED BY <4>1, SeqDomain DEF Last, TypeOK
    <3> QED BY <3>1 DEF Chosen
  <2> QED BY <1>4, <2>1 DEF ServerAsks, TypeOK
<1>5. ASSUME NEW m \in Members, Place(m) PROVE TypeOK'
  <2>1. stream' \in [Requests -> Seq({"answer", "own"} \X (0..N))]
    <3> DEFINE E == {"answer", "own"} \X (0..N)
    <3>1. stream \in [Requests -> Seq(E)] /\ <<"own", m>> \in E
      BY Names DEF TypeOK
    <3> HIDE DEF E
    <3>2. CASE own[m] \in Requests
      <4>1. Append(stream[own[m]], <<"own", m>>) \in Seq(E)
        BY <3>1, <3>2, AppendProperties
      <4> QED BY <1>5, <3>1, <3>2, <4>1 DEF Place, E
    <3> QED BY <1>5, <3>1, <3>2 DEF Place, E
  <2> QED BY <1>5, <2>1 DEF Place, TypeOK
<1>6. ASSUME NEW m \in Members, ServerEnds(m) PROVE TypeOK'
  BY <1>6 DEF ServerEnds, TypeOK
<1>7. ASSUME NEW m \in Members, Downed(m) PROVE down' \subseteq Members /\ told' \in [Members -> Nat]
  <2>1. told \in [Members -> Nat] /\ down \subseteq Members /\ told[m] + 1 \in Nat
    BY DEF TypeOK
  <2>2. told' \in {told, [told EXCEPT ![m] = told[m] + 1]}
    BY <1>7 DEF Downed
  <2> QED BY <1>7, <2>1, <2>2 DEF Downed
<1>15. ASSUME NEW m \in Members, PumpStops(m) PROVE TypeOK'
  BY <1>15 DEF PumpStops, TypeOK
<1>16. ASSUME NEW m \in Members, MemberDown(m) PROVE TypeOK'
  <2>1. down' \subseteq Members /\ told' \in [Members -> Nat]
    BY <1>7, <1>16 DEF MemberDown
  <2> QED BY <1>16, <2>1 DEF MemberDown, TypeOK
<1>17. ASSUME NEW m \in Members, MemberGone(m) PROVE TypeOK'
  BY <1>17 DEF MemberGone, TypeOK
<1>8. ASSUME NEW m \in Members, Retain(m) PROVE TypeOK'
  BY <1>8, Names DEF Retain, Retained, TypeOK
<1>9. ASSUME NEW m \in Members, Drain(m) PROVE TypeOK'
  <2>1. task' \in [Requests -> Tasks]
    <3>1. ASSUME NEW r \in Requests
          PROVE  [task[r] EXCEPT !.asked[m] = IF @ = "waiting" THEN "failed" ELSE @] \in Tasks
      <4>1. task[r] \in Tasks
        BY DEF TypeOK
      <4> QED BY <4>1 DEF Tasks
    <3> QED BY <1>9, <3>1 DEF Drain
  <2>2. orphans' \in [Members -> SUBSET Requests] /\ waiting' \in [Members -> SUBSET Keys]
    BY <1>9 DEF Drain, Orphaned, TypeOK
  <2> QED BY <1>9, <2>1, <2>2 DEF Drain, TypeOK
<1>10. ASSUME NEW m \in Members, NEW r \in Requests, AnswerOrphan(m, r) PROVE TypeOK'
  BY <1>10, AnsweredDoes, Names DEF AnswerOrphan, TypeOK
<1>11. ASSUME NEW m \in Members, AgentAnswers(m) PROVE TypeOK'
  <2>1. returned' \subseteq Members \X Members
    BY <1>11 DEF AgentAnswers, ServerOf, WireId, Up, TypeOK
  <2> QED BY <1>11, <2>1 DEF AgentAnswers, TypeOK
<1>12. ASSUME NEW c \in Closers, CloseChecks(c) \/ CloseCancels(c) PROVE TypeOK'
  <2>1. PICK at \in {"passed", "closing", "done"} : closer' = [closer EXCEPT ![c].at = at]
    BY <1>12 DEF CloseChecks, CloseCancels
  <2>2. closer' \in [Closers -> [at : {"no", "passed", "closing", "done"}, next : 1..(N + 1)]]
    BY <2>1 DEF TypeOK
  <2>3. ended' \in BOOLEAN
    BY <1>12 DEF CloseChecks, CloseCancels, TypeOK
  <2> QED BY <1>12, <2>2, <2>3 DEF CloseChecks, CloseCancels, TypeOK
<1>13. ASSUME NEW c \in Closers, CloseMember(c) PROVE TypeOK'
  <2> DEFINE m == closer[c].next
  <2>1. m \in Members /\ m + 1 \in 1..(N + 1)
    BY <1>13, Names DEF CloseMember, TypeOK
  <2>2. closer' \in [Closers -> [at : {"no", "passed", "closing", "done"}, next : 1..(N + 1)]]
    BY <1>13, <2>1 DEF CloseMember, TypeOK
  <2>3. down' \subseteq Members /\ told' \in [Members -> Nat]
    BY <1>7, <1>13, <2>1 DEF CloseMember
  <2>4. alive' \subseteq Members /\ inHand' \in [Members -> SUBSET Keys]
    BY <1>13 DEF CloseMember, TypeOK
  <2> QED BY <1>13, <2>2, <2>3, <2>4 DEF CloseMember, TypeOK
<1>14. ASSUME NEW c \in Closers, CloseClears(c) PROVE TypeOK'
  <2>1. <<>> \in Seq(Requests) /\ IsInjective(<<>>)
    BY EmptySeq DEF IsInjective
  <2> QED BY <1>14, <2>1 DEF CloseClears, TypeOK
<1> QED BY <1>1, <1>2, <1>3, <1>4, <1>5, <1>6, <1>8, <1>9, <1>10, <1>11, <1>12, <1>13,
      <1>14,
        <1>15, <1>16, <1>17 DEF PumpSteps, ServerSteps, CloseSteps

-----------------------------------------------------------------------------
(* The steps of requests.                                                  *)

\* What a request's own step leaves alone: the servers' ends, what they said
\* themselves, and of every other request its task, its stream and where it
\* waits.
LEMMA TaskLeaves ==
  ASSUME TypeOK, Parts, NEW r \in Requests, Post(r) \/ TaskSteps(r)
  PROVE  /\ UNCHANGED <<ends, returned, listener, own>>
         /\ \A q \in Requests \ {r} :
              /\ task'[q] = task[q] /\ inflight'[q] = inflight[q] /\ stream'[q] = stream[q]
              /\ q \in ToSet(order') <=> q \in ToSet(order)
              /\ \A m \in Members : q \in waiting'[m] <=> q \in waiting[m]
<1> USE DEF streams, sent, lists
<1>1. UNCHANGED <<ends, returned, listener, own>>
  BY DEF TaskSteps, OwnSteps, SendReturns, Forwarding, ReadSteps, ListSteps, Post, PostRegisters, Reply,
        ForwardNamed, Note,
     Register, SendForwarded, SendFails, Unwait, Unnote, List, AllIn, ListDone, Look,
     EnsureListed,
     ThenTemplates, ListedDone, PassOver, Forget, Know, Ask, AskReturns, AskEnds
<1>2. \A q \in Requests \ {r} : task'[q] = task[q]
  BY TaskTypes
<1>3. \A q \in Requests \ {r} : inflight'[q] = inflight[q]
  <2>1. UNCHANGED inflight \/ Note(r) \/ Unnote(r)
    BY DEF TaskSteps, OwnSteps, SendReturns, Forwarding, ReadSteps, ListSteps, Post, PostRegisters, Reply,
          ForwardNamed,
       Register, SendForwarded, SendFails, Unwait, List, AllIn, ListDone, Look,
       EnsureListed,
       ThenTemplates, ListedDone, PassOver, Forget, Know, Ask, AskReturns, AskEnds
  <2> QED BY <2>1 DEF Note, Unnote, TypeOK
<1>4. \A q \in Requests \ {r} : stream'[q] = stream[q] /\ (q \in ToSet(order') <=> q \in ToSet(order))
  <2>1. UNCHANGED <<order, stream>> \/ PostRegisters(r) \/ Reply(r)
    BY DEF TaskSteps, OwnSteps, SendReturns, Forwarding, ReadSteps, ListSteps, Post, ForwardNamed, Note,
       Register, SendForwarded, SendFails, Unwait, Unnote, List, AllIn, ListDone, Look,
       EnsureListed,
       ThenTemplates, ListedDone, PassOver, Forget, Know, Ask, AskReturns, AskEnds
  <2>2. CASE PostRegisters(r)
    BY <2>2, Appended DEF PostRegisters, TypeOK
  <2>3. CASE Reply(r)
    BY <2>3, AnsweredDoes, Names DEF Reply
  <2> QED BY <2>1, <2>2, <2>3
<1>5. \A q \in Requests \ {r} : \A m \in Members : q \in waiting'[m] <=> q \in waiting[m]
  <2>1. \/ UNCHANGED waiting \/ Register(r) \/ Unwait(r)
        \/ \E m \in Members : \/ waiting' = [waiting EXCEPT ![m] = @ \union {Question(r, m)}]
                              \/ waiting' = [waiting EXCEPT ![m] = @ \ {Question(r, m)}]
    BY DEF TaskSteps, OwnSteps, SendReturns, Forwarding, ReadSteps, ListSteps, Post, PostRegisters, Reply,
          ForwardNamed, Note,
       SendForwarded, SendFails, Unnote, List, AllIn, ListDone, Look, EnsureListed,
       ThenTemplates, ListedDone, PassOver, Forget, Know, Ask, AskReturns, AskEnds
  <2>2. \A q \in Requests : \A m \in Members : q # Question(r, m)
    BY QuestionKey
  <2>3. waiting \in [Members -> SUBSET Keys]
    BY DEF TypeOK
  <2>4. CASE Register(r) \/ Unwait(r)
    BY <2>3, <2>4 DEF Register, Unwait
  <2> QED BY <2>1, <2>2, <2>3, <2>4
<1> QED BY <1>1, <1>2, <1>3, <1>4, <1>5

\* Where a request's own step takes it: one that was sent on stays with its
\* server, and only these two actions change whether it waits for one.
LEMMA OwnPlace ==
  ASSUME TypeOK, Parts, NEW r \in Requests, Post(r) \/ TaskSteps(r)
  PROVE  /\ task[r].place \in Asked => task'[r].place \in Asked /\ task'[r].dest = task[r].dest
         /\ \/ Register(r) \/ Unwait(r)
            \/ \A m \in Members : r \in waiting'[m] <=> r \in waiting[m]
         /\ task'[r].place \in {"idle", "checked"} => Post(r)
         /\ task'[r].place \in {"noted", "registered", "unwait", "forwarded"} =>
              \/ Note(r) \/ Register(r) \/ SendForwarded(r) \/ SendFails(r)
<1> USE DEF streams, sent, lists, Asked, Tasks
<1>1. task \in [Requests -> Tasks]
  BY DEF TypeOK
<1>2. CASE Note(r) \/ Register(r) \/ SendForwarded(r) \/ SendFails(r) \/ Unwait(r) \/ Unnote(r)
  BY <1>1, <1>2 DEF Note, Register, SendForwarded, SendFails, Unwait, Unnote, Go, At
<1>3. CASE Post(r) \/ PostRegisters(r) \/ Reply(r) \/ AllIn(r) \/ ListDone(r)
  BY <1>1, <1>3 DEF Post, PostRegisters, Reply, AllIn, ListDone, Go, At
<1>4. CASE ForwardNamed(r) \/ Look(r)
  BY <1>1, <1>4 DEF ForwardNamed, Look, At
<1>5. ASSUME NEW f, StartAsking(r, f) PROVE task'[r].place = "asking"
  BY <1>1, <1>5 DEF StartAsking
<1>6. CASE List(r) \/ ThenTemplates(r) \/ EnsureListed(r) \/ ListedDone(r)
  <2>1. /\ task[r].place \in {"spawned", "merging", "locking"}
        /\ UNCHANGED waiting
    BY <1>6 DEF List, ThenTemplates, EnsureListed, ListedDone, At, Merged
  <2>2. task'[r].place \in {"asking", "look"}
    BY <1>1, <1>5, <1>6 DEF List, ThenTemplates, EnsureListed, ListedDone
  <2> QED BY <2>1, <2>2
<1>7. CASE PassOver(r) \/ Forget(r) \/ Know(r)
  <2>1. task[r].place = "merging" /\ UNCHANGED waiting
    BY <1>7 DEF PassOver, Forget, Know, Merging, At
  <2>2. task'[r].place = task[r].place
    BY <1>1, <1>7 DEF PassOver, Forget, Know
  <2> QED BY <2>1, <2>2
<1>8. ASSUME NEW m \in Members, Ask(r, m) \/ AskReturns(r, m) \/ AskEnds(r, m)
      PROVE  /\ task[r].place = "asking" /\ task'[r].place = "asking"
             /\ \A n \in Members : r \in waiting'[n] <=> r \in waiting[n]
  <2>1. task[r].place = "asking"
    BY <1>8 DEF Ask, AskReturns, AskEnds, At, Parts, PartOk
  <2>2. task'[r].place = task[r].place
    BY <1>1, <1>8 DEF Ask, AskReturns, AskEnds
  <2> DEFINE k == Question(r, m)
  <2>3. r # k /\ waiting \in [Members -> SUBSET Keys]
    BY QuestionKey DEF TypeOK
  <2>4. waiting' \in {waiting, [waiting EXCEPT ![m] = @ \union {k}], [waiting EXCEPT ![m] = @ \ {k}]}
    BY <1>8 DEF Ask, AskReturns, AskEnds
  <2> HIDE DEF k
  <2>5. \A n \in Members : r \in waiting'[n] <=> r \in waiting[n]
    BY <2>3, <2>4
  <2> QED BY <2>1, <2>2, <2>5
<1> QED BY <1>2, <1>3, <1>4, <1>6, <1>7, <1>8 DEF TaskSteps, OwnSteps, SendReturns, Forwarding, ReadSteps,
      ListSteps

\* Such a step keeps its own request routed, noted and unanswered.
LEMMA OwnStep ==
  ASSUME RootInv, NEW r \in Requests, Post(r) \/ TaskSteps(r)
  PROVE  RoutedOf(r)' /\ NotedOf(r)' /\ UnansweredOf(r)'
<1> USE DEF RootInv, streams, sent, lists, ends
<1>1. RoutedOf(r) /\ NotedOf(r) /\ UnansweredOf(r) /\ task[r] \in Tasks /\ task \in [Requests -> Tasks]
  BY DEF Routed, Noted, Unanswered, TypeOK
<1>2. waiting \in [Members -> SUBSET Keys] /\ inflight \in [Requests -> 0..N]
  BY DEF TypeOK
<1>3. UNCHANGED <<pump, own, down>>
  BY TaskLeaves
<1>4. \/ stream'[r] = stream[r] /\ Answers(r)' = Answers(r)
      \/ /\ r \in ToSet(order) /\ r \notin ToSet(order') /\ Reply(r)
         /\ stream'[r] = Append(stream[r], <<"answer", None>>)
  <2>1. UNCHANGED stream \/ Reply(r)
    BY DEF TaskSteps, OwnSteps, SendReturns, Forwarding, ReadSteps, ListSteps, Post, PostRegisters, ForwardNamed,
          Note,
       Register, SendForwarded, SendFails, Unwait, Unnote, List, AllIn, ListDone, Look,
       EnsureListed,
       ThenTemplates, ListedDone, PassOver, Forget, Know, Ask, AskReturns, AskEnds
  <2>2. CASE UNCHANGED stream
    BY <2>2 DEF Answers
  <2>3. CASE Reply(r)
    <3>1. Answered(r, None) /\ None \in 0..N
      BY <2>3, Names DEF Reply
    <3>2. CASE r \in ToSet(order)
      BY <2>3, <3>1, <3>2, AnsweredDoes
    <3>3. CASE r \notin ToSet(order)
      BY <3>1, <3>3, AnsweredDoes DEF Answers
    <3> QED BY <3>2, <3>3
  <2> QED BY <2>1, <2>2, <2>3
<1>5. \A i \in Answers(r)' : \/ i \in Answers(r) /\ stream'[r][i] = stream[r][i]
                             \/ stream'[r][i] = <<"answer", None>>
  <2>1. CASE stream'[r] = Append(stream[r], <<"answer", None>>)
    <3> DEFINE E == {"answer", "own"} \X (0..N)
    <3>1. stream[r] \in Seq(E) /\ <<"answer", None>> \in E
      BY Names DEF TypeOK
    <3> HIDE DEF E
    <3> QED BY <2>1, <3>1, AnswersGrow
  <2> QED BY <1>4, <2>1
<1>6. RoutedOf(r)'
  <2>1. \A i \in Answers(r)' : \/ stream'[r][i][2] = None
                               \/ task'[r].place \in Asked /\ stream'[r][i][2] = task'[r].dest
    BY <1>1, <1>5, OwnPlace DEF RoutedOf
  <2>2. CASE Register(r) \/ Unwait(r)
    <3>1. ASSUME NEW m \in Members, r \in waiting'[m]
          PROVE  task'[r].place \in Asked /\ task'[r].dest = m
      <4>1. task'[r].place \in {"registered", "unnote"} /\ task'[r].dest = task[r].dest
        BY <1>1, <2>2 DEF Register, Unwait, Go, Tasks
      <4>2. r \in waiting[m] \/ m = task[r].dest
        BY <1>2, <2>2, <3>1 DEF Register, Unwait
      <4>3. r \in waiting[m] => task[r].dest = m
        BY <1>1 DEF RoutedOf
      <4> QED BY <4>1, <4>2, <4>3 DEF Asked
    <3> QED BY <2>1, <3>1 DEF RoutedOf
  <2>3. CASE \A m \in Members : r \in waiting'[m] <=> r \in waiting[m]
    BY <1>1, <2>1, <2>3, OwnPlace DEF RoutedOf
  <2> QED BY <2>2, <2>3, OwnPlace
<1>7. NotedOf(r)'
  <2>1. Up' = Up
    BY <1>3 DEF Up
  <2>2. CASE Note(r)
    <3>1. inflight'[r] = task[r].dest /\ task'[r].dest = task[r].dest
      BY <1>1, <1>2, <2>2 DEF Note, Go
    <3> QED BY <3>1 DEF NotedOf
  <2>3. CASE Register(r) \/ SendForwarded(r) \/ SendFails(r)
    <3>1. /\ task'[r].dest = task[r].dest /\ inflight' = inflight
          /\ task[r].place = "noted" \/ (task[r].place = "registered" /\ waiting' = waiting)
          /\ task'[r].place # "noted"
      BY <1>1, <2>3 DEF Register, SendForwarded, SendFails, Go, At, Tasks
    <3> QED BY <1>1, <2>1, <3>1 DEF NotedOf
  <2>4. CASE ~(task'[r].place \in {"noted", "registered", "unwait", "forwarded"})
    BY <2>4 DEF NotedOf
  <2> QED BY <2>2, <2>3, <2>4, OwnPlace
<1>8. UnansweredOf(r)'
  <2>1. task'[r].place \in {"idle", "checked"} => ~Held(r)' /\ stream'[r] = <<>>
    <3>1. Post(r) => task[r].place = "idle" /\ UNCHANGED <<stream, order>>
      BY DEF Post, Go, At
    <3>2. Post(r) => ~Held(r)' /\ stream'[r] = <<>>
      BY <1>1, <1>3, <3>1 DEF UnansweredOf, Held
    <3> QED BY <3>2, OwnPlace
  <2>2. r \in ToSet(order') => Answers(r)' = {}
    <3>1. CASE PostRegisters(r)
      <4>1. task[r].place = "checked" /\ stream' = stream
        BY <3>1 DEF PostRegisters, Go, At
      <4> QED BY <1>1, <4>1 DEF UnansweredOf, Answers
    <3>2. CASE Reply(r)
      <4>1. r \notin ToSet(order')
        BY <3>2, AnsweredDoes, Names DEF Reply
      <4> QED BY <4>1
    <3>3. UNCHANGED <<order, stream>> \/ PostRegisters(r) \/ Reply(r)
      BY DEF TaskSteps, OwnSteps, SendReturns, Forwarding, ReadSteps, ListSteps, Post, ForwardNamed, Note,
         Register, SendForwarded, SendFails, Unwait, Unnote, List, AllIn, ListDone, Look,
         EnsureListed,
         ThenTemplates, ListedDone, PassOver, Forget, Know, Ask, AskReturns, AskEnds
    <3>4. CASE UNCHANGED <<order, stream>>
      BY <1>1, <3>4 DEF UnansweredOf, Answers
    <3> QED BY <3>1, <3>2, <3>3, <3>4
  <2> QED BY <2>1, <2>2 DEF UnansweredOf
<1> QED BY <1>6, <1>7, <1>8

\* Such a step keeps the parts of its request's list in order.
LEMMA OwnParts ==
  ASSUME RootInv, NEW r \in Requests, Post(r) \/ TaskSteps(r)
  PROVE  (\A m \in Members : PartOk(r, m)') /\ LeftOk(r)'
<1> USE DEF RootInv, streams, sent, lists, At
<1>1. (\A m \in Members : PartOk(r, m)) /\ LeftOk(r) /\ task[r] \in Tasks /\ task \in [Requests -> Tasks]
  BY DEF Parts, TypeOK
<1>2. down' = down /\ down \subseteq Members
  BY TaskLeaves DEF ends, TypeOK
<1>3. CASE \/ Note(r) \/ Register(r) \/ SendForwarded(r) \/ SendFails(r) \/ Unwait(r) \/ Unnote(r)
           \/ Post(r) \/ PostRegisters(r) \/ Reply(r) \/ ForwardNamed(r) \/ Look(r) \/ ListedDone(r)
           \/ (EnsureListed(r) /\ listed) \/ ListDone(r)
  <2>1. task[r].place \notin {"asking", "merging"} \/ (task[r].place = "merging" /\ task[r].turn > N)
    BY <1>3 DEF Note, Register, SendForwarded, SendFails, Unwait, Unnote, Go, Post,
          PostRegisters, Reply,
       ForwardNamed, Look, ListedDone, EnsureListed, ListDone, Merged
  <2>2. ~task[r].forgot /\ \A m \in Members : task[r].asked[m] \notin {"sending", "waiting"}
    <3>1. ~(task[r].turn > N /\ task[r].turn <= N)
      BY <1>1, ItsTurn
    <3> QED BY <1>1, <2>1, <3>1 DEF LeftOk, PartOk
  <2>3. CASE \/ Note(r) \/ Register(r) \/ SendForwarded(r) \/ SendFails(r) \/ Unwait(r) \/ Unnote(r)
             \/ Post(r) \/ PostRegisters(r) \/ Reply(r) \/ ListDone(r)
    <3>1. \E p \in {"noted", "registered", "forwarded", "unwait", "unnote", "reply", "checked",
                      "spawned", "busy", "done"} : task' = [task EXCEPT ![r].place = p]
      BY <2>3 DEF Note, Register, SendForwarded, SendFails, Unwait, Unnote, Go, Post,
            PostRegisters,
         Reply, ListDone
    <3>2. PICK p : p \notin {"asking", "merging"} /\ task' = [task EXCEPT ![r].place = p]
      BY <3>1
    <3>3. task'[r].place = p /\ task'[r].asked = task[r].asked /\ ~task'[r].forgot
      BY <1>1, <2>2, <3>2 DEF Tasks
    <3> QED BY <2>2, <3>2, <3>3 DEF LeftOk, PartOk
  <2>4. CASE ForwardNamed(r) \/ Look(r)
    BY <1>1, <2>2, <2>4 DEF ForwardNamed, Look, Tasks, LeftOk, PartOk
  <2>5. CASE ListedDone(r) \/ (EnsureListed(r) /\ listed)
    BY <1>1, <2>2, <2>5 DEF ListedDone, EnsureListed, Tasks, LeftOk, PartOk
  <2> QED BY <1>3, <2>3, <2>4, <2>5
<1>4. ASSUME NEW f, StartAsking(r, f), task[r].place \in {"spawned", "locking"} \/ task[r].turn > N
      PROVE  (\A m \in Members : PartOk(r, m)') /\ LeftOk(r)'
  <2>1. ~task[r].forgot
    <3>1. ~(task[r].turn > N /\ task[r].turn <= N)
      BY <1>1, ItsTurn
    <3> QED BY <1>1, <1>4, <3>1 DEF LeftOk
  <2>2. /\ task'[r].place = "asking" /\ task'[r].forgot = task[r].forgot
        /\ \A m \in Members : task'[r].asked[m] = IF m \in Up THEN "todo" ELSE "no"
    BY <1>1, <1>4 DEF StartAsking, Tasks
  <2> QED BY <1>2, <2>1, <2>2 DEF PartOk, LeftOk, Up
<1>5. CASE List(r) \/ ThenTemplates(r) \/ (EnsureListed(r) /\ ~listed)
  <2>1. PICK f \in Lists : StartAsking(r, f)
    BY <1>5, Names, <1>1 DEF List, ThenTemplates, EnsureListed, Tasks
  <2>2. task[r].place \in {"spawned", "locking"} \/ task[r].turn > N
    BY <1>5 DEF List, ThenTemplates, EnsureListed, Merged
  <2> QED BY <1>4, <2>1, <2>2
<1>6. CASE AllIn(r)
  <2>1. /\ \A m \in Members : task[r].asked[m] \notin {"todo", "sending", "waiting"}
        /\ task[r].place = "asking"
        /\ task'[r] = [task[r] EXCEPT !.place = "merging"]
    BY <1>1, <1>6 DEF AllIn, Go
  <2> QED BY <1>1, <1>2, <2>1 DEF PartOk, LeftOk, Tasks
<1>7. CASE PassOver(r)
  <2>1. /\ task[r].place = "merging" /\ ~task[r].forgot
        /\ task'[r] = [task[r] EXCEPT !.turn = task[r].turn + 1]
    <3>1. ~OwnersToTell(r)
      BY <1>7 DEF PassOver
    <3>2. ~task[r].forgot
      BY <1>1, <3>1 DEF LeftOk, OwnersToTell
    <3> QED BY <1>1, <1>7, <3>2 DEF PassOver, Merging
  <2> QED BY <1>1, <1>2, <2>1 DEF PartOk, LeftOk, Tasks
<1>8. CASE Forget(r)
  <2> DEFINE left == IF task[r].field = "resources" THEN Serving[task[r].turn] ELSE Offering[task[r].turn]
  <2>1. /\ task[r].place = "merging" /\ task[r].turn <= N /\ PartOf(r) = "ok"
        /\ task[r].field \in {"resources", "templates"}
        /\ task'[r] = [task[r] EXCEPT !.forgot = TRUE, !.left = left]
    BY <1>1, <1>8 DEF Forget, Merging, OwnersToTell
  <2>2. /\ task'[r].place = "merging" /\ task'[r].turn = task[r].turn /\ task'[r].asked = task[r].asked
        /\ task'[r].field = task[r].field /\ task'[r].left = left
    BY <1>1, <2>1 DEF Tasks
  <2> QED BY <1>1, <1>2, <2>1, <2>2 DEF PartOk, LeftOk, PartOf
<1>9. CASE Know(r)
  <2>1. task[r].place = "merging" /\ task[r].forgot
    BY <1>9 DEF Know, Merging
  <2>2. CASE \E i \in task[r].left : task' = [task EXCEPT ![r].left = @ \ {i}]
    <3>1. PICK i \in task[r].left : task' = [task EXCEPT ![r].left = @ \ {i}]
      BY <2>2
    <3>2. /\ task'[r].place = "merging" /\ task'[r].turn = task[r].turn /\ task'[r].asked = task[r].asked
          /\ task'[r].field = task[r].field /\ task'[r].left = task[r].left \ {i}
      BY <1>1, <2>1, <3>1 DEF Tasks
    <3> QED BY <1>1, <1>2, <2>1, <3>2 DEF PartOk, LeftOk, PartOf
  <2>3. CASE task' = [task EXCEPT ![r].forgot = FALSE, ![r].turn = @ + 1]
    <3>1. task'[r].place = "merging" /\ task'[r].asked = task[r].asked /\ ~task'[r].forgot
      BY <1>1, <2>1, <2>3 DEF Tasks
    <3> QED BY <1>1, <1>2, <2>1, <3>1 DEF PartOk, LeftOk
  <2> QED BY <1>9, <2>2, <2>3 DEF Know
<1>10. ASSUME NEW n \in Members, Ask(r, n) \/ AskReturns(r, n) \/ AskEnds(r, n)
       PROVE  (\A m \in Members : PartOk(r, m)') /\ LeftOk(r)'
  <2>1. task[r].place = "asking" /\ ~task[r].forgot
    BY <1>1, <1>10 DEF Ask, AskReturns, AskEnds, PartOk, LeftOk
  <2>2. PICK a \in {"failed", "sending", "waiting"} : task' = [task EXCEPT ![r].asked[n] = a]
    BY <1>10 DEF Ask, AskReturns, AskEnds
  <2>3. /\ task'[r].place = "asking" /\ ~task'[r].forgot
        /\ \A m \in Members : task'[r].asked[m] = IF m = n THEN a ELSE task[r].asked[m]
    BY <1>1, <2>1, <2>2 DEF Tasks
  <2> QED BY <1>1, <1>2, <2>1, <2>3 DEF PartOk, LeftOk
<1> QED BY <1>3, <1>5, <1>6, <1>7, <1>8, <1>9, <1>10 DEF TaskSteps, OwnSteps, SendReturns, Forwarding, ReadSteps,
      ListSteps

\* A request's own step keeps the invariant.
LEMMA TaskStep ==
  ASSUME RootInv, NEW r \in Requests, Post(r) \/ TaskSteps(r), scene' = scene
  PROVE  RootInv'
<1> USE DEF RootInv
<1>1. UNCHANGED <<ends, returned, own>>
  BY TaskLeaves
<1>2. ASSUME NEW q \in Requests, q # r
      PROVE  /\ task'[q] = task[q] /\ inflight'[q] = inflight[q] /\ stream'[q] = stream[q]
             /\ q \in ToSet(order') <=> q \in ToSet(order)
             /\ \A m \in Members : q \in waiting'[m] <=> q \in waiting[m]
  BY <1>2, TaskLeaves
<1>3. TypeOK'
  BY TaskStepTypes
<1>4. PumpsDown' /\ ToldOnce' /\ ClosersCome'
  BY <1>1 DEF PumpsDown, ToldOnce, ClosersCome, ends
<1>5. Up' = Up /\ down' = down /\ pump' = pump
  BY <1>1 DEF ends, Up
<1>6. ASSUME NEW q \in Requests PROVE RoutedOf(q)' /\ NotedOf(q)' /\ UnansweredOf(q)'
  <2>1. CASE q # r
    <3>1. RoutedOf(q) /\ NotedOf(q) /\ UnansweredOf(q)
      BY DEF Routed, Noted, Unanswered
    <3>2. Answers(q)' = Answers(q) /\ (Held(q)' <=> Held(q))
      BY <1>1, <1>2, <1>5, <2>1 DEF Answers, Held
    <3>3. RoutedOf(q)'
      BY <1>2, <2>1, <3>1, <3>2 DEF RoutedOf
    <3>4. NotedOf(q)'
      <4>1. task[q].dest \in Up => task[q].dest \in Members
        BY DEF Up
      <4> QED BY <1>2, <1>5, <2>1, <3>1, <4>1 DEF NotedOf
    <3>5. UnansweredOf(q)'
      BY <1>2, <2>1, <3>1, <3>2 DEF UnansweredOf
    <3> QED BY <3>3, <3>4, <3>5
  <2> QED BY <2>1, OwnStep
<1>7. Parts'
  <2>1. ASSUME NEW q \in Requests PROVE (\A m \in Members : PartOk(q, m)') /\ LeftOk(q)'
    <3>1. CASE q # r
      BY <1>2, <1>5, <3>1 DEF Parts, PartOk, LeftOk, At, PartOf
    <3> QED BY <3>1, OwnParts
  <2> QED BY <2>1 DEF Parts
<1>8. Routed'
  BY <1>1, <1>6 DEF Routed
<1>9. Noted' /\ Unanswered'
  BY <1>6 DEF Noted, Unanswered
<1> QED BY <1>3, <1>4, <1>7, <1>8, <1>9

-----------------------------------------------------------------------------
(* The steps of the servers, of the pumps and of those that close.         *)

\* The pumps, the servers' ends and what was told of them.
LEMMA EndsStep ==
  ASSUME RootInv, OtherSteps
  PROVE  PumpsDown' /\ ToldOnce' /\ ClosersCome' /\ down \subseteq down'
<1> USE DEF OtherSteps, RootInv, ends, lists, sent, streams
<1>1. told = [m \in Members |-> IF m \in down THEN 1 ELSE 0] /\ down \subseteq Members
  BY DEF ToldOnce, TypeOK
<1>2. ASSUME NEW m \in Members, Downed(m) PROVE ToldOnce' /\ down' = down \union {m}
  <2>1. down' = down \union {m}
    BY <1>2 DEF Downed
  <2>2. told' = [told EXCEPT ![m] = 1]
    BY <1>1, <1>2 DEF Downed
  <2> QED BY <1>1, <2>1, <2>2 DEF ToldOnce
<1>3. ASSUME UNCHANGED <<down, told, ended, closer>>
      PROVE  ToldOnce' /\ ClosersCome' /\ down \subseteq down'
  BY <1>3 DEF ToldOnce, ClosersCome
<1>4. ASSUME UNCHANGED <<pump, down>> PROVE PumpsDown'
  BY <1>4 DEF PumpsDown
<1>5. CASE Listen \/ \E m \in Members : ServerSteps(m) \/ AgentAnswers(m)
  <2>1. UNCHANGED <<down, told, ended, closer>>
    <3>1. CASE Listen \/ \E m \in Members : AgentAnswers(m)
      BY <3>1 DEF Listen, AgentAnswers
    <3>2. ASSUME NEW m \in Members, ServerAsks(m) \/ ServerEnds(m) PROVE UNCHANGED <<down, told, ended, closer>>
      BY <3>2 DEF ServerAsks, ServerEnds
    <3>3. ASSUME NEW m \in Members, NEW r \in Requests, ServerAnswers(m, r) \/ ServerLists(m, r)
          PROVE  UNCHANGED <<down, told, ended, closer>>
      BY <3>3 DEF ServerAnswers, ServerLists
    <3> QED BY <1>5, <3>1, <3>2, <3>3 DEF ServerSteps
  <2>2. CASE UNCHANGED pump
    BY <1>3, <1>4, <2>1, <2>2
  <2>3. ASSUME NEW m \in Members, pump' = [pump EXCEPT ![m] = "placing"] PROVE PumpsDown'
    BY <2>1, <2>3 DEF PumpsDown, TypeOK
  <2>4. UNCHANGED pump \/ \E m \in Members : pump' = [pump EXCEPT ![m] = "placing"]
    <3>1. CASE Listen \/ \E m \in Members : AgentAnswers(m)
      BY <3>1 DEF Listen, AgentAnswers
    <3>2. ASSUME NEW m \in Members, ServerAsks(m) \/ ServerEnds(m)
          PROVE  UNCHANGED pump \/ pump' = [pump EXCEPT ![m] = "placing"]
      BY <3>2 DEF ServerAsks, ServerEnds
    <3>3. ASSUME NEW m \in Members, NEW r \in Requests, ServerAnswers(m, r) \/ ServerLists(m, r)
          PROVE  UNCHANGED pump
      BY <3>3 DEF ServerAnswers, ServerLists
    <3> QED BY <1>5, <3>1, <3>2, <3>3 DEF ServerSteps
  <2> QED BY <1>3, <2>1, <2>2, <2>3, <2>4
<1>6. ASSUME NEW m \in Members, PumpSteps(m)
      PROVE  PumpsDown' /\ ToldOnce' /\ ClosersCome' /\ down \subseteq down'
  <2>1. CASE MemberDown(m)
    <3>1. ToldOnce' /\ down' = down \union {m}
      BY <1>2, <2>1 DEF MemberDown
    <3>2. ClosersCome'
      BY <1>1, <2>1, <3>1 DEF MemberDown, ClosersCome
    <3>3. PumpsDown'
      BY <2>1, <3>1 DEF MemberDown, PumpsDown, TypeOK
    <3> QED BY <3>1, <3>2, <3>3
  <2>2. CASE \/ Place(m) \/ PumpStops(m) \/ Retain(m) \/ Drain(m) \/ MemberGone(m)
             \/ \E r \in Requests : AnswerOrphan(m, r)
    <3>1. UNCHANGED <<down, told, ended, closer>>
      BY <2>2 DEF Place, PumpStops, Retain, Drain, MemberGone, AnswerOrphan
    <3>2. \/ pump' = pump
          \/ \E p \in {"reading", "done"} : pump' = [pump EXCEPT ![m] = p]
          \/ /\ pump[m] \in {"swapped", "retained", "answering", "last"}
             /\ \E p \in {"retained", "answering", "last"} : pump' = [pump EXCEPT ![m] = p]
      BY <2>2 DEF Place, PumpStops, Retain, Drain, MemberGone, AnswerOrphan
    <3>3. PumpsDown'
      BY <3>1, <3>2 DEF PumpsDown, TypeOK
    <3> QED BY <1>3, <3>1, <3>3
  <2> QED BY <1>6, <2>1, <2>2 DEF PumpSteps
<1>7. ASSUME NEW c \in Closers, CloseChecks(c) \/ CloseSteps(c)
      PROVE  PumpsDown' /\ ToldOnce' /\ ClosersCome' /\ down \subseteq down'
  <2>0. closer \in [Closers -> [at : {"no", "passed", "closing", "done"}, next : 1..(N + 1)]]
    BY DEF TypeOK
  <2>1. CASE CloseChecks(c)
    <3>1. PICK p \in {"done", "passed"} : closer[c].at = "no" /\ closer' = [closer EXCEPT ![c].at = p]
      BY <2>1 DEF CloseChecks
    <3>2. UNCHANGED <<down, told, ended, pump>>
      BY <2>1 DEF CloseChecks
    <3>3. \A d \in Closers : /\ closer'[d].next = closer[d].next
                             /\ closer[d].at = "closing" => closer'[d].at = "closing"
      BY <2>0, <3>1
    <3>4. ClosersCome'
      BY <3>2, <3>3 DEF ClosersCome
    <3> QED BY <1>4, <3>2, <3>4 DEF ToldOnce
  <2>2. CASE CloseCancels(c)
    <3>1. closer' = [closer EXCEPT ![c].at = "closing"] /\ UNCHANGED <<down, told, pump>>
      BY <2>2 DEF CloseCancels
    <3>2. closer'[c].at = "closing" /\ \A d \in Closers : closer'[d].next = closer[d].next
      BY <2>0, <3>1
    <3>3. ClosersCome'
      BY <3>1, <3>2 DEF ClosersCome
    <3> QED BY <1>4, <3>1, <3>3 DEF ToldOnce
  <2>3. CASE CloseMember(c)
    <3> DEFINE m == closer[c].next
    <3>1. /\ m \in Members /\ Downed(m) /\ closer' = [closer EXCEPT ![c].next = m + 1]
          /\ UNCHANGED <<pump, ended>>
      BY <2>0, <2>3, Names DEF CloseMember
    <3>2. ToldOnce' /\ down' = down \union {m}
      BY <1>2, <3>1
    <3>3. \A d \in Closers : closer'[d].at = closer[d].at /\ (d # c => closer'[d].next = closer[d].next)
      BY <2>0, <3>1
    <3>4. closer'[c].next = m + 1
      BY <2>0, <3>1
    <3>5. \A n \in Members : n < m + 1 => n < m \/ n = m
      BY <3>1, Names
    <3>6. ClosersCome'
      BY <1>1, <3>1, <3>2, <3>3, <3>4, <3>5 DEF ClosersCome
    <3>7. PumpsDown'
      BY <3>1, <3>2 DEF PumpsDown
    <3> QED BY <3>2, <3>6, <3>7
  <2>4. CASE CloseClears(c)
    <3>1. /\ closer[c].next > N /\ closer' = [closer EXCEPT ![c].at = "done"]
          /\ UNCHANGED <<down, told, ended, pump>>
      BY <2>4 DEF CloseClears
    <3>2. down = Members
      <4>1. \A n \in Members : n < closer[c].next
        BY <2>0, <3>1, Names
      <4> QED BY <1>1, <4>1 DEF ClosersCome
    <3>3. \A d \in Closers : closer'[d].next = closer[d].next
      BY <2>0, <3>1
    <3>4. ClosersCome'
      BY <3>1, <3>2, <3>3 DEF ClosersCome
    <3> QED BY <1>4, <3>1, <3>4 DEF ToldOnce
  <2> QED BY <1>7, <2>1, <2>2, <2>3, <2>4 DEF CloseSteps
<1> QED BY <1>5, <1>6, <1>7

\* A task that stays where it is, and a part of its list that is as it was or
\* came in.
SamePlace(r) ==
  /\ task'[r].place = task[r].place /\ task'[r].dest = task[r].dest
  /\ task'[r].kind = task[r].kind /\ task'[r].field = task[r].field
  /\ task'[r].turn = task[r].turn /\ task'[r].forgot = task[r].forgot
  /\ task'[r].left = task[r].left
SamePart(r, m) ==
  \/ task'[r].asked[m] = task[r].asked[m]
  \/ task[r].asked[m] = "waiting" /\ task'[r].asked[m] \in {"ok", "failed", "todo"}

\* What such a step does to a request's task: an answer or the end of its
\* server changes the part of a list that is awaited, and nothing else.
LEMMA OtherTasks ==
  ASSUME RootInv, OtherSteps
  PROVE  \A r \in Requests : SamePlace(r) /\ \A m \in Members : SamePart(r, m)
<1> USE DEF OtherSteps, streams, sent, lists, ends
<1>1. task \in [Requests -> Tasks]
  BY DEF RootInv, TypeOK
<1>2. CASE UNCHANGED task
  BY <1>2 DEF SamePlace, SamePart
<1>3. ASSUME NEW n \in Members, NEW q \in Requests, ServerLists(n, q)
      PROVE  \A r \in Requests : SamePlace(r) /\ \A m \in Members : SamePart(r, m)
  <2>1. task[q].asked[n] = "waiting"
    BY <1>3 DEF ServerLists
  <2>2. CASE \E to \in {"ok", "failed"} : task' = [task EXCEPT ![q].asked[n] = to]
    <3>1. PICK to \in {"ok", "failed"} : task' = [task EXCEPT ![q].asked[n] = to]
      BY <2>2
    <3> QED BY <1>1, <2>1, <3>1 DEF SamePlace, SamePart, Tasks
  <2>3. CASE task' = [task EXCEPT ![q].asked[n] = "todo", ![q].page[n] = @ + 1]
    <3> DEFINE p == task[q].page[n] + 1
    <3>1. task' = [task EXCEPT ![q].asked[n] = "todo", ![q].page[n] = p]
      BY <2>3
    <3> HIDE DEF p
    <3> QED BY <1>1, <2>1, <3>1 DEF SamePlace, SamePart, Tasks
  <2> QED BY <1>3, <2>2, <2>3 DEF ServerLists
<1>4. ASSUME NEW n \in Members, Drain(n)
      PROVE  \A r \in Requests : SamePlace(r) /\ \A m \in Members : SamePart(r, m)
  <2>1. ASSUME NEW r \in Requests PROVE SamePlace(r) /\ \A m \in Members : SamePart(r, m)
    <3>1. task'[r] = [task[r] EXCEPT !.asked[n] = IF @ = "waiting" THEN "failed" ELSE @]
      BY <1>4 DEF Drain
    <3>2. task[r] \in Tasks
      BY <1>1
    <3> QED BY <3>1, <3>2 DEF SamePlace, SamePart, Tasks
  <2> QED BY <2>1
<1>5. \/ UNCHANGED task \/ \E n \in Members : Drain(n)
      \/ \E n \in Members : \E q \in Requests : ServerLists(n, q)
  BY DEF Listen, PumpSteps, ServerSteps, AgentAnswers, ServerAsks, ServerEnds,
        ServerAnswers, Place,
     PumpStops, MemberDown, Retain, MemberGone, AnswerOrphan, CloseChecks, CloseSteps,
     CloseCancels,
     CloseMember, CloseClears
<1> QED BY <1>2, <1>3, <1>4, <1>5

\* Where requests wait: nowhere that they did not, and one that is taken from
\* those in flight waits for its server no more, or that is down.
LEMMA OtherWaits ==
  ASSUME RootInv, OtherSteps
  PROVE  \A r \in Requests :
           /\ \A m \in Members : r \in waiting'[m] => r \in waiting[m]
           /\ \/ inflight'[r] = inflight[r]
              \/ inflight[r] \in down
              \/ task[r].place # "noted" /\ r \notin waiting'[task[r].dest]
<1> USE DEF OtherSteps, streams, sent, lists, ends, RootInv
<1>1. /\ waiting \in [Members -> SUBSET Keys] /\ inflight \in [Requests -> 0..N]
  BY DEF TypeOK
<1> DEFINE Goal == \A r \in Requests :
           /\ \A m \in Members : r \in waiting'[m] => r \in waiting[m]
           /\ \/ inflight'[r] = inflight[r]
              \/ inflight[r] \in down
              \/ task[r].place # "noted" /\ r \notin waiting'[task[r].dest]
<1>2. CASE UNCHANGED <<waiting, inflight>>
  BY <1>2
<1>3. ASSUME NEW n \in Members, NEW q \in Requests, ServerLists(n, q) PROVE Goal
  <2>1. waiting' = [waiting EXCEPT ![n] = @ \ {Question(q, n)}] /\ inflight' = inflight
    BY <1>3 DEF ServerLists
  <2> DEFINE k == Question(q, n)
  <2> HIDE DEF k
  <2> QED BY <1>1, <2>1 DEF k
<1>4. ASSUME NEW n \in Members, Drain(n) PROVE Goal
  BY <1>1, <1>4 DEF Drain
<1>5. ASSUME NEW n \in Members, Retain(n) PROVE Goal
  <2>1. n \in down /\ waiting' = waiting
    BY <1>5 DEF Retain, PumpsDown
  <2>2. \A r \in Requests : inflight'[r] = inflight[r] \/ inflight[r] = n
    BY <1>5 DEF Retain, Retained
  <2> QED BY <2>1, <2>2
<1>6. ASSUME NEW n \in Members, NEW q \in Requests, ServerAnswers(n, q) PROVE Goal
  <2>1. CASE Awaits(n, q)
    <3>1. waiting' = [waiting EXCEPT ![n] = @ \ {q}] /\ inflight' = [inflight EXCEPT ![q] = None]
      BY <1>6, <2>1 DEF ServerAnswers
    <3>2. task[q].place # "noted" /\ task[q].dest = n
      BY <2>1 DEF Awaits, Routed, RoutedOf, Asked
    <3>3. q \notin waiting'[n]
      BY <1>1, <3>1
    <3>4. \A r \in Requests \ {q} : inflight'[r] = inflight[r]
      BY <1>1, <3>1
    <3>5. \A m \in Members : waiting'[m] \subseteq waiting[m]
      BY <1>1, <3>1
    <3> QED BY <3>2, <3>3, <3>4, <3>5
  <2>2. CASE ~Awaits(n, q)
    BY <1>2, <1>6, <2>2 DEF ServerAnswers
  <2> QED BY <2>1, <2>2
<1>7. \/ UNCHANGED <<waiting, inflight>> \/ \E n \in Members : Drain(n) \/ Retain(n)
      \/ \E n \in Members : \E q \in Requests : ServerLists(n, q) \/ ServerAnswers(n, q)
  BY DEF Listen, PumpSteps, ServerSteps, AgentAnswers, ServerAsks, ServerEnds, Place,
     PumpStops, MemberDown, MemberGone, AnswerOrphan, CloseChecks, CloseSteps, CloseCancels,
     CloseMember, CloseClears
<1> QED BY <1>2, <1>3, <1>4, <1>5, <1>6, <1>7

\* No stream is written to; one is answered that waited; one bears a message it
\* was chosen for.
Untouched == UNCHANGED stream
AnsweredBy(q, k) ==
  /\ Answered(q, k) /\ q \in ToSet(order) /\ UNCHANGED <<own, pump>>
  /\ k = None \/ (k \in Members /\ q \in waiting[k])
BearsOf(q, k) ==
  /\ own[k] = q /\ pump[k] = "placing" /\ order' = order
  /\ \A m \in Members \ {k} : pump'[m] = pump[m] /\ own'[m] = own[m]
  /\ stream' = [stream EXCEPT ![q] = Append(@, <<"own", k>>)]

\* What such a step does to the streams: one of these, and no stream is held
\* that was not.
LEMMA OtherStreams ==
  ASSUME RootInv, OtherSteps
  PROVE  /\ \A r \in Requests : /\ Held(r)' => Held(r)
                                /\ r \in ToSet(order') => r \in ToSet(order)
         /\ \/ Untouched
            \/ \E q \in Requests : \E k \in 0..N : AnsweredBy(q, k)
            \/ \E q \in Requests : \E k \in Members : BearsOf(q, k)
<1> USE DEF OtherSteps, streams, sent, lists, ends, RootInv
<1>1. /\ own \in [Members -> {"unsaid", "kept", "given", "listener"} \union Requests]
      /\ pump \in [Members -> {"reading", "placing", "swapped", "retained", "answering", "last", "done"}]
      /\ order \in Seq(Requests)
  BY DEF TypeOK
<1> DEFINE Fewer == \A r \in Requests : /\ Held(r)' => Held(r)
                                        /\ r \in ToSet(order') => r \in ToSet(order)
           Writes == \/ Untouched
                     \/ \E q \in Requests : \E k \in 0..N : AnsweredBy(q, k)
                     \/ \E q \in Requests : \E k \in Members : BearsOf(q, k)
<1>2. ASSUME \A r \in Requests : r \in ToSet(order') => r \in ToSet(order),
             \A m \in Members : pump'[m] = "placing" /\ own'[m] \in Requests =>
               own'[m] \in ToSet(order) \/ (pump[m] = "placing" /\ own[m] = own'[m])
      PROVE  Fewer
  BY <1>2 DEF Held
<1>3. CASE UNCHANGED <<stream, order, own, pump>>
  BY <1>3 DEF Untouched, Held
<1>4. CASE Listen
  <2>1. \A m \in Members : own'[m] \in Requests => own[m] = own'[m]
    BY <1>1, <1>4, NamesAssumption DEF Listen
  <2>2. UNCHANGED <<stream, order, pump>>
    BY <1>4 DEF Listen
  <2> QED BY <1>2, <2>1, <2>2 DEF Untouched
<1>5. ASSUME NEW m \in Members, ServerAsks(m) PROVE Fewer /\ Writes
  <2>1. UNCHANGED <<stream, order>>
    BY <1>5 DEF ServerAsks
  <2>2. Chosen \in Requests => Chosen \in ToSet(order)
    <3>1. "listener" \notin Requests /\ "kept" \notin Requests
      BY NamesAssumption
    <3>2. order # <<>> => Last(order) \in ToSet(order)
      <4>1. order # <<>> => Len(order) \in 1..Len(order)
        BY <1>1, EmptySeq, SeqDomain, LenProperties
      <4>2. order # <<>> => order[Len(order)] \in ToSet(order)
        BY <1>1, <4>1, SeqDomain DEF ToSet
      <4> QED BY <4>2 DEF Last
    <3> QED BY <3>1, <3>2 DEF Chosen
  <2>3. own' = [own EXCEPT ![m] = Chosen] /\ \A n \in Members \ {m} : pump'[n] = pump[n]
    BY <1>1, <1>5 DEF ServerAsks
  <2>4. own'[m] = Chosen /\ \A n \in Members \ {m} : own'[n] = own[n]
    BY <1>1, <2>3
  <2> QED BY <1>2, <2>1, <2>2, <2>3, <2>4 DEF Untouched
<1>6. ASSUME NEW m \in Members, Place(m) PROVE Fewer /\ Writes
  <2>1. order' = order /\ \A n \in Members : pump'[n] = "placing" => n # m
    BY <1>1, <1>6 DEF Place
  <2>2. \A n \in Members \ {m} : pump'[n] = pump[n] /\ own'[n] = own[n]
    BY <1>1, <1>6 DEF Place
  <2>3. Fewer
    BY <1>2, <2>1, <2>2
  <2>4. CASE own[m] \in Requests
    BY <1>6, <2>2, <2>3, <2>4 DEF Place, BearsOf
  <2>5. CASE own[m] \notin Requests
    BY <1>6, <2>3, <2>5 DEF Place, Untouched
  <2> QED BY <2>4, <2>5
<1>7. ASSUME UNCHANGED <<stream, order>>, UNCHANGED own,
             \A m \in Members : pump'[m] = "placing" => pump[m] = "placing"
      PROVE  Fewer /\ Writes
  BY <1>2, <1>7 DEF Untouched
<1>8. ASSUME NEW m \in Members,
             PumpStops(m) \/ MemberDown(m) \/ Retain(m) \/ Drain(m) \/ MemberGone(m)
      PROVE  Fewer /\ Writes
  <2>1. UNCHANGED <<stream, order, own>>
    BY <1>8 DEF PumpStops, MemberDown, Retain, Drain, MemberGone
  <2>2. PICK p \in {"done", "swapped", "retained", "answering", "last"} : pump' = [pump EXCEPT ![m] = p]
    BY <1>8 DEF PumpStops, MemberDown, Retain, Drain, MemberGone
  <2>3. \A n \in Members : pump'[n] = "placing" => pump[n] = "placing"
    BY <1>1, <2>2
  <2> QED BY <1>7, <2>1, <2>3
<1>9. ASSUME NEW q \in Requests, NEW k \in 0..N, Answered(q, k), UNCHANGED <<own, pump>>,
             k = None \/ (k \in Members /\ q \in waiting[k])
      PROVE  Fewer /\ Writes
  <2>1. ToSet(order') = ToSet(order) \ {q}
    BY <1>9, AnsweredDoes
  <2>2. Fewer
    BY <1>2, <1>9, <2>1
  <2>3. CASE q \in ToSet(order)
    BY <1>9, <2>2, <2>3 DEF AnsweredBy
  <2>4. CASE q \notin ToSet(order)
    BY <1>9, <2>2, <2>4, AnsweredDoes DEF Untouched
  <2> QED BY <2>3, <2>4
<1>10. ASSUME NEW m \in Members, NEW q \in Requests, ServerAnswers(m, q) PROVE Fewer /\ Writes
  <2>1. CASE Awaits(m, q)
    <3>1. Answered(q, m) /\ UNCHANGED <<own, pump>> /\ q \in waiting[m] /\ m \in 0..N
      BY <1>10, <2>1, Names DEF ServerAnswers, Awaits
    <3> QED BY <1>9, <3>1
  <2>2. CASE ~Awaits(m, q)
    BY <1>10, <1>3, <2>2 DEF ServerAnswers
  <2> QED BY <2>1, <2>2
<1>11. ASSUME NEW m \in Members, NEW q \in Requests, AnswerOrphan(m, q) PROVE Fewer /\ Writes
  BY <1>9, <1>11, Names DEF AnswerOrphan
<1>12. ASSUME NEW c \in Closers, CloseClears(c) PROVE Fewer /\ Writes
  <2>1. order' = <<>> /\ UNCHANGED <<stream, own, pump>>
    BY <1>12 DEF CloseClears
  <2>2. ToSet(order') = {}
    BY <2>1 DEF ToSet
  <2> QED BY <1>2, <2>1, <2>2 DEF Untouched
<1>13. ASSUME NEW m \in Members, PumpSteps(m) PROVE Fewer /\ Writes
  BY <1>6, <1>8, <1>11, <1>13 DEF PumpSteps
<1>14. ASSUME NEW m \in Members, ServerSteps(m) \/ AgentAnswers(m) PROVE Fewer /\ Writes
  <2>1. UNCHANGED <<stream, order, own, pump>>
        \/ ServerAsks(m) \/ \E q \in Requests : ServerAnswers(m, q)
    BY <1>14 DEF ServerSteps, AgentAnswers, ServerEnds, ServerLists
  <2> QED BY <1>3, <1>5, <1>10, <2>1
<1>15. ASSUME NEW c \in Closers, CloseChecks(c) \/ CloseSteps(c) PROVE Fewer /\ Writes
  <2>1. UNCHANGED <<stream, order, own, pump>> \/ CloseClears(c)
    BY <1>15 DEF CloseChecks, CloseSteps, CloseCancels, CloseMember
  <2> QED BY <1>3, <1>12, <2>1
<1> QED BY <1>4, <1>13, <1>14, <1>15

\* No stream of a request that was not sent on is written to, and the answer of
\* one that waited is of the server it was sent to.
LEMMA OtherWrites ==
  ASSUME RootInv, OtherSteps, NEW r \in Requests
  PROVE  /\ stream'[r] = stream[r] \/ Held(r)
         /\ \A i \in Answers(r)' :
              \/ i \in Answers(r) /\ stream'[r][i] = stream[r][i]
              \/ stream'[r][i][2] = None
              \/ stream'[r][i][2] \in Members /\ r \in waiting[stream'[r][i][2]]
         /\ r \in ToSet(order') => Answers(r)' = Answers(r)
<1> USE DEF RootInv
<1> DEFINE E == {"answer", "own"} \X (0..N)
<1>1. stream \in [Requests -> Seq(E)] /\ Members \subseteq 0..N
  BY Names DEF TypeOK
<1>2. CASE stream'[r] = stream[r]
  BY <1>2 DEF Answers
<1>3. ASSUME NEW k \in 0..N, AnsweredBy(r, k)
      PROVE  /\ Held(r) /\ r \notin ToSet(order')
             /\ \A i \in Answers(r)' : \/ i \in Answers(r) /\ stream'[r][i] = stream[r][i]
                                       \/ stream'[r][i] = <<"answer", k>>
  <2>1. r \in ToSet(order) /\ r \notin ToSet(order') /\ stream'[r] = Append(stream[r], <<"answer", k>>)
    BY <1>3, AnsweredDoes DEF AnsweredBy
  <2>2. stream[r] \in Seq(E) /\ <<"answer", k>> \in E
    BY <1>1
  <2> HIDE DEF E
  <2> QED BY <2>1, <2>2, AnswersGrow DEF Held
<1>4. ASSUME NEW k \in Members, BearsOf(r, k)
      PROVE  /\ Held(r) /\ Answers(r)' = Answers(r)
             /\ \A i \in Answers(r)' : i \in Answers(r) /\ stream'[r][i] = stream[r][i]
  <2>1. stream'[r] = Append(stream[r], <<"own", k>>)
    BY <1>1, <1>4 DEF BearsOf
  <2>2. stream[r] \in Seq(E) /\ <<"own", k>> \in E /\ "own" # "answer"
    BY <1>1
  <2> HIDE DEF E
  <2>3. /\ \A i \in Answers(r)' : \/ i \in Answers(r) /\ stream'[r][i] = stream[r][i]
                                  \/ <<"own", k>>[1] = "answer" /\ stream'[r][i] = <<"own", k>>
        /\ <<"own", k>>[1] # "answer" => Answers(r)' = Answers(r)
    BY <2>1, <2>2, AnswersGrow
  <2> QED BY <1>4, <2>2, <2>3 DEF Held, BearsOf
<1>5. ASSUME NEW q \in Requests \ {r}, NEW k \in 0..N, AnsweredBy(q, k) PROVE stream'[r] = stream[r]
  BY <1>5, AnsweredDoes DEF AnsweredBy
<1>6. ASSUME NEW q \in Requests \ {r}, NEW k \in Members, BearsOf(q, k) PROVE stream'[r] = stream[r]
  BY <1>1, <1>6 DEF BearsOf
<1>7. CASE \E k \in 0..N : AnsweredBy(r, k)
  <2>1. PICK k \in 0..N : AnsweredBy(r, k)
    BY <1>7
  <2>2. k = None \/ (k \in Members /\ r \in waiting[k])
    BY <2>1 DEF AnsweredBy
  <2> QED BY <1>3, <2>1, <2>2
<1>8. CASE \E k \in Members : BearsOf(r, k)
  BY <1>4, <1>8
<1>9. stream'[r] = stream[r] \/ (\E k \in 0..N : AnsweredBy(r, k)) \/ (\E k \in Members : BearsOf(r, k))
  BY <1>5, <1>6, OtherStreams DEF Untouched
<1> QED BY <1>2, <1>7, <1>8, <1>9

\* Such a step keeps the invariant.
LEMMA OtherStep ==
  ASSUME RootInv, OtherSteps, scene' = scene
  PROVE  RootInv'
<1> USE DEF RootInv
<1>1. TypeOK'
  BY OtherStepTypes
<1>2. PumpsDown' /\ ToldOnce' /\ ClosersCome' /\ down \subseteq down'
  BY EndsStep
<1>3. \A r \in Requests : SamePlace(r) /\ \A m \in Members : SamePart(r, m)
  BY OtherTasks
<1>4. Routed'
  <2>1. \A b \in returned' : b[1] = b[2]
    <3>1. ASSUME NEW m \in Members, AgentAnswers(m) PROVE returned' = returned \union {<<m, m>>}
      BY <3>1 DEF AgentAnswers, ServerOf, WireId
    <3>2. ASSUME NEW m \in Members, PumpSteps(m) PROVE UNCHANGED returned
      BY <3>2 DEF PumpSteps, Place, PumpStops, MemberDown, Retain, Drain, MemberGone,
            AnswerOrphan
    <3>3. ASSUME NEW m \in Members, ServerSteps(m) PROVE UNCHANGED returned
      BY <3>3 DEF ServerSteps, ServerAsks, ServerEnds, ServerAnswers, ServerLists
    <3>4. ASSUME NEW c \in Closers, CloseChecks(c) \/ CloseSteps(c) PROVE UNCHANGED returned
      BY <3>4 DEF CloseChecks, CloseSteps, CloseCancels, CloseMember, CloseClears
    <3>5. Listen => UNCHANGED returned
      BY DEF Listen
    <3>6. UNCHANGED returned \/ \E m \in Members : AgentAnswers(m)
      BY <3>2, <3>3, <3>4, <3>5 DEF OtherSteps
    <3> QED BY <3>1, <3>6 DEF Routed
  <2>2. ASSUME NEW r \in Requests PROVE RoutedOf(r)'
    <3>1. RoutedOf(r) /\ task'[r].place = task[r].place /\ task'[r].dest = task[r].dest
      BY <1>3 DEF Routed, SamePlace
    <3>2. \A m \in Members : r \in waiting'[m] => task'[r].place \in Asked /\ task'[r].dest = m
      BY <3>1, OtherWaits DEF RoutedOf
    <3>3. \A i \in Answers(r)' : \/ stream'[r][i][2] = None
                                 \/ task'[r].place \in Asked /\ stream'[r][i][2] = task'[r].dest
      BY <3>1, OtherWrites DEF RoutedOf
    <3> QED BY <3>2, <3>3 DEF RoutedOf
  <2> QED BY <2>1, <2>2 DEF Routed
<1>5. Noted'
  <2>1. ASSUME NEW r \in Requests PROVE NotedOf(r)'
    <3> DEFINE m == task[r].dest
    <3>1. NotedOf(r) /\ task'[r].place = task[r].place /\ task'[r].dest = m
      BY <1>3 DEF Noted, SamePlace
    <3>2. m \in Up' => m \in Members /\ m \in Up
      BY <1>2 DEF Up
    <3> HIDE DEF m
    <3>3. m \in Up' => (r \in waiting'[m] => r \in waiting[m])
      BY <3>2, OtherWaits
    <3>4. \/ inflight'[r] = inflight[r] \/ inflight[r] \in down
          \/ task[r].place # "noted" /\ r \notin waiting'[m]
      BY OtherWaits DEF m
    <3> QED BY <3>1, <3>2, <3>3, <3>4 DEF NotedOf, Up, m
  <2> QED BY <2>1 DEF Noted
<1>6. Parts'
  <2>1. ASSUME NEW r \in Requests, NEW m \in Members PROVE PartOk(r, m)'
    BY <1>2, <1>3 DEF Parts, PartOk, SamePlace, SamePart, At
  <2>2. ASSUME NEW r \in Requests PROVE LeftOk(r)'
    <3>1. CASE ~task'[r].forgot
      BY <3>1 DEF LeftOk
    <3>2. CASE task'[r].forgot
      <4>1. task[r].turn \in Members
        BY <1>3, <3>2, ItsTurn DEF Parts, LeftOk, SamePlace, TypeOK
      <4>2. task'[r].asked[task[r].turn] = task[r].asked[task[r].turn]
        BY <1>3, <3>2, <4>1 DEF Parts, LeftOk, SamePlace, SamePart, PartOf
      <4> QED BY <1>3, <4>2 DEF Parts, LeftOk, SamePlace, PartOf, At
    <3> QED BY <3>1, <3>2
  <2> QED BY <2>1, <2>2 DEF Parts
<1>7. Unanswered'
  <2>1. ASSUME NEW r \in Requests PROVE UnansweredOf(r)'
    <3>1. UnansweredOf(r) /\ task'[r].place = task[r].place
      BY <1>3 DEF Unanswered, SamePlace
    <3> QED BY <3>1, OtherStreams, OtherWrites DEF UnansweredOf
  <2> QED BY <2>1 DEF Unanswered
<1> QED BY <1>1, <1>2, <1>4, <1>5, <1>6, <1>7


\* Every step keeps the invariant.
LEMMA RootStep == RootInv /\ [Next]_<<vars, scene>> => RootInv'
<1> SUFFICES ASSUME RootInv, [Next]_<<vars, scene>> PROVE RootInv'
  OBVIOUS
<1>1. CASE Next
  <2>1. scene' = scene /\ (OtherSteps \/ \E r \in Requests : Post(r) \/ TaskSteps(r))
    BY <1>1 DEF Next, Steps, OtherSteps
  <2> QED BY <2>1, TaskStep, OtherStep
<1>2. CASE UNCHANGED <<vars, scene>>
  <2> USE <1>2 DEF vars, streams, sent, lists, ends
  <2>1. TypeOK' /\ PumpsDown' /\ ToldOnce' /\ ClosersCome'
    BY DEF RootInv, TypeOK, PumpsDown, ToldOnce, ClosersCome
  <2>2. Routed' /\ Noted'
    BY DEF RootInv, Routed, RoutedOf, Noted, NotedOf, Answers, Up
  <2>3. Parts' /\ Unanswered'
    BY DEF RootInv, Parts, PartOk, LeftOk, PartOf, At, Unanswered, UnansweredOf, Held,
          Answers
  <2> QED BY <2>1, <2>2, <2>3 DEF RootInv
<1> QED BY <1>1, <1>2

\* The invariant holds.
THEOREM RootInvariant == Spec => []RootInv
<1>1. Init => RootInv
  BY InitRoot
<1>2. RootInv /\ [Next]_<<vars, scene>> => RootInv'
  BY RootStep
<1> QED BY <1>1, <1>2, PTL DEF Spec

\* The root is sound: what is answered goes between the two that asked and were
\* asked, and each server's end is told once, whoever finds it and whoever ends
\* the root (server_said, answer_server, member_down, close).
THEOREM RootStaysSound == Spec => []RootSound
<1>1. RootInv => RootSound
  <2> SUFFICES ASSUME RootInv PROVE RootSound
    OBVIOUS
  <2>1. AnswersMatch
    BY DEF RootInv, Routed, RoutedOf, AnswersMatch
  <2>2. EndToldOnce
    <3>1. ASSUME NEW m \in Members
          PROVE  /\ told[m] <= 1
                 /\ ended /\ (\A c \in Closers : closer[c].at \in {"no", "done"}) => told[m] = 1
      <4>1. told[m] = IF m \in down THEN 1 ELSE 0
        BY DEF RootInv, ToldOnce
      <4>2. ended /\ (\A c \in Closers : closer[c].at \in {"no", "done"}) => m \in down
        BY DEF RootInv, ClosersCome
      <4> QED BY <4>1, <4>2
    <3> QED BY <3>1 DEF EndToldOnce
  <2> QED BY <2>1, <2>2 DEF RootInv, RootSound
<1> QED BY <1>1, RootInvariant, PTL

\* A cancellation finds the server that has the request, though the two maps
\* that tell of it are under locks of their own and a server's end clears one
\* before the other (forward, member_down, agent_said).
THEOREM CancellationFinds == Spec => []CancelFinds
<1>1. RootInv => CancelFinds
  <2> SUFFICES ASSUME RootInv, NEW r \in Requests, NEW m \in Up, At(r, "forwarded"), r \in waiting[m]
               PROVE  inflight[r] = m
    BY DEF CancelFinds
  <2>1. m \in Members /\ RoutedOf(r) /\ NotedOf(r)
    BY DEF Up, RootInv, Routed, Noted
  <2>2. task[r].dest = m
    BY <2>1 DEF RoutedOf
  <2> QED BY <2>1, <2>2 DEF NotedOf, At
<1> QED BY <1>1, RootInvariant, PTL

-----------------------------------------------------------------------------
(* The lists.                                                              *)

\* Who reads the lists for a resource; that every resource of m's is known to
\* be m's, or is about to be again; and that m has had its turn in r's reading.
Reads(r) == task[r].kind = "read" /\ task[r].place \in {"asking", "merging"}
Known(m) == \A x \in Serving[m] : m \in owners.uris[x] \/ Relisting(m, x)
Heard(r, m) == task[r].field = "templates" \/ (At(r, "merging") /\ m < task[r].turn)

\* Nobody is known for a resource it does not list; one task at a time reads; a
\* server whose list was forgotten is being known again; one that was heard in
\* a reading that has not failed is known, and once all were read, each is.
Alone(r) ==
  /\ Reads(r) => listing = r /\ task[r].field \in {"resources", "templates"}
  /\ At(r, "asking") => task[r].turn = 1
Relisted(r) == task[r].forgot /\ task[r].field = "resources" => Known(task[r].turn)
Learnt(r) == Reads(r) /\ ~listFailed => \A m \in Up : Heard(r, m) => Known(m)
ListsInv ==
  /\ \A x \in URIs : \A m \in owners.uris[x] : x \in Serving[m]
  /\ \A r \in Requests : Alone(r) /\ Relisted(r) /\ Learnt(r)
  /\ listed => \A m \in Up : Known(m)

\* They hold at the start.
LEMMA InitLists == Init => ListsInv
BY DEF Init, Idle, NoOwners, ListsInv, Reads, Alone, Relisted, Learnt, At

\* What a step that neither forgets nor knows does to the naming again of a
\* server's list.
ReadKept(r) ==
  /\ task'[r].forgot <=> task[r].forgot
  /\ task[r].forgot => /\ task'[r].place = task[r].place /\ task'[r].turn = task[r].turn
                       /\ task'[r].field = task[r].field /\ task'[r].left = task[r].left

\* The steps of a task that reads no lists, and begins none for a resource.
Apart(r) ==
  /\ UNCHANGED lists /\ ReadKept(r) /\ ~Reads(r)'
  /\ task'[r].place = "asking" => task'[r].turn = 1

\* A request's own step is of that kind or of a list being read.
LEMMA OwnReads ==
  ASSUME RootInv, NEW r \in Requests, Post(r) \/ TaskSteps(r)
  PROVE  \/ Apart(r) \/ (EnsureListed(r) /\ ~listed) \/ ThenTemplates(r) \/ ListedDone(r) \/ AllIn(r)
         \/ PassOver(r) \/ Forget(r) \/ Know(r) \/ \E m \in Members : Ask(r, m) \/ AskReturns(r, m) \/ AskEnds(r, m)
<1> USE DEF RootInv, streams, sent, At
<1>1. task[r] \in Tasks /\ task \in [Requests -> Tasks] /\ LeftOk(r)
  BY DEF Parts, TypeOK
<1>2. task[r].place \notin {"asking", "merging"} \/ task[r].turn > N => ~task[r].forgot
  <2>1. ~(task[r].turn > N /\ task[r].turn <= N)
    BY <1>1, ItsTurn
  <2> QED BY <1>1, <2>1 DEF LeftOk
<1>3. ASSUME UNCHANGED lists, ~task[r].forgot, ~task'[r].forgot, task'[r].place \notin {"asking", "merging"}
      PROVE  Apart(r)
  BY <1>3 DEF Apart, ReadKept, Reads
<1>4. CASE \/ Note(r) \/ Register(r) \/ SendForwarded(r) \/ SendFails(r) \/ Unwait(r) \/ Unnote(r)
           \/ Post(r) \/ PostRegisters(r) \/ Reply(r) \/ ListDone(r)
  <2>1. \E p \in {"noted", "registered", "forwarded", "unwait", "unnote", "reply", "checked",
                    "spawned", "busy", "done"} : task' = [task EXCEPT ![r].place = p]
    BY <1>4 DEF Note, Register, SendForwarded, SendFails, Unwait, Unnote, Go, Post,
          PostRegisters,
       Reply, ListDone
  <2>2. PICK p : p \notin {"asking", "merging"} /\ task' = [task EXCEPT ![r].place = p]
    BY <2>1
  <2>3. task'[r].place = p /\ task'[r].forgot = task[r].forgot
    BY <1>1, <2>2 DEF Tasks
  <2>4. ~task[r].forgot
    BY <1>2, <1>4 DEF Note, Register, SendForwarded, SendFails, Unwait, Unnote, Go, Post,
          PostRegisters,
       Reply, ListDone, Merged
  <2>5. UNCHANGED lists
    BY <1>4 DEF Note, Register, SendForwarded, SendFails, Unwait, Unnote, Post,
          PostRegisters,
       Reply, ListDone
  <2> QED BY <1>3, <2>2, <2>3, <2>4, <2>5
<1>5. CASE ForwardNamed(r) \/ Look(r) \/ (EnsureListed(r) /\ listed)
  <2>1. ~task[r].forgot
    BY <1>2, <1>5 DEF ForwardNamed, Look, EnsureListed
  <2>2. ~task'[r].forgot /\ task'[r].place \notin {"asking", "merging"}
    BY <1>1, <1>5, <2>1 DEF ForwardNamed, Look, EnsureListed, Tasks
  <2>3. UNCHANGED lists
    BY <1>5 DEF ForwardNamed, Look, EnsureListed, lists
  <2> QED BY <1>3, <2>1, <2>2, <2>3
<1>6. CASE List(r)
  <2>1. ~task[r].forgot /\ task[r].kind # "read" /\ UNCHANGED lists
    BY <1>2, <1>6 DEF List, Lists
  <2>2. task'[r].forgot = task[r].forgot /\ task'[r].turn = 1 /\ task'[r].kind = task[r].kind
    BY <1>1, <1>6 DEF List, StartAsking, Tasks
  <2> QED BY <2>1, <2>2 DEF Apart, ReadKept, Reads
<1> QED BY <1>4, <1>5, <1>6 DEF TaskSteps, OwnSteps, SendReturns, Forwarding, ReadSteps, ListSteps

\* What is known stays known, to whichever task of the lists.
LEMMA KnownKept ==
  ASSUME \A x \in URIs : owners'.uris[x] = owners.uris[x], \A q \in Requests : ReadKept(q),
         NEW m \in Members, Known(m)
  PROVE  Known(m)'
<1>1. Serving[m] \subseteq URIs
  BY Names
<1>2. ASSUME NEW x \in Serving[m], Relisting(m, x) PROVE Relisting(m, x)'
  BY <1>2 DEF Relisting, ReadKept, Merging, At
<1> QED BY <1>1, <1>2 DEF Known

\* Only the task that forgets or knows changes which servers are known.
LEMMA OwnKnown ==
  ASSUME RootInv, NEW r \in Requests, Post(r) \/ TaskSteps(r)
  PROVE  Forget(r) \/ Know(r) \/ (owners' = owners /\ \A q \in Requests : ReadKept(q))
<1> USE DEF RootInv, streams, sent, At
<1>1. task[r] \in Tasks /\ task \in [Requests -> Tasks] /\ LeftOk(r)
  BY DEF Parts, TypeOK
<1>2. \A q \in Requests \ {r} : task'[q] = task[q]
  BY TaskTypes
<1>3. \A q \in Requests \ {r} : ReadKept(q)
  BY <1>2 DEF ReadKept
<1>4. CASE Apart(r)
  BY <1>3, <1>4 DEF Apart, lists
<1>5. ASSUME NEW f, StartAsking(r, f) PROVE task'[r].forgot = task[r].forgot
  BY <1>1, <1>5 DEF StartAsking, Tasks
<1>6. task[r].place \notin {"asking", "merging"} \/ task[r].turn > N => ~task[r].forgot
  <2>1. ~(task[r].turn > N /\ task[r].turn <= N)
    BY <1>1, ItsTurn
  <2> QED BY <1>1, <2>1 DEF LeftOk
<1>7. CASE (EnsureListed(r) /\ ~listed) \/ ThenTemplates(r) \/ ListedDone(r)
  <2>1. ~task[r].forgot /\ owners' = owners
    BY <1>6, <1>7 DEF EnsureListed, ThenTemplates, ListedDone, Merged, lists
  <2>2. task'[r].forgot = task[r].forgot
    BY <1>1, <1>5, <1>7 DEF EnsureListed, ThenTemplates, ListedDone, Tasks
  <2> QED BY <1>3, <2>1, <2>2 DEF ReadKept
<1>8. CASE AllIn(r) \/ PassOver(r) \/ \E m \in Members : Ask(r, m) \/ AskReturns(r, m) \/ AskEnds(r, m)
  <2>1. ~task[r].forgot /\ owners' = owners
    BY <1>1, <1>8 DEF AllIn, Go, PassOver, OwnersToTell, Ask, AskReturns, AskEnds, LeftOk, lists,
          Parts, PartOk
  <2>2. task'[r].forgot = task[r].forgot
    BY <1>1, <1>8 DEF AllIn, Go, PassOver, Ask, AskReturns, AskEnds, Tasks
  <2> QED BY <1>3, <2>1, <2>2 DEF ReadKept
<1> QED BY <1>4, <1>7, <1>8, OwnReads

\* What is known stays known, though it be forgotten: then it is named again.
LEMMA OwnKnows ==
  ASSUME RootInv, NEW r \in Requests, Post(r) \/ TaskSteps(r), NEW m \in Members, Known(m)
  PROVE  Known(m)'
<1> USE DEF RootInv
<1>1. /\ task[r] \in Tasks /\ task \in [Requests -> Tasks] /\ owners \in OwnersTypes
      /\ \A n \in Members : Serving[n] \subseteq URIs
  BY Names DEF TypeOK, OwnersTypes
<1>2. \A q \in Requests \ {r} : task'[q] = task[q]
  BY TaskTypes
<1>3. ASSUME NEW x \in Serving[m], NEW q \in Requests \ {r}, Merging(q), task[q].forgot, task[q].turn = m,
             task[q].field = "resources", x \in task[q].left
      PROVE  Relisting(m, x)'
  BY <1>2, <1>3 DEF Relisting, Merging, At
<1>4. CASE Forget(r)
  <2> DEFINE n == task[r].turn
             left == IF task[r].field = "resources" THEN Serving[n] ELSE Offering[n]
  <2>1. /\ n \in Members /\ Merging(r) /\ ~task[r].forgot
        /\ owners' = IF task[r].field = "resources" THEN ForgetUris(owners, n) ELSE ForgetTemplates(owners, n)
    BY <1>1, <1>4, ItsTurn DEF Forget, Merging
  <2>2. /\ task'[r].forgot /\ task'[r].left = left /\ task'[r].place = task[r].place
        /\ task'[r].turn = n /\ task'[r].field = task[r].field
    BY <1>1, <1>4 DEF Forget, Tasks
  <2>3. /\ task[r].field # "resources" => owners'.uris = owners.uris
        /\ task[r].field = "resources" => owners'.uris = [x \in URIs |-> owners.uris[x] \ {n}]
    BY <1>1, <2>1, OwnersChange
  <2>4. CASE task[r].field = "resources" /\ n = m
    <3>1. ASSUME NEW x \in Serving[m] PROVE Relisting(m, x)'
      BY <2>1, <2>2, <2>4 DEF Relisting, Merging, At
    <3> QED BY <3>1 DEF Known
  <2>5. CASE task[r].field # "resources" \/ n # m
    <3>1. ASSUME NEW x \in Serving[m] PROVE m \in owners'.uris[x] \/ Relisting(m, x)'
      <4>1. CASE m \in owners.uris[x]
        BY <1>1, <2>3, <2>5, <4>1
      <4>2. CASE Relisting(m, x)
        BY <1>3, <2>1, <4>2 DEF Relisting
      <4> QED BY <4>1, <4>2 DEF Known
    <3> QED BY <3>1 DEF Known
  <2> QED BY <2>4, <2>5
<1>5. CASE Know(r)
  <2> DEFINE n == task[r].turn
  <2>1. n \in Members /\ Merging(r) /\ task[r].forgot
    BY <1>1, <1>5, ItsTurn DEF Know, Merging
  <2>2. CASE \E i \in task[r].left :
               /\ owners' = IF task[r].field = "resources" THEN Listing(owners, n, i) ELSE Templating(owners, n, i)
               /\ task' = [task EXCEPT ![r].left = @ \ {i}]
    <3>1. PICK i \in task[r].left :
               /\ owners' = IF task[r].field = "resources" THEN Listing(owners, n, i) ELSE Templating(owners, n, i)
               /\ task' = [task EXCEPT ![r].left = @ \ {i}]
      BY <2>2
    <3>2. i \in (IF task[r].field = "resources" THEN URIs ELSE Patterns)
      BY <2>1, Names DEF Parts, LeftOk
    <3>3. /\ task'[r].forgot = task[r].forgot /\ task'[r].left = task[r].left \ {i}
          /\ task'[r].place = task[r].place /\ task'[r].turn = n /\ task'[r].field = task[r].field
      BY <1>1, <3>1 DEF Tasks
    <3>4. /\ task[r].field # "resources" => owners'.uris = owners.uris
          /\ task[r].field = "resources" => owners'.uris = [owners.uris EXCEPT ![i] = @ \union {n}]
      <4> HIDE DEF n
      <4>1. CASE task[r].field = "resources"
        <5>1. Listing(owners, n, i).uris = [owners.uris EXCEPT ![i] = @ \union {n}]
          <6>1. /\ \A x \in URIs : /\ Listing(owners, n, x) \in OwnersTypes
                                 /\ Listing(owners, n, x).uris = [owners.uris EXCEPT ![x] = @ \union {n}]
            BY <1>1, <2>1, OwnersChange, Zenon
          <6> QED BY <3>2, <4>1, <6>1, Zenon
        <5> QED BY <3>1, <4>1, <5>1
      <4>2. CASE task[r].field # "resources"
        <5>1. Templating(owners, n, i).uris = owners.uris
          <6>1. /\ \A p \in Patterns : /\ Templating(owners, n, p) \in OwnersTypes
                                     /\ Templating(owners, n, p).uris = owners.uris
            BY <1>1, <2>1, OwnersChange, Zenon
          <6> QED BY <3>2, <4>2, <6>1, Zenon
        <5> QED BY <3>1, <4>2, <5>1
      <4> QED BY <4>1, <4>2
    <3>5. ASSUME NEW x \in Serving[m] PROVE m \in owners'.uris[x] \/ Relisting(m, x)'
      <4>1. owners.uris \in [URIs -> SUBSET Members] /\ x \in URIs
        BY <1>1 DEF OwnersTypes
      <4>2. CASE m \in owners.uris[x]
        BY <3>4, <4>1, <4>2
      <4>3. CASE Relisting(m, x)
        <5>1. PICK q \in Requests : /\ Merging(q) /\ task[q].forgot /\ task[q].turn = m
                                    /\ task[q].field = "resources" /\ x \in task[q].left
          BY <4>3 DEF Relisting
        <5>2. CASE q # r
          BY <1>3, <5>1, <5>2
        <5>3. CASE q = r /\ x = i
          BY <3>4, <4>1, <5>1, <5>3
        <5>4. CASE q = r /\ x # i
          BY <2>1, <3>3, <5>1, <5>4 DEF Relisting, Merging, At
        <5> QED BY <5>2, <5>3, <5>4
      <4> QED BY <4>2, <4>3 DEF Known
    <3> QED BY <3>5 DEF Known
  <2>3. CASE task[r].left = {} /\ owners' = owners
    <3>1. ASSUME NEW x \in Serving[m], Relisting(m, x) PROVE Relisting(m, x)'
      BY <1>3, <2>3, <3>1 DEF Relisting
    <3> QED BY <2>3, <3>1 DEF Known
  <2> QED BY <1>5, <2>2, <2>3 DEF Know
<1>6. CASE owners' = owners /\ \A q \in Requests : ReadKept(q)
  BY <1>6, KnownKept
<1> QED BY <1>4, <1>5, <1>6, OwnKnown

\* The servers tell the owners of links at most; the lists are the tasks'.
LEMMA OtherLists ==
  ASSUME RootInv, OtherSteps
  PROVE  owners'.uris = owners.uris /\ UNCHANGED <<listed, listing, listFailed>>
<1> USE DEF RootInv, lists
<1>1. ASSUME UNCHANGED lists PROVE owners'.uris = owners.uris /\ UNCHANGED <<listed, listing, listFailed>>
  BY <1>1
<1>2. ASSUME NEW m \in Members, NEW r \in Requests, ServerAnswers(m, r)
      PROVE  owners'.uris = owners.uris /\ UNCHANGED <<listed, listing, listFailed>>
  <2>1. owners \in OwnersTypes
    BY DEF TypeOK, OwnersTypes
  <2>2. \A u \in URIs : /\ Linking(owners, m, u) \in OwnersTypes
                       /\ Linking(owners, m, u).uris = owners.uris
    BY <2>1, OwnersChange, Zenon
  <2>3. owners' = owners \/ \E u \in URIs : owners' = Linking(owners, m, u)
    BY <1>2 DEF ServerAnswers
  <2> QED BY <1>2, <2>2, <2>3 DEF ServerAnswers
<1>3. ASSUME NEW m \in Members, PumpSteps(m) PROVE UNCHANGED lists
  BY <1>3 DEF PumpSteps, Place, PumpStops, MemberDown, Retain, Drain, MemberGone,
        AnswerOrphan
<1>4. ASSUME NEW m \in Members, ServerAsks(m) \/ ServerEnds(m) \/ AgentAnswers(m)
             \/ \E r \in Requests : ServerLists(m, r)
      PROVE  UNCHANGED lists
  BY <1>4 DEF ServerAsks, ServerEnds, ServerLists, AgentAnswers
<1>5. ASSUME NEW c \in Closers, CloseChecks(c) \/ CloseSteps(c) PROVE UNCHANGED lists
  BY <1>5 DEF CloseChecks, CloseSteps, CloseCancels, CloseMember, CloseClears
<1>6. Listen => UNCHANGED lists
  BY DEF Listen
<1> QED BY <1>1, <1>2, <1>3, <1>4, <1>5, <1>6 DEF OtherSteps, ServerSteps

\* A step that is no request's own keeps what holds of the lists.
LEMMA OtherListsStep ==
  ASSUME RootInv, ListsInv, OtherSteps
  PROVE  ListsInv'
<1>1. \A r \in Requests : SamePlace(r)
  BY OtherTasks
<1>2. \A r \in Requests : ReadKept(r)
  BY <1>1 DEF SamePlace, ReadKept
<1>3. owners'.uris = owners.uris /\ UNCHANGED <<listed, listing, listFailed>>
  BY OtherLists
<1>4. \A m \in Members : Known(m) => Known(m)'
  BY <1>2, <1>3, KnownKept
<1>5. Up' \subseteq Up /\ Up \subseteq Members
  BY EndsStep DEF Up
<1>6. ASSUME NEW r \in Requests PROVE (Alone(r) /\ Relisted(r) /\ Learnt(r))'
  <2>1. Alone(r) /\ Relisted(r) /\ Learnt(r)
    BY DEF ListsInv
  <2>2. Reads(r)' <=> Reads(r)
    BY <1>1 DEF Reads, SamePlace
  <2>3. \A m \in Members : Heard(r, m)' <=> Heard(r, m)
    BY <1>1 DEF Heard, At, SamePlace
  <2>4. Alone(r)'
    BY <1>1, <1>3, <2>1, <2>2 DEF Alone, At, SamePlace
  <2>5. Relisted(r)'
    <3>1. CASE task[r].forgot /\ task[r].field = "resources"
      <4>1. task[r].turn \in Members
        BY <3>1, ItsTurn DEF RootInv, Parts, LeftOk, TypeOK
      <4> QED BY <1>1, <1>4, <2>1, <3>1, <4>1 DEF Relisted, SamePlace
    <3> QED BY <1>1, <3>1 DEF Relisted, SamePlace
  <2>6. Learnt(r)'
    BY <1>3, <1>4, <1>5, <2>1, <2>2, <2>3 DEF Learnt
  <2> QED BY <2>4, <2>5, <2>6
<1>7. \A x \in URIs : \A m \in owners'.uris[x] : x \in Serving[m]
  BY <1>3 DEF ListsInv
<1>8. listed' => \A m \in Up' : Known(m)'
  BY <1>3, <1>4, <1>5 DEF ListsInv
<1> QED BY <1>6, <1>7, <1>8 DEF ListsInv

\* A step that is no reading of the lists keeps what holds of its own request.
LEMMA OwnLists ==
  ASSUME RootInv, ListsInv, NEW r \in Requests, Post(r) \/ TaskSteps(r)
  PROVE  /\ (Alone(r) /\ Relisted(r) /\ Learnt(r))'
         /\ \A q \in Requests \ {r} : Reads(q) => listing' = q /\ (~listFailed' => ~listFailed)
         /\ listed' => listed \/ \A m \in Up : Known(m)
<1> USE DEF RootInv, At
<1>1. /\ task[r] \in Tasks /\ task \in [Requests -> Tasks] /\ LeftOk(r)
      /\ \A m \in Members : PartOk(r, m)
  BY DEF Parts, TypeOK
<1>2. /\ Alone(r) /\ Relisted(r) /\ Learnt(r)
      /\ \A q \in Requests : Alone(q)
  BY DEF ListsInv
<1>3. \A m \in Members : Known(m) => Known(m)'
  BY OwnKnows
<1>4. Up' = Up /\ Up \subseteq Members
  BY TaskLeaves DEF ends, Up
<1>5. Free \notin Requests
  BY NamesAssumption
<1> DEFINE Same == UNCHANGED <<listed, listing, listFailed>>
           Rest == /\ \A q \in Requests \ {r} : Reads(q) => listing' = q /\ (~listFailed' => ~listFailed)
                   /\ listed' => listed \/ \A m \in Up : Known(m)
<1>6. Same => Rest
  BY <1>2 DEF Alone
<1>7. CASE Apart(r)
  <2>1. Same
    BY <1>7 DEF Apart, lists
  <2>2. Alone(r)' /\ Learnt(r)'
    BY <1>7 DEF Apart, Alone, Learnt
  <2>3. Relisted(r)'
    <3>1. task[r].forgot => task[r].turn \in Members
      BY <1>1, ItsTurn DEF LeftOk
    <3> QED BY <1>2, <1>3, <1>7, <3>1 DEF Apart, ReadKept, Relisted
  <2> QED BY <1>6, <2>1, <2>2, <2>3
<1>8. ASSUME NEW f, StartAsking(r, f)
      PROVE  /\ task'[r].place = "asking" /\ task'[r].field = f /\ task'[r].turn = 1
             /\ task'[r].forgot = task[r].forgot /\ task'[r].kind = task[r].kind
  BY <1>1, <1>8 DEF StartAsking, Tasks
<1>9. task[r].place \notin {"asking", "merging"} \/ task[r].turn > N => ~task[r].forgot
  <2>1. ~(task[r].turn > N /\ task[r].turn <= N)
    BY <1>1, ItsTurn
  <2> QED BY <1>1, <2>1 DEF LeftOk
<1>10. CASE EnsureListed(r) /\ ~listed
  <2>1. /\ ~task[r].forgot /\ listing = Free /\ listing' = r /\ UNCHANGED <<owners, listed>>
        /\ StartAsking(r, "resources")
    BY <1>9, <1>10 DEF EnsureListed
  <2>2. /\ task'[r].place = "asking" /\ task'[r].field = "resources" /\ task'[r].turn = 1 /\ ~task'[r].forgot
    BY <1>8, <2>1
  <2>3. \A q \in Requests \ {r} : ~Reads(q)
    BY <1>2, <1>5, <2>1 DEF Alone
  <2>4. Alone(r)' /\ Relisted(r)' /\ Learnt(r)'
    BY <2>1, <2>2 DEF Alone, Relisted, Learnt, Heard
  <2> QED BY <2>1, <2>3, <2>4
<1>11. CASE ThenTemplates(r)
  <2>1. /\ ~task[r].forgot /\ Same /\ StartAsking(r, "templates") /\ Merged(r) /\ task[r].kind = "read"
    BY <1>9, <1>11 DEF ThenTemplates, Merged, lists
  <2>2. /\ task'[r].place = "asking" /\ task'[r].field = "templates" /\ task'[r].turn = 1 /\ ~task'[r].forgot
    BY <1>8, <2>1
  <2>3. Reads(r) /\ \A m \in Up : Heard(r, m)
    <3>1. \A m \in Members : m < task[r].turn
      BY <1>1, <2>1, Names DEF Merged, Tasks
    <3> QED BY <1>4, <2>1, <3>1 DEF Reads, Merged, Heard
  <2>4. Learnt(r)'
    BY <1>2, <1>3, <1>4, <2>1, <2>3 DEF Learnt
  <2>5. Alone(r)' /\ Relisted(r)'
    BY <1>2, <2>1, <2>2, <2>3 DEF Alone, Relisted
  <2> QED BY <1>6, <2>1, <2>4, <2>5
<1>12. CASE ListedDone(r)
  <2>1. /\ ~task[r].forgot /\ Merged(r) /\ task[r].kind = "read" /\ task[r].field = "templates"
        /\ listed' = ~listFailed /\ listFailed' = listFailed
    BY <1>9, <1>12 DEF ListedDone, Merged, Succeeded
  <2>2. task'[r].place = "look" /\ ~task'[r].forgot
    BY <1>1, <1>12, <2>1 DEF ListedDone, Tasks
  <2>3. Reads(r) /\ listing = r
    BY <1>2, <2>1 DEF Reads, Merged, Alone
  <2>4. \A q \in Requests \ {r} : ~Reads(q)
    BY <1>2, <2>3 DEF Alone
  <2>5. listed' => \A m \in Up : Known(m)
    BY <1>2, <2>1, <2>3 DEF Learnt, Heard
  <2>6. Alone(r)' /\ Relisted(r)' /\ Learnt(r)'
    BY <2>2 DEF Alone, Relisted, Learnt, Reads
  <2> QED BY <2>4, <2>5, <2>6
<1>13. CASE AllIn(r) \/ \E m \in Members : Ask(r, m) \/ AskReturns(r, m) \/ AskEnds(r, m)
  <2>1. task[r].place = "asking" /\ Same /\ ~task[r].forgot
    BY <1>1, <1>13 DEF AllIn, Go, Ask, AskReturns, AskEnds, lists, PartOk, LeftOk
  <2>2. /\ task'[r].place \in {"asking", "merging"} /\ task'[r].turn = task[r].turn
        /\ task'[r].field = task[r].field /\ task'[r].kind = task[r].kind
        /\ task'[r].forgot = task[r].forgot
    BY <1>1, <1>13, <2>1 DEF AllIn, Go, Ask, AskReturns, AskEnds, Tasks
  <2>3. Reads(r)' <=> Reads(r)
    BY <2>1, <2>2 DEF Reads
  <2>4. Alone(r)' /\ Relisted(r)'
    BY <1>2, <2>1, <2>2, <2>3 DEF Alone, Relisted
  <2>5. \A m \in Members : Heard(r, m)' => Heard(r, m)
    <3>1. task[r].turn = 1 /\ \A m \in Members : ~(m < 1)
      BY <1>2, <2>1, Names DEF Alone
    <3> QED BY <2>2, <3>1 DEF Heard
  <2>6. Learnt(r)'
    BY <1>2, <1>3, <1>4, <2>1, <2>3, <2>5 DEF Learnt
  <2> QED BY <1>6, <2>1, <2>4, <2>6
<1>14. CASE PassOver(r)
  <2> DEFINE n == task[r].turn
  <2>1. /\ task[r].place = "merging" /\ n \in Members /\ ~OwnersToTell(r) /\ ~task[r].forgot
        /\ UNCHANGED <<owners, listed, listing>>
        /\ listFailed => listFailed'
        /\ PartOf(r) = "failed" /\ task[r].field # "level" => listFailed'
    <3>1. n \in Members
      BY <1>1, <1>14, ItsTurn DEF PassOver, Merging
    <3>2. /\ task[r].place = "merging" /\ ~OwnersToTell(r) /\ UNCHANGED <<owners, listed, listing>>
          /\ listFailed' = (listFailed \/ (PartOf(r) = "failed" /\ task[r].field # "level"))
      BY <1>14 DEF PassOver, Merging
    <3>3. ~task[r].forgot
      BY <1>1, <3>2 DEF LeftOk, OwnersToTell
    <3> QED BY <3>1, <3>2, <3>3
  <2>2. /\ task'[r].place = "merging" /\ task'[r].turn = n + 1
        /\ task'[r].field = task[r].field /\ task'[r].kind = task[r].kind
        /\ task'[r].forgot = task[r].forgot
    BY <1>1, <1>14, <2>1 DEF PassOver, Tasks
  <2>3. Reads(r)' <=> Reads(r)
    BY <2>1, <2>2 DEF Reads
  <2>4. Alone(r)' /\ Relisted(r)'
    BY <1>2, <2>1, <2>2, <2>3 DEF Alone, Relisted
  <2>5. ASSUME Reads(r), ~listFailed', NEW m \in Up, Heard(r, m)' PROVE Known(m)'
    <3>1. CASE Heard(r, m)
      BY <1>2, <1>3, <1>4, <2>1, <2>5, <3>1 DEF Learnt
    <3>2. CASE m = n
      <4>1. task[r].field \in {"resources", "templates"}
        BY <1>2, <2>5 DEF Alone
      <4>2. PartOf(r) \notin {"ok", "failed", "todo", "sending", "waiting"}
        BY <1>1, <2>1, <2>5, <4>1 DEF OwnersToTell, PartOf, PartOk
      <4>3. task[r].asked[n] = "no"
        BY <1>1, <2>1, <4>2 DEF PartOf, Tasks
      <4>4. n \in down
        BY <1>1, <2>1, <4>3 DEF PartOk
      <4> QED BY <2>5, <3>2, <4>4 DEF Up
    <3>3. Heard(r, m) \/ m = n
      <4>1. m \in Members /\ (m < n + 1 => m < n \/ m = n)
        BY <1>4, <2>1, <2>5, Names
      <4> QED BY <2>1, <2>2, <2>5, <4>1 DEF Heard
    <3> QED BY <3>1, <3>2, <3>3
  <2>6. Learnt(r)'
    BY <1>4, <2>3, <2>5 DEF Learnt
  <2>7. Rest
    BY <1>2, <2>1 DEF Alone
  <2> QED BY <2>4, <2>6, <2>7
<1>15. CASE Forget(r)
  <2>1. Same /\ task[r].place = "merging" /\ task[r].turn \in Members
    BY <1>1, <1>15, ItsTurn DEF Forget, Merging, lists
  <2>2. /\ task'[r].forgot /\ task'[r].place = "merging" /\ task'[r].turn = task[r].turn
        /\ task'[r].field = task[r].field /\ task'[r].kind = task[r].kind
        /\ task'[r].left = IF task[r].field = "resources" THEN Serving[task[r].turn] ELSE Offering[task[r].turn]
    BY <1>1, <1>15, <2>1 DEF Forget, Tasks
  <2>3. /\ Reads(r)' <=> Reads(r)
        /\ \A m \in Members : Heard(r, m)' <=> Heard(r, m)
    BY <2>1, <2>2 DEF Reads, Heard
  <2>4. Alone(r)'
    BY <1>2, <2>1, <2>2, <2>3 DEF Alone
  <2>5. Relisted(r)'
    BY <1>15, <2>2 DEF Relisted, Known, Relisting, Merging, Forget
  <2>6. Learnt(r)'
    BY <1>2, <1>3, <1>4, <2>1, <2>3 DEF Learnt
  <2> QED BY <1>6, <2>1, <2>4, <2>5, <2>6
<1>16. CASE Know(r)
  <2> DEFINE n == task[r].turn
  <2>1. Same /\ task[r].place = "merging" /\ n \in Members /\ task[r].forgot
    BY <1>1, <1>16, ItsTurn DEF Know, Merging
  <2>2. /\ task'[r].place = "merging"
        /\ task'[r].field = task[r].field /\ task'[r].kind = task[r].kind
        /\ \/ task'[r].turn = n /\ task'[r].forgot = task[r].forgot
           \/ task'[r].turn = n + 1 /\ ~task'[r].forgot
    <3>1. ASSUME NEW i \in task[r].left, task' = [task EXCEPT ![r].left = @ \ {i}]
          PROVE  /\ task'[r].place = "merging" /\ task'[r].field = task[r].field
                 /\ task'[r].kind = task[r].kind /\ task'[r].turn = n /\ task'[r].forgot = task[r].forgot
      BY <1>1, <2>1, <3>1 DEF Tasks
    <3>2. CASE task' = [task EXCEPT ![r].forgot = FALSE, ![r].turn = @ + 1]
      BY <1>1, <2>1, <3>2 DEF Tasks
    <3> QED BY <1>16, <3>1, <3>2 DEF Know
  <2>3. Reads(r)' <=> Reads(r)
    BY <2>1, <2>2 DEF Reads
  <2>4. Alone(r)'
    BY <1>2, <2>1, <2>2, <2>3 DEF Alone
  <2>5. Relisted(r)'
    BY <1>2, <1>3, <2>1, <2>2 DEF Relisted
  <2>6. ASSUME Reads(r), ~listFailed, NEW m \in Up, Heard(r, m)' PROVE Known(m)'
    <3>1. CASE Heard(r, m)
      BY <1>2, <1>3, <1>4, <2>6, <3>1 DEF Learnt
    <3>2. CASE m = n /\ ~Heard(r, m)
      <4>1. task[r].field = "resources"
        BY <1>2, <2>6, <3>2 DEF Alone, Heard
      <4> QED BY <1>2, <1>3, <2>1, <3>2, <4>1 DEF Relisted
    <3>3. Heard(r, m) \/ m = n
      <4>1. m \in Members /\ (m < n + 1 => m < n \/ m = n)
        BY <1>4, <2>1, <2>6, Names
      <4> QED BY <2>1, <2>2, <2>6, <4>1 DEF Heard
    <3> QED BY <3>1, <3>2, <3>3
  <2>7. Learnt(r)'
    BY <1>4, <2>1, <2>3, <2>6 DEF Learnt
  <2> QED BY <1>6, <2>1, <2>4, <2>5, <2>7
<1> QED BY <1>7, <1>10, <1>11, <1>12, <1>13, <1>14, <1>15, <1>16, OwnReads

\* Every step keeps what holds of the lists.
LEMMA ListsStep == RootInv /\ ListsInv /\ [Next]_<<vars, scene>> => ListsInv'
<1> SUFFICES ASSUME RootInv, ListsInv, [Next]_<<vars, scene>> PROVE ListsInv'
  OBVIOUS
<1>1. ASSUME NEW r \in Requests, Post(r) \/ TaskSteps(r) PROVE ListsInv'
  <2>1. Up' = Up /\ Up \subseteq Members /\ \A q \in Requests \ {r} : task'[q] = task[q]
    BY <1>1, TaskLeaves DEF RootInv, ends, Up
  <2>2. \A m \in Members : Known(m) => Known(m)'
    BY <1>1, OwnKnows
  <2>3. /\ (Alone(r) /\ Relisted(r) /\ Learnt(r))'
        /\ \A q \in Requests \ {r} : Reads(q) => listing' = q /\ (~listFailed' => ~listFailed)
        /\ listed' => listed \/ \A m \in Up : Known(m)
    BY <1>1, OwnLists
  <2>4. ASSUME NEW q \in Requests \ {r} PROVE (Alone(q) /\ Relisted(q) /\ Learnt(q))'
    <3>1. Alone(q) /\ Relisted(q) /\ Learnt(q) /\ task'[q] = task[q]
      BY <2>1 DEF ListsInv
    <3>2. /\ Reads(q)' <=> Reads(q)
          /\ \A m \in Members : Heard(q, m)' <=> Heard(q, m)
      BY <3>1 DEF Reads, Heard, At
    <3>3. Alone(q)'
      BY <2>3, <3>1, <3>2 DEF Alone, At
    <3>4. Relisted(q)'
      <4>1. task[q].forgot => task[q].turn \in Members
        BY ItsTurn DEF RootInv, Parts, LeftOk, TypeOK
      <4> QED BY <2>2, <3>1, <4>1 DEF Relisted
    <3>5. Learnt(q)'
      BY <2>1, <2>2, <2>3, <3>1, <3>2 DEF Learnt
    <3> QED BY <3>3, <3>4, <3>5
  <2>5. \A x \in URIs : \A m \in owners'.uris[x] : x \in Serving[m]
    <3>1. owners \in OwnersTypes /\ \A x \in URIs : \A m \in owners.uris[x] : x \in Serving[m]
      BY DEF RootInv, TypeOK, OwnersTypes, ListsInv
    <3>2. CASE Forget(r) \/ Know(r)
      <4> DEFINE n == task[r].turn
      <4>1. n \in Members
        BY <3>2, ItsTurn DEF RootInv, TypeOK, Forget, Know, Merging
      <4>2. task[r].forgot => task[r].left \subseteq (IF task[r].field = "resources" THEN Serving[n] ELSE Offering[n])
        BY DEF RootInv, Parts, LeftOk
      <4>3. Serving[n] \subseteq URIs /\ Offering[n] \subseteq Patterns
        BY <4>1, Names
      <4>4. \/ owners' \in {owners, ForgetUris(owners, n), ForgetTemplates(owners, n)}
            \/ \E i \in Serving[n] : owners' = Listing(owners, n, i)
            \/ \E i \in Patterns : owners' = Templating(owners, n, i)
        BY <3>2, <4>2, <4>3 DEF Forget, Know
      <4> HIDE DEF n
      <4>5. /\ \A x \in URIs : Listing(owners, n, x).uris = [owners.uris EXCEPT ![x] = @ \union {n}]
            /\ \A p \in Patterns : Templating(owners, n, p).uris = owners.uris
            /\ ForgetUris(owners, n).uris = [x \in URIs |-> owners.uris[x] \ {n}]
            /\ ForgetTemplates(owners, n).uris = owners.uris
        <5>1. /\ \A x \in URIs : /\ Listing(owners, n, x) \in OwnersTypes
                               /\ Listing(owners, n, x).uris = [owners.uris EXCEPT ![x] = @ \union {n}]
              /\ \A p \in Patterns : /\ Templating(owners, n, p) \in OwnersTypes
                                   /\ Templating(owners, n, p).uris = owners.uris
              /\ ForgetUris(owners, n).uris = [x \in URIs |-> owners.uris[x] \ {n}]
              /\ ForgetTemplates(owners, n).uris = owners.uris
          BY <3>1, <4>1, OwnersChange, Zenon
        <5> QED BY <5>1
      <4>6. \/ owners'.uris = owners.uris
            \/ owners'.uris = [x \in URIs |-> owners.uris[x] \ {n}]
            \/ \E i \in Serving[n] : owners'.uris = [owners.uris EXCEPT ![i] = @ \union {n}]
        <5>1. ASSUME NEW i \in Serving[n], owners' = Listing(owners, n, i)
              PROVE  owners'.uris = [owners.uris EXCEPT ![i] = @ \union {n}]
          BY <4>3, <4>5, <5>1
        <5> QED BY <4>4, <4>5, <5>1
      <4>7. owners.uris \in [URIs -> SUBSET Members]
        BY <3>1 DEF OwnersTypes
      <4>8. ASSUME NEW x \in URIs, NEW m \in owners'.uris[x] PROVE m \in owners.uris[x] \/ x \in Serving[m]
        <5>1. ASSUME NEW i \in Serving[n], owners'.uris = [owners.uris EXCEPT ![i] = @ \union {n}]
              PROVE  m \in owners.uris[x] \/ x \in Serving[m]
          BY <4>7, <4>8, <5>1
        <5> QED BY <4>6, <4>8, <5>1
      <4> QED BY <3>1, <4>8
    <3> QED BY <1>1, <3>1, <3>2, OwnKnown
  <2>6. listed' => \A m \in Up' : Known(m)'
    BY <2>1, <2>2, <2>3 DEF ListsInv
  <2>7. \A q \in Requests : (Alone(q) /\ Relisted(q) /\ Learnt(q))'
    BY <2>3, <2>4
  <2> QED BY <2>5, <2>6, <2>7 DEF ListsInv
<1>2. CASE UNCHANGED <<vars, scene>>
  BY <1>2 DEF vars, lists, ends, ListsInv, Alone, Relisted, Learnt, Reads, Heard, Known,
        Relisting, Merging,
     At, Up
<1> QED BY <1>1, <1>2, OtherListsStep DEF Next, Steps, OtherSteps

\* Once the lists were read, a resource is looked for at the first server up
\* that lists it, though servers fail, end and are listed again meanwhile
\* (owner_of, ensure_listed, merged, forget and know).
THEOREM ReadsFind == Spec => ReadsFindServer
<1> DEFINE Looked ==
      \A r \in Requests :
        /\ Look(r) /\ listed
        /\ ServersOf(r) # {} /\ \A m \in ServersOf(r) : ~Relisting(m, Target[r])
        => task'[r].dest = CHOOSE m \in ServersOf(r) : \A o \in ServersOf(r) : m <= o
<1>1. RootInv /\ ListsInv => Looked
  <2> SUFFICES ASSUME RootInv, ListsInv, NEW r \in Requests,
                      NEW S, S = ServersOf(r),
                      Look(r), listed, S # {}, \A m \in S : ~Relisting(m, Target[r])
               PROVE  task'[r].dest = CHOOSE m \in S : \A o \in S : m <= o
    OBVIOUS
  <2> USE DEF ServersOf
  <2>1. /\ owners \in OwnersTypes /\ Target[r] \in URIs /\ Up \in SUBSET Members /\ S \in SUBSET Members
        /\ task[r] \in Tasks /\ task \in [Requests -> Tasks]
    BY AggregateAssumption DEF RootInv, TypeOK, OwnersTypes, Up
  <2>2. owners.uris[Target[r]] \intersect Up = S
    <3>1. \A m \in S : m \in owners.uris[Target[r]]
      BY DEF ListsInv, Known
    <3>2. \A m \in owners.uris[Target[r]] : Target[r] \in Serving[m]
      BY <2>1 DEF ListsInv
    <3> QED BY <3>1, <3>2
  <2>3. OwnerNow(r) = First(S, None)
    BY <2>1, <2>2, OwnerIn DEF OwnerNow
  <2>4. First(S, None) \in Members /\ First(S, None) = Min(S)
    BY <2>1, FirstIn DEF First
  <2>5. OwnerNow(r) # None
    BY <2>3, <2>4, Names
  <2>6. task' = [task EXCEPT ![r].place = "chosen", ![r].dest = OwnerNow(r)]
    BY <2>5 DEF Look
  <2>7. task'[r].dest = OwnerNow(r)
    BY <2>1, <2>6 DEF Tasks
  <2> QED BY <2>3, <2>4, <2>7 DEF Min
<1>2. RootInv /\ ListsInv /\ [Next]_<<vars, scene>> => [Looked]_vars
  BY <1>1
<1>3. Init => ListsInv
  BY InitLists
<1>4. RootInv /\ ListsInv /\ [Next]_<<vars, scene>> => ListsInv'
  BY ListsStep
<1> QED BY <1>2, <1>3, <1>4, RootInvariant, PTL DEF Spec, ReadsFindServer

-----------------------------------------------------------------------------
(* The promise made to agents.                                             *)

\* A request that was not sent on; the phase of a stream, and what it bears, as
\* a prover can rewrite them.
Early(r) == task[r].place \in {"idle", "checked"}
Phase(r) ==
  IF Early(r) THEN "idle" ELSE IF ~Held(r) THEN "over"
  ELSE IF Answers(r) # {} THEN "answered" ELSE "open"
Tag(e) == IF e[1] = "answer" THEN "response" ELSE "message"
Tags(s) == [i \in DOMAIN s |-> Tag(s[i])]
phases == [r \in Requests |-> Phase(r)]
streamed == [r \in Requests |-> Tags(stream[r])]

MapsSo ==
  /\ phases = [r \in Requests |-> PhaseOf(r)]
  /\ streamed = [r \in Requests |->
       [i \in DOMAIN stream[r] |-> IF stream[r][i][1] = "answer" THEN "response" ELSE "message"]]

\* It is the same mapping.
LEMMA Mapped == MapsSo
<1>1. ASSUME NEW r \in Requests PROVE Phase(r) = PhaseOf(r)
  BY DEF Phase, PhaseOf, Early
<1> QED BY <1>1 DEF MapsSo, phases, streamed, Tags, Tag

\* And in the state after a step.
LEMMA MappedNext == MapsSo'
BY Mapped, PTL

\* AgentStreams under that mapping.
Simply == INSTANCE AgentStreams WITH
  MayFollow <- TRUE, phase <- phases, stream <- streamed

\* The steps of the two instances are the same steps.
LEMMA SimplyIsPromise ==
  ASSUME [Simply!Next]_(Simply!vars)
  PROVE  [Promise!Next]_(Promise!vars)
<1>1. MapsSo /\ MapsSo'
  BY Mapped, MappedNext
<1>2. ASSUME NEW r \in Requests
      PROVE  /\ Simply!Opens(r) => Promise!Opens(r)
             /\ Simply!Bears(r) => Promise!Bears(r)
             /\ Simply!Answers(r) => Promise!Answers(r)
             /\ Simply!Leaves(r) => Promise!Leaves(r)
  <2>1. Simply!Opens(r) => Promise!Opens(r)
    BY <1>1 DEF MapsSo, Simply!Opens, Promise!Opens
  <2>2. Simply!Bears(r) => Promise!Bears(r)
    BY <1>1 DEF MapsSo, Simply!Bears, Promise!Bears
  <2>3. Simply!Answers(r) => Promise!Answers(r)
    BY <1>1 DEF MapsSo, Simply!Answers, Promise!Answers
  <2>4. Simply!Leaves(r) => Promise!Leaves(r)
    BY <1>1 DEF MapsSo, Simply!Leaves, Promise!Leaves
  <2> QED BY <2>1, <2>2, <2>3, <2>4
<1>3. ASSUME NEW S \in SUBSET {q \in Requests : phases[q] # "idle"}, Simply!End(S)
      PROVE  \E R \in SUBSET {q \in Requests : [p \in Requests |-> PhaseOf(p)][q] # "idle"} : Promise!End(R)
  <2> DEFINE now == [p \in Requests |-> PhaseOf(p)]
  <2>1. phases = now
    BY <1>1 DEF MapsSo
  <2>2. Promise!End(S)
    <3>1. /\ streamed' = streamed
          /\ phases' = [r \in Requests |-> IF r \in S THEN "over" ELSE phases[r]]
      BY <1>3 DEF Simply!End
    <3>2. [r \in Requests |-> IF r \in S THEN "over" ELSE phases[r]]
          = [r \in Requests |-> IF r \in S THEN "over" ELSE [p \in Requests |-> PhaseOf(p)][r]]
      BY <2>1
    <3> QED BY <1>1, <3>1, <3>2 DEF MapsSo, Promise!End
  <2>3. S \in SUBSET {q \in Requests : [p \in Requests |-> PhaseOf(p)][q] # "idle"}
    BY <2>1
  <2> QED BY <2>2, <2>3
<1>4. UNCHANGED Simply!vars <=> UNCHANGED Promise!vars
  BY <1>1 DEF MapsSo, Simply!vars, Promise!vars
<1>5. CASE Simply!Next
  BY <1>2, <1>3, <1>4, <1>5 DEF Simply!Next, Promise!Next
<1> QED BY <1>4, <1>5

\* The root starts as AgentStreams does.
LEMMA InitPromise == Init => Promise!Init
<1> SUFFICES ASSUME Init PROVE Promise!Init
  OBVIOUS
<1>1. \A r \in Requests : Phase(r) = "idle" /\ Tags(stream[r]) = <<>>
  BY DEF Init, Idle, Phase, Early, Tags
<1> QED BY <1>1, Mapped DEF MapsSo, phases, streamed, Promise!Init

\* A step that changes the stream of none.
LEMMA NoneChanges ==
  ASSUME \A q \in Requests : Phase(q)' = Phase(q) /\ stream'[q] = stream[q]
  PROVE  UNCHANGED Simply!vars
BY DEF phases, streamed, Simply!vars

\* One that changes the stream of one.
LEMMA OneChanges ==
  ASSUME NEW r \in Requests, \A q \in Requests \ {r} : Phase(q)' = Phase(q) /\ stream'[q] = stream[q]
  PROVE  /\ phases' = [phases EXCEPT ![r] = Phase(r)']
         /\ streamed' = [streamed EXCEPT ![r] = Tags(stream'[r])]
BY DEF phases, streamed

\* One more entry on a stream is one more tag.
LEMMA TagsAppend ==
  ASSUME NEW S, NEW s \in Seq(S), NEW e \in S
  PROVE  Tags(Append(s, e)) = Append(Tags(s), Tag(e))
<1> DEFINE T == {"response", "message"}
<1>1. /\ Append(s, e) \in Seq(S) /\ Len(Append(s, e)) = Len(s) + 1
      /\ \A i \in 1..Len(s) : Append(s, e)[i] = s[i]
      /\ Append(s, e)[Len(s) + 1] = e
  BY AppendProperties
<1>2. DOMAIN Append(s, e) = 1..(Len(s) + 1) /\ DOMAIN s = 1..Len(s) /\ Len(s) \in Nat
  BY <1>1, SeqDomain
<1>3. /\ Tags(s) \in Seq(T) /\ Len(Tags(s)) = Len(s)
      /\ \A i \in 1..Len(s) : Tags(s)[i] = Tag(s[i])
  <2>1. Tags(s) = [i \in 1..Len(s) |-> Tag(s[i])] /\ \A i \in 1..Len(s) : Tag(s[i]) \in T
    BY <1>2 DEF Tags, Tag
  <2> QED BY <1>2, <2>1, IsASeq
<1>4. /\ Append(Tags(s), Tag(e)) \in Seq(T)
      /\ Len(Append(Tags(s), Tag(e))) = Len(s) + 1
      /\ \A i \in 1..Len(s) : Append(Tags(s), Tag(e))[i] = Tag(s[i])
      /\ Append(Tags(s), Tag(e))[Len(s) + 1] = Tag(e)
  <2>1. Tag(e) \in T
    BY DEF Tag
  <2> QED BY <1>3, <2>1, AppendProperties
<1>5. /\ Tags(Append(s, e)) \in Seq(T) /\ Len(Tags(Append(s, e))) = Len(s) + 1
      /\ \A i \in 1..(Len(s) + 1) : Tags(Append(s, e))[i] = Tag(Append(s, e)[i])
  <2>1. /\ Tags(Append(s, e)) = [i \in 1..(Len(s) + 1) |-> Tag(Append(s, e)[i])]
        /\ \A i \in 1..(Len(s) + 1) : Tag(Append(s, e)[i]) \in T
        /\ Len(s) + 1 \in Nat
    BY <1>2 DEF Tags, Tag
  <2> QED BY <2>1, IsASeq
<1>6. \A i \in 1..(Len(s) + 1) : Tags(Append(s, e))[i] = Append(Tags(s), Tag(e))[i]
  <2>1. \A i \in 1..(Len(s) + 1) : i \in 1..Len(s) \/ i = Len(s) + 1
    BY <1>2
  <2> QED BY <1>1, <1>4, <1>5, <2>1
<1> QED BY <1>4, <1>5, <1>6, SeqEqual

\* A request that waited is answered.
LEMMA AnsweredMaps ==
  ASSUME RootInv, NEW q \in Requests, NEW k \in 0..N, Answered(q, k), q \in ToSet(order),
         UNCHANGED <<own, pump>>, \A r \in Requests : Early(r)' <=> Early(r)
  PROVE  Simply!Answers(q)
<1> USE DEF RootInv
<1> DEFINE E == {"answer", "own"} \X (0..N)
           e == <<"answer", k>>
<1>1. /\ stream'[q] = Append(stream[q], e) /\ q \notin ToSet(order')
      /\ \A r \in Requests \ {q} : stream'[r] = stream[r] /\ (r \in ToSet(order') <=> r \in ToSet(order))
  BY AnsweredDoes
<1>2. stream[q] \in Seq(E) /\ e \in E /\ e[1] = "answer" /\ Tag(e) = "response"
  BY DEF TypeOK, Tag
<1> HIDE DEF E, e
<1>3. Answers(q)' # {}
  BY <1>1, <1>2, AnswersGrow
<1>4. \A r \in Requests \ {q} : Phase(r)' = Phase(r)
  BY <1>1 DEF Phase, Held, Answers
<1>5. /\ phases' = [phases EXCEPT ![q] = Phase(q)']
      /\ streamed' = [streamed EXCEPT ![q] = Tags(stream'[q])]
  BY <1>1, <1>4, OneChanges
<1>6. Tags(stream'[q]) = Append(Tags(stream[q]), "response")
  <2>1. Tags(Append(stream[q], e)) = Append(Tags(stream[q]), Tag(e))
    BY <1>2, TagsAppend
  <2> QED BY <1>1, <1>2, <2>1
<1>7. ~Early(q) /\ Held(q) /\ Answers(q) = {}
  BY DEF Unanswered, UnansweredOf, Early, Held
<1>8. Phase(q) = "open" /\ Phase(q)' \in {"over", "answered"}
  BY <1>3, <1>7 DEF Phase
<1>9. streamed[q] = Tags(stream[q]) /\ phases[q] = "open"
  BY <1>8 DEF streamed, phases
<1> QED BY <1>5, <1>6, <1>8, <1>9 DEF Simply!Answers

\* A server's own request is put on the stream that was chosen for it.
LEMMA BearsMaps ==
  ASSUME RootInv, NEW q \in Requests, NEW k \in Members, BearsOf(q, k),
         \A r \in Requests : Early(r)' <=> Early(r), \A r \in Requests : Held(r)' => Held(r)
  PROVE  Simply!Bears(q)
<1> USE DEF RootInv, BearsOf
<1> DEFINE E == {"answer", "own"} \X (0..N)
           e == <<"own", k>>
<1>1. /\ stream'[q] = Append(stream[q], e)
      /\ \A r \in Requests \ {q} : stream'[r] = stream[r]
  BY DEF TypeOK
<1>2. stream[q] \in Seq(E) /\ e \in E /\ e[1] # "answer" /\ Tag(e) = "message"
  BY Names DEF TypeOK, Tag
<1> HIDE DEF E, e
<1>3. Answers(q)' = Answers(q)
  BY <1>1, <1>2, AnswersGrow
<1>4. \A r \in Requests \ {q} : Phase(r)' = Phase(r)
  <2> SUFFICES ASSUME NEW r \in Requests \ {q} PROVE Phase(r)' = Phase(r)
    OBVIOUS
  <2>1. Held(r) => Held(r)'
    <3>1. \A n \in Members : pump[n] = "placing" /\ own[n] = r => n # k
      OBVIOUS
    <3> QED BY <3>1 DEF Held
  <2> QED BY <1>1, <2>1 DEF Phase, Answers
<1>5. /\ phases' = [phases EXCEPT ![q] = Phase(q)']
      /\ streamed' = [streamed EXCEPT ![q] = Tags(stream'[q])]
  BY <1>1, <1>4, OneChanges
<1>6. Tags(stream'[q]) = Append(Tags(stream[q]), "message")
  <2>1. Tags(Append(stream[q], e)) = Append(Tags(stream[q]), Tag(e))
    BY <1>2, TagsAppend
  <2> QED BY <1>1, <1>2, <2>1
<1>7. ~Early(q) /\ Held(q)
  BY DEF Unanswered, UnansweredOf, Early, Held
<1>8. Phase(q) \in {"open", "answered"} /\ Phase(q)' \in {"over", Phase(q)}
  BY <1>3, <1>7 DEF Phase
<1>9. streamed[q] = Tags(stream[q]) /\ phases[q] = Phase(q)
  BY DEF streamed, phases
<1>10. phases' \in {phases, [phases EXCEPT ![q] = "over"]}
  BY <1>5, <1>8, <1>9 DEF phases
<1> QED BY <1>5, <1>6, <1>8, <1>9, <1>10 DEF Simply!Bears

\* The steps that are no request's own are steps of AgentStreams or none.
LEMMA OtherMaps ==
  ASSUME RootInv, OtherSteps
  PROVE  [Simply!Next]_(Simply!vars)
<1>1. \A r \in Requests : Early(r)' <=> Early(r)
  BY OtherTasks DEF SamePlace, Early
<1>2. CASE Untouched
  <2> DEFINE S == {q \in Requests : ~Early(q) /\ ~Held(q)'}
  <2>1. \A q \in Requests : Phase(q)' = IF q \in S THEN "over" ELSE Phase(q)
    BY <1>1, <1>2, OtherStreams DEF Phase, Untouched, Answers
  <2>2. S \subseteq {q \in Requests : phases[q] # "idle"}
    BY DEF phases, Phase
  <2>3. streamed' = streamed
    BY <1>2 DEF streamed, Untouched
  <2>4. phases' = [q \in Requests |-> IF q \in S THEN "over" ELSE phases[q]]
    BY <2>1 DEF phases
  <2> HIDE DEF S
  <2>5. Simply!End(S)
    BY <2>3, <2>4 DEF Simply!End
  <2> QED BY <2>2, <2>5 DEF Simply!Next
<1>3. CASE \E q \in Requests : \E k \in 0..N : AnsweredBy(q, k)
  <2>1. PICK q \in Requests, k \in 0..N : AnsweredBy(q, k)
    BY <1>3
  <2>2. Simply!Answers(q)
    BY <1>1, <2>1, AnsweredMaps DEF AnsweredBy
  <2> QED BY <2>2 DEF Simply!Next
<1>4. CASE \E q \in Requests : \E k \in Members : BearsOf(q, k)
  <2>1. PICK q \in Requests, k \in Members : BearsOf(q, k)
    BY <1>4
  <2>2. Simply!Bears(q)
    BY <1>1, <2>1, BearsMaps, OtherStreams
  <2> QED BY <2>2 DEF Simply!Next
<1> QED BY <1>2, <1>3, <1>4, OtherStreams

\* And those of requests.
LEMMA TaskMaps ==
  ASSUME RootInv, NEW r \in Requests, Post(r) \/ TaskSteps(r)
  PROVE  [Simply!Next]_(Simply!vars)
<1> USE DEF RootInv, streams, sent, lists, At
<1>1. UNCHANGED <<own, pump>>
  BY TaskLeaves DEF ends
<1>2. /\ task \in [Requests -> Tasks] /\ task[r] \in Tasks /\ order \in Seq(Requests)
      /\ \A q \in Requests \ {r} : task'[q] = task[q]
  BY TaskLeaves DEF TypeOK
<1>3. \A q \in Requests \ {r} : Early(q)' <=> Early(q)
  BY <1>2 DEF Early
<1>4. CASE PostRegisters(r)
  <2>1. /\ Early(r) /\ ~Early(r)' /\ order' = Append(order, r) /\ stream' = stream
    BY <1>2, <1>4 DEF PostRegisters, Go, Early, Tasks
  <2>2. ToSet(order') = ToSet(order) \union {r}
    BY <1>2, <2>1, Appended
  <2>3. stream[r] = <<>> /\ ~Held(r)
    BY <2>1 DEF Unanswered, UnansweredOf, Early
  <2>4. \A q \in Requests \ {r} : Phase(q)' = Phase(q)
    BY <1>1, <1>3, <2>1, <2>2 DEF Phase, Held, Answers
  <2>5. Phase(r) = "idle" /\ Phase(r)' = "open"
    BY <2>1, <2>2, <2>3 DEF Phase, Held, Answers
  <2>6. phases' = [phases EXCEPT ![r] = "open"] /\ phases[r] = "idle" /\ streamed' = streamed
    BY <2>1, <2>4, <2>5 DEF phases, streamed
  <2>7. Simply!Opens(r)
    BY <2>6 DEF Simply!Opens
  <2> QED BY <2>7 DEF Simply!Next
<1>5. ASSUME ~PostRegisters(r) PROVE Early(r)' <=> Early(r)
  <2>1. Post(r) => Early(r) /\ Early(r)'
    BY <1>2 DEF Post, Go, Early, Tasks
  <2>2. Early(r)' => Post(r)
    BY OwnPlace DEF Early
  <2>3. Early(r) => Post(r)
    BY <1>2, <1>5 DEF Parts, PartOk, TaskSteps, OwnSteps, SendReturns, Forwarding, ReadSteps, ListSteps, Reply,
          ForwardNamed, Note,
       Register, SendForwarded, SendFails, Unwait, Unnote, List, AllIn, ListDone, Look,
       EnsureListed,
       ThenTemplates, ListedDone, PassOver, Forget, Know, Ask, AskReturns, AskEnds, Go, Merged,
       Merging, Early
  <2> QED BY <2>1, <2>2, <2>3
<1>6. CASE Reply(r) /\ r \in ToSet(order)
  <2>1. ~PostRegisters(r)
    BY <1>6 DEF Reply, PostRegisters, Go
  <2>2. Simply!Answers(r)
    BY <1>1, <1>3, <1>5, <1>6, <2>1, AnsweredMaps, Names DEF Reply
  <2> QED BY <2>2 DEF Simply!Next
<1>7. CASE UNCHANGED <<order, stream>> /\ ~PostRegisters(r)
  <2>1. \A q \in Requests : Phase(q)' = Phase(q)
    BY <1>1, <1>3, <1>5, <1>7 DEF Phase, Held, Answers
  <2> QED BY <1>7, <2>1, NoneChanges
<1>8. UNCHANGED <<order, stream>> \/ PostRegisters(r) \/ (Reply(r) /\ r \in ToSet(order))
  <2>1. UNCHANGED <<order, stream>> \/ PostRegisters(r) \/ Reply(r)
    BY DEF TaskSteps, OwnSteps, SendReturns, Forwarding, ReadSteps, ListSteps, Post, ForwardNamed, Note,
       Register, SendForwarded, SendFails, Unwait, Unnote, List, AllIn, ListDone, Look,
       EnsureListed,
       ThenTemplates, ListedDone, PassOver, Forget, Know, Ask, AskReturns, AskEnds
  <2>2. Reply(r) /\ r \notin ToSet(order) => UNCHANGED <<order, stream>>
    BY AnsweredDoes, Names DEF Reply
  <2> QED BY <2>1, <2>2
<1> QED BY <1>4, <1>6, <1>7, <1>8

\* The root keeps the promise made to agents of their streams: whichever of a
\* send that fails, the end of a server and the server itself comes first, and
\* whatever a pump has yet to place, each step is a step of AgentStreams or none
\* (answer, server_said, member_down, forward, close).
THEOREM RootKeepsPromise == Spec => KeepsPromise
<1>1. RootInv /\ [Next]_<<vars, scene>> => [Promise!Next]_(Promise!vars)
  <2> SUFFICES ASSUME RootInv, [Next]_<<vars, scene>> PROVE [Simply!Next]_(Simply!vars)
    BY SimplyIsPromise
  <2>1. CASE Next
    <3>1. OtherSteps \/ \E r \in Requests : Post(r) \/ TaskSteps(r)
      BY <2>1 DEF Next, Steps, OtherSteps
    <3> QED BY <3>1, OtherMaps, TaskMaps
  <2>2. CASE UNCHANGED <<vars, scene>>
    BY <2>2, NoneChanges DEF vars, streams, ends, Phase, Early, Held, Answers
  <2> QED BY <2>1, <2>2
<1> QED BY <1>1, InitPromise, RootInvariant, PTL DEF Spec, KeepsPromise, Promise!Spec
=============================================================================
