----------------------------- MODULE RelayProofs ------------------------------
(***************************************************************************)
(* What is proved of Relay for any posts, streams, messages, capacities    *)
(* and callers of close: its types (RelayInvariant), that it implements    *)
(* AgentStreams (RelayKeepsPromise), and that nothing the server says on its*)
(* own is lost out of sight or told twice (RelayConserved).                *)
(***************************************************************************)
EXTENDS Relay, SequenceTheorems, FiniteSetTheorems, TLAPS

\* The domain and the elements of a sequence over S.
LEMMA SeqDomain == ASSUME NEW S, NEW s \in Seq(S)
  PROVE DOMAIN s = 1..Len(s) /\ Len(s) \in Nat /\ \A i \in 1..Len(s) : s[i] \in S
BY LenProperties, ElementOfSeq

\* What a sequence over S holds is of S.
LEMMA ElementsIn == ASSUME NEW S, NEW s \in Seq(S)
  PROVE Elements(s) \subseteq S
BY SeqDomain DEF Elements

\* Appending adds one element.
LEMMA ElementsAppend ==
  ASSUME NEW S, NEW s \in Seq(S), NEW x \in S
  PROVE  Append(s, x) \in Seq(S) /\ Elements(Append(s, x)) = Elements(s) \cup {x}
<1>1. /\ Append(s, x) \in Seq(S) /\ Len(Append(s, x)) = Len(s) + 1
      /\ \A i \in 1..Len(s) : Append(s, x)[i] = s[i]
      /\ Append(s, x)[Len(s) + 1] = x
  BY AppendProperties
<1>2. DOMAIN Append(s, x) = 1..(Len(s) + 1) /\ DOMAIN s = 1..Len(s) /\ Len(s) \in Nat
  BY <1>1, SeqDomain
<1>3. 1..(Len(s) + 1) = (1..Len(s)) \cup {Len(s) + 1}
  BY <1>2
<1> QED BY <1>1, <1>2, <1>3 DEF Elements

\* Taking the head off a sequence leaves the rest.
LEMMA ElementsTail ==
  ASSUME NEW S, NEW s \in Seq(S), s # <<>>
  PROVE  /\ Tail(s) \in Seq(S) /\ Head(s) \in S
         /\ Elements(s) = {Head(s)} \cup Elements(Tail(s))
         /\ Len(Tail(s)) = Len(s) - 1
         /\ \A i \in 1..(Len(s) - 1) : Tail(s)[i] = s[i + 1]
<1>1. /\ Tail(s) \in Seq(S) /\ Head(s) \in S /\ Len(Tail(s)) = Len(s) - 1
      /\ \A i \in 1..(Len(s) - 1) : Tail(s)[i] = s[i + 1]
      /\ Head(s) = s[1] /\ Len(s) >= 1
  BY HeadTailProperties, LenProperties, EmptySeq
<1>2. DOMAIN Tail(s) = 1..(Len(s) - 1) /\ DOMAIN s = 1..Len(s) /\ Len(s) \in Nat
  BY <1>1, SeqDomain
<1>4. \A i \in 1..(Len(s) - 1) : i + 1 \in 1..Len(s)
  BY <1>2
<1>5. Elements(s) \subseteq {Head(s)} \cup Elements(Tail(s))
  <2>1. ASSUME NEW i \in 1..Len(s) PROVE s[i] \in {Head(s)} \cup Elements(Tail(s))
    <3>1. CASE i = 1
      BY <1>1, <3>1
    <3>2. CASE i # 1
      <4>1. i - 1 \in 1..(Len(s) - 1) /\ (i - 1) + 1 = i
        BY <1>2, <3>2
      <4>2. Tail(s)[i - 1] = s[i]
        BY <1>1, <4>1
      <4> QED BY <1>2, <4>1, <4>2 DEF Elements
    <3> QED BY <3>1, <3>2
  <2> QED BY <1>2, <2>1 DEF Elements
<1>6. {Head(s)} \cup Elements(Tail(s)) \subseteq Elements(s)
  BY <1>1, <1>2, <1>4 DEF Elements
<1> QED BY <1>1, <1>5, <1>6

\* Two sequences put together hold what both hold.
LEMMA ElementsConcat ==
  ASSUME NEW S, NEW s \in Seq(S), NEW t \in Seq(S)
  PROVE  s \o t \in Seq(S) /\ Elements(s \o t) = Elements(s) \cup Elements(t)
<1>1. /\ s \o t \in Seq(S) /\ Len(s \o t) = Len(s) + Len(t)
      /\ \A i \in 1..(Len(s) + Len(t)) : (s \o t)[i] = IF i <= Len(s) THEN s[i] ELSE t[i - Len(s)]
  BY ConcatProperties
<1>2. /\ DOMAIN (s \o t) = 1..(Len(s) + Len(t)) /\ DOMAIN s = 1..Len(s) /\ DOMAIN t = 1..Len(t)
      /\ Len(s) \in Nat /\ Len(t) \in Nat
  BY <1>1, SeqDomain
<1>3. Elements(s \o t) \subseteq Elements(s) \cup Elements(t)
  <2>1. ASSUME NEW i \in 1..(Len(s) + Len(t))
        PROVE  (s \o t)[i] \in Elements(s) \cup Elements(t)
    <3>1. CASE i <= Len(s)
      BY <1>1, <1>2, <3>1 DEF Elements
    <3>2. CASE ~(i <= Len(s))
      <4>1. i - Len(s) \in 1..Len(t) BY <1>2, <3>2
      <4> QED BY <1>1, <1>2, <3>2, <4>1 DEF Elements
    <3> QED BY <3>1, <3>2
  <2> QED BY <1>2, <2>1 DEF Elements
<1>4. Elements(s) \subseteq Elements(s \o t)
  BY <1>1, <1>2 DEF Elements
<1>5. Elements(t) \subseteq Elements(s \o t)
  <2>1. ASSUME NEW i \in 1..Len(t) PROVE t[i] = (s \o t)[i + Len(s)] /\ i + Len(s) \in 1..(Len(s) + Len(t))
    <3>1. i + Len(s) \in 1..(Len(s) + Len(t)) /\ ~(i + Len(s) <= Len(s)) /\ (i + Len(s)) - Len(s) = i
      BY <1>2
    <3> QED BY <1>1, <3>1
  <2> QED BY <1>2, <2>1 DEF Elements
<1> QED BY <1>1, <1>3, <1>4, <1>5

TakenOut(s, i) == SubSeq(s, 1, i - 1) \o SubSeq(s, i + 1, Len(s))

\* Taking one place out of a sequence.
LEMMA OneLess ==
  ASSUME NEW S, NEW s \in Seq(S), NEW i \in 1..Len(s)
  PROVE  /\ TakenOut(s, i) \in Seq(S) /\ Len(TakenOut(s, i)) = Len(s) - 1
         /\ \A j \in 1..(Len(s) - 1) : TakenOut(s, i)[j] = IF j < i THEN s[j] ELSE s[j + 1]
<1> DEFINE a == SubSeq(s, 1, i - 1)
           b == SubSeq(s, i + 1, Len(s))
<1>1. /\ Len(s) \in Nat /\ i \in Nat /\ i >= 1 /\ i <= Len(s)
      /\ \A j \in 1..Len(s) : s[j] \in S
  BY SeqDomain
<1>2. a \in Seq(S) /\ Len(a) = i - 1 /\ \A j \in 1..(i - 1) : a[j] = s[j]
  BY <1>1, SubSeqProperties
<1>3. /\ b \in Seq(S) /\ Len(b) = IF i + 1 <= Len(s) THEN Len(s) - (i + 1) + 1 ELSE 0
      /\ \A j \in 1..(Len(s) - (i + 1) + 1) : b[j] = s[(i + 1) + j - 1]
  <2>1. i + 1 \in Int /\ Len(s) \in Int /\ \A j \in (i + 1)..Len(s) : s[j] \in S
    BY <1>1
  <2> QED BY <2>1, SubSeqProperties
<1>4. Len(b) = Len(s) - i
  BY <1>1, <1>3
<1>5. /\ a \o b \in Seq(S) /\ Len(a \o b) = Len(a) + Len(b)
      /\ \A j \in 1..(Len(a) + Len(b)) : (a \o b)[j] = IF j <= Len(a) THEN a[j] ELSE b[j - Len(a)]
  BY <1>2, <1>3, ConcatProperties
<1> HIDE DEF a, b
<1>6. Len(a) + Len(b) = Len(s) - 1
  BY <1>1, <1>2, <1>4
<1>7. ASSUME NEW j \in 1..(Len(s) - 1)
      PROVE  (a \o b)[j] = IF j < i THEN s[j] ELSE s[j + 1]
  <2>1. CASE j < i
    BY <1>1, <1>2, <1>5, <1>6, <2>1
  <2>2. CASE ~(j < i)
    <3>1. /\ j - Len(a) \in 1..(Len(s) - (i + 1) + 1) /\ ~(j <= Len(a))
          /\ (i + 1) + (j - Len(a)) - 1 = j + 1
      BY <1>1, <1>2, <2>2
    <3>2. b[j - Len(a)] = s[j + 1]
      BY <1>3, <3>1
    <3> QED BY <1>5, <1>6, <2>2, <3>1, <3>2
  <2> QED BY <2>1, <2>2
<1> QED BY <1>5, <1>6, <1>7 DEF a, b, TakenOut

\* Retaining all but one post keeps the others, each once.
LEMMA DistinctWithout ==
  ASSUME NEW S, NEW s \in Seq(S), Distinct(s), NEW x
  PROVE  /\ Without(s, x) \in Seq(S) /\ Distinct(Without(s, x))
         /\ Elements(Without(s, x)) = Elements(s) \ {x}
<1>1. CASE x \notin Elements(s)
  BY <1>1 DEF Without
<1>2. CASE x \in Elements(s)
  <2> DEFINE i == CHOOSE i \in DOMAIN s : s[i] = x
  <2>1. i \in 1..Len(s) /\ s[i] = x /\ Len(s) \in Nat /\ DOMAIN s = 1..Len(s)
    BY <1>2, SeqDomain DEF Elements
  <2>2. Without(s, x) = TakenOut(s, i)
    BY <1>2 DEF Without, TakenOut
  <2> HIDE DEF i
  <2>5. /\ Without(s, x) \in Seq(S) /\ Len(Without(s, x)) = Len(s) - 1
        /\ \A j \in 1..(Len(s) - 1) : Without(s, x)[j] = IF j < i THEN s[j] ELSE s[j + 1]
    BY <2>1, <2>2, OneLess
  <2>6. DOMAIN Without(s, x) = 1..(Len(s) - 1)
    BY <2>5, SeqDomain
  <2>7. Distinct(Without(s, x))
    <3> DEFINE at(j) == IF j < i THEN j ELSE j + 1
    <3>1. \A j \in 1..(Len(s) - 1) : at(j) \in 1..Len(s) /\ Without(s, x)[j] = s[at(j)]
      BY <2>1, <2>5
    <3>2. \A j, k \in 1..(Len(s) - 1) : at(j) = at(k) => j = k
      BY <2>1
    <3> HIDE DEF at
    <3>3. \A j, k \in 1..Len(s) : s[j] = s[k] => j = k
      BY <2>1 DEF Distinct
    <3> QED BY <2>6, <3>1, <3>2, <3>3 DEF Distinct
  <2>8. Elements(Without(s, x)) \subseteq Elements(s) \ {x}
    <3>1. \A j \in 1..(Len(s) - 1) : \E k \in 1..Len(s) : k # i /\ Without(s, x)[j] = s[k]
      BY <2>1, <2>5
    <3> QED BY <2>1, <2>6, <3>1 DEF Elements, Distinct
  <2>9. Elements(s) \ {x} \subseteq Elements(Without(s, x))
    <3>1. ASSUME NEW k \in 1..Len(s), k # i
          PROVE  \E j \in 1..(Len(s) - 1) : Without(s, x)[j] = s[k]
      <4>1. CASE k < i
        BY <2>1, <2>5, <4>1
      <4>2. CASE k > i
        <5>1. k - 1 \in 1..(Len(s) - 1) /\ ~(k - 1 < i) /\ (k - 1) + 1 = k
          BY <2>1, <4>2
        <5> QED BY <2>5, <5>1
      <4> QED BY <2>1, <3>1, <4>1, <4>2
    <3> QED BY <2>1, <2>6, <3>1 DEF Elements
  <2> QED BY <2>5, <2>7, <2>8, <2>9
<1> QED BY <1>1, <1>2

\* A message read moves from the head of a channel to the end of what was
\* received: what was delivered there stays the same.
LEMMA Reading ==
  ASSUME NEW S, NEW g \in Seq(S), NEW s \in Seq(S), s # <<>>
  PROVE  Append(g, Head(s)) \o Tail(s) = g \o s
<1>1. /\ Tail(s) \in Seq(S) /\ Head(s) \in S /\ Len(Tail(s)) = Len(s) - 1
      /\ \A i \in 1..(Len(s) - 1) : Tail(s)[i] = s[i + 1]
      /\ Head(s) = s[1] /\ Len(s) >= 1
  BY HeadTailProperties, LenProperties, EmptySeq
<1>2. /\ Append(g, Head(s)) \in Seq(S) /\ Len(Append(g, Head(s))) = Len(g) + 1
      /\ \A i \in 1..Len(g) : Append(g, Head(s))[i] = g[i]
      /\ Append(g, Head(s))[Len(g) + 1] = Head(s)
  BY <1>1, AppendProperties
<1>3. Len(g) \in Nat /\ Len(s) \in Nat
  BY LenProperties
<1>4. Append(g, Head(s)) \o Tail(s) \in Seq(S) /\ g \o s \in Seq(S)
      /\ Len(Append(g, Head(s)) \o Tail(s)) = Len(g) + Len(s) /\ Len(g \o s) = Len(g) + Len(s)
  BY <1>1, <1>2, <1>3, ConcatProperties
<1>5. ASSUME NEW i \in 1..(Len(g) + Len(s))
      PROVE  (Append(g, Head(s)) \o Tail(s))[i] = (g \o s)[i]
  BY <1>1, <1>2, <1>3, ConcatProperties
<1> QED BY <1>4, <1>5, SeqEqual

\* A message put last in a channel is last of what is delivered there.
LEMMA AppendLast ==
  ASSUME NEW S, NEW g \in Seq(S), NEW s \in Seq(S), NEW x \in S
  PROVE  g \o Append(s, x) = Append(g \o s, x)
BY AppendIsConcat, ConcatAssociative, ConcatProperties

\* The empty sequence holds nothing.
LEMMA ElementsEmpty == Elements(<<>>) = {}
BY DEF Elements

\* Where the elements of two sequences are once they are put together.
LEMMA ConcatAt ==
  ASSUME NEW S, NEW g \in Seq(S), NEW s \in Seq(S)
  PROVE  /\ \A i \in 1..Len(g) : i \in DOMAIN (g \o s) /\ (g \o s)[i] = g[i]
         /\ \A j \in 1..Len(s) : /\ Len(g) + j \in DOMAIN (g \o s)
                                 /\ (g \o s)[Len(g) + j] = s[j]
                                 /\ Len(g) + j \notin 1..Len(g)
         /\ \A i \in DOMAIN (g \o s) : i \in 1..Len(g) \/ \E j \in 1..Len(s) : i = Len(g) + j
<1>1. /\ g \o s \in Seq(S) /\ Len(g \o s) = Len(g) + Len(s)
      /\ \A i \in 1..(Len(g) + Len(s)) : (g \o s)[i] = IF i <= Len(g) THEN g[i] ELSE s[i - Len(g)]
  BY ConcatProperties
<1>2. DOMAIN (g \o s) = 1..(Len(g) + Len(s)) /\ Len(g) \in Nat /\ Len(s) \in Nat
  BY <1>1, SeqDomain
<1>3. ASSUME NEW j \in 1..Len(s)
      PROVE  /\ Len(g) + j \in DOMAIN (g \o s) /\ (g \o s)[Len(g) + j] = s[j]
             /\ Len(g) + j \notin 1..Len(g)
  <2>1. /\ Len(g) + j \in 1..(Len(g) + Len(s)) /\ ~(Len(g) + j <= Len(g))
        /\ (Len(g) + j) - Len(g) = j
    BY <1>2
  <2> QED BY <1>1, <1>2, <2>1
<1>4. ASSUME NEW i \in DOMAIN (g \o s), i \notin 1..Len(g)
      PROVE  \E j \in 1..Len(s) : i = Len(g) + j
  <2>1. i - Len(g) \in 1..Len(s) /\ i = Len(g) + (i - Len(g))
    BY <1>2, <1>4
  <2> QED BY <2>1
<1> QED BY <1>1, <1>2, <1>3, <1>4

\* A post that is not waiting yet is put last and waits once.
LEMMA DistinctAppend ==
  ASSUME NEW S, NEW s \in Seq(S), Distinct(s), NEW x \in S, x \notin Elements(s)
  PROVE  Distinct(Append(s, x))
<1>1. /\ Len(Append(s, x)) = Len(s) + 1 /\ Append(s, x) \in Seq(S)
      /\ \A i \in 1..Len(s) : Append(s, x)[i] = s[i]
      /\ Append(s, x)[Len(s) + 1] = x
  BY AppendProperties
<1>2. DOMAIN Append(s, x) = 1..(Len(s) + 1) /\ DOMAIN s = 1..Len(s) /\ Len(s) \in Nat
  BY <1>1, SeqDomain
<1>3. \A i \in 1..(Len(s) + 1) : i \in 1..Len(s) \/ i = Len(s) + 1
  BY <1>2
<1>4. \A i \in 1..Len(s) : Append(s, x)[i] # x
  BY <1>1, <1>2 DEF Elements
<1> QED BY <1>1, <1>2, <1>3, <1>4 DEF Distinct

-----------------------------------------------------------------------------
(* What the pump, the posts and the server's answers keep to.              *)

\* What the pump carries and where to, at each of its places.
PumpCarries ==
  /\ pump \in {"receiving", "closing", "stopped"} => message = None
  /\ pump \in {"routing", "answering", "telling", "keeping"} => message \in Messages
  /\ pump \in {"receiving", "routing", "closing", "stopped"} => target = None
  /\ pump \in {"answering", "telling"} => target \in Channels
  /\ pump = "answering" => target = message /\ message \notin Elements(order)
  /\ pump = "telling" /\ message \in Posts => target # message
  /\ pump = "telling" => rx[target] \in {"open", "left"}
  /\ pump \in {"telling", "keeping"} /\ message \in Posts => ended
  /\ pump = "keeping" /\ target # None => rx[target] = "left"

\* What a stream bears, read or not.
Has(ch) == Elements(got[ch]) \cup Elements(chan[ch])

Waits(p) == p \in Elements(order) \/ p = target

\* A request's stream exists once it waits, and it waits until it is answered.
PostWaiting ==
  \A p \in Posts :
    /\ rx[p] # "found"
    /\ rx[p] = "none" <=> poster[p] \in {"idle", "checked"}
    /\ rx[p] = "none" => got[p] = <<>> /\ chan[p] = <<>>
    /\ Waits(p) => rx[p] # "none" /\ p \notin Has(p)
    /\ poster[p] = "sending" => p \in Elements(order) \/ ended

\* The server answers a request once, when it has it; an answer on its way
\* finds the request waiting unless the connection has ended.
AnsweredOnce ==
  /\ \A p \in Posts :
       /\ p \in asked => p \notin Elements(incoming) /\ message # p
       /\ p \in Elements(incoming) => message # p
       /\ poster[p] \in {"idle", "checked", "sending"} =>
            p \notin asked /\ p \notin Elements(incoming) /\ message # p
       /\ p \in asked \/ p \in Elements(incoming) \/ (pump = "routing" /\ message = p)
            => p \in Elements(order) \/ ended
  /\ \A i, j \in DOMAIN incoming : incoming[i] = incoming[j] /\ incoming[i] \in Posts => i = j

\* Nothing strays: a stream bears its own answer and the server's messages.
NoneAstray ==
  \A p \in Posts : \A m \in Has(p) : m = p \/ m \in Notes \/ ended

ClosedEnds == \A k \in DOMAIN closer : closer[k] \in {"cancelled", "down"} => ended

RelayInv ==
  TypeOK /\ PumpCarries /\ PostWaiting /\ AnsweredOnce /\ NoneAstray /\ ClosedEnds

\* The relay starts in order.
LEMMA InitRelay == Init => RelayInv
<1> SUFFICES ASSUME Init PROVE RelayInv
  OBVIOUS
<1>1. TypeOK
  <2>1. <<>> \in Seq(Posts) /\ <<>> \in Seq(Messages) /\ Len(<<>>) = 0 /\ DOMAIN <<>> = {}
    BY EmptySeq
  <2>2. Backlog \in Nat /\ Capacity \in Nat
    BY RelayAssumption
  <2>3. chan \in [Channels -> Seq(Messages)] /\ \A ch \in Channels : Len(chan[ch]) <= Capacity
    BY <2>1, <2>2 DEF Init
  <2>4. /\ incoming \in Seq(Messages) /\ order \in Seq(Posts) /\ Distinct(order)
        /\ backlog \in Seq(Messages) /\ Len(backlog) <= Backlog
        /\ got \in [Channels -> Seq(Messages)]
    BY <2>1, <2>2 DEF Init, Distinct
  <2> QED BY <2>3, <2>4 DEF Init, TypeOK
<1>2. Elements(<<>>) = {}
  BY DEF Elements
<1>3. PumpCarries /\ PostWaiting /\ AnsweredOnce /\ NoneAstray /\ ClosedEnds
  BY <1>2, RelayAssumption DEF Init, PumpCarries, PostWaiting, AnsweredOnce, NoneAstray, ClosedEnds,
     Waits, Has, Channels, Messages
<1> QED BY <1>1, <1>3 DEF RelayInv

\* A request or an answer of an agent keeps the relay in order.
LEMMA PostStep ==
  ASSUME RelayInv, NEW p \in Posts, Agent(p)
  PROVE  RelayInv'
<1> USE DEF RelayInv, server, state, channels, pumping, closing
<1>1. CASE PostChecks(p)
  <2>1. TypeOK' /\ PumpCarries' /\ ClosedEnds' /\ NoneAstray'
    BY <1>1 DEF PostChecks, TypeOK, PumpCarries, NoneAstray, ClosedEnds, Has
  <2>2. poster[p] = "idle" /\ poster' = [poster EXCEPT ![p] = "checked"]
    BY <1>1 DEF PostChecks, Fresh, Unposted
  <2>3. PostWaiting' /\ AnsweredOnce'
    BY <1>1, <2>2 DEF PostChecks, TypeOK, PostWaiting, AnsweredOnce, Waits, Has
  <2> QED BY <2>1, <2>3
<1>2. CASE PostWaits(p)
  <2>1. /\ order' \in Seq(Posts) /\ Distinct(order') /\ Elements(order') = Elements(order) \cup {p}
    <3>1. /\ Without(order, p) \in Seq(Posts) /\ Distinct(Without(order, p))
          /\ Elements(Without(order, p)) = Elements(order) \ {p}
      BY DistinctWithout DEF TypeOK
    <3>2. /\ Append(Without(order, p), p) \in Seq(Posts) /\ Distinct(Append(Without(order, p), p))
          /\ Elements(Append(Without(order, p), p)) = (Elements(order) \ {p}) \cup {p}
      BY <3>1, ElementsAppend, DistinctAppend
    <3> QED BY <1>2, <3>2 DEF PostWaits
  <2>2. TypeOK'
    BY <1>2, <2>1 DEF PostWaits, TypeOK, Channels
  <2>3. PumpCarries'
    BY <1>2, <2>1 DEF PostWaits, TypeOK, PumpCarries, PostWaiting, Waits, Channels
  <2>4. PostWaiting'
    <3>1. /\ rx[p] = "none" /\ Has(p) = {} /\ rx' = [rx EXCEPT ![p] = "open"]
          /\ poster' = [poster EXCEPT ![p] = "sending"] /\ UNCHANGED <<got, chan, target, ended>>
      BY <1>2, ElementsEmpty DEF PostWaits, PostWaiting, Has
    <3>2. \A q \in Posts \ {p} : rx'[q] = rx[q] /\ poster'[q] = poster[q] /\ (Waits(q)' <=> Waits(q))
      BY <2>1, <3>1 DEF TypeOK, Waits, Channels
    <3>3. rx'[p] = "open" /\ poster'[p] = "sending" /\ p \in Elements(order')
      BY <2>1, <3>1 DEF TypeOK, Channels
    <3>4. \A q \in Posts \ {p} : Has(q)' = Has(q) /\ got'[q] = got[q] /\ chan'[q] = chan[q]
      BY <3>1 DEF Has
    <3>5. Has(p)' = {}
      BY <3>1 DEF Has
    <3>6. ASSUME NEW q \in Posts
          PROVE  /\ rx'[q] # "found"
                 /\ rx'[q] = "none" <=> poster'[q] \in {"idle", "checked"}
                 /\ rx'[q] = "none" => got'[q] = <<>> /\ chan'[q] = <<>>
                 /\ Waits(q)' => rx'[q] # "none" /\ q \notin Has(q)'
                 /\ poster'[q] = "sending" => q \in Elements(order') \/ ended'
      <4>1. CASE q = p
        BY <3>3, <3>5, <4>1
      <4>2. CASE q # p
        BY <2>1, <3>1, <3>2, <3>4, <4>2 DEF PostWaiting
      <4> QED BY <4>1, <4>2
    <3> QED BY <3>6 DEF PostWaiting
  <2>5. AnsweredOnce' /\ NoneAstray' /\ ClosedEnds'
    BY <1>2, <2>1 DEF PostWaits, TypeOK, AnsweredOnce, NoneAstray, ClosedEnds, Has, Channels
  <2> QED BY <2>2, <2>3, <2>4, <2>5
<1>3. CASE PostSent(p)
  <2>1. TypeOK' /\ PumpCarries'
    BY <1>3 DEF PostSent, TypeOK, PumpCarries
  <2>2. PostWaiting' /\ NoneAstray' /\ ClosedEnds'
    BY <1>3 DEF PostSent, TypeOK, PostWaiting, NoneAstray, ClosedEnds, Waits, Has
  <2>3. AnsweredOnce'
    BY <1>3 DEF PostSent, TypeOK, AnsweredOnce, PostWaiting
  <2> QED BY <2>1, <2>2, <2>3
<1>4. CASE PostReturns(p)
  BY <1>4 DEF PostReturns, TypeOK, PumpCarries, PostWaiting, AnsweredOnce, NoneAstray, ClosedEnds, Waits, Has
<1>5. CASE PostFails(p)
  <2>1. order' \in Seq(Posts) /\ Distinct(order') /\ Elements(order') = Elements(order) \ {p}
    BY <1>5, DistinctWithout DEF PostFails, TypeOK
  <2>2. TypeOK'
    BY <1>5, <2>1, ElementsIn, EmptySeq, RelayAssumption DEF PostFails, TypeOK, Channels
  <2>3. PumpCarries'
    BY <1>5, <2>1 DEF PostFails, TypeOK, PumpCarries, Channels
  <2>4. PostWaiting' /\ NoneAstray'
    BY <1>5, <2>1, ElementsEmpty DEF PostFails, TypeOK, PostWaiting, NoneAstray, Waits, Has, Channels
  <2>5. AnsweredOnce' /\ ClosedEnds'
    BY <1>5, <2>1 DEF PostFails, TypeOK, AnsweredOnce, ClosedEnds
  <2> QED BY <2>2, <2>3, <2>4, <2>5
<1> QED BY <1>1, <1>2, <1>3, <1>4, <1>5 DEF Agent

\* An agent's stream opening, read or left keeps the relay in order.
LEMMA StreamStep ==
  ASSUME RelayInv,
         \/ \E s \in Streams : ListenFinds(s) \/ Listen(s)
         \/ \E ch \in Channels : AgentReads(ch) \/ AgentLeaves(ch)
  PROVE  RelayInv'
<1> USE DEF RelayInv, server, state, channels, pumping, closing
<1>1. ASSUME NEW s \in Streams, ListenFinds(s) PROVE RelayInv'
  <2>1. s \in Channels /\ s \notin Posts
    BY RelayAssumption DEF Channels
  <2>2. TypeOK' /\ PumpCarries'
    BY <1>1, <2>1 DEF ListenFinds, TypeOK, PumpCarries
  <2>3. PostWaiting' /\ AnsweredOnce' /\ NoneAstray' /\ ClosedEnds'
    BY <1>1, <2>1 DEF ListenFinds, TypeOK, PostWaiting, AnsweredOnce, NoneAstray, ClosedEnds, Waits, Has
  <2> QED BY <2>2, <2>3
<1>2. ASSUME NEW s \in Streams, Listen(s) PROVE RelayInv'
  <2>1. s \in Channels /\ s \notin Posts
    BY RelayAssumption DEF Channels
  <2>2. /\ Drained \in Seq(Messages) /\ Len(Drained) <= Capacity
        /\ SubSeq(backlog, Len(Drained) + 1, Len(backlog)) \in Seq(Messages)
        /\ Len(SubSeq(backlog, Len(Drained) + 1, Len(backlog))) <= Backlog
    <3>1. /\ backlog \in Seq(Messages) /\ Len(backlog) <= Backlog /\ Len(backlog) \in Nat
          /\ Backlog <= Capacity /\ Backlog \in Nat /\ Capacity \in Nat
      BY RelayAssumption, SeqDomain DEF TypeOK
    <3>2. Drained = SubSeq(backlog, 1, Len(backlog))
      BY <3>1 DEF Drained
    <3>3. Drained = backlog
      BY <3>1, <3>2, SubSeqFull
    <3>4. SubSeq(backlog, Len(backlog) + 1, Len(backlog)) = <<>>
      BY <3>1, SubSeqEmpty
    <3>5. <<>> \in Seq(Messages) /\ Len(<<>>) = 0
      BY EmptySeq
    <3> QED BY <3>1, <3>3, <3>4, <3>5
  <2>3. TypeOK'
    BY <1>2, <2>1, <2>2 DEF Listen, TypeOK
  <2>4. PumpCarries'
    BY <1>2, <2>1 DEF Listen, TypeOK, PumpCarries
  <2>5. PostWaiting' /\ NoneAstray'
    <3>1. \A q \in Posts : rx'[q] = rx[q] /\ chan'[q] = chan[q] /\ q \in Channels
      BY <1>2, <2>1 DEF Listen, TypeOK, Channels
    <3>2. UNCHANGED <<got, order, target, poster, ended>>
      BY <1>2 DEF Listen
    <3> QED BY <3>1, <3>2 DEF PostWaiting, NoneAstray, Waits, Has
  <2>6. AnsweredOnce' /\ ClosedEnds'
    BY <1>2, <2>1 DEF Listen, TypeOK, AnsweredOnce, ClosedEnds
  <2> QED BY <2>3, <2>4, <2>5, <2>6
<1>3. ASSUME NEW ch \in Channels, AgentReads(ch) PROVE RelayInv'
  <2>1. /\ chan[ch] \in Seq(Messages) /\ got[ch] \in Seq(Messages) /\ chan[ch] # <<>>
        /\ Tail(chan[ch]) \in Seq(Messages) /\ Head(chan[ch]) \in Messages
        /\ Len(Tail(chan[ch])) <= Capacity
        /\ Append(got[ch], Head(chan[ch])) \in Seq(Messages)
        /\ Elements(Append(got[ch], Head(chan[ch]))) = Elements(got[ch]) \cup {Head(chan[ch])}
        /\ Elements(chan[ch]) = {Head(chan[ch])} \cup Elements(Tail(chan[ch]))
    <3>1. /\ chan[ch] \in Seq(Messages) /\ got[ch] \in Seq(Messages)
          /\ chan[ch] # <<>> /\ Len(chan[ch]) <= Capacity
      BY <1>3 DEF AgentReads, TypeOK
    <3>2. /\ Tail(chan[ch]) \in Seq(Messages) /\ Head(chan[ch]) \in Messages
          /\ Len(Tail(chan[ch])) = Len(chan[ch]) - 1 /\ Len(chan[ch]) \in Nat
          /\ Elements(chan[ch]) = {Head(chan[ch])} \cup Elements(Tail(chan[ch]))
      BY <3>1, ElementsTail, SeqDomain
    <3> QED BY <3>1, <3>2, ElementsAppend, RelayAssumption
  <2>2. TypeOK'
    BY <1>3, <2>1 DEF AgentReads, TypeOK
  <2>3. \A c \in Channels : Has(c)' = Has(c)
    BY <1>3, <2>1 DEF AgentReads, TypeOK, Has
  <2>4. PumpCarries' /\ AnsweredOnce' /\ NoneAstray' /\ ClosedEnds'
    BY <1>3, <2>3 DEF AgentReads, TypeOK, PumpCarries, AnsweredOnce, NoneAstray, ClosedEnds, Channels
  <2>5. PostWaiting'
    BY <1>3, <2>3 DEF AgentReads, TypeOK, PostWaiting, Waits, Channels
  <2> QED BY <2>2, <2>4, <2>5
<1>4. ASSUME NEW ch \in Channels, AgentLeaves(ch) PROVE RelayInv'
  <2>1. TypeOK'
    BY <1>4, ElementsIn, EmptySeq, RelayAssumption DEF AgentLeaves, TypeOK
  <2>2. PumpCarries' /\ AnsweredOnce' /\ ClosedEnds'
    BY <1>4 DEF AgentLeaves, TypeOK, PumpCarries, AnsweredOnce, ClosedEnds
  <2>3. PostWaiting' /\ NoneAstray'
    BY <1>4, ElementsEmpty DEF AgentLeaves, TypeOK, PostWaiting, NoneAstray, Waits, Has, Channels
  <2> QED BY <2>1, <2>2, <2>3
<1> QED BY <1>1, <1>2, <1>3, <1>4

\* What the server says keeps the relay in order.
LEMMA ServerStep ==
  ASSUME RelayInv,
         \/ \E p \in Posts : ServerAnswers(p)
         \/ \E n \in Notes : ServerSays(n)
         \/ ServerEnds
  PROVE  RelayInv'
<1> USE DEF RelayInv, server, state, channels, pumping, closing
<1>1. ASSUME NEW m \in Messages, incoming' = Append(incoming, m), m \notin Elements(incoming),
             UNCHANGED <<message, poster, pump, order, ended>>,
             m \in Posts => m \in asked /\ asked' = asked \ {m},
             m \notin Posts => asked' = asked
      PROVE  AnsweredOnce' /\ incoming' \in Seq(Messages)
  <2>1. incoming' \in Seq(Messages) /\ Elements(incoming') = Elements(incoming) \cup {m}
    BY <1>1, ElementsAppend DEF TypeOK
  <2>2. /\ Len(incoming) \in Nat /\ DOMAIN incoming = 1..Len(incoming)
        /\ DOMAIN incoming' = 1..(Len(incoming) + 1)
        /\ \A i \in 1..Len(incoming) : incoming'[i] = incoming[i] /\ incoming'[i] # m
        /\ incoming'[Len(incoming) + 1] = m
    BY <1>1, <2>1, AppendProperties, SeqDomain DEF TypeOK, Elements
  <2>3. \A i, j \in DOMAIN incoming' : incoming'[i] = incoming'[j] /\ incoming'[i] \in Posts => i = j
    <3>1. \A i \in DOMAIN incoming' : i \in DOMAIN incoming \/ i = Len(incoming) + 1
      BY <2>2
    <3> QED BY <2>2, <3>1 DEF AnsweredOnce
  <2> QED BY <1>1, <2>1, <2>3 DEF AnsweredOnce
<1>2. ASSUME NEW p \in Posts, ServerAnswers(p) PROVE RelayInv'
  <2>1. AnsweredOnce' /\ incoming' \in Seq(Messages)
    BY <1>1, <1>2 DEF ServerAnswers, Messages, AnsweredOnce
  <2>2. TypeOK' /\ PumpCarries' /\ ClosedEnds'
    BY <1>2, <2>1 DEF ServerAnswers, TypeOK, PumpCarries, ClosedEnds
  <2>3. PostWaiting' /\ NoneAstray'
    BY <1>2 DEF ServerAnswers, PostWaiting, NoneAstray, Waits, Has
  <2> QED BY <2>1, <2>2, <2>3
<1>3. ASSUME NEW n \in Notes, ServerSays(n) PROVE RelayInv'
  <2>1. n \in Messages /\ n \notin Posts /\ incoming' = Append(incoming, n)
    BY <1>3, RelayAssumption DEF ServerSays, Messages
  <2>2. incoming' \in Seq(Messages) /\ Elements(incoming') = Elements(incoming) \cup {n}
    BY <2>1, ElementsAppend DEF TypeOK
  <2>3. /\ Len(incoming) \in Nat /\ DOMAIN incoming = 1..Len(incoming)
        /\ DOMAIN incoming' = 1..(Len(incoming) + 1)
        /\ \A i \in 1..Len(incoming) : incoming'[i] = incoming[i]
        /\ incoming'[Len(incoming) + 1] = n
    BY <2>1, <2>2, AppendProperties, SeqDomain DEF TypeOK
  <2>4. \A i, j \in DOMAIN incoming' : incoming'[i] = incoming'[j] /\ incoming'[i] \in Posts => i = j
    <3>1. \A i \in DOMAIN incoming' : i \in DOMAIN incoming \/ i = Len(incoming) + 1
      BY <2>3
    <3> QED BY <2>1, <2>3, <3>1 DEF AnsweredOnce
  <2>5. AnsweredOnce'
    BY <1>3, <2>1, <2>2, <2>4 DEF ServerSays, AnsweredOnce
  <2>6. TypeOK' /\ PumpCarries' /\ ClosedEnds'
    BY <1>3, <2>2 DEF ServerSays, TypeOK, PumpCarries, ClosedEnds
  <2>7. PostWaiting' /\ NoneAstray'
    BY <1>3 DEF ServerSays, PostWaiting, NoneAstray, Waits, Has
  <2> QED BY <2>5, <2>6, <2>7
<1>4. CASE ServerEnds
  BY <1>4 DEF ServerEnds, TypeOK, PumpCarries, PostWaiting, AnsweredOnce, NoneAstray, ClosedEnds, Waits, Has
<1> QED BY <1>2, <1>3, <1>4

\* The pump's steps keep the relay in order.
LEMMA PumpStep ==
  ASSUME RelayInv, Pumping
  PROVE  RelayInv'
<1> USE DEF RelayInv, server, state, channels, pumping, closing
<1>1. CASE PumpTakes
  <2>1. /\ incoming' \in Seq(Messages) /\ message' \in Messages
        /\ Elements(incoming) = {message'} \cup Elements(incoming')
        /\ Len(incoming) \in Nat /\ DOMAIN incoming = 1..Len(incoming) /\ Len(incoming) # 0
        /\ DOMAIN incoming' = 1..(Len(incoming) - 1) /\ message' = incoming[1]
        /\ \A i \in 1..(Len(incoming) - 1) : incoming'[i] = incoming[i + 1]
    <3>1. incoming \in Seq(Messages) /\ incoming # <<>>
      BY <1>1 DEF PumpTakes, TypeOK
    <3>2. Head(incoming) = incoming[1]
      BY <3>1
    <3> QED BY <1>1, <3>1, <3>2, ElementsTail, SeqDomain, EmptySeq DEF PumpTakes
  <2>2. TypeOK' /\ PumpCarries' /\ ClosedEnds'
    BY <1>1, <2>1 DEF PumpTakes, TypeOK, PumpCarries, ClosedEnds
  <2>3. PostWaiting' /\ NoneAstray'
    BY <1>1 DEF PumpTakes, PostWaiting, NoneAstray, Waits, Has
  <2>4. \A i, j \in DOMAIN incoming' : incoming'[i] = incoming'[j] /\ incoming'[i] \in Posts => i = j
    <3>1. \A i \in DOMAIN incoming' : i + 1 \in DOMAIN incoming
      BY <2>1
    <3>2. \A i, j \in DOMAIN incoming' : i + 1 = j + 1 => i = j
      BY <2>1
    <3> QED BY <2>1, <3>1, <3>2 DEF AnsweredOnce
  <2>5. message' \in Posts => message' \notin Elements(incoming')
    <3>1. \A i \in DOMAIN incoming' : i + 1 \in DOMAIN incoming /\ 1 \in DOMAIN incoming /\ i + 1 # 1
      BY <2>1
    <3> QED BY <2>1, <3>1 DEF AnsweredOnce, Elements
  <2>6. AnsweredOnce'
    BY <1>1, <2>1, <2>4, <2>5 DEF PumpTakes, AnsweredOnce
  <2> QED BY <2>2, <2>3, <2>6
<1>2. CASE PumpCloses \/ PumpStops
  BY <1>2 DEF PumpCloses, PumpStops, TypeOK, PumpCarries, PostWaiting, AnsweredOnce,
              NoneAstray, ClosedEnds, Waits, Has
<1>3. CASE RouteAnswer
  <2>1. /\ order' \in Seq(Posts) /\ Distinct(order') /\ Elements(order') = Elements(order) \ {message}
        /\ message \in Posts
    BY <1>3, DistinctWithout, ElementsIn DEF RouteAnswer, Answered, TypeOK
  <2>2. TypeOK' /\ PumpCarries'
    BY <1>3, <2>1 DEF RouteAnswer, TypeOK, PumpCarries, Channels
  <2>3. PostWaiting' /\ NoneAstray'
    BY <1>3, <2>1 DEF RouteAnswer, PumpCarries, PostWaiting, AnsweredOnce, NoneAstray, Waits, Has
  <2>4. AnsweredOnce' /\ ClosedEnds'
    BY <1>3, <2>1 DEF RouteAnswer, AnsweredOnce, ClosedEnds
  <2> QED BY <2>2, <2>3, <2>4
<1>4. CASE RouteOther
  <2>1. order # <<>> => Last(order) \in Elements(order) /\ Last(order) \in Posts
    <3>1. order # <<>> => Len(order) \in 1..Len(order) /\ DOMAIN order = 1..Len(order)
      BY EmptySeq, SeqDomain, LenProperties DEF TypeOK
    <3>2. order # <<>> => Last(order) \in Elements(order)
      BY <3>1 DEF Last, Elements
    <3> QED BY <3>2, ElementsIn DEF TypeOK
  <2>2. target' \in {None} \cup Streams \cup Elements(order)
    BY <1>4, <2>1 DEF RouteOther, Listening, TypeOK
  <2>3. target' \in Channels \cup {None} /\ (target' \in Posts => target' \in Elements(order))
    BY <2>2, ElementsIn, RelayAssumption DEF Channels, TypeOK
  <2>4. message \in Posts => ended
    BY <1>4 DEF RouteOther, AnsweredOnce
  <2>5. message \in Posts => target' # message
    BY <1>4, <2>2, RelayAssumption DEF RouteOther
  <2>9. target' # None => rx[target'] \in {"open", "left"}
    <3>1. CASE Listening
      BY <1>4, <3>1 DEF RouteOther, Listening
    <3>2. CASE ~Listening
      <4>1. target' # None => target' \in Elements(order) /\ target' \in Posts
        BY <1>4, <2>1, <3>2 DEF RouteOther
      <4> QED BY <4>1 DEF PostWaiting, Waits, TypeOK, Channels
    <3> QED BY <3>1, <3>2
  <2>6. TypeOK' /\ PumpCarries'
    BY <1>4, <2>3, <2>4, <2>5, <2>9 DEF RouteOther, TypeOK, PumpCarries
  <2>7. PostWaiting' /\ NoneAstray'
    BY <1>4, <2>3 DEF RouteOther, PostWaiting, NoneAstray, Waits, Has
  <2>8. AnsweredOnce' /\ ClosedEnds'
    BY <1>4 DEF RouteOther, AnsweredOnce, ClosedEnds
  <2> QED BY <2>6, <2>7, <2>8
<1>5. CASE PumpSends
  <2>1. /\ target \in Channels /\ message \in Messages /\ None \notin Channels
        /\ chan[target] \in Seq(Messages) /\ Len(chan[target]) < Capacity
        /\ chan' = [chan EXCEPT ![target] = Append(chan[target], message)]
    BY <1>5, RelayAssumption DEF PumpSends, Put, HasRoom, TypeOK, PumpCarries, Channels
  <2>2. /\ Append(chan[target], message) \in Seq(Messages)
        /\ Elements(Append(chan[target], message)) = Elements(chan[target]) \cup {message}
        /\ Len(Append(chan[target], message)) <= Capacity
    BY <2>1, ElementsAppend, AppendProperties, SeqDomain, RelayAssumption
  <2>3. /\ UNCHANGED got
        /\ \A ch \in Channels : Has(ch)' = IF ch = target THEN Has(ch) \cup {message} ELSE Has(ch)
    BY <1>5, <2>1, <2>2 DEF PumpSends, TypeOK, Has
  <2>4. TypeOK' /\ PumpCarries'
    BY <1>5, <2>1, <2>2 DEF PumpSends, Carried, TypeOK, PumpCarries
  <2>5. AnsweredOnce' /\ ClosedEnds'
    BY <1>5, RelayAssumption DEF PumpSends, Carried, AnsweredOnce, ClosedEnds
  <2>6. NoneAstray'
    BY <1>5, <2>1, <2>3 DEF PumpSends, NoneAstray, PumpCarries, Messages, Channels
  <2>7. ASSUME NEW p \in Posts
        PROVE  /\ rx'[p] # "found"
               /\ rx'[p] = "none" <=> poster'[p] \in {"idle", "checked"}
               /\ rx'[p] = "none" => got'[p] = <<>> /\ chan'[p] = <<>>
               /\ Waits(p)' => rx'[p] # "none" /\ p \notin Has(p)'
               /\ poster'[p] = "sending" => p \in Elements(order') \/ ended'
    <3>1. UNCHANGED <<rx, poster, got, order, ended>> /\ p \in Channels /\ p # None /\ target' = None
      BY <1>5, RelayAssumption DEF PumpSends, Carried, Channels
    <3>2. p = target => rx[p] = "open" /\ (p = message => p \notin Elements(order))
      BY <1>5, <2>1 DEF PumpSends, PumpCarries
    <3>3. p # target => chan'[p] = chan[p]
      BY <2>1, <3>1
    <3> QED BY <2>1, <2>3, <3>1, <3>2, <3>3 DEF PostWaiting, Waits
  <2> QED BY <2>4, <2>5, <2>6, <2>7 DEF PostWaiting
<1>6. CASE AnswerUnread
  <2>1. TypeOK' /\ PumpCarries'
    BY <1>6 DEF AnswerUnread, Carried, TypeOK, PumpCarries
  <2>2. PostWaiting' /\ NoneAstray'
    BY <1>6, RelayAssumption DEF AnswerUnread, Carried, PostWaiting, NoneAstray, Waits, Has
  <2>3. AnsweredOnce' /\ ClosedEnds'
    BY <1>6, RelayAssumption DEF AnswerUnread, Carried, AnsweredOnce, ClosedEnds
  <2> QED BY <2>1, <2>2, <2>3
<1>7. CASE OtherUnread
  BY <1>7 DEF OtherUnread, TypeOK, PumpCarries, PostWaiting, AnsweredOnce, NoneAstray, ClosedEnds, Waits, Has
<1>8. CASE PumpKeeps
  <2>0. /\ message \in Messages /\ backlog \in Seq(Messages) /\ Len(backlog) \in Nat
        /\ Len(backlog) <= Backlog /\ Backlog \in Nat \ {0} /\ lost \subseteq Messages
    BY <1>8, SeqDomain, RelayAssumption DEF PumpKeeps, PumpCarries, TypeOK
  <2>1. backlog' \in Seq(Messages) /\ Len(backlog') <= Backlog /\ lost' \subseteq Messages
    <3>1. CASE Len(backlog) >= Backlog
      <4>1. backlog # <<>>
        BY <2>0, <3>1, EmptySeq
      <4>2. /\ Tail(backlog) \in Seq(Messages) /\ Head(backlog) \in Messages
            /\ Len(Tail(backlog)) = Len(backlog) - 1
        BY <2>0, <4>1, ElementsTail
      <4>3. /\ Append(Tail(backlog), message) \in Seq(Messages)
            /\ Len(Append(Tail(backlog), message)) = Len(Tail(backlog)) + 1
        BY <2>0, <4>2, AppendProperties
      <4> QED BY <1>8, <2>0, <3>1, <4>2, <4>3 DEF PumpKeeps
    <3>2. CASE ~(Len(backlog) >= Backlog)
      <4>1. Append(backlog, message) \in Seq(Messages) /\ Len(Append(backlog, message)) = Len(backlog) + 1
        BY <2>0, AppendProperties
      <4> QED BY <1>8, <2>0, <3>2, <4>1 DEF PumpKeeps
    <3> QED BY <3>1, <3>2
  <2>2. TypeOK' /\ PumpCarries'
    BY <1>8, <2>1 DEF PumpKeeps, Carried, TypeOK, PumpCarries
  <2>3. PostWaiting' /\ NoneAstray'
    BY <1>8, RelayAssumption DEF PumpKeeps, Carried, PostWaiting, NoneAstray, Waits, Has
  <2>4. AnsweredOnce' /\ ClosedEnds'
    BY <1>8, RelayAssumption DEF PumpKeeps, Carried, AnsweredOnce, ClosedEnds
  <2> QED BY <2>2, <2>3, <2>4
<1> QED BY <1>1, <1>2, <1>3, <1>4, <1>5, <1>6, <1>7, <1>8 DEF Pumping

\* Closing keeps the relay in order.
LEMMA CloseStep ==
  ASSUME RelayInv, SweepStops \/ Dropped \/ \E k \in DOMAIN closer : CloseChecks(k) \/ Closing(k)
  PROVE  RelayInv'
<1> USE DEF RelayInv, server, state, channels, pumping, closing
<1>1. ASSUME NEW k \in DOMAIN closer, CloseChecks(k) \/ CloseCancels(k) \/ CloseUpstream(k)
      PROVE  RelayInv'
  <2>1. TypeOK' /\ PumpCarries'
    <3>1. PICK next \in {"skipped", "checked", "cancelled", "down"} :
            closer' = [closer EXCEPT ![k] = next]
      BY <1>1 DEF CloseChecks, CloseCancels, CloseUpstream, CloserAt
    <3>2. closer' \in [Closers \cup {Pump} ->
                        {"no", "skipped", "checked", "cancelled", "down", "done"}]
      BY <3>1 DEF TypeOK
    <3> QED BY <1>1, <3>2 DEF CloseChecks, CloseCancels, CloseUpstream, TypeOK, PumpCarries
  <2>2. PostWaiting' /\ NoneAstray'
    BY <1>1 DEF CloseChecks, CloseCancels, CloseUpstream, CloserAt, PostWaiting, NoneAstray, Waits, Has
  <2>3. AnsweredOnce' /\ ClosedEnds'
    BY <1>1 DEF CloseChecks, CloseCancels, CloseUpstream, CloserAt, AnsweredOnce, ClosedEnds, TypeOK
  <2> QED BY <2>1, <2>2, <2>3
<1>2. ASSUME ended, order' = <<>>, listener' = None,
             UNCHANGED <<poster, server, channels, pumping, ended>>
      PROVE  /\ order' \in Seq(Posts) /\ Distinct(order')
             /\ PumpCarries' /\ PostWaiting' /\ NoneAstray' /\ AnsweredOnce'
  BY <1>2, ElementsEmpty, EmptySeq DEF PumpCarries, PostWaiting, NoneAstray, AnsweredOnce, Waits, Has,
     Distinct
<1>3. ASSUME NEW k \in DOMAIN closer, CloseClears(k)
      PROVE  RelayInv'
  <2>1. ended
    BY <1>3 DEF CloseClears, CloserAt, ClosedEnds
  <2> QED BY <1>2, <1>3, <2>1 DEF CloseClears, CloserAt, TypeOK, ClosedEnds
<1>4. CASE Dropped
  <2>1. <<>> \in Seq(Messages) /\ Len(<<>>) = 0 /\ Backlog \in Nat
    BY EmptySeq, RelayAssumption
  <2>2. lost' \subseteq Messages
    BY <1>4, ElementsIn DEF Dropped, TypeOK
  <2> QED BY <1>2, <1>4, <2>1, <2>2 DEF Dropped, TypeOK, ClosedEnds
<1>5. CASE SweepStops
  BY <1>5 DEF SweepStops, TypeOK, PumpCarries, PostWaiting, NoneAstray, Waits, Has,
     AnsweredOnce, ClosedEnds
<1> QED BY <1>1, <1>3, <1>4, <1>5 DEF Closing

\* Every step keeps the relay in order.
LEMMA RelayStep == RelayInv /\ [Next]_vars => RelayInv'
<1> SUFFICES ASSUME RelayInv, [Next]_vars PROVE RelayInv'
  OBVIOUS
<1>1. CASE UNCHANGED vars
  BY <1>1 DEF vars, RelayInv, TypeOK, PumpCarries, PostWaiting, AnsweredOnce,
              NoneAstray, ClosedEnds, Waits, Has
<1> QED BY <1>1, PostStep, StreamStep, ServerStep, PumpStep, CloseStep DEF Next

THEOREM RelayInvariant == Safety => []RelayInv
BY InitRelay, RelayStep, PTL DEF Safety

-----------------------------------------------------------------------------
(* That the relay implements AgentStreams.                                 *)

\* The refinement mapping where the invariant holds: a request is never both
\* answered and still sent to, and what its stream bears does not depend on
\* the end of the connection.
Phase(p) ==
  IF rx[p] = "none" THEN "idle"
  ELSE IF rx[p] = "open" /\ Waits(p) THEN "open" ELSE "over"

Tag(p, m) == IF m = p THEN "response" ELSE "message"
Tags(p, seq) == [i \in DOMAIN seq |-> Tag(p, seq[i])]

phases == [p \in Posts |-> Phase(p)]
streams == [p \in Posts |-> Tags(p, Delivered(p))]

MapsSo ==
  /\ phases = [p \in Posts |-> PhaseOf(p)]
  /\ streams = [p \in Posts |-> Bears(p, Delivered(p))]

\* In every state in order the mapped variables have AgentStreams' types.
LEMMA Mapped == RelayInv => MapsSo
<1> SUFFICES ASSUME RelayInv
             PROVE  \A p \in Posts : /\ Phase(p) = PhaseOf(p)
                                     /\ Tags(p, Delivered(p)) = Bears(p, Delivered(p))
  BY DEF MapsSo, phases, streams
<1> TAKE p \in Posts
<1>1. /\ p \in Channels /\ got[p] \in Seq(Messages) /\ chan[p] \in Seq(Messages)
      /\ Delivered(p) \in Seq(Messages) /\ Elements(Delivered(p)) = Has(p)
  BY ElementsConcat DEF RelayInv, TypeOK, Channels, Delivered, Has
<1>2. HasSender(p) <=> Waits(p)
  BY RelayAssumption DEF HasSender, Waits, RelayInv, TypeOK
<1>3. Phase(p) = PhaseOf(p)
  BY <1>1, <1>2 DEF Phase, PhaseOf, RelayInv, PostWaiting, TypeOK
<1>4. ASSUME NEW i \in DOMAIN Delivered(p)
      PROVE  Borne(p, Delivered(p)[i]) = Tag(p, Delivered(p)[i])
  <2>1. Delivered(p)[i] \in Has(p)
    BY <1>1 DEF Elements
  <2> QED BY <2>1 DEF RelayInv, NoneAstray, Borne, Tag
<1>5. Tags(p, Delivered(p)) = Bears(p, Delivered(p))
  BY <1>4 DEF Tags, Bears
<1> QED BY <1>3, <1>5

\* The same of the state after a step.
LEMMA MappedNext == RelayInv' => MapsSo'
BY Mapped, PTL

\* The relay starts as AgentStreams does.
LEMMA InitPromise == Init => Promise!Init
<1> SUFFICES ASSUME Init PROVE Promise!Init
  OBVIOUS
<1>1. ASSUME NEW p \in Posts PROVE PhaseOf(p) = "idle" /\ Bears(p, Delivered(p)) = <<>>
  <2>1. p \in Channels
    BY DEF Channels
  <2>2. Delivered(p) = <<>>
    BY <2>1 DEF Init, Delivered
  <2> QED BY <2>1, <2>2 DEF Init, PhaseOf, Bears
<1> QED BY <1>1 DEF Promise!Init

\* AgentStreams under the simpler mapping, which is the same where the
\* invariant holds.
Simply == INSTANCE AgentStreams WITH
  Requests <- Posts, MayFollow <- FALSE, phase <- phases, stream <- streams

\* The steps of the two instances are the same steps: Simply's mapping is
\* the one a prover can rewrite.
LEMMA SimplyIsPromise ==
  ASSUME RelayInv, RelayInv', [Simply!Next]_(Simply!vars)
  PROVE  [Promise!Next]_(Promise!vars)
<1>1. MapsSo /\ MapsSo'
  BY Mapped, MappedNext
<1> QED BY <1>1 DEF MapsSo, Simply!Next, Simply!vars, Simply!Opens, Simply!Bears, Simply!Answers,
     Simply!Leaves, Simply!End, Promise!Next, Promise!vars, Promise!Opens, Promise!Bears,
     Promise!Answers, Promise!Leaves, Promise!End

\* A step that changes no request's stream.
LEMMA NoStreamChanges ==
  ASSUME \A q \in Posts : Phase(q)' = Phase(q) /\ Delivered(q)' = Delivered(q)
  PROVE  UNCHANGED Simply!vars
BY DEF phases, streams, Simply!vars

\* What changes one request's stream only.
LEMMA OneStreamChanges ==
  ASSUME NEW p \in Posts, \A q \in Posts \ {p} : Phase(q)' = Phase(q) /\ Delivered(q)' = Delivered(q)
  PROVE  /\ phases' = [phases EXCEPT ![p] = Phase(p)']
         /\ streams' = [streams EXCEPT ![p] = Tags(p, Delivered(p)')]
BY DEF phases, streams

\* One more message delivered is one more tag.
LEMMA TagsAppend ==
  ASSUME NEW p \in Posts, NEW s \in Seq(Messages), NEW m \in Messages
  PROVE  Tags(p, Append(s, m)) = Append(Tags(p, s), Tag(p, m))
<1> DEFINE T == {"response", "message"}
<1>1. /\ Append(s, m) \in Seq(Messages) /\ Len(Append(s, m)) = Len(s) + 1
      /\ \A i \in 1..Len(s) : Append(s, m)[i] = s[i]
      /\ Append(s, m)[Len(s) + 1] = m
  BY AppendProperties
<1>2. DOMAIN Append(s, m) = 1..(Len(s) + 1) /\ DOMAIN s = 1..Len(s) /\ Len(s) \in Nat
  BY <1>1, SeqDomain
<1>3. /\ Tags(p, s) \in Seq(T) /\ Len(Tags(p, s)) = Len(s)
      /\ \A i \in 1..Len(s) : Tags(p, s)[i] = Tag(p, s[i])
  <2>1. Tags(p, s) = [i \in 1..Len(s) |-> Tag(p, s[i])] /\ \A i \in 1..Len(s) : Tag(p, s[i]) \in T
    BY <1>2 DEF Tags, Tag
  <2> QED BY <1>2, <2>1, IsASeq
<1>4. /\ Append(Tags(p, s), Tag(p, m)) \in Seq(T)
      /\ Len(Append(Tags(p, s), Tag(p, m))) = Len(s) + 1
      /\ \A i \in 1..Len(s) : Append(Tags(p, s), Tag(p, m))[i] = Tag(p, s[i])
      /\ Append(Tags(p, s), Tag(p, m))[Len(s) + 1] = Tag(p, m)
  <2>1. Tag(p, m) \in T
    BY DEF Tag
  <2> QED BY <1>3, <2>1, AppendProperties
<1>5. /\ Tags(p, Append(s, m)) \in Seq(T) /\ Len(Tags(p, Append(s, m))) = Len(s) + 1
      /\ \A i \in 1..(Len(s) + 1) : Tags(p, Append(s, m))[i] = Tag(p, Append(s, m)[i])
  <2>1. /\ Tags(p, Append(s, m)) = [i \in 1..(Len(s) + 1) |-> Tag(p, Append(s, m)[i])]
        /\ \A i \in 1..(Len(s) + 1) : Tag(p, Append(s, m)[i]) \in T
        /\ Len(s) + 1 \in Nat
    BY <1>2 DEF Tags, Tag
  <2> QED BY <2>1, IsASeq
<1>6. \A i \in 1..(Len(s) + 1) : Tags(p, Append(s, m))[i] = Append(Tags(p, s), Tag(p, m))[i]
  <2>1. \A i \in 1..(Len(s) + 1) : i \in 1..Len(s) \/ i = Len(s) + 1
    BY <1>2
  <2> QED BY <1>1, <1>4, <1>5, <2>1
<1> QED BY <1>4, <1>5, <1>6, SeqEqual

\* Fewer messages are fewer tags.
LEMMA TagsPrefix ==
  ASSUME NEW p \in Posts, NEW g \in Seq(Messages), NEW s \in Seq(Messages)
  PROVE  \E n \in 0..Len(Tags(p, g \o s)) : Tags(p, g) = SubSeq(Tags(p, g \o s), 1, n)
<1> DEFINE T == {"response", "message"}
<1>1. /\ g \o s \in Seq(Messages) /\ Len(g \o s) = Len(g) + Len(s)
      /\ \A i \in 1..(Len(g) + Len(s)) : (g \o s)[i] = IF i <= Len(g) THEN g[i] ELSE s[i - Len(g)]
  BY ConcatProperties
<1>2. /\ DOMAIN (g \o s) = 1..(Len(g) + Len(s)) /\ DOMAIN g = 1..Len(g)
      /\ Len(g) \in Nat /\ Len(s) \in Nat
  BY <1>1, SeqDomain
<1>3. /\ Tags(p, g) \in Seq(T) /\ Len(Tags(p, g)) = Len(g)
      /\ \A i \in 1..Len(g) : Tags(p, g)[i] = Tag(p, g[i])
  <2>1. Tags(p, g) = [i \in 1..Len(g) |-> Tag(p, g[i])] /\ \A i \in 1..Len(g) : Tag(p, g[i]) \in T
    BY <1>2 DEF Tags, Tag
  <2> QED BY <1>2, <2>1, IsASeq
<1>4. /\ Tags(p, g \o s) \in Seq(T) /\ Len(Tags(p, g \o s)) = Len(g) + Len(s)
      /\ \A i \in 1..(Len(g) + Len(s)) : Tags(p, g \o s)[i] = Tag(p, (g \o s)[i])
  <2>1. /\ Tags(p, g \o s) = [i \in 1..(Len(g) + Len(s)) |-> Tag(p, (g \o s)[i])]
        /\ \A i \in 1..(Len(g) + Len(s)) : Tag(p, (g \o s)[i]) \in T
        /\ Len(g) + Len(s) \in Nat
    BY <1>2 DEF Tags, Tag
  <2> DEFINE k == Len(g) + Len(s)
             tag(i) == Tag(p, (g \o s)[i])
  <2>2. /\ Tags(p, g \o s) = [i \in 1..k |-> tag(i)]
        /\ \A i \in 1..k : tag(i) \in T
        /\ k \in Nat
    BY <2>1
  <2> HIDE DEF k, tag
  <2>3. [i \in 1..k |-> tag(i)] \in Seq(T) /\ Len([i \in 1..k |-> tag(i)]) = k
    BY <2>2, IsASeq
  <2>4. \A i \in 1..k : Tags(p, g \o s)[i] = tag(i)
    BY <2>2
  <2> QED BY <2>2, <2>3, <2>4 DEF k, tag
<1>5. \A i \in 1..Len(g) : i \in 1..(Len(g) + Len(s)) /\ Tags(p, g \o s)[i] = Tag(p, g[i])
  BY <1>1, <1>2, <1>4
<1>6. /\ SubSeq(Tags(p, g \o s), 1, Len(g)) \in Seq(T)
      /\ Len(SubSeq(Tags(p, g \o s), 1, Len(g))) = Len(g)
      /\ \A i \in 1..Len(g) : SubSeq(Tags(p, g \o s), 1, Len(g))[i] = Tags(p, g \o s)[i]
  <2>1. \A i \in 1..Len(g) : Tags(p, g \o s)[i] \in T
    BY <1>5 DEF Tag
  <2> QED BY <1>2, <2>1, SubSeqProperties
<1>7. Tags(p, g) = SubSeq(Tags(p, g \o s), 1, Len(g))
  BY <1>3, <1>5, <1>6, SeqEqual
<1>8. Len(g) \in 0..Len(Tags(p, g \o s))
  BY <1>2, <1>4
<1> QED BY <1>7, <1>8

\* Who leaves a stream leaves what it has not read.
LEMMA LeavesMaps ==
  ASSUME TypeOK, NEW p \in Posts, rx[p] # "none",
         rx' = [rx EXCEPT ![p] = "left"], chan' = [chan EXCEPT ![p] = <<>>], got' = got,
         \A q \in Posts \ {p} : Phase(q)' = Phase(q) /\ Delivered(q)' = Delivered(q)
  PROVE  Simply!Leaves(p)
<1>1. p \in Channels /\ got[p] \in Seq(Messages) /\ chan[p] \in Seq(Messages)
  BY DEF TypeOK, Channels
<1>2. rx'[p] = "left" /\ chan'[p] = <<>>
  BY <1>1 DEF TypeOK
<1>3. Phase(p)' = "over" /\ Phase(p) # "idle"
  BY <1>2 DEF Phase
<1>4. Delivered(p)' = got[p]
  BY <1>1, <1>2, ConcatEmptySeq DEF Delivered
<1>5. streams[p] = Tags(p, got[p] \o chan[p]) /\ phases[p] # "idle"
  BY <1>3 DEF streams, phases, Delivered
<1>6. PICK n \in 0..Len(streams[p]) : Tags(p, got[p]) = SubSeq(streams[p], 1, n)
  BY <1>1, <1>5, TagsPrefix
<1>7. /\ phases' = [phases EXCEPT ![p] = "over"]
      /\ streams' = [streams EXCEPT ![p] = SubSeq(streams[p], 1, n)]
  BY <1>3, <1>4, <1>6, OneStreamChanges
<1> QED BY <1>5, <1>7 DEF Simply!Leaves

\* An agent's request or answer is a step of AgentStreams or none.
LEMMA PostMaps ==
  ASSUME RelayInv, NEW p \in Posts, Agent(p)
  PROVE  [Simply!Next]_(Simply!vars)
<1> USE DEF RelayInv, server, state, channels, pumping, closing
<1>1. CASE PostChecks(p) \/ PostSent(p) \/ PostReturns(p)
  BY <1>1, NoStreamChanges DEF PostChecks, PostSent, PostReturns, Phase, Waits, Delivered
<1>2. CASE PostWaits(p)
  <2>1. Elements(order') = Elements(order) \cup {p}
    <3>1. /\ Without(order, p) \in Seq(Posts)
          /\ Elements(Without(order, p)) = Elements(order) \ {p}
      BY DistinctWithout DEF TypeOK
    <3>2. Elements(Append(Without(order, p), p)) = (Elements(order) \ {p}) \cup {p}
      BY <3>1, ElementsAppend
    <3> QED BY <1>2, <3>2 DEF PostWaits
  <2>2. /\ rx[p] = "none" /\ rx' = [rx EXCEPT ![p] = "open"] /\ p \in Channels
        /\ UNCHANGED <<got, chan, target>>
    BY <1>2 DEF PostWaits, PostWaiting, Channels
  <2>3. \A q \in Posts \ {p} : Phase(q)' = Phase(q) /\ Delivered(q)' = Delivered(q)
    BY <2>1, <2>2 DEF TypeOK, Phase, Waits, Delivered
  <2>4. Phase(p) = "idle" /\ Phase(p)' = "open" /\ Delivered(p)' = Delivered(p)
    BY <2>1, <2>2 DEF TypeOK, Phase, Waits, Delivered
  <2>5. Simply!Opens(p)
    BY <2>3, <2>4, OneStreamChanges DEF Simply!Opens, phases, streams
  <2> QED BY <2>5 DEF Simply!Next
<1>3. CASE PostFails(p)
  <2>1. Elements(order') = Elements(order) \ {p}
    BY <1>3, DistinctWithout DEF PostFails, TypeOK
  <2>2. /\ rx[p] # "none" /\ rx' = [rx EXCEPT ![p] = "left"] /\ p \in Channels
        /\ UNCHANGED <<got, target>> /\ chan' = [chan EXCEPT ![p] = <<>>]
    BY <1>3 DEF PostFails, PostWaiting, Channels
  <2>3. \A q \in Posts \ {p} : Phase(q)' = Phase(q) /\ Delivered(q)' = Delivered(q)
    BY <2>1, <2>2 DEF TypeOK, Phase, Waits, Delivered
  <2>4. Simply!Leaves(p)
    BY <2>2, <2>3, LeavesMaps
  <2> QED BY <2>4 DEF Simply!Next
<1> QED BY <1>1, <1>2, <1>3 DEF Agent

\* What an agent does with its stream is a step of AgentStreams or none.
LEMMA StreamMaps ==
  ASSUME RelayInv,
         \/ \E s \in Streams : ListenFinds(s) \/ Listen(s)
         \/ \E ch \in Channels : AgentReads(ch) \/ AgentLeaves(ch)
  PROVE  [Simply!Next]_(Simply!vars)
<1> USE DEF RelayInv, server, state, channels, pumping, closing
<1>1. ASSUME NEW s \in Streams, ListenFinds(s) \/ Listen(s) PROVE UNCHANGED Simply!vars
  <2>1. s \notin Posts /\ s \in Channels /\ Posts \subseteq Channels
    BY RelayAssumption DEF Channels
  <2>2. /\ UNCHANGED <<got, order, target>>
        /\ \A q \in Posts : rx'[q] = rx[q] /\ chan'[q] = chan[q]
    BY <1>1, <2>1 DEF ListenFinds, Listen, TypeOK
  <2> QED BY <2>2, NoStreamChanges DEF Phase, Waits, Delivered
<1>2. ASSUME NEW ch \in Channels, AgentReads(ch) PROVE UNCHANGED Simply!vars
  <2>1. chan[ch] \in Seq(Messages) /\ got[ch] \in Seq(Messages) /\ chan[ch] # <<>>
    BY <1>2 DEF AgentReads, TypeOK
  <2>2. Append(got[ch], Head(chan[ch])) \o Tail(chan[ch]) = got[ch] \o chan[ch]
    BY <2>1, Reading
  <2>3. \A q \in Posts : Delivered(q)' = Delivered(q)
    BY <1>2, <2>2 DEF AgentReads, TypeOK, Delivered, Channels
  <2> QED BY <1>2, <2>3, NoStreamChanges DEF AgentReads, Phase, Waits
<1>3. ASSUME NEW ch \in Channels, AgentLeaves(ch) PROVE [Simply!Next]_(Simply!vars)
  <2>1. /\ rx[ch] = "open" /\ rx' = [rx EXCEPT ![ch] = "left"]
        /\ chan' = [chan EXCEPT ![ch] = <<>>] /\ UNCHANGED <<got, order, target>>
    BY <1>3 DEF AgentLeaves
  <2>2. \A q \in Posts \ {ch} : Phase(q)' = Phase(q) /\ Delivered(q)' = Delivered(q)
    BY <2>1 DEF TypeOK, Channels, Phase, Waits, Delivered
  <2>3. CASE ch \in Posts
    <3>1. Simply!Leaves(ch)
      BY <2>1, <2>2, <2>3, LeavesMaps
    <3> QED BY <2>3, <3>1 DEF Simply!Next
  <2>4. CASE ch \notin Posts
    BY <2>2, <2>4, NoStreamChanges
  <2> QED BY <2>3, <2>4
<1> QED BY <1>1, <1>2, <1>3

\* The pump's steps are steps of AgentStreams or none.
LEMMA PumpMaps ==
  ASSUME RelayInv, Pumping
  PROVE  [Simply!Next]_(Simply!vars)
<1> USE DEF RelayInv, server, state, channels, pumping, closing
<1>1. CASE PumpTakes \/ PumpCloses \/ PumpStops \/ OtherUnread
  BY <1>1, NoStreamChanges
     DEF PumpTakes, PumpCloses, PumpStops, OtherUnread, Phase, Waits, Delivered
<1>2. CASE RouteAnswer
  <2>1. /\ Elements(order') = Elements(order) \ {message} /\ target = None /\ target' = message
        /\ message \in Elements(order)
    BY <1>2, DistinctWithout DEF RouteAnswer, Answered, TypeOK, PumpCarries
  <2>2. \A q \in Posts : Waits(q)' <=> Waits(q)
    BY <2>1, RelayAssumption DEF Waits
  <2> QED BY <1>2, <2>2, NoStreamChanges DEF RouteAnswer, Phase, Delivered
<1>3. CASE RouteOther
  <2>1. order # <<>> => Last(order) \in Elements(order)
    <3>1. order # <<>> => Len(order) \in 1..Len(order) /\ DOMAIN order = 1..Len(order)
      BY EmptySeq, SeqDomain, LenProperties DEF TypeOK
    <3> QED BY <3>1 DEF Last, Elements
  <2>2. target = None /\ target' \in {None} \cup Streams \cup Elements(order)
    BY <1>3, <2>1 DEF RouteOther, Listening, TypeOK, PumpCarries
  <2>3. order' = order /\ \A q \in Posts : Waits(q)' <=> Waits(q)
    BY <1>3, <2>2, RelayAssumption DEF RouteOther, Waits
  <2> QED BY <1>3, <2>3, NoStreamChanges DEF RouteOther, Phase, Delivered
<1>4. CASE PumpSends
  <2>1. /\ target \in Channels /\ message \in Messages /\ rx[target] = "open"
        /\ chan[target] \in Seq(Messages) /\ got[target] \in Seq(Messages)
        /\ chan' = [chan EXCEPT ![target] = Append(chan[target], message)]
        /\ target' = None /\ UNCHANGED <<got, rx, order>>
    BY <1>4, RelayAssumption DEF PumpSends, Put, HasRoom, Carried, TypeOK, PumpCarries
  <2>2. \A q \in Posts : q # target => Phase(q)' = Phase(q) /\ Delivered(q)' = Delivered(q)
    BY <2>1, RelayAssumption DEF TypeOK, Channels, Phase, Waits, Delivered
  <2>3. CASE target \notin Posts
    BY <2>2, <2>3, NoStreamChanges
  <2>4. ASSUME NEW p \in Posts, p = target PROVE [Simply!Next]_(Simply!vars)
    <3>0. chan'[p] = Append(chan[p], message) /\ got'[p] = got[p] /\ p # None
      BY <2>1, <2>4, RelayAssumption DEF TypeOK
    <3>1. Delivered(p)' = Append(Delivered(p), message) /\ Delivered(p) \in Seq(Messages)
      <4>1. got[p] \in Seq(Messages) /\ chan[p] \in Seq(Messages)
        BY <2>1, <2>4
      <4>2. got[p] \o Append(chan[p], message) = Append(got[p] \o chan[p], message)
        <5>1. message \in Messages
          BY <2>1
        <5>2. \A g, s \in Seq(Messages) : \A m \in Messages : g \o Append(s, m) = Append(g \o s, m)
          BY AppendLast
        <5> QED BY <4>1, <5>1, <5>2
      <4> QED BY <3>0, <4>1, <4>2, ConcatProperties DEF Delivered
    <3>2. Tags(p, Delivered(p)') = Append(Tags(p, Delivered(p)), Tag(p, message))
      BY <2>1, <2>4, <3>1, TagsAppend
    <3>3. streams' = [streams EXCEPT ![p] = Append(streams[p], Tag(p, message))]
      BY <2>2, <2>4, <3>2, OneStreamChanges DEF streams
    <3>4. Phase(p) = "open"
      BY <2>1, <2>4, RelayAssumption DEF Phase, Waits
    <3>5. phases' = [phases EXCEPT ![p] = Phase(p)'] /\ phases[p] = "open"
      <4>1. phases' = [phases EXCEPT ![p] = Phase(p)']
        BY <2>2, <2>4, OneStreamChanges
      <4> QED BY <3>4, <4>1 DEF phases
    <3>6. CASE pump = "answering"
      <4>1. p = message /\ p \notin Elements(order)
        BY <2>4, <3>6 DEF PumpCarries
      <4>2. Phase(p)' = "over"
        BY <2>1, <2>4, <3>0, <4>1 DEF Phase, Waits
      <4>3. Simply!Answers(p)
        BY <3>3, <3>5, <4>1, <4>2 DEF Simply!Answers, Tag
      <4> QED BY <4>3 DEF Simply!Next
    <3>7. CASE pump = "telling"
      <4>1. p # message
        BY <2>4, <3>7 DEF PumpCarries
      <4>2. Phase(p)' \in {"open", "over"}
        BY <2>1, <2>4 DEF Phase
      <4>3. phases' \in {phases, [phases EXCEPT ![p] = "over"]}
        BY <3>5, <4>2 DEF phases
      <4>4. Simply!Bears(p)
        BY <3>3, <3>5, <4>1, <4>3 DEF Simply!Bears, Tag
      <4> QED BY <4>4 DEF Simply!Next
    <3> QED BY <1>4, <3>6, <3>7 DEF PumpSends
  <2> QED BY <2>3, <2>4
<1>5. CASE AnswerUnread \/ PumpKeeps
  <2>1. UNCHANGED <<rx, chan, got, order>> /\ target' = None
    BY <1>5 DEF AnswerUnread, PumpKeeps, Carried
  <2>2. target # None => rx[target] # "open"
    BY <1>5 DEF AnswerUnread, PumpKeeps, PumpCarries
  <2>3. ASSUME NEW q \in Posts PROVE Phase(q)' = Phase(q)
    <3>1. q # None
      BY RelayAssumption
    <3>2. q = target => rx[q] # "open"
      BY <2>2, <3>1
    <3> QED BY <2>1, <3>1, <3>2 DEF Phase, Waits
  <2> QED BY <2>1, <2>3, NoStreamChanges DEF Delivered
<1> QED BY <1>1, <1>2, <1>3, <1>4, <1>5 DEF Pumping

\* Closing is a step of AgentStreams or none.
LEMMA CloseMaps ==
  ASSUME RelayInv, SweepStops \/ Dropped \/ \E k \in DOMAIN closer : CloseChecks(k) \/ Closing(k)
  PROVE  [Simply!Next]_(Simply!vars)
<1> USE DEF RelayInv, server, state, channels, pumping, closing
<1>1. ASSUME NEW k \in DOMAIN closer, CloseChecks(k) \/ CloseCancels(k) \/ CloseUpstream(k)
      PROVE  UNCHANGED Simply!vars
  BY <1>1, NoStreamChanges DEF CloseChecks, CloseCancels, CloseUpstream, Phase, Waits, Delivered
<1>2. CASE Dropped \/ \E k \in DOMAIN closer : CloseClears(k)
  <2>1. order' = <<>> /\ UNCHANGED <<rx, chan, got, target>>
    BY <1>2 DEF Dropped, CloseClears
  <2> DEFINE S == {q \in Posts : rx[q] = "open" /\ Waits(q) /\ q # target}
  <2>2. \A q \in Posts : Phase(q)' = IF q \in S THEN "over" ELSE Phase(q)
    BY <2>1, ElementsEmpty DEF Phase, Waits
  <2>3. S \subseteq {q \in Posts : phases[q] # "idle"}
    BY DEF phases, Phase
  <2>4. streams' = streams
    BY <2>1 DEF streams, Delivered
  <2>5. phases' = [q \in Posts |-> IF q \in S THEN "over" ELSE phases[q]]
    BY <2>2 DEF phases
  <2> HIDE DEF S
  <2>6. Simply!End(S)
    BY <2>4, <2>5 DEF Simply!End
  <2> QED BY <2>3, <2>6 DEF Simply!Next
<1>3. CASE SweepStops
  BY <1>3, NoStreamChanges DEF SweepStops, Phase, Waits, Delivered
<1> QED BY <1>1, <1>2, <1>3 DEF Closing

\* Every step of the relay is one of AgentStreams or none.
LEMMA StepMaps ==
  ASSUME RelayInv, [Next]_vars
  PROVE  [Simply!Next]_(Simply!vars)
<1>1. CASE UNCHANGED vars
  BY <1>1, NoStreamChanges DEF vars, Phase, Waits, Delivered
<1>2. CASE \/ \E p \in Posts : ServerAnswers(p)
           \/ \E n \in Notes : ServerSays(n)
           \/ ServerEnds
  BY <1>2, NoStreamChanges DEF ServerAnswers, ServerSays, ServerEnds, state, channels, pumping,
     Phase, Waits, Delivered
<1> QED BY <1>1, <1>2, PostMaps, StreamMaps, PumpMaps, CloseMaps DEF Next

\* The relay keeps the promise made to agents of their streams: whatever the
\* order in which messages come, are placed and read, streams are left and the
\* connection is closed, each step is a step of AgentStreams or none.
THEOREM RelayKeepsPromise == Safety => KeepsPromise
<1>1. RelayInv /\ RelayInv' /\ [Next]_vars => [Promise!Next]_(Promise!vars)
  BY StepMaps, SimplyIsPromise
<1> QED BY <1>1, InitPromise, RelayInvariant, PTL DEF Safety, KeepsPromise, Promise!Spec

-----------------------------------------------------------------------------
(* That what the server says on its own is neither lost nor told twice.    *)

\* The places a message has in a sequence are finitely many.
LEMMA InFinite ==
  ASSUME NEW S, NEW s \in Seq(S), NEW m
  PROVE  /\ IsFiniteSet(In(s, m)) /\ Cardinality(In(s, m)) \in Nat
         /\ In(s, m) \subseteq 1..Len(s)
         /\ m \notin Elements(s) <=> Cardinality(In(s, m)) = 0
<1>1. In(s, m) \in SUBSET (1..Len(s)) /\ IsFiniteSet(1..Len(s))
  <2>1. DOMAIN s = 1..Len(s) /\ Len(s) \in Int
    BY SeqDomain
  <2> QED BY <2>1, FS_Interval DEF In
<1>2. IsFiniteSet(In(s, m)) /\ Cardinality(In(s, m)) \in Nat
  BY <1>1, FS_Subset, FS_CardinalityType
<1>3. m \notin Elements(s) <=> In(s, m) = {}
  BY DEF In, Elements
<1> QED BY <1>1, <1>2, <1>3, FS_EmptySet

\* A message appended has one place more.
LEMMA InAppend ==
  ASSUME NEW S, NEW s \in Seq(S), NEW x \in S, NEW m
  PROVE  Cardinality(In(Append(s, x), m)) = Cardinality(In(s, m)) + (IF x = m THEN 1 ELSE 0)
<1>1. /\ Append(s, x) \in Seq(S) /\ Len(Append(s, x)) = Len(s) + 1
      /\ \A i \in 1..Len(s) : Append(s, x)[i] = s[i]
      /\ Append(s, x)[Len(s) + 1] = x
  BY AppendProperties
<1>2. /\ DOMAIN Append(s, x) = 1..(Len(s) + 1) /\ DOMAIN s = 1..Len(s) /\ Len(s) \in Nat
      /\ 1..(Len(s) + 1) = (1..Len(s)) \cup {Len(s) + 1} /\ Len(s) + 1 \notin 1..Len(s)
  BY <1>1, SeqDomain
<1>3. CASE x = m
  <2>1. In(Append(s, x), m) = In(s, m) \cup {Len(s) + 1} /\ Len(s) + 1 \notin In(s, m)
    BY <1>1, <1>2, <1>3 DEF In
  <2> QED BY <1>3, <2>1, InFinite, FS_AddElement
<1>4. CASE x # m
  <2>1. In(Append(s, x), m) = In(s, m)
    BY <1>1, <1>2, <1>4 DEF In
  <2> QED BY <1>4, <2>1, InFinite
<1> QED BY <1>3, <1>4

\* The head taken off has one place less.
LEMMA InTail ==
  ASSUME NEW S, NEW s \in Seq(S), s # <<>>, NEW m
  PROVE  Cardinality(In(s, m)) = Cardinality(In(Tail(s), m)) + (IF Head(s) = m THEN 1 ELSE 0)
<1>1. /\ Tail(s) \in Seq(S) /\ Len(Tail(s)) = Len(s) - 1 /\ Head(s) = s[1]
      /\ \A i \in 1..(Len(s) - 1) : Tail(s)[i] = s[i + 1]
  BY ElementsTail
<1>2. /\ DOMAIN Tail(s) = 1..(Len(s) - 1) /\ DOMAIN s = 1..Len(s)
      /\ Len(s) \in Nat /\ Len(s) # 0
  BY <1>1, SeqDomain, EmptySeq
<1> DEFINE f == [i \in In(Tail(s), m) |-> i + 1]
<1>3. f \in Bijection(In(Tail(s), m), In(s, m) \ {1})
  <2>1. \A i \in In(Tail(s), m) : i \in Nat /\ f[i] = i + 1 /\ i + 1 \in In(s, m) \ {1}
    BY <1>1, <1>2 DEF In
  <2>2. \A j \in In(s, m) \ {1} : j - 1 \in In(Tail(s), m) /\ f[j - 1] = j
    <3>1. ASSUME NEW j \in In(s, m) \ {1} PROVE j - 1 \in 1..(Len(s) - 1) /\ (j - 1) + 1 = j /\ s[j] = m
      BY <1>2 DEF In
    <3>2. ASSUME NEW j \in In(s, m) \ {1} PROVE j - 1 \in In(Tail(s), m)
      BY <1>1, <1>2, <3>1 DEF In
    <3> QED BY <2>1, <3>1, <3>2
  <2>3. f \in [In(Tail(s), m) -> In(s, m) \ {1}] /\ DOMAIN f = In(Tail(s), m)
    BY <2>1
  <2>4. \A i, j \in In(Tail(s), m) : f[i] = f[j] => i = j
    BY <2>1
  <2> HIDE DEF f
  <2> QED BY <2>2, <2>3, <2>4 DEF Bijection, Injection, Surjection, IsInjective
<1>4. /\ Cardinality(In(s, m) \ {1}) = Cardinality(In(Tail(s), m))
  <2>1. IsFiniteSet(In(Tail(s), m))
    BY <1>1, InFinite
  <2> HIDE DEF f
  <2>2. ExistsBijection(In(Tail(s), m), In(s, m) \ {1})
    BY <1>3 DEF ExistsBijection
  <2> QED BY <2>1, <2>2, FS_Bijection
<1>5. 1 \in In(s, m) <=> Head(s) = m
  BY <1>1, <1>2 DEF In
<1>6. Cardinality(In(s, m) \ {1})
        = IF 1 \in In(s, m) THEN Cardinality(In(s, m)) - 1 ELSE Cardinality(In(s, m))
  BY InFinite, FS_RemoveElement
<1>7. Cardinality(In(s, m)) \in Nat /\ Cardinality(In(Tail(s), m)) \in Nat
  BY <1>1, InFinite
<1> QED BY <1>4, <1>5, <1>6, <1>7

ToldFinite == \A n \in Notes : IsFiniteSet(Told(n))

\* A stream has nothing before it is opened.
StreamsStartEmpty ==
  \A s \in Streams : rx[s] \in {"none", "found"} => got[s] = <<>> /\ chan[s] = <<>>

\* What has not been said yet is nowhere, what has been is in one place.
CopiesRight == \A n \in Notes : Copies(n) = IF n \in unsaid THEN 0 ELSE 1

KeptInv == ToldFinite /\ StreamsStartEmpty /\ CopiesRight

\* The counts that make up Copies.
LEMMA Counts ==
  ASSUME RelayInv, KeptInv, NEW n \in Notes
  PROVE  /\ Cardinality(In(incoming, n)) \in Nat /\ Cardinality(In(backlog, n)) \in Nat
         /\ Cardinality(Told(n)) \in Nat /\ IsFiniteSet(Told(n))
         /\ n \in Messages /\ n # None
<1>1. incoming \in Seq(Messages) /\ backlog \in Seq(Messages)
  BY DEF RelayInv, TypeOK
<1> QED BY <1>1, InFinite, FS_CardinalityType, RelayAssumption DEF KeptInv, ToldFinite, Messages

\* A step that leaves what is told as it is.
LEMMA ToldSame ==
  ASSUME KeptInv, \A ch \in Channels : Delivered(ch)' = Delivered(ch),
         \A s \in Streams : rx'[s] \in {"none", "found"} =>
                              rx[s] \in {"none", "found"} /\ got'[s] = got[s] /\ chan'[s] = chan[s]
  PROVE  ToldFinite' /\ StreamsStartEmpty' /\ \A n \in Notes : Told(n)' = Told(n)
<1>1. \A n \in Notes : Told(n)' = Told(n)
  BY DEF Told
<1> QED BY <1>1 DEF KeptInv, ToldFinite, StreamsStartEmpty

\* The accounts start balanced.
LEMMA InitKept == Init => KeptInv
<1> SUFFICES ASSUME Init PROVE KeptInv
  OBVIOUS
<1>1. \A ch \in Channels : Delivered(ch) = <<>>
  BY DEF Init, Delivered
<1>2. \A n \in Notes : In(<<>>, n) = {}
  BY DEF In
<1>3. \A n \in Notes : Told(n) = {}
  BY <1>1, <1>2 DEF Told
<1>4. ASSUME NEW n \in Notes PROVE Copies(n) = 0
  <2>1. /\ Cardinality(In(incoming, n)) = 0 /\ Cardinality(In(backlog, n)) = 0
        /\ Cardinality(Told(n)) = 0
    BY <1>2, <1>3, FS_EmptySet DEF Init
  <2>2. message # n /\ n \notin lost
    BY RelayAssumption DEF Init
  <2> QED BY <2>1, <2>2 DEF Copies
<1> QED BY <1>3, <1>4, FS_EmptySet DEF Init, KeptInv, ToldFinite, StreamsStartEmpty, CopiesRight, Channels

\* A step that moves nothing the server said on its own.
LEMMA NothingMoves ==
  ASSUME RelayInv, KeptInv, UNCHANGED <<message, backlog, got, chan, lost, unsaid>>,
         \A n \in Notes : Cardinality(In(incoming, n))' = Cardinality(In(incoming, n)),
         \A s \in Streams : rx'[s] \in {"none", "found"} => rx[s] \in {"none", "found"}
  PROVE  KeptInv'
<1>1. ToldFinite' /\ StreamsStartEmpty' /\ \A n \in Notes : Told(n)' = Told(n)
  BY ToldSame DEF Delivered
<1>2. CopiesRight'
  BY <1>1 DEF KeptInv, CopiesRight, Copies
<1> QED BY <1>1, <1>2 DEF KeptInv

\* A stream is left, its unread messages with it.
LEMMA KeptLeaves ==
  ASSUME RelayInv, KeptInv, NEW ch \in Channels, rx[ch] \notin {"none", "found"},
         lost' = lost \cup Elements(chan[ch]), chan' = [chan EXCEPT ![ch] = <<>>],
         rx' = [rx EXCEPT ![ch] = "left"],
         UNCHANGED <<message, backlog, got, unsaid, incoming>>
  PROVE  KeptInv'
<1>1. /\ chan[ch] \in Seq(Messages) /\ got[ch] \in Seq(Messages)
      /\ chan'[ch] = <<>> /\ got'[ch] = got[ch] /\ Delivered(ch)' = got[ch]
      /\ \A c \in Channels \ {ch} : Delivered(c)' = Delivered(c)
  BY ConcatEmptySeq DEF RelayInv, TypeOK, Delivered
<1>2. /\ DOMAIN got[ch] = 1..Len(got[ch]) /\ DOMAIN chan[ch] = 1..Len(chan[ch])
      /\ \A i \in 1..Len(got[ch]) : i \in DOMAIN Delivered(ch) /\ Delivered(ch)[i] = got[ch][i]
      /\ \A j \in 1..Len(chan[ch]) : /\ Len(got[ch]) + j \in DOMAIN Delivered(ch)
                                     /\ Delivered(ch)[Len(got[ch]) + j] = chan[ch][j]
                                     /\ Len(got[ch]) + j \notin 1..Len(got[ch])
      /\ \A i \in DOMAIN Delivered(ch) :
           i \in 1..Len(got[ch]) \/ \E j \in 1..Len(chan[ch]) : i = Len(got[ch]) + j
  <2>1. Delivered(ch) = got[ch] \o chan[ch]
    BY DEF Delivered
  <2>2. DOMAIN got[ch] = 1..Len(got[ch]) /\ DOMAIN chan[ch] = 1..Len(chan[ch])
    BY <1>1, SeqDomain
  <2> DEFINE g == got[ch]
             s == chan[ch]
  <2>3. g \in Seq(Messages) /\ s \in Seq(Messages) /\ Delivered(ch) = g \o s
    BY <1>1, <2>1
  <2>4. DOMAIN g = 1..Len(g) /\ DOMAIN s = 1..Len(s)
    BY <2>2
  <2> SUFFICES
        /\ \A i \in 1..Len(g) : i \in DOMAIN (g \o s) /\ (g \o s)[i] = g[i]
        /\ \A j \in 1..Len(s) : /\ Len(g) + j \in DOMAIN (g \o s)
                                /\ (g \o s)[Len(g) + j] = s[j]
                                /\ Len(g) + j \notin 1..Len(g)
        /\ \A i \in DOMAIN (g \o s) : i \in 1..Len(g) \/ \E j \in 1..Len(s) : i = Len(g) + j
    BY <2>1, <2>2
  <2> HIDE DEF g, s
  <2> QED BY ONLY <2>3, ConcatAt
<1>3. ASSUME NEW n \in Notes PROVE In(Delivered(ch), n)' \subseteq In(Delivered(ch), n)
  BY <1>1, <1>2 DEF In
<1>4. ASSUME NEW n \in Notes PROVE Told(n)' \subseteq Told(n)
  BY <1>1, <1>3 DEF Told
<1>5. ToldFinite'
  BY <1>4, FS_Subset DEF KeptInv, ToldFinite
<1>6. StreamsStartEmpty'
  BY <1>1 DEF KeptInv, StreamsStartEmpty, RelayInv, TypeOK, Channels
<1>7. ASSUME NEW n \in Notes PROVE Copies(n)' = Copies(n)
  <2>0. /\ Cardinality(In(incoming, n)) \in Nat /\ Cardinality(In(backlog, n)) \in Nat
        /\ Cardinality(Told(n)) \in Nat /\ IsFiniteSet(Told(n))
        /\ Copies(n) \in {0, 1}
    BY Counts DEF KeptInv, CopiesRight
  <2>1. CASE n \notin Elements(chan[ch])
    <3>1. In(Delivered(ch), n)' = In(Delivered(ch), n)
      <4>2. \A i \in DOMAIN chan[ch] : chan[ch][i] # n
        BY <2>1 DEF Elements
      <4>3. \A i \in DOMAIN Delivered(ch) : Delivered(ch)[i] = n => i \in DOMAIN got[ch] /\ got[ch][i] = n
        <5> SUFFICES ASSUME NEW i \in DOMAIN Delivered(ch), Delivered(ch)[i] = n
                     PROVE  i \in DOMAIN got[ch] /\ got[ch][i] = n
          OBVIOUS
        <5>1. ~\E j \in 1..Len(chan[ch]) : i = Len(got[ch]) + j
          BY <1>2, <4>2
        <5> QED BY <1>2, <5>1
      <4>4. In(Delivered(ch), n) \subseteq In(got[ch], n)
        BY <4>3 DEF In
      <4> QED BY <1>1, <1>3, <4>4
    <3>2. Told(n)' = Told(n)
      BY <1>1, <3>1 DEF Told
    <3> QED BY <2>1, <3>2 DEF Copies
  <2>2. CASE n \in Elements(chan[ch])
    <3>1. PICK j \in 1..Len(chan[ch]) : chan[ch][j] = n
      BY <1>2, <2>2 DEF Elements
    <3> DEFINE i == Len(got[ch]) + j
               place == <<ch, i>>
    <3>3. i \in In(Delivered(ch), n) /\ i \notin 1..Len(got[ch])
      BY <1>2, <3>1 DEF In
    <3>4. i \notin In(Delivered(ch), n)'
      BY <1>1, <1>2, <3>3 DEF In
    <3> HIDE DEF i
    <3>5. place \in Told(n)
      BY <3>3 DEF Told
    <3>6. place \notin Told(n)'
      BY <3>4 DEF Told
    <3>7. Cardinality(Told(n)) # 0
      BY <2>0, <3>5, FS_EmptySet
    <3>8. Cardinality(Told(n)) = 1 /\ n \notin lost /\ Copies(n) = 1
      BY <2>0, <3>7 DEF Copies
    <3>9. Told(n) = {place}
      BY <2>0, <3>5, <3>8, FS_Singleton
    <3>10. Cardinality(Told(n)') = 0
      BY <1>4, <3>6, <3>9, FS_EmptySet
    <3>11. n \in lost'
      BY <2>2
    <3> QED BY <2>0, <3>8, <3>10, <3>11 DEF Copies
  <2> QED BY <2>1, <2>2
<1>8. CopiesRight'
  BY <1>7 DEF KeptInv, CopiesRight
<1> QED BY <1>5, <1>6, <1>8 DEF KeptInv

\* A stream is opened with what was kept for it.
LEMMA KeptListen ==
  ASSUME RelayInv, KeptInv, NEW s \in Streams, Listen(s)
  PROVE  KeptInv'
<1> USE DEF state, server, pumping, closing
<1>0. s \in Channels /\ rx[s] = "found" /\ got[s] = <<>> /\ chan[s] = <<>>
  BY DEF Listen, KeptInv, StreamsStartEmpty, Channels
<1>1. CASE Listening
  <2>1. UNCHANGED <<message, backlog, got, chan, lost, unsaid, incoming>> /\ rx' = [rx EXCEPT ![s] = "left"]
    BY <1>1 DEF Listen
  <2> QED BY <2>1, NothingMoves DEF RelayInv, TypeOK, Channels
<1>2. CASE ~Listening
  <2>1. /\ backlog \in Seq(Messages) /\ Len(backlog) <= Backlog /\ Len(backlog) \in Nat
        /\ Backlog <= Capacity /\ Backlog \in Nat /\ Capacity \in Nat
    BY RelayAssumption, SeqDomain DEF RelayInv, TypeOK
  <2>2. Drained = backlog /\ SubSeq(backlog, Len(backlog) + 1, Len(backlog)) = <<>>
    <3>1. Drained = SubSeq(backlog, 1, Len(backlog))
      BY <2>1 DEF Drained
    <3> QED BY <2>1, <3>1, SubSeqFull, SubSeqEmpty
  <2>3. /\ backlog' = <<>> /\ chan' = [chan EXCEPT ![s] = backlog]
        /\ rx' = [rx EXCEPT ![s] = "open"]
        /\ UNCHANGED <<message, got, lost, unsaid, incoming>>
    BY <1>2, <2>2 DEF Listen
  <2>4. /\ Delivered(s) = <<>> /\ Delivered(s)' = backlog
        /\ \A ch \in Channels \ {s} : Delivered(ch)' = Delivered(ch)
    BY <1>0, <2>1, <2>3, ConcatEmptySeq DEF Delivered, RelayInv, TypeOK
  <2>5. ASSUME NEW n \in Notes
        PROVE  Told(n)' = Told(n) \cup ({s} \X In(backlog, n))
    <3>1. In(Delivered(s), n) = {}
      BY <2>4 DEF In
    <3> QED BY <1>0, <2>4, <3>1 DEF Told
  <2>6. ASSUME NEW n \in Notes PROVE IsFiniteSet(Told(n)') /\ Copies(n)' = Copies(n)
    <3>0. /\ Cardinality(In(incoming, n)) \in Nat /\ Cardinality(In(backlog, n)) \in Nat
          /\ Cardinality(Told(n)) \in Nat /\ IsFiniteSet(Told(n))
          /\ Copies(n) \in {0, 1} /\ IsFiniteSet(In(backlog, n))
      BY <2>1, Counts, InFinite DEF KeptInv, CopiesRight
    <3>1. Cardinality(In(backlog, n)') = 0
      <4>1. In(<<>>, n) = {}
        BY DEF In
      <4> QED BY <2>3, <4>1, FS_EmptySet
    <3>2. CASE Cardinality(In(backlog, n)) = 0
      <4>1. Told(n)' = Told(n)
        BY <2>5, <3>0, <3>2, FS_EmptySet
      <4> QED BY <2>3, <3>0, <3>1, <3>2, <4>1 DEF Copies
    <3>3. CASE Cardinality(In(backlog, n)) # 0
      <4>1. Cardinality(In(backlog, n)) = 1 /\ Cardinality(Told(n)) = 0
        <5> DEFINE b == IF message = n THEN 1 ELSE 0
                   e == IF n \in lost THEN 1 ELSE 0
                   a == Cardinality(In(incoming, n))
                   c == Cardinality(In(backlog, n))
                   d == Cardinality(Told(n))
        <5>1. b \in {0, 1} /\ e \in {0, 1}
          OBVIOUS
        <5>2. a + b + c + d + e \in {0, 1}
          BY <3>0 DEF Copies
        <5>3. a \in Nat /\ c \in Nat /\ d \in Nat /\ c # 0
          BY <3>0, <3>3
        <5> HIDE DEF a, b, c, d, e
        <5>4. c = 1 /\ d = 0
          BY ONLY <5>1, <5>2, <5>3
        <5> QED BY <5>4 DEF c, d
      <4>2. PICK i : In(backlog, n) = {i}
        BY <3>0, <4>1, FS_Singleton
      <4>3. Told(n)' = {<<s, i>>}
        BY <2>5, <3>0, <4>1, <4>2, FS_EmptySet
      <4>4. Cardinality(Told(n)') = 1 /\ IsFiniteSet(Told(n)')
        BY <4>3, FS_Singleton
      <4> QED BY <2>3, <3>0, <3>1, <4>1, <4>4 DEF Copies
    <3> QED BY <3>2, <3>3
  <2>7. StreamsStartEmpty'
    BY <1>0, <2>3 DEF KeptInv, StreamsStartEmpty, RelayInv, TypeOK, Channels
  <2> QED BY <2>3, <2>6, <2>7 DEF KeptInv, ToldFinite, CopiesRight
<1> QED BY <1>1, <1>2

Out(n) == IF message = n THEN 1 ELSE 0
Gone(n) == IF n \in lost THEN 1 ELSE 0

\* Where a message of the server's own is in one place, it is in no other.
LEMMA OnePlace ==
  ASSUME RelayInv, KeptInv, NEW n \in Notes
  PROVE  LET a == Cardinality(In(incoming, n))
             b == Out(n)
             c == Cardinality(In(backlog, n))
             d == Cardinality(Told(n))
             e == Gone(n)
         IN /\ b # 0 => a = 0 /\ b = 1 /\ c = 0 /\ d = 0 /\ e = 0
            /\ c # 0 => a = 0 /\ b = 0 /\ c = 1 /\ d = 0 /\ e = 0
<1> DEFINE a == Cardinality(In(incoming, n))
           b == Out(n)
           c == Cardinality(In(backlog, n))
           d == Cardinality(Told(n))
           e == Gone(n)
<1>1. a \in Nat /\ b \in Nat /\ c \in Nat /\ d \in Nat /\ e \in Nat
  BY Counts DEF Out, Gone
<1>2. a + b + c + d + e \in {0, 1}
  <2>1. a + b + c + d + e = Copies(n)
    BY DEF Copies, Out, Gone
  <2> QED BY <2>1 DEF KeptInv, CopiesRight
<1> HIDE DEF a, b, c, d, e
<1>3. /\ b # 0 => a = 0 /\ b = 1 /\ c = 0 /\ d = 0 /\ e = 0
      /\ c # 0 => a = 0 /\ b = 0 /\ c = 1 /\ d = 0 /\ e = 0
  BY ONLY <1>1, <1>2
<1> QED BY <1>3 DEF a, b, c, d, e

\* A step after which the counts come to the same sum.
LEMMA SumKept ==
  ASSUME RelayInv, KeptInv, ToldFinite', StreamsStartEmpty', unsaid' = unsaid,
         \A n \in Notes :
           Cardinality(In(incoming, n))' + Out(n)' + Cardinality(In(backlog, n))'
             + Cardinality(Told(n))' + Gone(n)'
           = Cardinality(In(incoming, n)) + Out(n) + Cardinality(In(backlog, n))
             + Cardinality(Told(n)) + Gone(n)
  PROVE  KeptInv'
BY DEF KeptInv, CopiesRight, Copies, Out, Gone

\* What the server says is put in one place.
LEMMA KeptServer ==
  ASSUME RelayInv, KeptInv,
         \/ \E p \in Posts : ServerAnswers(p)
         \/ \E n \in Notes : ServerSays(n)
         \/ ServerEnds
  PROVE  KeptInv'
<1> USE DEF server, state, channels, pumping, closing
<1>0. incoming \in Seq(Messages)
  BY DEF RelayInv, TypeOK
<1>1. ASSUME NEW p \in Posts, ServerAnswers(p) PROVE KeptInv'
  <2>1. ASSUME NEW n \in Notes PROVE Cardinality(In(incoming, n))' = Cardinality(In(incoming, n))
    <3>1. p \in Messages /\ p # n /\ incoming' = Append(incoming, p)
      BY <1>1, RelayAssumption DEF Messages, ServerAnswers
    <3>2. Cardinality(In(Append(incoming, p), n)) = Cardinality(In(incoming, n)) + 0
      BY <1>0, <3>1, InAppend
    <3> QED BY <1>0, <3>1, <3>2, InFinite
  <2> QED BY <1>1, <2>1, NothingMoves DEF ServerAnswers
<1>2. ASSUME NEW n \in Notes, ServerSays(n) PROVE KeptInv'
  <2>1. /\ n \in Messages /\ n \in unsaid /\ unsaid' = unsaid \ {n}
        /\ incoming' = Append(incoming, n)
        /\ UNCHANGED <<message, backlog, got, chan, rx, lost>>
    BY <1>2 DEF Messages, ServerSays, Fresh
  <2>2. ToldFinite' /\ StreamsStartEmpty' /\ \A m \in Notes : Told(m)' = Told(m)
    BY <2>1, ToldSame DEF Delivered
  <2>3. ASSUME NEW m \in Notes PROVE Copies(m)' = Copies(m) + (IF m = n THEN 1 ELSE 0)
    <3>1. Cardinality(In(incoming, m))' = Cardinality(In(incoming, m)) + (IF m = n THEN 1 ELSE 0)
      BY <1>0, <2>1, InAppend
    <3> DEFINE a == Cardinality(In(incoming, m))
               c == Cardinality(In(backlog, m))
               d == Cardinality(Told(m))
    <3>2. /\ Copies(m) = a + Out(m) + c + d + Gone(m)
          /\ Copies(m)' = (a + (IF m = n THEN 1 ELSE 0)) + Out(m) + c + d + Gone(m)
      BY <2>1, <2>2, <3>1 DEF Copies, Out, Gone
    <3>3. a \in Nat /\ c \in Nat /\ d \in Nat /\ Out(m) \in Nat /\ Gone(m) \in Nat
      BY Counts DEF Out, Gone
    <3> HIDE DEF a, c, d
    <3> QED BY <3>2, <3>3
  <2>4. CopiesRight'
    BY <2>1, <2>3 DEF KeptInv, CopiesRight
  <2> QED BY <2>2, <2>4 DEF KeptInv
<1>3. CASE ServerEnds
  BY <1>3, NothingMoves DEF ServerEnds
<1> QED BY <1>1, <1>2, <1>3

\* The pump moves a message from one place to the next, or loses it in sight.
LEMMA KeptPump ==
  ASSUME RelayInv, KeptInv, Pumping
  PROVE  KeptInv'
<1> USE DEF server, state, channels, pumping, closing
<1>0. incoming \in Seq(Messages) /\ backlog \in Seq(Messages)
  BY DEF RelayInv, TypeOK
<1>1. CASE PumpCloses \/ PumpStops \/ OtherUnread \/ RouteAnswer \/ RouteOther
  BY <1>1, NothingMoves DEF PumpCloses, PumpStops, OtherUnread, RouteAnswer, RouteOther
<1>2. CASE PumpTakes
  <2>1. /\ incoming # <<>> /\ message = None /\ message' = Head(incoming)
        /\ incoming' = Tail(incoming)
        /\ UNCHANGED <<unsaid, backlog, got, chan, rx, lost>>
    BY <1>2 DEF PumpTakes, RelayInv, PumpCarries
  <2>2. ToldFinite' /\ StreamsStartEmpty' /\ \A n \in Notes : Told(n)' = Told(n)
    BY <2>1, ToldSame DEF Delivered
  <2>3. ASSUME NEW n \in Notes
        PROVE  /\ Cardinality(In(incoming, n)) = Cardinality(In(incoming, n))' + Out(n)'
               /\ Cardinality(In(incoming, n))' \in Nat
               /\ Out(n) = 0 /\ Out(n)' \in Nat /\ Gone(n)' = Gone(n) /\ Gone(n) \in Nat
               /\ Cardinality(Told(n)) \in Nat /\ Cardinality(In(backlog, n)) \in Nat
    <3>1. Out(n)' = IF Head(incoming) = n THEN 1 ELSE 0
      BY <2>1 DEF Out
    <3>2. Tail(incoming) \in Seq(Messages)
      BY <1>0, <2>1, ElementsTail
    <3>3. Cardinality(In(incoming, n)) = Cardinality(In(incoming', n)) + Out(n)'
      BY <1>0, <2>1, <3>1, InTail
    <3> QED BY <2>1, <3>1, <3>2, <3>3, Counts, InFinite DEF Out, Gone
  <2>4. ASSUME NEW n \in Notes
        PROVE  Cardinality(In(incoming, n))' + Out(n)' + Cardinality(In(backlog, n))'
                 + Cardinality(Told(n))' + Gone(n)'
               = Cardinality(In(incoming, n)) + Out(n) + Cardinality(In(backlog, n))
                 + Cardinality(Told(n)) + Gone(n)
    BY <2>1, <2>2, <2>3
  <2> QED BY <2>1, <2>2, <2>4, SumKept
<1>3. CASE PumpSends
  <2>1. /\ target \in Channels /\ rx[target] = "open" /\ message \in Messages
        /\ chan[target] \in Seq(Messages) /\ got[target] \in Seq(Messages)
        /\ chan' = [chan EXCEPT ![target] = Append(chan[target], message)]
        /\ message' = None /\ UNCHANGED <<unsaid, backlog, got, rx, lost, incoming>>
    BY <1>3, RelayAssumption DEF PumpSends, Put, HasRoom, Carried, RelayInv, TypeOK, PumpCarries
  <2>2. PICK ch \in Channels : ch = target
    BY <2>1
  <2>3. /\ Delivered(ch)' = Append(Delivered(ch), message) /\ Delivered(ch) \in Seq(Messages)
        /\ \A c \in Channels \ {ch} : Delivered(c)' = Delivered(c)
    <3>1. got[ch] \o Append(chan[ch], message) = Append(got[ch] \o chan[ch], message)
      <4>1. \A g, s \in Seq(Messages) : \A m \in Messages : g \o Append(s, m) = Append(g \o s, m)
        BY AppendLast
      <4> QED BY <2>1, <2>2, <4>1
    <3> QED BY <2>1, <2>2, <3>1, ConcatProperties DEF Delivered, RelayInv, TypeOK
  <2>4. ASSUME NEW n \in Notes
        PROVE  /\ Told(n)' = IF message = n THEN Told(n) \cup {<<ch, Len(Delivered(ch)) + 1>>} ELSE Told(n)
               /\ <<ch, Len(Delivered(ch)) + 1>> \notin Told(n)
    <3> DEFINE s == Delivered(ch)
    <3>1. /\ DOMAIN Append(s, message) = 1..(Len(s) + 1) /\ DOMAIN s = 1..Len(s) /\ Len(s) \in Nat
          /\ \A i \in 1..Len(s) : Append(s, message)[i] = s[i]
          /\ Append(s, message)[Len(s) + 1] = message
          /\ 1..(Len(s) + 1) = (1..Len(s)) \cup {Len(s) + 1} /\ Len(s) + 1 \notin 1..Len(s)
      BY <2>1, <2>3, AppendProperties, SeqDomain
    <3>2. In(Append(s, message), n) = IF message = n THEN In(s, n) \cup {Len(s) + 1} ELSE In(s, n)
      BY <3>1 DEF In
    <3>3. In(Delivered(ch), n)' = In(Append(s, message), n)
      BY <2>3
    <3>4. Len(s) + 1 \notin In(s, n)
      BY <3>1 DEF In
    <3>5. \A c \in Channels \ {ch} : In(Delivered(c), n)' = In(Delivered(c), n)
      BY <2>3
    <3> HIDE DEF s
    <3>6. <<ch, Len(s) + 1>> \notin Told(n)
      BY <3>4 DEF Told, s
    <3>7. Told(n)' = IF message = n THEN Told(n) \cup {<<ch, Len(s) + 1>>} ELSE Told(n)
      BY <3>2, <3>3, <3>5 DEF Told, s
    <3> QED BY <3>6, <3>7 DEF s
  <2>5. ToldFinite'
    BY <2>4, FS_AddElement DEF KeptInv, ToldFinite
  <2>6. StreamsStartEmpty'
    BY <2>1 DEF KeptInv, StreamsStartEmpty, RelayInv, TypeOK, Channels
  <2>7. ASSUME NEW n \in Notes
        PROVE  /\ Cardinality(Told(n))' = Cardinality(Told(n)) + Out(n)
               /\ Out(n)' = 0 /\ Out(n) \in Nat /\ Gone(n)' = Gone(n) /\ Gone(n) \in Nat
               /\ Cardinality(Told(n)) \in Nat /\ Cardinality(In(backlog, n)) \in Nat
               /\ Cardinality(In(incoming, n)) \in Nat
    <3>1. IsFiniteSet(Told(n)) /\ Cardinality(Told(n)) \in Nat /\ n # None
      BY Counts
    <3>2. Cardinality(Told(n)') = Cardinality(Told(n)) + Out(n)
      BY <2>4, <3>1, FS_AddElement DEF Out
    <3> QED BY <2>1, <3>1, <3>2, Counts DEF Out, Gone
  <2>8. ASSUME NEW n \in Notes
        PROVE  Cardinality(In(incoming, n))' + Out(n)' + Cardinality(In(backlog, n))'
                 + Cardinality(Told(n))' + Gone(n)'
               = Cardinality(In(incoming, n)) + Out(n) + Cardinality(In(backlog, n))
                 + Cardinality(Told(n)) + Gone(n)
    BY <2>1, <2>7
  <2> QED BY <2>1, <2>5, <2>6, <2>8, SumKept
<1>4. CASE AnswerUnread
  <2>1. /\ message' = None /\ lost' = lost \cup {message}
        /\ UNCHANGED <<unsaid, backlog, got, chan, rx, incoming>>
    BY <1>4 DEF AnswerUnread, Carried
  <2>2. ToldFinite' /\ StreamsStartEmpty' /\ \A n \in Notes : Told(n)' = Told(n)
    BY <2>1, ToldSame DEF Delivered
  <2>3. ASSUME NEW n \in Notes
        PROVE  /\ Out(n)' = 0 /\ Gone(n)' = Gone(n) + Out(n) /\ Out(n) \in Nat /\ Gone(n) \in Nat
               /\ Cardinality(Told(n)) \in Nat /\ Cardinality(In(backlog, n)) \in Nat
               /\ Cardinality(In(incoming, n)) \in Nat
    BY <2>1, Counts, OnePlace DEF Out, Gone
  <2>4. ASSUME NEW n \in Notes
        PROVE  Cardinality(In(incoming, n))' + Out(n)' + Cardinality(In(backlog, n))'
                 + Cardinality(Told(n))' + Gone(n)'
               = Cardinality(In(incoming, n)) + Out(n) + Cardinality(In(backlog, n))
                 + Cardinality(Told(n)) + Gone(n)
    BY <2>1, <2>2, <2>3
  <2> QED BY <2>1, <2>2, <2>4, SumKept
<1>5. CASE PumpKeeps
  <2>1. /\ message \in Messages /\ message' = None
        /\ UNCHANGED <<unsaid, got, chan, rx, incoming>>
    BY <1>5 DEF PumpKeeps, Carried, RelayInv, PumpCarries
  <2>2. ToldFinite' /\ StreamsStartEmpty' /\ \A n \in Notes : Told(n)' = Told(n)
    BY <2>1, ToldSame DEF Delivered
  <2>3. ASSUME NEW n \in Notes
        PROVE  /\ Cardinality(In(backlog, n))' + Gone(n)'
                    = Cardinality(In(backlog, n)) + Out(n) + Gone(n)
               /\ Cardinality(In(backlog, n))' \in Nat /\ Gone(n)' \in Nat /\ Out(n)' = 0
    <3>1. CASE Len(backlog) >= Backlog
      <4>1. backlog # <<>> /\ Tail(backlog) \in Seq(Messages)
        <5>1. backlog # <<>>
          BY <3>1, EmptySeq, RelayAssumption
        <5> QED BY <1>0, <5>1, ElementsTail
      <4>2. backlog' = Append(Tail(backlog), message) /\ lost' = lost \cup {Head(backlog)}
        BY <1>5, <3>1 DEF PumpKeeps
      <4>3. Cardinality(In(backlog, n))
              = Cardinality(In(Tail(backlog), n)) + (IF Head(backlog) = n THEN 1 ELSE 0)
        BY <1>0, <4>1, InTail
      <4>4. Cardinality(In(backlog', n)) = Cardinality(In(Tail(backlog), n)) + Out(n)
        <5>1. \A s \in Seq(Messages), m \in Messages :
                Cardinality(In(Append(s, m), n)) = Cardinality(In(s, n)) + (IF m = n THEN 1 ELSE 0)
          BY InAppend
        <5>2. Cardinality(In(Append(Tail(backlog), message), n))
                = Cardinality(In(Tail(backlog), n)) + (IF message = n THEN 1 ELSE 0)
          BY <2>1, <4>1, <5>1
        <5> QED BY <4>2, <5>2 DEF Out
      <4>5. Cardinality(In(Tail(backlog), n)) \in Nat /\ Out(n) \in Nat /\ Gone(n) \in Nat
        BY <4>1, InFinite DEF Out, Gone
      <4>6. Head(backlog) = n => Gone(n) = 0
        BY <4>3, <4>5, OnePlace
      <4>7. Gone(n)' = Gone(n) + (IF Head(backlog) = n THEN 1 ELSE 0)
        BY <4>2, <4>6 DEF Gone
      <4>8. Out(n)' = 0
        BY <2>1, RelayAssumption DEF Out
      <4> QED BY <4>3, <4>4, <4>5, <4>7, <4>8
    <3>2. CASE ~(Len(backlog) >= Backlog)
      <4>1. backlog' = Append(backlog, message) /\ lost' = lost
        BY <1>5, <3>2 DEF PumpKeeps
      <4>2. Cardinality(In(backlog', n)) = Cardinality(In(backlog, n)) + Out(n)
        BY <1>0, <2>1, <4>1, InAppend DEF Out
      <4>3. /\ Cardinality(In(backlog, n)) \in Nat /\ Out(n) \in Nat /\ Gone(n) \in Nat
            /\ Out(n)' = 0 /\ Gone(n)' = Gone(n)
        BY <1>0, <2>1, <4>1, InFinite, RelayAssumption DEF Out, Gone
      <4> QED BY <4>2, <4>3
    <3> QED BY <3>1, <3>2
  <2>4. ASSUME NEW n \in Notes
        PROVE  Cardinality(In(incoming, n))' + Out(n)' + Cardinality(In(backlog, n))'
                 + Cardinality(Told(n))' + Gone(n)'
               = Cardinality(In(incoming, n)) + Out(n) + Cardinality(In(backlog, n))
                 + Cardinality(Told(n)) + Gone(n)
    <3>1. /\ Cardinality(In(incoming, n)) \in Nat /\ Cardinality(In(backlog, n)) \in Nat
          /\ Cardinality(Told(n)) \in Nat /\ Out(n) \in Nat /\ Gone(n) \in Nat
      BY Counts DEF Out, Gone
    <3> QED BY <2>1, <2>2, <2>3, <3>1
  <2> QED BY <2>1, <2>2, <2>4, SumKept
<1> QED BY <1>1, <1>2, <1>3, <1>4, <1>5 DEF Pumping

\* Closing loses the backlog in sight and moves nothing else.
LEMMA KeptClose ==
  ASSUME RelayInv, KeptInv, SweepStops \/ Dropped \/ \E k \in DOMAIN closer : CloseChecks(k) \/ Closing(k)
  PROVE  KeptInv'
<1> USE DEF server, state, channels, pumping, closing
<1>1. ASSUME NEW k \in DOMAIN closer, CloseChecks(k) \/ Closing(k) PROVE KeptInv'
  BY <1>1, NothingMoves DEF CloseChecks, Closing, CloseCancels, CloseUpstream, CloseClears
<1>2. CASE Dropped
  <2>1. /\ backlog \in Seq(Messages) /\ backlog' = <<>> /\ lost' = lost \cup Elements(backlog)
        /\ UNCHANGED <<message, unsaid, got, chan, rx, incoming>>
    BY <1>2 DEF Dropped, RelayInv, TypeOK
  <2>2. ToldFinite' /\ StreamsStartEmpty' /\ \A n \in Notes : Told(n)' = Told(n)
    BY <2>1, ToldSame DEF Delivered
  <2>3. ASSUME NEW n \in Notes
        PROVE  /\ Gone(n)' = Gone(n) + Cardinality(In(backlog, n))
               /\ Cardinality(In(backlog, n))' = 0 /\ Out(n)' = Out(n)
    <3>1. Cardinality(In(<<>>, n)) = 0
      BY ElementsEmpty, EmptySeq, InFinite
    <3>2. n \notin Elements(backlog) <=> Cardinality(In(backlog, n)) = 0
      BY <2>1, InFinite
    <3>3. Cardinality(In(backlog, n)) # 0 => Cardinality(In(backlog, n)) = 1 /\ Gone(n) = 0
      BY OnePlace
    <3> QED BY <2>1, <3>1, <3>2, <3>3 DEF Gone, Out
  <2>4. ASSUME NEW n \in Notes
        PROVE  Cardinality(In(incoming, n))' + Out(n)' + Cardinality(In(backlog, n))'
                 + Cardinality(Told(n))' + Gone(n)'
               = Cardinality(In(incoming, n)) + Out(n) + Cardinality(In(backlog, n))
                 + Cardinality(Told(n)) + Gone(n)
    <3>1. /\ Cardinality(In(incoming, n)) \in Nat /\ Cardinality(In(backlog, n)) \in Nat
          /\ Cardinality(Told(n)) \in Nat /\ Out(n) \in Nat /\ Gone(n) \in Nat
      BY Counts DEF Out, Gone
    <3> QED BY <2>1, <2>2, <2>3, <3>1
  <2> QED BY <2>1, <2>2, <2>4, SumKept
<1>3. CASE SweepStops
  BY <1>3, NothingMoves DEF SweepStops
<1> QED BY <1>1, <1>2, <1>3

\* What an agent reads or leaves is moved or lost in sight.
LEMMA KeptAgent ==
  ASSUME RelayInv, KeptInv,
         \/ \E p \in Posts : Agent(p)
         \/ \E s \in Streams : ListenFinds(s) \/ Listen(s)
         \/ \E ch \in Channels : AgentReads(ch) \/ AgentLeaves(ch)
  PROVE  KeptInv'
<1> USE DEF server, state, channels, pumping, closing
<1>0. Posts \subseteq Channels /\ Streams \subseteq Channels /\ Posts \cap Streams = {}
  BY RelayAssumption DEF Channels
<1>1. ASSUME NEW p \in Posts, PostChecks(p) \/ PostWaits(p) \/ PostSent(p) \/ PostReturns(p)
      PROVE  KeptInv'
  <2>1. \A s \in Streams : rx'[s] = rx[s]
    BY <1>0, <1>1 DEF PostChecks, PostWaits, PostSent, PostReturns, RelayInv, TypeOK
  <2> QED BY <1>1, <2>1, NothingMoves DEF PostChecks, PostWaits, PostSent, PostReturns
<1>2. ASSUME NEW p \in Posts, PostFails(p) PROVE KeptInv'
  <2>1. rx[p] \notin {"none", "found"}
    BY <1>2 DEF PostFails, RelayInv, PostWaiting
  <2> QED BY <1>0, <1>2, <2>1, KeptLeaves DEF PostFails
<1>3. ASSUME NEW s \in Streams, ListenFinds(s) PROVE KeptInv'
  <2>1. \A c \in Streams : rx'[c] \in {"none", "found"} => rx[c] \in {"none", "found"}
    BY <1>0, <1>3 DEF ListenFinds, RelayInv, TypeOK
  <2> QED BY <1>3, <2>1, NothingMoves DEF ListenFinds
<1>4. ASSUME NEW ch \in Channels, AgentReads(ch) PROVE KeptInv'
  <2>1. chan[ch] \in Seq(Messages) /\ got[ch] \in Seq(Messages) /\ chan[ch] # <<>>
    BY <1>4 DEF AgentReads, RelayInv, TypeOK
  <2>2. Append(got[ch], Head(chan[ch])) \o Tail(chan[ch]) = got[ch] \o chan[ch]
    BY <2>1, Reading
  <2>3. \A c \in Channels : Delivered(c)' = Delivered(c)
    BY <1>4, <2>2 DEF AgentReads, RelayInv, TypeOK, Delivered
  <2>4. \A s \in Streams : rx'[s] \in {"none", "found"} =>
                              rx[s] \in {"none", "found"} /\ got'[s] = got[s] /\ chan'[s] = chan[s]
    BY <1>0, <1>4 DEF AgentReads, RelayInv, TypeOK
  <2>5. ToldFinite' /\ StreamsStartEmpty' /\ \A n \in Notes : Told(n)' = Told(n)
    BY <2>3, <2>4, ToldSame
  <2> QED BY <1>4, <2>5, SumKept DEF AgentReads, Out, Gone
<1>5. ASSUME NEW ch \in Channels, AgentLeaves(ch) PROVE KeptInv'
  BY <1>5, KeptLeaves DEF AgentLeaves
<1> QED BY <1>1, <1>2, <1>3, <1>4, <1>5, KeptListen DEF Agent

\* Every step keeps the accounts balanced.
LEMMA KeptStep == RelayInv /\ KeptInv /\ [Next]_vars => KeptInv'
<1> SUFFICES ASSUME RelayInv, KeptInv, [Next]_vars PROVE KeptInv'
  OBVIOUS
<1>1. CASE UNCHANGED vars
  BY <1>1, NothingMoves DEF vars
<1> QED BY <1>1, KeptAgent, KeptServer, KeptPump, KeptClose DEF Next

\* What the server says on its own is told once or kept once, through opening,
\* leaving and closing of streams, until the few ways a message may go; and no
\* channel or backlog holds more than its bound.
THEOREM RelayConserved == Safety => []Conserved
<1>1. RelayInv /\ KeptInv => Conserved
  BY DEF RelayInv, KeptInv, CopiesRight, Conserved, NothingLostOrTwice
<1>2. RelayInv /\ KeptInv /\ [Next]_vars => KeptInv'
  BY KeptStep
<1> QED BY <1>1, <1>2, InitKept, RelayInvariant, PTL DEF Safety
=============================================================================
