-------------------------- MODULE ConnectionProofs ---------------------------
(***************************************************************************)
(* What is proved of Connection for any numbers of connects and changes    *)
(* and any channel: what is shown is of one connection, and no event of a  *)
(* session that was replaced takes away the one that is up.                *)
(***************************************************************************)
EXTENDS Connection, SequenceTheorems, TLAPS

\* Generations are counted by the connects begun, each with at most one end of
\* its own after it.
Counted ==
  \E k \in 0..MaxConnects :
    /\ Started = 1..k
    /\ gen <= 2 * k
    /\ status \in {"connecting", "connected"} => gen < 2 * k

\* A generation is one connect's.
GensApart ==
  /\ \A c \in Sessions : connect[c].gen <= gen
  /\ \A c, d \in Started : connect[c].gen = connect[d].gen => c = d

\* A session says nothing before it is up, and its end once it has ended.
LifeFollows ==
  \A c \in Sessions :
    /\ connect[c].at \in {"no", "opening"} => life[c] = "none"
    /\ life[c] = "none" => sink[c] = <<>> /\ inbox[c] = <<>>
    /\ "ended" \in Elements(sink[c]) \cup Elements(inbox[c]) => life[c] = "ended"

\* While the current connect is out nothing else is shown.
ResultAwaited ==
  \A c \in Started : Current(c) /\ connect[c].at # "over" => status = "connecting"

\* What is shown is of the connection whose generation it is.
CurrentShown ==
  /\ status = "connected" <=> session # None
  /\ session # None => /\ connect[session].gen = gen /\ shown.of = session /\ ~deleted
                       /\ connect[session].at = "over"

\* No list changed more often than all of them.
ListsCounted == \A c \in Sessions : listAt[c] <= changes

\* ConnectionSound is not inductive: that a result finds nothing else shown
\* rests on the generations, and that an end is of the session shown on what
\* its channel holds.
ConnInv ==
  /\ TypeOK /\ Counted /\ GensApart /\ LifeFollows
  /\ ResultAwaited /\ CurrentShown /\ ListsCounted

-----------------------------------------------------------------------------
(* Channels of events.                                                     *)

\* What is in a sequence with one event more, or without its first.
LEMMA EventSeqs ==
  ASSUME NEW s \in Seq(Events)
  PROVE  /\ Elements(s) \subseteq Events /\ Len(s) \in Nat
         /\ \A e \in Events : /\ Append(s, e) \in Seq(Events)
                              /\ Len(Append(s, e)) = Len(s) + 1
                              /\ Elements(Append(s, e)) = Elements(s) \cup {e}
         /\ s # <<>> => /\ Tail(s) \in Seq(Events) /\ Head(s) \in Elements(s)
                        /\ Len(Tail(s)) = Len(s) - 1
                        /\ Elements(Tail(s)) \subseteq Elements(s)
<1>1. /\ DOMAIN s = 1..Len(s) /\ Len(s) \in Nat /\ \A i \in 1..Len(s) : s[i] \in Events
  BY LenProperties, ElementOfSeq
<1>2. ASSUME NEW e \in Events
      PROVE  /\ Append(s, e) \in Seq(Events) /\ Len(Append(s, e)) = Len(s) + 1
             /\ Elements(Append(s, e)) = Elements(s) \cup {e}
  <2>1. /\ Append(s, e) \in Seq(Events) /\ Len(Append(s, e)) = Len(s) + 1
        /\ \A i \in 1..Len(s) : Append(s, e)[i] = s[i]
        /\ Append(s, e)[Len(s) + 1] = e
    BY AppendProperties
  <2>2. DOMAIN Append(s, e) = (1..Len(s)) \cup {Len(s) + 1}
    BY <1>1, <2>1, LenProperties
  <2> QED BY <1>1, <2>1, <2>2 DEF Elements
<1>3. ASSUME s # <<>>
      PROVE  /\ Tail(s) \in Seq(Events) /\ Head(s) \in Elements(s)
             /\ Len(Tail(s)) = Len(s) - 1 /\ Elements(Tail(s)) \subseteq Elements(s)
  <2>1. /\ Tail(s) \in Seq(Events) /\ Len(Tail(s)) = Len(s) - 1 /\ Len(s) >= 1
        /\ Head(s) = s[1] /\ \A i \in 1..(Len(s) - 1) : Tail(s)[i] = s[i + 1]
    BY <1>3, HeadTailProperties, LenProperties, EmptySeq
  <2>2. DOMAIN Tail(s) = 1..(Len(s) - 1) /\ \A i \in 1..(Len(s) - 1) : i + 1 \in 1..Len(s)
    BY <1>1, <2>1, LenProperties
  <2> QED BY <1>1, <2>1, <2>2 DEF Elements
<1> QED BY <1>1, <1>2, <1>3 DEF Elements

\* The empty channel holds no event.
LEMMA NoEvents == Elements(<<>>) = {} /\ <<>> \in Seq(Events) /\ Len(<<>>) = 0
BY EmptySeq DEF Elements

-----------------------------------------------------------------------------
\* Nothing is begun at the start.
LEMMA InitConn == Init => ConnInv
<1> SUFFICES ASSUME Init PROVE ConnInv
  OBVIOUS
<1> USE DEF Init
<1>1. TypeOK
  <2>1. 0 \in Gens /\ 0 \in 0..MaxChanges /\ \A c \in Sessions : Capacity >= Len(<<>>)
    BY NoEvents, ConnectionAssumption DEF Gens
  <2>2. sink \in [Sessions -> Seq(Events)] /\ inbox \in [Sessions -> Seq(Events)]
    BY NoEvents
  <2>3. /\ connect \in [Sessions -> [at : {"no", "opening", "listing", "done", "failed", "over"},
                                     gen : Gens, read : 0..MaxChanges, failed : BOOLEAN]]
        /\ relist \in [Sessions -> [Changes -> [at : {"no", "reading", "read", "over"},
                                                version : 0..MaxChanges, failed : BOOLEAN]]]
        /\ shown \in [of : Sessions \cup {None}, version : 0..MaxChanges, failed : BOOLEAN]
    BY <2>1
  <2> QED BY <2>1, <2>2, <2>3 DEF TypeOK
<1>2. Counted
  <2>1. Started = 1..0 /\ 0 \in 0..MaxConnects
    BY ConnectionAssumption DEF Started, Sessions
  <2> QED BY <2>1 DEF Counted
<1>3. GensApart /\ LifeFollows /\ ResultAwaited /\ CurrentShown /\ ListsCounted
  BY NoEvents DEF GensApart, LifeFollows, ResultAwaited, CurrentShown, ListsCounted,
                  Started, None
<1> QED BY <1>1, <1>2, <1>3 DEF ConnInv
-----------------------------------------------------------------------------
\* A session let go or closed is closed if it was up, and none comes up.
LEMMA LifeFalls ==
  ASSUME TypeOK, LetGo \/ \E s \in Sessions \cup {None} : Close(s)
  PROVE  /\ life' \in [Sessions -> {"none", "up", "ended", "closed"}]
         /\ \A c \in Sessions : life'[c] = life[c] \/ (life[c] = "up" /\ life'[c] = "closed")
BY DEF TypeOK, LetGo, Close

\* LifeFollows is kept by steps that begin no connect and fill no channel.
LEMMA LifeKept ==
  ASSUME TypeOK, LifeFollows,
         \A c \in Sessions : life'[c] = life[c] \/ (life[c] = "up" /\ life'[c] # "none"),
         \A c \in Sessions : /\ sink'[c] = sink[c] /\ (inbox'[c] = inbox[c] \/ inbox'[c] = <<>>)
                             /\ life'[c] = "ended" \/ life'[c] = life[c] \/ life[c] = "up",
         \A c \in Sessions : connect'[c].at \in {"no", "opening"} =>
                               connect[c].at \in {"no", "opening"}
  PROVE  LifeFollows'
<1>1. ASSUME NEW c \in Sessions, connect'[c].at \in {"no", "opening"} PROVE life'[c] = "none"
  BY <1>1 DEF LifeFollows
<1>2. ASSUME NEW c \in Sessions, life'[c] = "none" PROVE sink'[c] = <<>> /\ inbox'[c] = <<>>
  BY <1>2 DEF LifeFollows
<1>3. ASSUME NEW c \in Sessions, "ended" \in Elements(sink'[c]) \cup Elements(inbox'[c])
      PROVE  life'[c] = "ended"
  <2>1. "ended" \in Elements(sink[c]) \cup Elements(inbox[c])
    BY <1>3, NoEvents
  <2> QED BY <2>1 DEF LifeFollows
<1> QED BY <1>1, <1>2, <1>3 DEF LifeFollows

\* Two intervals from 1 are the same only to the same end.
LEMMA SameEnd == \A a, b \in Nat : 1..a = 1..b => a = b
<1> SUFFICES ASSUME NEW a \in Nat, NEW b \in Nat, 1..a = 1..b PROVE a = b
  OBVIOUS
<1>1. a # 0 => a \in 1..b
  OBVIOUS
<1>2. b # 0 => b \in 1..a
  OBVIOUS
<1> QED BY <1>1, <1>2

\* What the user does keeps the connection in order.
LEMMA UserStep ==
  ASSUME ConnInv, (\E c \in Sessions : Connect(c)) \/ Disconnect \/ Delete
  PROVE  ConnInv'
<1> USE DEF entry, tasks, events, lists, server
<1>0. TypeOK /\ Counted /\ GensApart /\ LifeFollows /\ ResultAwaited /\ CurrentShown /\ ListsCounted
  BY DEF ConnInv
<1>1. ASSUME NEW c \in Sessions, Connect(c) PROVE ConnInv'
  <2>1. /\ ~deleted /\ c \notin Started /\ Started = 1..(c - 1)
        /\ gen' = gen + 1 /\ session' = None /\ status' = "connecting" /\ Close(session)
        /\ connect' = [connect EXCEPT ![c] = [at |-> "opening", gen |-> gen', read |-> 0, failed |-> FALSE]]
        /\ UNCHANGED <<deleted, shown, relist, refused, listAt, changes, sink, inbox, missed,
                       early, crossed>>
    BY <1>1 DEF Connect
  <2>2. /\ life' \in [Sessions -> {"none", "up", "ended", "closed"}]
        /\ \A d \in Sessions : life'[d] = life[d] \/ (life[d] = "up" /\ life'[d] = "closed")
    BY <1>0, <2>1, LifeFalls DEF TypeOK
  <2>3. /\ connect'[c].at = "opening" /\ connect'[c].gen = gen'
        /\ \A d \in Sessions \ {c} : connect'[d] = connect[d]
    BY <1>0, <2>1 DEF TypeOK
  <2>4. /\ Started' = 1..c /\ Started' = Started \cup {c} /\ c \in 0..MaxConnects /\ c - 1 \in Nat
        /\ gen <= 2 * (c - 1)
    <3>1. PICK k \in 0..MaxConnects :
            /\ Started = 1..k
            /\ gen <= 2 * k
            /\ status \in {"connecting", "connected"} => gen < 2 * k
      BY <1>0 DEF Counted
    <3>2. c \in 1..MaxConnects /\ c - 1 \in Nat /\ MaxConnects \in Nat
      BY ConnectionAssumption DEF Sessions
    <3>3. k = c - 1
      BY <2>1, <3>1, <3>2, SameEnd
    <3>4. Started' = Started \cup {c}
      BY <1>0, <2>1, <2>3 DEF Started
    <3>5. gen <= 2 * (c - 1)
      BY <3>1, <3>3
    <3>6. (1..(c - 1)) \cup {c} = 1..c
      BY <3>2
    <3> QED BY <2>1, <3>2, <3>4, <3>5, <3>6
  <2>5. gen \in Nat /\ gen' \in Nat /\ gen' \in Gens /\ 0 \in 0..MaxChanges
    <3>1. gen \in Nat /\ MaxConnects \in Nat
      BY <1>0, ConnectionAssumption DEF TypeOK, Gens
    <3>2. gen <= 2 * (c - 1)
      BY <2>4, <3>1
    <3> QED BY <2>1, <2>4, <3>1, <3>2, ConnectionAssumption DEF Gens
  <2>6. TypeOK'
    <3>1. connect' \in [Sessions -> [at : {"no", "opening", "listing", "done", "failed", "over"},
                                    gen : Gens, read : 0..MaxChanges, failed : BOOLEAN]]
      BY <1>0, <2>1, <2>5 DEF TypeOK
    <3> QED BY <1>0, <2>1, <2>2, <2>5, <3>1 DEF TypeOK
  <2>7. Counted'
    BY <2>1, <2>4, <2>5 DEF Counted
  <2>8. GensApart'
    <3>1. \A d \in Sessions : connect[d].gen \in Nat
      BY <1>0 DEF TypeOK, Gens
    <3>2. gen' = gen + 1 /\ c \notin Started
      BY <2>1
    <3>3. \A d \in Sessions : connect[d].gen <= gen /\ connect[d].gen # gen'
      BY <1>0, <2>5, <3>1, <3>2 DEF GensApart
    <3>4. \A d \in Sessions : connect'[d].gen <= gen'
      BY <2>5, <2>3, <3>1, <3>2, <3>3
    <3>5. \A d \in Started : d \in Sessions \ {c}
      BY <3>2 DEF Started
    <3> QED BY ONLY <1>0, <2>4, <2>3, <3>3, <3>4, <3>5 DEF GensApart
  <2>9. LifeFollows'
    BY <1>0, <2>1, <2>2, LifeKept DEF TypeOK, Started
  <2>10. ResultAwaited' /\ CurrentShown' /\ ListsCounted'
    BY <1>0, <2>1 DEF ResultAwaited, CurrentShown, ListsCounted
  <2> QED BY <2>6, <2>7, <2>8, <2>9, <2>10 DEF ConnInv
<1>2. ASSUME Disconnect \/ Delete PROVE ConnInv'
  <2>1. /\ ~deleted /\ session' = None /\ status' = "off" /\ Close(session)
        /\ gen' = gen \/ (gen' = gen + 1 /\ status = "connected" /\ deleted' = deleted)
        /\ deleted' = deleted \/ (deleted' = TRUE /\ gen' = gen)
        /\ UNCHANGED <<connect, shown, relist, refused, listAt, changes, sink, inbox, missed,
                       early, crossed>>
    BY <1>2 DEF Disconnect, Delete
  <2>2. /\ life' \in [Sessions -> {"none", "up", "ended", "closed"}]
        /\ \A d \in Sessions : life'[d] = life[d] \/ (life[d] = "up" /\ life'[d] = "closed")
    BY <1>0, <2>1, LifeFalls DEF TypeOK
  <2>3. gen \in Nat /\ gen' \in Gens /\ Counted'
    <3>1. PICK k \in 0..MaxConnects :
            /\ Started = 1..k
            /\ gen <= 2 * k
            /\ status \in {"connecting", "connected"} => gen < 2 * k
      BY <1>0 DEF Counted
    <3>2. gen \in Nat /\ MaxConnects \in Nat /\ Started' = Started
      BY <1>0, <2>1, ConnectionAssumption DEF TypeOK, Gens, Started
    <3>3. gen' <= 2 * k /\ gen' \in Nat
      <4>1. CASE gen' = gen
        BY <3>1, <3>2, <4>1
      <4>2. CASE gen' = gen + 1 /\ status = "connected"
        <5>1. gen < 2 * k /\ 2 * k \in Nat
          BY <3>1, <4>2
        <5> QED BY <3>2, <4>2, <5>1
      <4> QED BY <2>1, <4>1, <4>2
    <3>4. gen' \in Gens
      BY <3>2, <3>3 DEF Gens
    <3> QED BY <2>1, <3>1, <3>2, <3>3, <3>4 DEF Counted
  <2>4. TypeOK'
    BY <1>0, <2>1, <2>2, <2>3 DEF TypeOK
  <2>5. GensApart'
    BY <1>0, <2>1, <2>3 DEF GensApart, Started, TypeOK, Gens
  <2>6. LifeFollows'
    BY <1>0, <2>1, <2>2, LifeKept
  <2>7. ResultAwaited'
    <3>1. ASSUME NEW c \in Started, Current(c)', connect[c].at # "over" PROVE FALSE
      <4>1. ~deleted' /\ connect[c].gen = gen' /\ gen' = gen + 1 /\ connect[c].gen <= gen
        BY <1>0, <1>2, <2>1, <3>1 DEF Current, Disconnect, Delete, GensApart, Started
      <4> QED BY <2>3, <4>1
    <3> QED BY <2>1, <3>1 DEF ResultAwaited, Started
  <2>8. CurrentShown' /\ ListsCounted'
    BY <1>0, <2>1 DEF CurrentShown, ListsCounted
  <2> QED BY <2>3, <2>4, <2>5, <2>6, <2>7, <2>8 DEF ConnInv
<1> QED BY <1>1, <1>2
\* Steps that leave the generation keep what is counted by it.
LEMMA CountedKept ==
  ASSUME Counted, GensApart, gen' = gen, Started' = Started,
         status' \in {"connecting", "connected"} => status \in {"connecting", "connected"},
         \A c \in Sessions : connect'[c].gen = connect[c].gen
  PROVE  Counted' /\ GensApart'
<1>1. PICK k \in 0..MaxConnects :
        /\ Started = 1..k
        /\ gen <= 2 * k
        /\ status \in {"connecting", "connected"} => gen < 2 * k
  BY DEF Counted
<1>2. Counted'
  BY <1>1 DEF Counted
<1>3. \A c \in Started : c \in Sessions
  BY DEF Started
<1>4. GensApart'
  BY <1>3 DEF GensApart
<1> QED BY <1>2, <1>4

\* A connect's task keeps the connection in order.
LEMMA ConnectingStep ==
  ASSUME ConnInv, NEW c \in Sessions, Connecting(c) \/ Opens(c) \/ OpenFails(c)
  PROVE  ConnInv'
<1> USE DEF entry, tasks, events, lists, server
<1>0. TypeOK /\ Counted /\ GensApart /\ LifeFollows /\ ResultAwaited /\ CurrentShown /\ ListsCounted
  BY DEF ConnInv
<1> DEFINE Rec == [at : {"no", "opening", "listing", "done", "failed", "over"},
                   gen : Gens, read : 0..MaxChanges, failed : BOOLEAN]
<1>1. /\ connect[c] \in Rec /\ connect' \in [Sessions -> Rec]
      /\ connect'[c].gen = connect[c].gen
      /\ connect[c].at \in {"opening", "listing", "done", "failed"}
      /\ connect'[c].at \in {"listing", "done", "failed", "over"}
      /\ connect'[c].at # "over" => status' = status
      /\ \A d \in Sessions \ {c} : connect'[d] = connect[d]
      /\ UNCHANGED <<gen, deleted, relist, refused, listAt, changes, sink, inbox, missed,
                     early, crossed>>
  <2>1. connect \in [Sessions -> Rec] /\ \A d \in Sessions : listAt[d] \in 0..MaxChanges
    BY <1>0 DEF TypeOK
  <2>2. /\ connect[c].at \in {"opening", "listing", "done", "failed"}
        /\ \/ \E to \in {"listing", "done", "failed"} :
                connect' = [connect EXCEPT ![c].at = to] /\ status' = status
           \/ /\ \E b \in BOOLEAN : connect' = [connect EXCEPT ![c].at = "done",
                                                  ![c].read = listAt[c], ![c].failed = b]
              /\ status' = status
           \/ connect' = [connect EXCEPT ![c].at = "over", ![c].read = 0, ![c].failed = FALSE]
    BY DEF Connecting, Opens, OpenFails, ListRead, ListFails, ConnectDone, Stage
  <2>3. UNCHANGED <<gen, deleted, relist, refused, listAt, changes, sink, inbox, missed,
                    early, crossed>>
    BY DEF Connecting, Opens, OpenFails, ListRead, ListFails, ConnectDone
  <2> HIDE DEF Rec
  <2>4. DOMAIN connect' = Sessions /\ \A d \in Sessions \ {c} : connect'[d] = connect[d]
    BY <2>1, <2>2
  <2>5. PICK r : /\ connect'[c] = r
                 /\ \/ \E to \in {"listing", "done", "failed"} :
                         r = [connect[c] EXCEPT !.at = to]
                    \/ \E b \in BOOLEAN :
                         r = [connect[c] EXCEPT !.at = "done", !.read = listAt[c], !.failed = b]
                    \/ r = [connect[c] EXCEPT !.at = "over", !.read = 0, !.failed = FALSE]
                 /\ r.at # "over" => status' = status
    <3>1. DOMAIN connect = Sessions
      BY <2>1
    <3>2. CASE \E to \in {"listing", "done", "failed"} :
                  connect' = [connect EXCEPT ![c].at = to] /\ status' = status
      BY <3>1, <3>2
    <3>3. CASE /\ \E b \in BOOLEAN : connect' = [connect EXCEPT ![c].at = "done",
                                                  ![c].read = listAt[c], ![c].failed = b]
               /\ status' = status
      <4>1. PICK b \in BOOLEAN : connect' = [connect EXCEPT ![c].at = "done",
                                                  ![c].read = listAt[c], ![c].failed = b]
        BY <3>3
      <4>2. connect'[c] = [connect[c] EXCEPT !.at = "done", !.read = listAt[c], !.failed = b]
        BY <3>1, <4>1
      <4> QED BY <3>3, <4>2
    <3>4. CASE connect' = [connect EXCEPT ![c].at = "over", ![c].read = 0, ![c].failed = FALSE]
      <4>1. connect'[c] = [connect[c] EXCEPT !.at = "over", !.read = 0, !.failed = FALSE]
        BY <3>1, <3>4
      <4>2. connect'[c].at = "over"
        BY <2>1, <4>1 DEF Rec
      <4> QED BY <4>1, <4>2
    <3> QED BY <2>2, <3>2, <3>3, <3>4
  <2>9. 0 \in 0..MaxChanges
    BY ConnectionAssumption
  <2>6. r \in Rec /\ r.gen = connect[c].gen /\ r.at \in {"listing", "done", "failed", "over"}
    BY <2>1, <2>5, <2>9 DEF Rec
  <2>7. connect' \in [Sessions -> Rec]
    <3>1. connect' = [d \in Sessions |-> connect'[d]]
      BY <2>1, <2>2
    <3> QED BY <2>1, <2>4, <2>5, <2>6, <3>1
  <2> QED BY <2>1, <2>2, <2>3, <2>4, <2>5, <2>6, <2>7
<1>2. /\ life' \in [Sessions -> {"none", "up", "ended", "closed"}]
      /\ \A d \in Sessions : \/ life'[d] = life[d]
                             \/ life[d] = "up" /\ life'[d] = "closed"
                             \/ d = c /\ connect[c].at = "opening" /\ life'[d] = "up"
  <2>1. CASE Opens(c)
    BY <1>0, <2>1 DEF Opens, Stage, TypeOK
  <2>2. CASE OpenFails(c) \/ ListRead(c)
    BY <1>0, <2>2 DEF OpenFails, ListRead, TypeOK
  <2>3. CASE ListFails(c) \/ ConnectDone(c)
    <3>1. LetGo
      BY <2>3 DEF ListFails, ConnectDone
    <3> QED BY <1>0, <3>1, LifeFalls
  <2> QED BY <2>1, <2>2, <2>3 DEF Connecting
<1>3. Started' = Started /\ c \in Started
  BY <1>1 DEF Started
<1>4. /\ status' \in {"off", "connecting", "connected", "error"}
      /\ session' \in Sessions \cup {None}
      /\ shown' \in [of : Sessions \cup {None}, version : 0..MaxChanges, failed : BOOLEAN]
      /\ status' = "connected" => status \in {"connecting", "connected"}
      /\ \/ UNCHANGED <<status, session, shown>>
         \/ /\ Current(c) /\ status = "connecting" /\ connect'[c].at = "over"
            /\ status' \in {"connected", "error"}
            /\ session' = IF status' = "connected" THEN c ELSE session
            /\ status' = "connected" => shown'.of = c
  <2>1. CASE ~ConnectDone(c)
    BY <1>0, <2>1 DEF Connecting, Opens, OpenFails, ListRead, ListFails, TypeOK
  <2>2. CASE ConnectDone(c)
    <3>1. CASE Current(c)
      <4>1. status = "connecting"
        BY <1>0, <1>1, <1>3, <3>1 DEF ResultAwaited
      <4>2. connect'[c].at = "over"
        BY <1>0, <2>2 DEF ConnectDone, TypeOK
      <4>3. [of |-> c, version |-> connect[c].read, failed |-> connect[c].failed]
              \in [of : Sessions \cup {None}, version : 0..MaxChanges, failed : BOOLEAN]
        BY <1>1
      <4> QED BY <1>0, <2>2, <3>1, <4>1, <4>2, <4>3 DEF ConnectDone, TypeOK, Took
    <3>2. CASE ~Current(c)
      BY <1>0, <2>2, <3>2 DEF ConnectDone, TypeOK
    <3> QED BY <3>1, <3>2
  <2> QED BY <2>1, <2>2
<1>5. TypeOK'
  BY <1>0, <1>1, <1>2, <1>4 DEF TypeOK
<1>6. Counted' /\ GensApart'
  <2>1. status' \in {"connecting", "connected"} => status \in {"connecting", "connected"}
    BY <1>4
  <2> QED BY <1>0, <1>1, <1>3, <2>1, CountedKept
<1>7. LifeFollows'
  <2>1. ASSUME NEW d \in Sessions PROVE connect'[d].at \in {"no", "opening"} => life'[d] = "none"
    BY <1>0, <1>1, <1>2 DEF LifeFollows
  <2>2. ASSUME NEW d \in Sessions, life'[d] = "none" PROVE sink'[d] = <<>> /\ inbox'[d] = <<>>
    BY <1>0, <1>1, <1>2, <2>2 DEF LifeFollows
  <2>3. ASSUME NEW d \in Sessions, "ended" \in Elements(sink'[d]) \cup Elements(inbox'[d])
        PROVE  life'[d] = "ended"
    BY <1>0, <1>1, <1>2, <2>3 DEF LifeFollows
  <2> QED BY <2>1, <2>2, <2>3 DEF LifeFollows
<1>8. ResultAwaited'
  <2>1. ASSUME NEW d \in Sessions, d \in Started, Current(d)', connect'[d].at # "over"
        PROVE  status' = "connecting"
    <3>1. Current(d) /\ connect[d].at # "over"
      BY <1>1, <2>1 DEF Current
    <3>2. status = "connecting"
      BY <1>0, <2>1, <3>1 DEF ResultAwaited
    <3>3. d # c => ~Current(c)
      BY <1>0, <1>3, <2>1, <3>1 DEF GensApart, Current
    <3> QED BY <1>1, <1>4, <2>1, <3>2, <3>3
  <2> QED BY <1>3, <2>1 DEF ResultAwaited, Started
<1>9. CurrentShown' /\ ListsCounted'
  <2>1. session # None => session # c /\ session \in Sessions
    BY <1>0, <1>1 DEF CurrentShown, TypeOK
  <2>2. c # None
    BY DEF Sessions, None
  <2>3. status = "connecting" => session = None
    BY <1>0 DEF CurrentShown
  <2> QED BY <1>0, <1>1, <1>4, <2>1, <2>2, <2>3 DEF CurrentShown, ListsCounted, Current
<1> QED BY <1>5, <1>6, <1>7, <1>8, <1>9 DEF ConnInv

-----------------------------------------------------------------------------
\* What the server does keeps the connection in order.
LEMMA ServerStep ==
  ASSUME ConnInv, NEW c \in Sessions, ServerChanges(c) \/ ServerEnds(c)
  PROVE  ConnInv'
<1> USE DEF entry, tasks, lists, server
<1>0. TypeOK /\ Counted /\ GensApart /\ LifeFollows /\ ResultAwaited /\ CurrentShown /\ ListsCounted
  BY DEF ConnInv
<1>1. /\ life[c] = "up"
      /\ UNCHANGED <<status, gen, session, deleted, shown, connect, relist, refused, inbox,
                     early, crossed>>
      /\ \/ Emit(c, "list") /\ life' = life /\ changes < MaxChanges
            /\ listAt' = [listAt EXCEPT ![c] = @ + 1] /\ changes' = changes + 1
         \/ Emit(c, "ended") /\ life' = [life EXCEPT ![c] = "ended"]
            /\ UNCHANGED <<listAt, changes>>
  BY DEF ServerChanges, ServerEnds
<1>2. /\ sink' \in [Sessions -> Seq(Events)] /\ Len(sink'[c]) <= Capacity
      /\ missed' \subseteq Sessions \X Events
      /\ \A d \in Sessions \ {c} : sink'[d] = sink[d]
      /\ "ended" \in Elements(sink'[c]) => life'[c] = "ended"
  <2>1. PICK e \in Events : Emit(c, e) /\ (e = "ended" => life'[c] = "ended")
    BY <1>0, <1>1 DEF Events, TypeOK
  <2>2. sink[c] \in Seq(Events) /\ Len(sink[c]) <= Capacity /\ Len(sink[c]) \in Nat
    BY <1>0, EventSeqs DEF TypeOK
  <2>3. "ended" \notin Elements(sink[c])
    BY <1>0, <1>1 DEF LifeFollows
  <2>4. CASE Len(sink[c]) < Capacity
    <3>1. sink' = [sink EXCEPT ![c] = Append(sink[c], e)] /\ missed' = missed
      BY <2>1, <2>4 DEF Emit
    <3>2. /\ Append(sink[c], e) \in Seq(Events) /\ Len(Append(sink[c], e)) = Len(sink[c]) + 1
          /\ Elements(Append(sink[c], e)) = Elements(sink[c]) \cup {e}
      BY <2>2, EventSeqs
    <3>3. Len(Append(sink[c], e)) <= Capacity
      BY <2>2, <2>4, <3>2, ConnectionAssumption
    <3> QED BY <1>0, <2>1, <2>3, <3>1, <3>2, <3>3 DEF TypeOK
  <2>5. CASE ~(Len(sink[c]) < Capacity)
    <3>1. /\ sink' = [sink EXCEPT ![c] = Append(Tail(sink[c]), e)]
          /\ missed' = missed \cup {<<c, Head(sink[c])>>}
      BY <2>1, <2>5 DEF Emit
    <3>2. sink[c] # <<>> /\ Len(sink[c]) = Capacity
      BY <2>2, <2>5, NoEvents, ConnectionAssumption
    <3>3. /\ Tail(sink[c]) \in Seq(Events) /\ Head(sink[c]) \in Events
          /\ Len(Tail(sink[c])) = Len(sink[c]) - 1
          /\ Elements(Tail(sink[c])) \subseteq Elements(sink[c])
      BY <2>2, <3>2, EventSeqs
    <3>4. /\ Append(Tail(sink[c]), e) \in Seq(Events)
          /\ Len(Append(Tail(sink[c]), e)) = Len(Tail(sink[c])) + 1
          /\ Elements(Append(Tail(sink[c]), e)) = Elements(Tail(sink[c])) \cup {e}
      BY <3>3, EventSeqs
    <3>5. Len(Append(Tail(sink[c]), e)) <= Capacity
      BY <2>2, <3>2, <3>3, <3>4
    <3> QED BY <1>0, <2>1, <2>3, <3>1, <3>3, <3>4, <3>5 DEF TypeOK
  <2> QED BY <2>4, <2>5
<1>3. listAt' \in [Sessions -> 0..MaxChanges] /\ changes' \in 0..MaxChanges /\ ListsCounted'
  <2>1. \A d \in Sessions : listAt[d] \in 0..MaxChanges /\ listAt[d] <= changes
    BY <1>0 DEF TypeOK, ListsCounted
  <2>2. changes \in 0..MaxChanges /\ MaxChanges \in Nat /\ DOMAIN listAt = Sessions
    BY <1>0, ConnectionAssumption DEF TypeOK
  <2>3. CASE UNCHANGED <<listAt, changes>>
    BY <1>0, <2>3 DEF TypeOK, ListsCounted
  <2>4. CASE /\ changes < MaxChanges
             /\ listAt' = [listAt EXCEPT ![c] = @ + 1] /\ changes' = changes + 1
    <3>1. \A d \in Sessions : listAt'[d] = IF d = c THEN listAt[d] + 1 ELSE listAt[d]
      BY <2>2, <2>4
    <3>2. \A d \in Sessions : listAt'[d] \in 0..MaxChanges /\ listAt'[d] <= changes'
      BY <2>1, <2>2, <2>4, <3>1
    <3>3. changes' \in 0..MaxChanges
      BY <2>2, <2>4
    <3> QED BY <2>2, <2>4, <3>2, <3>3 DEF ListsCounted
  <2> QED BY <1>1, <2>3, <2>4
<1>4. TypeOK'
  <2>1. life' \in [Sessions -> {"none", "up", "ended", "closed"}]
    BY <1>0, <1>1 DEF TypeOK
  <2>2. \A d \in Sessions : Len(sink'[d]) <= Capacity
    BY <1>0, <1>2 DEF TypeOK
  <2> QED BY <1>0, <1>1, <1>2, <1>3, <2>1, <2>2 DEF TypeOK
<1>5. Counted' /\ GensApart'
  BY <1>0, <1>1, CountedKept DEF Started
<1>6. LifeFollows'
  <2>1. \A d \in Sessions : life'[d] = life[d] \/ (d = c /\ life'[d] = "ended")
    BY <1>0, <1>1 DEF TypeOK
  <2>2. life'[c] # "none" /\ connect[c].at \notin {"no", "opening"}
    BY <1>0, <1>1, <2>1 DEF LifeFollows
  <2>3. "ended" \notin Elements(inbox[c])
    BY <1>0, <1>1 DEF LifeFollows
  <2> QED BY <1>0, <1>1, <1>2, <2>1, <2>2, <2>3 DEF LifeFollows
<1>7. ResultAwaited' /\ CurrentShown'
  BY <1>0, <1>1 DEF ResultAwaited, CurrentShown, Started, Current
<1> QED BY <1>3, <1>4, <1>5, <1>6, <1>7 DEF ConnInv
\* Handing events over and filing them keeps the connection in order.
LEMMA EventStep ==
  ASSUME ConnInv, NEW c \in Sessions, Forward(c) \/ File(c)
  PROVE  ConnInv'
<1> USE DEF entry, tasks, lists, server
<1>0. TypeOK /\ Counted /\ GensApart /\ LifeFollows /\ ResultAwaited /\ CurrentShown /\ ListsCounted
  BY DEF ConnInv
<1>1. CASE Forward(c)
  <2>1. /\ sink[c] # <<>> /\ sink[c] \in Seq(Events) /\ inbox[c] \in Seq(Events)
        /\ Len(sink[c]) <= Capacity
        /\ sink' = [sink EXCEPT ![c] = Tail(sink[c])]
        /\ inbox' = [inbox EXCEPT ![c] = Append(inbox[c], Head(sink[c]))]
        /\ UNCHANGED <<status, gen, session, deleted, shown, connect, relist, refused, life,
                       listAt, changes, missed, early, crossed>>
    BY <1>0, <1>1 DEF Forward, TypeOK
  <2>2. /\ Tail(sink[c]) \in Seq(Events) /\ Head(sink[c]) \in Elements(sink[c])
        /\ Head(sink[c]) \in Events /\ Len(sink[c]) \in Nat
        /\ Len(Tail(sink[c])) = Len(sink[c]) - 1
        /\ Elements(Tail(sink[c])) \subseteq Elements(sink[c])
    BY <2>1, EventSeqs
  <2>3. /\ Append(inbox[c], Head(sink[c])) \in Seq(Events)
        /\ Elements(Append(inbox[c], Head(sink[c]))) = Elements(inbox[c]) \cup {Head(sink[c])}
    BY <2>1, <2>2, EventSeqs
  <2>4. Len(Tail(sink[c])) <= Capacity
    BY <2>1, <2>2, ConnectionAssumption
  <2>5. TypeOK'
    <3>1. \A d \in Sessions : Len(sink'[d]) <= Capacity
      BY <1>0, <2>1, <2>4 DEF TypeOK
    <3>2. sink' \in [Sessions -> Seq(Events)] /\ inbox' \in [Sessions -> Seq(Events)]
      BY <1>0, <2>1, <2>2, <2>3 DEF TypeOK
    <3> QED BY <1>0, <2>1, <3>1, <3>2 DEF TypeOK
  <2>6. LifeFollows'
    <3>1. life[c] # "none"
      BY <1>0, <2>1 DEF LifeFollows
    <3>2. \A d \in Sessions \ {c} : sink'[d] = sink[d] /\ inbox'[d] = inbox[d]
      BY <1>0, <2>1 DEF TypeOK
    <3>3. Elements(sink'[c]) \cup Elements(inbox'[c]) \subseteq Elements(sink[c]) \cup Elements(inbox[c])
      BY <1>0, <2>1, <2>2, <2>3 DEF TypeOK
    <3> QED BY <1>0, <2>1, <3>1, <3>2, <3>3 DEF LifeFollows
  <2>7. Counted' /\ GensApart'
    BY <1>0, <2>1, CountedKept DEF Started
  <2>8. ResultAwaited' /\ CurrentShown' /\ ListsCounted'
    BY <1>0, <2>1 DEF ResultAwaited, CurrentShown, ListsCounted, Started, Current
  <2> QED BY <2>5, <2>6, <2>7, <2>8 DEF ConnInv
<1>2. CASE File(c)
  <2>1. /\ inbox[c] # <<>> /\ inbox' = [inbox EXCEPT ![c] = <<>>] /\ LetGo
        /\ UNCHANGED <<gen, deleted, shown, connect, refused, listAt, changes, sink, missed, crossed>>
    BY <1>2 DEF File
  <2>2. /\ life' \in [Sessions -> {"none", "up", "ended", "closed"}]
        /\ \A d \in Sessions : life'[d] = life[d] \/ (life[d] = "up" /\ life'[d] = "closed")
    BY <1>0, <2>1, LifeFalls
  <2>3. /\ relist' \in [Sessions -> [Changes -> [at : {"no", "reading", "read", "over"},
                                               version : 0..MaxChanges, failed : BOOLEAN]]]
        /\ early' \subseteq Sessions
    <3>1. relist' = relist \/ BeginRelist(session') \/ UNCHANGED relist
      BY <1>2 DEF File
    <3>2. early' = early \/ early' = early \cup {c}
      BY <1>2 DEF File
    <3>3. early' \subseteq Sessions
      BY <1>0, <3>2 DEF TypeOK
    <3>4. CASE BeginRelist(session')
      <4> DEFINE Task == [at : {"no", "reading", "read", "over"},
                          version : 0..MaxChanges, failed : BOOLEAN]
      <4>1. PICK s, i : relist' = [relist EXCEPT ![s][i].at = "reading"]
        BY <3>4 DEF BeginRelist
      <4>2. relist \in [Sessions -> [Changes -> Task]]
        BY <1>0 DEF TypeOK
      <4>3. s \in Sessions /\ i \in Changes => [relist[s][i] EXCEPT !.at = "reading"] \in Task
        BY <4>2
      <4> HIDE DEF Task
      <4>4. ASSUME s \in Sessions, i \in Changes PROVE relist' \in [Sessions -> [Changes -> Task]]
        BY <4>1, <4>2, <4>3, <4>4
      <4>5. ASSUME s \in Sessions, i \notin Changes PROVE relist' \in [Sessions -> [Changes -> Task]]
        <5>1. [relist[s] EXCEPT ![i] = [relist[s][i] EXCEPT !.at = "reading"]] = relist[s]
          BY <4>2, <4>5
        <5>2. relist' = relist
          BY <4>1, <4>2, <4>5, <5>1
        <5> QED BY <4>2, <5>2
      <4>6. ASSUME s \notin Sessions PROVE relist' \in [Sessions -> [Changes -> Task]]
        <5>1. relist' = relist
          BY <4>1, <4>2, <4>6
        <5> QED BY <4>2, <5>1
      <4>7. relist' \in [Sessions -> [Changes -> Task]]
        BY <4>4, <4>5, <4>6
      <4> QED BY <3>3, <4>7 DEF Task
    <3>5. CASE relist' = relist
      BY <1>0, <3>3, <3>5 DEF TypeOK
    <3> QED BY <3>1, <3>4, <3>5
  <2>4. \/ status' = status /\ session' = session
        \/ /\ status = "connected" /\ status' = "error" /\ session' = None
    BY <1>2 DEF File, Ends
  <2>5. TypeOK'
    BY <1>0, <2>1, <2>2, <2>3, <2>4, NoEvents DEF TypeOK
  <2>6. LifeFollows'
    <3>1. \A d \in Sessions : /\ sink'[d] = sink[d] /\ (inbox'[d] = inbox[d] \/ inbox'[d] = <<>>)
                              /\ life'[d] = "ended" \/ life'[d] = life[d] \/ life[d] = "up"
      BY <1>0, <2>1, <2>2 DEF TypeOK
    <3> QED BY <1>0, <2>1, <2>2, <3>1, LifeKept
  <2>7. Counted' /\ GensApart'
    BY <1>0, <2>1, <2>4, CountedKept DEF Started
  <2>8. ResultAwaited' /\ CurrentShown' /\ ListsCounted'
    BY <1>0, <2>1, <2>4 DEF ResultAwaited, CurrentShown, ListsCounted, Started, Current
  <2> QED BY <2>5, <2>6, <2>7, <2>8 DEF ConnInv
<1> QED BY <1>1, <1>2

\* Reading a list again keeps the connection in order.
LEMMA RelistStep ==
  ASSUME ConnInv, NEW c \in Sessions, NEW i \in Changes, RelistReads(c, i) \/ RelistDone(c, i)
  PROVE  ConnInv'
<1> USE DEF entry, tasks, lists, server, events
<1>0. TypeOK /\ Counted /\ GensApart /\ LifeFollows /\ ResultAwaited /\ CurrentShown /\ ListsCounted
  BY DEF ConnInv
<1>1. UNCHANGED <<status, gen, session, deleted, connect, refused, listAt, changes, sink, inbox,
                  missed, early>>
  BY DEF RelistReads, RelistDone
<1>2. /\ life' \in [Sessions -> {"none", "up", "ended", "closed"}]
      /\ \A d \in Sessions : life'[d] = life[d] \/ (life[d] = "up" /\ life'[d] = "closed")
  <2>1. LetGo \/ life' = life
    BY DEF RelistReads, RelistDone
  <2> QED BY <1>0, <2>1, LifeFalls DEF TypeOK
<1> DEFINE Task == [at : {"no", "reading", "read", "over"}, version : 0..MaxChanges, failed : BOOLEAN]
<1>3. relist' \in [Sessions -> [Changes -> Task]]
  <2>1. relist \in [Sessions -> [Changes -> Task]] /\ listAt[c] \in 0..MaxChanges
    BY <1>0 DEF TypeOK
  <2>2. /\ \A b \in BOOLEAN : [at |-> "read", version |-> listAt[c], failed |-> b] \in Task
        /\ [at |-> "over", version |-> 0, failed |-> FALSE] \in Task
        /\ [relist[c][i] EXCEPT !.at = "over"] \in Task
    BY <2>1, ConnectionAssumption
  <2> HIDE DEF Task
  <2>3. \E t \in Task : relist' = [relist EXCEPT ![c][i] = t]
    <3>1. CASE RelistDone(c, i)
      BY <2>2, <3>1 DEF RelistDone
    <3>2. CASE RelistReads(c, i) /\ life[c] = "up"
      BY <2>2, <3>2 DEF RelistReads
    <3>3. CASE RelistReads(c, i) /\ life[c] # "up"
      BY <2>2, <3>3 DEF RelistReads
    <3> QED BY <3>1, <3>2, <3>3
  <2> QED BY <2>1, <2>3
<1>4. /\ shown' \in [of : Sessions \cup {None}, version : 0..MaxChanges, failed : BOOLEAN]
      /\ shown'.of = shown.of /\ crossed' \subseteq Sessions
  <2>1. relist[c][i].version \in 0..MaxChanges /\ relist[c][i].failed \in BOOLEAN
    BY <1>0 DEF TypeOK
  <2>2. /\ \/ shown' = shown
           \/ shown' = [shown EXCEPT !.version = relist[c][i].version,
                                     !.failed = relist[c][i].failed]
        /\ crossed' = crossed \/ crossed' = crossed \cup {c}
    BY DEF RelistReads, RelistDone, Relisted
  <2> QED BY <1>0, <2>1, <2>2 DEF TypeOK
<1>5. TypeOK'
  BY <1>0, <1>1, <1>2, <1>3, <1>4 DEF TypeOK
<1>6. LifeFollows'
  BY <1>0, <1>1, <1>2, LifeKept
<1>7. Counted' /\ GensApart'
  BY <1>0, <1>1, CountedKept DEF Started
<1>8. ResultAwaited' /\ CurrentShown' /\ ListsCounted'
  BY <1>0, <1>1, <1>4 DEF ResultAwaited, CurrentShown, ListsCounted, Started, Current
<1> QED BY <1>5, <1>6, <1>7, <1>8 DEF ConnInv

\* A refused call keeps the connection in order.
LEMMA RefusalStep ==
  ASSUME ConnInv, CallRefused \/ RefusalFiled
  PROVE  ConnInv'
<1> USE DEF entry, tasks, lists, server, events
<1>0. TypeOK /\ Counted /\ GensApart /\ LifeFollows /\ ResultAwaited /\ CurrentShown /\ ListsCounted
  BY DEF ConnInv
<1>1. /\ UNCHANGED <<deleted, shown, connect, relist, listAt, changes, sink, inbox, missed,
                     early, crossed>>
      /\ refused' \in {"no", "out", "filed"}
      /\ \/ UNCHANGED <<gen, session, status, life>>
         \/ /\ status = "connected" /\ gen' = gen + 1 /\ session' = None /\ status' = "error"
            /\ Close(session)
  BY <1>0 DEF CallRefused, RefusalFiled, OwnEnding, TypeOK
<1>2. /\ life' \in [Sessions -> {"none", "up", "ended", "closed"}]
      /\ \A d \in Sessions : life'[d] = life[d] \/ (life[d] = "up" /\ life'[d] = "closed")
  BY <1>0, <1>1, LifeFalls DEF TypeOK
<1>3. gen \in Nat /\ gen' \in Gens /\ Counted'
  <2>1. PICK k \in 0..MaxConnects :
          /\ Started = 1..k
          /\ gen <= 2 * k
          /\ status \in {"connecting", "connected"} => gen < 2 * k
    BY <1>0 DEF Counted
  <2>2. gen \in Nat /\ MaxConnects \in Nat /\ Started' = Started
    BY <1>0, <1>1, ConnectionAssumption DEF TypeOK, Gens, Started
  <2>3. CASE UNCHANGED <<gen, session, status, life>>
    BY <1>0, <2>1, <2>2, <2>3 DEF Counted, TypeOK
  <2>4. CASE status = "connected" /\ gen' = gen + 1 /\ status' = "error"
    <3>1. gen' \in Nat /\ gen' <= 2 * k
      BY <2>1, <2>2, <2>4
    <3>2. gen' \in Gens
      BY <2>2, <3>1 DEF Gens
    <3> QED BY <2>1, <2>2, <2>4, <3>1, <3>2 DEF Counted
  <2> QED BY <1>1, <2>3, <2>4
<1>4. TypeOK'
  BY <1>0, <1>1, <1>2, <1>3 DEF TypeOK
<1>5. GensApart'
  <2>1. gen <= gen' /\ \A d \in Sessions : connect[d].gen \in Nat /\ connect[d].gen <= gen
    BY <1>0, <1>1, <1>3 DEF GensApart, TypeOK, Gens
  <2>2. gen' \in Nat
    BY <1>3 DEF Gens
  <2> QED BY <1>0, <1>1, <1>3, <2>1, <2>2 DEF GensApart, Started
<1>6. LifeFollows'
  BY <1>0, <1>1, <1>2, LifeKept
<1>7. ResultAwaited'
  <2>1. ASSUME NEW d \in Started, Current(d)', connect[d].at # "over" PROVE status' = "connecting"
    <3>1. CASE UNCHANGED <<gen, session, status, life>>
      BY <1>0, <1>1, <2>1, <3>1 DEF ResultAwaited, Current
    <3>2. CASE gen' = gen + 1
      <4>1. connect[d].gen = gen' /\ connect[d].gen <= gen
        BY <1>0, <1>1, <2>1 DEF Current, GensApart, Started
      <4> QED BY <1>3, <3>2, <4>1
    <3> QED BY <1>1, <3>1, <3>2
  <2> QED BY <1>1, <2>1 DEF ResultAwaited, Started
<1>8. CurrentShown' /\ ListsCounted'
  BY <1>0, <1>1 DEF CurrentShown, ListsCounted
<1> QED BY <1>3, <1>4, <1>5, <1>6, <1>7, <1>8 DEF ConnInv

\* Every step keeps the connection in order.
LEMMA ConnStep == ConnInv /\ [Next]_vars => ConnInv'
<1> SUFFICES ASSUME ConnInv, [Next]_vars PROVE ConnInv'
  OBVIOUS
<1>1. CASE UNCHANGED vars
  <2> USE <1>1 DEF vars, entry, tasks, events, lists, server
  <2>1. TypeOK'
    BY DEF ConnInv, TypeOK
  <2>2. Counted' /\ GensApart' /\ LifeFollows'
    BY DEF ConnInv, Counted, GensApart, LifeFollows, Started
  <2>3. ResultAwaited' /\ CurrentShown' /\ ListsCounted'
    BY DEF ConnInv, ResultAwaited, CurrentShown, ListsCounted, Started, Current
  <2> QED BY <2>1, <2>2, <2>3 DEF ConnInv
<1>2. CASE Next
  BY <1>2, UserStep, ConnectingStep, ServerStep, EventStep, RelistStep, RefusalStep
     DEF Next, Handshakes, Program, Reporting
<1> QED BY <1>1, <1>2

-----------------------------------------------------------------------------
\* The connection is in order in every state.
THEOREM ConnectionInvariant == Spec => []ConnInv
<1> QED BY InitConn, ConnStep, PTL DEF Spec

\* What is shown is of one connection, connected exactly with a session, of
\* the current generation and with that session's own list, whatever results
\* and events of the connections it replaced come in (connect, apply_events).
THEOREM ConnectionShownSound == Spec => []ConnectionSound
<1>1. ConnInv => ConnectionSound
  BY DEF ConnInv, CurrentShown, ConnectionSound
<1> QED BY <1>1, ConnectionInvariant, PTL

\* A session that is up is let go only with its generation: no event or result
\* of an older one takes it away (apply_events, connect).
THEOREM ConnectionSessionKept == Spec => SessionKept
<1> DEFINE Kept == session # None /\ session' = None /\ gen' = gen /\ ~deleted' => life[session] # "up"
<1>1. ConnInv /\ Next => Kept
  <2> SUFFICES ASSUME ConnInv, Next, session # None, session' = None, gen' = gen, ~deleted'
               PROVE  life[session] # "up"
    OBVIOUS
  <2> USE DEF entry, tasks, lists, server, events
  <2>0. TypeOK /\ GensApart /\ LifeFollows /\ ResultAwaited /\ CurrentShown
    BY DEF ConnInv
  <2>1. gen \in Nat /\ gen + 1 # gen /\ status = "connected"
    BY <2>0 DEF TypeOK, Gens, CurrentShown
  <2>2. PICK c \in Sessions : Connecting(c) \/ Reporting(c)
    BY <2>0, <2>1 DEF Next, Program, Handshakes, Opens, OpenFails, Connect, Disconnect, Delete,
                      ServerChanges, ServerEnds, CallRefused, RefusalFiled, OwnEnding
  <2>3. CASE Connecting(c)
    <3>1. ConnectDone(c) /\ Current(c) /\ connect[c].at # "over"
      BY <2>3 DEF Connecting, ListRead, ListFails, ConnectDone
    <3>2. c \in Started
      BY <3>1 DEF ConnectDone, Started
    <3> QED BY <2>0, <2>1, <3>1, <3>2 DEF ResultAwaited
  <2>4. CASE Reporting(c)
    <3>1. File(c) /\ Current(c) /\ "ended" \in Elements(inbox[c])
      BY <2>1, <2>4 DEF Reporting, Forward, RelistReads, RelistDone, File, Ends
    <3>2. life[c] = "ended"
      BY <2>0, <3>1 DEF LifeFollows
    <3>3. c \in Started /\ session \in Started
      BY <2>0, <3>2 DEF LifeFollows, Started, CurrentShown, TypeOK
    <3>4. c = session
      BY <2>0, <3>1, <3>3 DEF GensApart, Current, CurrentShown
    <3> QED BY <3>2, <3>4
  <2> QED BY <2>2, <2>3, <2>4
<1>2. ConnInv /\ [Next]_vars => [Kept]_vars
  BY <1>1
<1> QED BY <1>2, ConnectionInvariant, PTL DEF Spec, SessionKept
=============================================================================
