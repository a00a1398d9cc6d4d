----------------------------- MODULE JobsProofs -----------------------------
(***************************************************************************)
(* What is proved of three parts of the window, where jobs, tasks and a    *)
(* person cross:                                                           *)
(*                                                                         *)
(*  - Flag: the last choice wins, for any set of choices and any number of *)
(*    writes out at once;                                                  *)
(*  - Dialogs: nobody waits without a dialog and no answer goes astray,    *)
(*    for any number of requests;                                          *)
(*  - Rows: the row chosen stays the selected one, for any tools and       *)
(*    calls.                                                               *)
(***************************************************************************)
EXTENDS Jobs, SequenceTheorems, FiniteSetTheorems, FunctionTheorems, TLAPS

-----------------------------------------------------------------------------
(* Flag.                                                                   *)

\* The variables stay in their types: a write is reported once.
THEOREM FlagTypeCorrect == Spec => []TypeOK
<1>1. Init => TypeOK
  <2> SUFFICES ASSUME Init PROVE TypeOK
    OBVIOUS
  <2>1. flag \in Choices /\ stored \in Choices
    BY FlagAssumption DEF Init
  <2>2. queued \in Counts /\ written \in Counts /\ failed \in Counts
    BY DEF Init, Counts, None
  <2>3. told \in BOOLEAN
    BY DEF Init
  <2> QED BY <2>1, <2>2, <2>3 DEF TypeOK
<1>2. TypeOK /\ [Next]_vars => TypeOK'
  <2> SUFFICES ASSUME TypeOK, [Next]_vars PROVE TypeOK'
    OBVIOUS
  <2> USE DEF TypeOK, Counts
  <2>1. ASSUME NEW c \in Choices, Choose(c) PROVE TypeOK'
    BY <2>1 DEF Choose, More
  <2>2. ASSUME NEW c \in Choices, Write(c) PROVE TypeOK'
    BY <2>2 DEF Write, More, Fewer
  <2>3. ASSUME NEW c \in Choices, WriteFails(c) PROVE TypeOK'
    BY <2>3 DEF WriteFails, More, Fewer
  <2>4. ASSUME NEW c \in Choices, Done(c) PROVE TypeOK'
    BY <2>4 DEF Done, SavedAgain, More, Fewer
  <2>5. ASSUME NEW c \in Choices, DoneFailed(c) PROVE TypeOK'
    BY <2>5 DEF DoneFailed, Fewer
  <2>6. CASE UNCHANGED vars
    BY <2>6 DEF vars
  <2> QED BY <2>1, <2>2, <2>3, <2>4, <2>5, <2>6 DEF Next, Jobs
<1> QED BY <1>1, <1>2, PTL DEF Spec

\* A step keeps what is stored on its way to what is shown: a choice queues a
\* write of itself, a write is what is stored until it reports back, and one
\* that reports back over a later choice queues a write of that.
LEMMA ConvergingStep ==
  ASSUME TypeOK, Converging, [Next]_vars PROVE Converging'
<1> USE DEF TypeOK, Counts
<1>1. ASSUME NEW c \in Choices, Choose(c) PROVE Converging'
  BY <1>1 DEF Choose, More, Converging
<1>2. ASSUME NEW c \in Choices, Write(c) PROVE Converging'
  <2>1. stored' = c /\ written'[c] > 0
    BY <1>2 DEF Write, More
  <2> QED BY <2>1 DEF Converging
<1>3. ASSUME NEW c \in Choices, WriteFails(c) PROVE Converging'
  <2>1. failed'[c] > 0
    BY <1>3 DEF WriteFails, More
  <2> QED BY <2>1 DEF Converging, Some
<1>4. ASSUME NEW c \in Choices, Done(c) PROVE Converging'
  <2>1. stored' = stored /\ flag' = flag /\ told' = told /\ failed' = failed
    BY <1>4 DEF Done
  <2>2. CASE flag # c
    <3>1. queued'[flag] > 0
      BY <1>4, <2>2 DEF Done, SavedAgain, More
    <3> QED BY <2>1, <3>1 DEF Converging
  <2>3. CASE flag = c
    <3>1. queued' = queued /\ \A d \in Choices : d # c => written'[d] = written[d]
      BY <1>4, <2>3 DEF Done, SavedAgain, Fewer
    <3> QED BY <2>1, <2>3, <3>1 DEF Converging, Some
  <2> QED BY <2>2, <2>3
<1>5. ASSUME NEW c \in Choices, DoneFailed(c) PROVE Converging'
  BY <1>5 DEF DoneFailed, Converging
<1>6. CASE UNCHANGED vars
  BY <1>6 DEF vars, Converging, Some
<1> QED BY <1>1, <1>2, <1>3, <1>4, <1>5, <1>6 DEF Next, Jobs

\* What is stored is always on its way to what is shown.
THEOREM FlagConverging == Spec => []Converging
<1>1. Init => Converging
  BY DEF Init, Converging
<1>2. TypeOK /\ Converging /\ [Next]_vars => Converging'
  BY ConvergingStep
<1> QED BY <1>1, <1>2, FlagTypeCorrect, PTL DEF Spec

\* With nothing out the last choice is the one stored, or a failed write was
\* told.
THEOREM FlagLastChoiceWins == Spec => []LastChoiceWins
<1>1. TypeOK /\ Converging => LastChoiceWins
  BY DEF TypeOK, Counts, Converging, LastChoiceWins, Some
<1> QED BY <1>1, FlagTypeCorrect, FlagConverging, PTL

-----------------------------------------------------------------------------
(* Sequences: what is sifted out of one, and a set of numbers as one.      *)

Unique(s) == \A i, j \in DOMAIN s : s[i] = s[j] => i = j

\* Each number of a finite set is its n-th, of exactly one n.
LEMMA NthOf ==
  ASSUME NEW M \in SUBSET Int, IsFiniteSet(M)
  PROVE  /\ Cardinality(M) \in Nat
         /\ \A i \in M : Cardinality(Ahead(M, i)) \in Nat /\ Cardinality(Ahead(M, i)) + 1 \in 1..Cardinality(M)
         /\ \A i, j \in M : i < j => Cardinality(Ahead(M, i)) < Cardinality(Ahead(M, j))
         /\ \A n \in 1..Cardinality(M) :
              Nth(M, n) \in M /\ Cardinality(Ahead(M, Nth(M, n))) + 1 = n
         /\ \A i \in M : Nth(M, Cardinality(Ahead(M, i)) + 1) = i
<1>1. Cardinality(M) \in Nat
  BY FS_CardinalityType
<1>2. \A i \in M : IsFiniteSet(Ahead(M, i)) /\ Cardinality(Ahead(M, i)) \in Nat
  <2> TAKE i \in M
  <2>1. Ahead(M, i) \in SUBSET M
    BY DEF Ahead
  <2> QED BY <2>1, FS_Subset, FS_CardinalityType
<1>3. ASSUME NEW i \in M PROVE Cardinality(Ahead(M, i)) + 1 \in 1..Cardinality(M)
  <2>1. Ahead(M, i) \cup {i} \in SUBSET M /\ i \notin Ahead(M, i)
    BY DEF Ahead
  <2>2. Cardinality(Ahead(M, i) \cup {i}) = Cardinality(Ahead(M, i)) + 1
    BY <1>2, <2>1, FS_AddElement
  <2>3. Cardinality(Ahead(M, i) \cup {i}) <= Cardinality(M)
    BY <2>1, FS_Subset
  <2> QED BY <1>1, <1>2, <2>2, <2>3
<1>4. ASSUME NEW i \in M, NEW j \in M, i < j
      PROVE  Cardinality(Ahead(M, i)) < Cardinality(Ahead(M, j))
  <2>1. Ahead(M, i) \cup {i} \in SUBSET Ahead(M, j) /\ i \notin Ahead(M, i)
    <3>1. i \in Int /\ j \in Int /\ \A k \in M : k \in Int
      OBVIOUS
    <3>2. \A k \in Ahead(M, i) : k \in Ahead(M, j)
      BY <1>4, <3>1 DEF Ahead
    <3>3. i \in Ahead(M, j) /\ i \notin Ahead(M, i)
      BY <1>4, <3>1 DEF Ahead
    <3> QED BY <3>2, <3>3
  <2>2. Cardinality(Ahead(M, i) \cup {i}) = Cardinality(Ahead(M, i)) + 1
    BY <1>2, <2>1, FS_AddElement
  <2>3. Cardinality(Ahead(M, i) \cup {i}) <= Cardinality(Ahead(M, j))
    BY <1>2, <2>1, FS_Subset
  <2> QED BY <1>2, <2>2, <2>3
<1> DEFINE rank == [i \in M |-> Cardinality(Ahead(M, i)) + 1]
           N == 1..Cardinality(M)
<1>5. rank \in Injection(M, N)
  <2>1. rank \in [M -> N]
    BY <1>3
  <2>2. ASSUME NEW i \in M, NEW j \in M, rank[i] = rank[j] PROVE i = j
    <3>1. i < j \/ j < i \/ i = j
      OBVIOUS
    <3>2. Cardinality(Ahead(M, i)) = Cardinality(Ahead(M, j))
      BY <1>2, <2>2
    <3> QED BY <1>2, <1>4, <3>1, <3>2
  <2> QED BY <2>1, <2>2, Fun_IsInj
<1>6. IsFiniteSet(N) /\ Cardinality(N) = Cardinality(M)
  BY <1>1, FS_Interval
<1>7. rank \in Surjection(M, N)
  BY <1>5, <1>6, FS_Injection
<1>8. ASSUME NEW n \in N PROVE Nth(M, n) \in M /\ Cardinality(Ahead(M, Nth(M, n))) + 1 = n
  <2>1. PICK i \in M : rank[i] = n
    BY <1>7 DEF Surjection
  <2> QED BY <2>1 DEF Nth
<1>9. ASSUME NEW i \in M PROVE Nth(M, Cardinality(Ahead(M, i)) + 1) = i
  <2> DEFINE j == Nth(M, Cardinality(Ahead(M, i)) + 1)
  <2>1. j \in M /\ Cardinality(Ahead(M, j)) + 1 = Cardinality(Ahead(M, i)) + 1
    BY <1>3, <1>8
  <2>2. rank[j] = rank[i]
    BY <2>1
  <2>3. \A a, b \in M : rank[a] = rank[b] => a = b
    BY <1>5, Fun_InjectionProperties
  <2> QED BY <2>1, <2>2, <2>3
<1> QED BY <1>1, <1>2, <1>3, <1>4, <1>8, <1>9

\* What is sifted: the elements kept, each in the place its rank gives it.
LEMMA Sifted ==
  ASSUME NEW T, NEW s \in Seq(T), NEW S
  PROVE  /\ Sift(s, S) \in Seq(T)
         /\ IsFiniteSet(Kept(s, S)) /\ Len(Sift(s, S)) = Cardinality(Kept(s, S))
         /\ \A i \in Kept(s, S) :
              LET n == Cardinality(Ahead(Kept(s, S), i)) + 1
              IN  n \in DOMAIN Sift(s, S) /\ Sift(s, S)[n] = s[i]
         /\ \A n \in DOMAIN Sift(s, S) :
              /\ Nth(Kept(s, S), n) \in Kept(s, S)
              /\ Sift(s, S)[n] = s[Nth(Kept(s, S), n)]
              /\ Cardinality(Ahead(Kept(s, S), Nth(Kept(s, S), n))) + 1 = n
<1> DEFINE M == Kept(s, S)
<1>1. M \in SUBSET (1..Len(s)) /\ IsFiniteSet(1..Len(s))
  <2>1. DOMAIN s = 1..Len(s) /\ Len(s) \in Nat
    OBVIOUS
  <2> QED BY <2>1, FS_Interval DEF Kept
<1>2. M \in SUBSET Int /\ IsFiniteSet(M)
  BY <1>1, FS_Subset
<1>3. /\ Cardinality(M) \in Nat
      /\ \A i \in M : Cardinality(Ahead(M, i)) + 1 \in 1..Cardinality(M)
      /\ \A n \in 1..Cardinality(M) : Nth(M, n) \in M /\ Cardinality(Ahead(M, Nth(M, n))) + 1 = n
      /\ \A i \in M : Nth(M, Cardinality(Ahead(M, i)) + 1) = i
  BY <1>2, NthOf
<1>4. \A i \in M : s[i] \in T
  BY <1>1
<1>5. Sift(s, S) = [n \in 1..Cardinality(M) |-> s[Nth(M, n)]]
  BY DEF Sift
<1> HIDE DEF M
<1>6. Sift(s, S) \in [1..Cardinality(M) -> T]
  BY <1>3, <1>4, <1>5
<1>7. Sift(s, S) \in Seq(T) /\ Len(Sift(s, S)) = Cardinality(M)
  BY <1>3, <1>6
<1>8. DOMAIN Sift(s, S) = 1..Cardinality(M)
  BY <1>5
<1>9. \A i \in M : LET n == Cardinality(Ahead(M, i)) + 1
                   IN  n \in DOMAIN Sift(s, S) /\ Sift(s, S)[n] = s[i]
  BY <1>3, <1>5, <1>8
<1>10. \A n \in DOMAIN Sift(s, S) :
              /\ Nth(M, n) \in M
              /\ Sift(s, S)[n] = s[Nth(M, n)]
              /\ Cardinality(Ahead(M, Nth(M, n))) + 1 = n
  BY <1>3, <1>5, <1>8
<1> QED BY <1>2, <1>7, <1>9, <1>10 DEF M

\* What is appended to a sequence, taken from it or sifted out of it.
LEMMA Appended ==
  ASSUME NEW T, NEW s \in Seq(T), NEW x \in T
  PROVE  /\ Append(s, x) \in Seq(T) /\ Append(s, x) # <<>>
         /\ D!Elements(Append(s, x)) = D!Elements(s) \cup {x}
         /\ Unique(s) /\ x \notin D!Elements(s) => Unique(Append(s, x))
<1>1. /\ Append(s, x) \in Seq(T) /\ Len(Append(s, x)) = Len(s) + 1
      /\ \A i \in 1..Len(s) : Append(s, x)[i] = s[i]
      /\ Append(s, x)[Len(s) + 1] = x
  BY AppendProperties
<1>2. Len(s) \in Nat /\ DOMAIN s = 1..Len(s) /\ DOMAIN Append(s, x) = 1..(Len(s) + 1)
  BY <1>1
<1>3. D!Elements(Append(s, x)) = D!Elements(s) \cup {x}
  <2>1. \A i \in DOMAIN Append(s, x) : i \in DOMAIN s \/ i = Len(s) + 1
    BY <1>2
  <2>2. D!Elements(Append(s, x)) \subseteq D!Elements(s) \cup {x}
    BY <1>1, <1>2, <2>1 DEF D!Elements
  <2>3. D!Elements(s) \subseteq D!Elements(Append(s, x)) /\ x \in D!Elements(Append(s, x))
    BY <1>1, <1>2 DEF D!Elements
  <2> QED BY <2>2, <2>3
<1>4. Unique(s) /\ x \notin D!Elements(s) => Unique(Append(s, x))
  BY <1>1, <1>2 DEF Unique, D!Elements
<1>5. Append(s, x) # <<>>
  BY AppendProperties
<1> QED BY <1>1, <1>3, <1>4, <1>5

LEMMA Shortened ==
  ASSUME NEW T, NEW s \in Seq(T), s # <<>>
  PROVE  /\ Tail(s) \in Seq(T) /\ Head(s) \in T /\ Head(s) = s[1]
         /\ D!Elements(s) = {Head(s)} \cup D!Elements(Tail(s))
         /\ Unique(s) => Unique(Tail(s)) /\ Head(s) \notin D!Elements(Tail(s))
<1>1. /\ Tail(s) \in Seq(T) /\ Head(s) \in T /\ Head(s) = s[1]
      /\ Len(s) \in Nat /\ Len(s) >= 1 /\ DOMAIN s = 1..Len(s)
      /\ DOMAIN Tail(s) = 1..(Len(s) - 1)
      /\ \A i \in 1..(Len(s) - 1) : Tail(s)[i] = s[i + 1]
  BY HeadTailProperties
<1>2. \A i \in DOMAIN s : i = 1 \/ (i - 1 \in DOMAIN Tail(s) /\ s[i] = Tail(s)[i - 1])
  BY <1>1
<1>3. \A i \in DOMAIN Tail(s) : i + 1 \in DOMAIN s /\ Tail(s)[i] = s[i + 1] /\ i + 1 # 1
  BY <1>1
<1>4. D!Elements(s) = {Head(s)} \cup D!Elements(Tail(s))
  <2>1. D!Elements(s) \subseteq {Head(s)} \cup D!Elements(Tail(s))
    BY <1>1, <1>2 DEF D!Elements
  <2>2. 1 \in DOMAIN s
    BY <1>1
  <2>3. {Head(s)} \cup D!Elements(Tail(s)) \subseteq D!Elements(s)
    BY <1>1, <1>3, <2>2 DEF D!Elements
  <2> QED BY <2>1, <2>3
<1>5. ASSUME Unique(s) PROVE Unique(Tail(s)) /\ Head(s) \notin D!Elements(Tail(s))
  <2>1. Unique(Tail(s))
    BY <1>1, <1>3, <1>5 DEF Unique
  <2>2. 1 \in DOMAIN s
    BY <1>1
  <2>3. Head(s) \notin D!Elements(Tail(s))
    BY <1>1, <1>3, <1>5, <2>2 DEF Unique, D!Elements
  <2> QED BY <2>1, <2>3
<1> QED BY <1>1, <1>4, <1>5

LEMMA SiftedElements ==
  ASSUME NEW T, NEW s \in Seq(T), NEW S
  PROVE  /\ Sift(s, S) \in Seq(T)
         /\ D!Elements(Sift(s, S)) = D!Elements(s) \cap S
         /\ Unique(s) => Unique(Sift(s, S))
<1> DEFINE M == Kept(s, S)
           t == Sift(s, S)
<1>1. /\ t \in Seq(T)
      /\ \A i \in M : \E n \in DOMAIN t : t[n] = s[i]
      /\ \A n \in DOMAIN t : /\ Nth(M, n) \in M /\ t[n] = s[Nth(M, n)]
                             /\ Cardinality(Ahead(M, Nth(M, n))) + 1 = n
  BY Sifted
<1>2. \A i : i \in M <=> i \in DOMAIN s /\ s[i] \in S
  BY DEF Kept
<1> HIDE DEF M, t
<1>3. D!Elements(t) = D!Elements(s) \cap S
  <2>1. D!Elements(t) \subseteq D!Elements(s) \cap S
    BY <1>1, <1>2 DEF D!Elements
  <2>2. D!Elements(s) \cap S \subseteq D!Elements(t)
    BY <1>1, <1>2 DEF D!Elements
  <2> QED BY <2>1, <2>2
<1>4. Unique(s) => Unique(t)
  <2> SUFFICES ASSUME Unique(s), NEW m \in DOMAIN t, NEW n \in DOMAIN t, t[m] = t[n] PROVE m = n
    BY DEF Unique
  <2>1. Nth(M, m) = Nth(M, n)
    BY <1>1, <1>2 DEF Unique
  <2> QED BY <1>1, <2>1
<1> QED BY <1>1, <1>3, <1>4 DEF t

\* What stays of a sequence up to an element is where it was when others are
\* taken out behind it.
LEMMA SiftedAhead ==
  ASSUME NEW T, NEW s \in Seq(T), NEW W, NEW S, NEW n \in DOMAIN Sift(s, S),
         \A m \in 1..n : Sift(s, S)[m] \in W
  PROVE  /\ n \in DOMAIN Sift(Sift(s, W), S)
         /\ Sift(Sift(s, W), S)[n] = Sift(s, S)[n]
<1> DEFINE t == Sift(s, S)
           u == Sift(s, W)
           M == Kept(s, S)
           P == Kept(s, W)
           Q == Kept(u, S)
           i == Nth(M, n)
           a == Cardinality(Ahead(P, i)) + 1
<1>1. M \in SUBSET Int /\ P \in SUBSET Int /\ IsFiniteSet(M) /\ IsFiniteSet(P)
  <2>1. IsFiniteSet(Kept(s, S)) /\ IsFiniteSet(Kept(s, W))
    BY Sifted
  <2> QED BY <2>1 DEF Kept
<1>2. /\ t \in Seq(T) /\ Len(t) = Cardinality(M)
      /\ \A j \in M : LET m == Cardinality(Ahead(M, j)) + 1 IN m \in DOMAIN t /\ t[m] = s[j]
      /\ \A m \in DOMAIN t : /\ Nth(M, m) \in M /\ t[m] = s[Nth(M, m)]
                             /\ Cardinality(Ahead(M, Nth(M, m))) + 1 = m
  BY Sifted
<1>3. /\ u \in Seq(T) /\ Len(u) = Cardinality(P)
      /\ \A j \in P : LET m == Cardinality(Ahead(P, j)) + 1 IN m \in DOMAIN u /\ u[m] = s[j]
      /\ \A m \in DOMAIN u : /\ Nth(P, m) \in P /\ u[m] = s[Nth(P, m)]
                             /\ Cardinality(Ahead(P, Nth(P, m))) + 1 = m
  BY Sifted
<1>4. /\ IsFiniteSet(Q)
      /\ \A j \in Q : LET m == Cardinality(Ahead(Q, j)) + 1
                      IN  m \in DOMAIN Sift(u, S) /\ Sift(u, S)[m] = u[j]
  BY <1>3, Sifted
<1>5. /\ \A j, k \in M : j < k => Cardinality(Ahead(M, j)) < Cardinality(Ahead(M, k))
      /\ \A j, k \in P : j < k => Cardinality(Ahead(P, j)) < Cardinality(Ahead(P, k))
      /\ \A j \in M : Cardinality(Ahead(M, j)) \in Nat
      /\ \A j \in P : Cardinality(Ahead(P, j)) \in Nat
  BY <1>1, NthOf
<1>6. /\ \A j : j \in M <=> j \in DOMAIN s /\ s[j] \in S
      /\ \A j : j \in P <=> j \in DOMAIN s /\ s[j] \in W
      /\ \A j : j \in Q <=> j \in DOMAIN u /\ u[j] \in S
  BY DEF Kept
<1> HIDE DEF t, u, M, P, Q
<1>7. /\ i \in M /\ t[n] = s[i] /\ Cardinality(Ahead(M, i)) + 1 = n
      /\ n \in Nat /\ DOMAIN t = 1..Len(t) /\ n \in 1..Len(t)
  <2>1. n \in DOMAIN t
    BY DEF t
  <2> QED BY <1>2, <2>1
<1>8. \A j \in M : j <= i => j \in P
  <2> SUFFICES ASSUME NEW j \in M, j <= i PROVE j \in P
    OBVIOUS
  <2>1. Cardinality(Ahead(M, j)) + 1 \in 1..n
    <3>1. j \in Int /\ i \in Int
      BY <1>1, <1>7
    <3>2. j < i \/ j = i
      BY <3>1
    <3>3. Cardinality(Ahead(M, j)) \in Nat /\ Cardinality(Ahead(M, i)) \in Nat
      BY <1>5, <1>7
    <3>4. Cardinality(Ahead(M, j)) <= Cardinality(Ahead(M, i))
      BY <1>5, <1>7, <3>2, <3>3
    <3> QED BY <1>7, <3>3, <3>4
  <2>2. t[Cardinality(Ahead(M, j)) + 1] = s[j]
    BY <1>2
  <2>3. s[j] \in W
    BY <2>1, <2>2 DEF t
  <2> QED BY <1>6, <2>3
<1> HIDE DEF i
<1>9. i \in P /\ a \in DOMAIN u /\ u[a] = s[i] /\ a \in Q /\ i \in Int
  BY <1>1, <1>3, <1>6, <1>7, <1>8
<1> HIDE DEF a
<1> DEFINE A == Ahead(M, i)
           B == Ahead(Q, a)
           f == [j \in A |-> Cardinality(Ahead(P, j)) + 1]
<1>10. \A j \in A : j \in M /\ j < i /\ j \in P /\ j \in Int
  BY <1>1, <1>7, <1>8, <1>9, SMTT(30) DEF Ahead
<1>11. f \in [A -> B]
  <2> SUFFICES ASSUME NEW j \in A PROVE Cardinality(Ahead(P, j)) + 1 \in B
    OBVIOUS
  <2> DEFINE b == Cardinality(Ahead(P, j)) + 1
  <2>1. b \in DOMAIN u /\ u[b] = s[j]
    BY <1>3, <1>10
  <2>2. b \in Q
    BY <1>6, <1>10, <2>1
  <2>3. b < a
    BY <1>5, <1>9, <1>10 DEF a
  <2> QED BY <2>2, <2>3 DEF Ahead
<1>12. \A j, k \in A : f[j] = f[k] => j = k
  <2> SUFFICES ASSUME NEW j \in A, NEW k \in A, f[j] = f[k] PROVE j = k
    OBVIOUS
  <2>1. j \in P /\ k \in P /\ j \in Int /\ k \in Int
    BY <1>10
  <2>2. Cardinality(Ahead(P, j)) = Cardinality(Ahead(P, k))
    BY <1>5, <2>1
  <2>3. ~(j < k) /\ ~(k < j)
    BY <1>5, <2>1, <2>2
  <2> QED BY <2>1, <2>3
<1>13. \A b \in B : \E j \in A : f[j] = b
  <2> SUFFICES ASSUME NEW b \in B PROVE \E j \in A : f[j] = b
    OBVIOUS
  <2> DEFINE j == Nth(P, b)
  <2>1. b \in Q /\ b < a /\ b \in DOMAIN u
    BY <1>6 DEF Ahead
  <2>2. j \in P /\ u[b] = s[j] /\ Cardinality(Ahead(P, j)) + 1 = b
    BY <1>3, <2>1
  <2>3. j \in M
    BY <1>6, <2>1, <2>2
  <2> HIDE DEF j
  <2>4. j < i
    <3>1. j \in Int /\ i \in Int
      BY <1>1, <1>9, <2>2
    <3>2. j # i
      BY <2>1, <2>2, <1>5, <1>9 DEF a
    <3>3. ~(i < j)
      BY <2>1, <2>2, <1>5, <1>9 DEF a
    <3> QED BY <3>1, <3>2, <3>3
  <2>5. j \in A
    BY <2>3, <2>4 DEF Ahead
  <2> QED BY <2>2, <2>5
<1>14. Cardinality(B) = Cardinality(A)
  <2>1. f \in Bijection(A, B)
    BY <1>11, <1>12, <1>13, Fun_IsBij
  <2>2. ExistsBijection(A, B)
    BY <2>1 DEF ExistsBijection
  <2>3. IsFiniteSet(A)
    <3>1. A \in SUBSET M
      BY DEF Ahead
    <3> QED BY <1>1, <3>1, FS_Subset
  <2> QED BY <2>2, <2>3, FS_Bijection
<1>15. n \in DOMAIN Sift(u, S) /\ Sift(u, S)[n] = u[a]
  BY <1>4, <1>7, <1>9, <1>14
<1> QED BY <1>7, <1>9, <1>15 DEF t, u

\* A set of numbers, the highest first: each once.
LEMMA FallingOf ==
  ASSUME NEW M \in SUBSET Int, IsFiniteSet(M)
  PROVE  /\ Falling(M) \in Seq(M)
         /\ D!Elements(Falling(M)) = M
         /\ Unique(Falling(M))
<1> DEFINE N == Cardinality(M)
           t == Falling(M)
<1>1. /\ N \in Nat
      /\ \A i \in M : Cardinality(Ahead(M, i)) \in Nat /\ Cardinality(Ahead(M, i)) + 1 \in 1..N
      /\ \A n \in 1..N : Nth(M, n) \in M /\ Cardinality(Ahead(M, Nth(M, n))) + 1 = n
      /\ \A i \in M : Nth(M, Cardinality(Ahead(M, i)) + 1) = i
  BY NthOf
<1>2. t = [n \in 1..N |-> Nth(M, N + 1 - n)]
  BY DEF Falling
<1> HIDE DEF N, t
<1>3. \A n \in 1..N : N + 1 - n \in 1..N /\ N + 1 - (N + 1 - n) = n
  BY <1>1
<1>4. t \in [1..N -> M]
  BY <1>1, <1>2, <1>3
<1>5. t \in Seq(M) /\ DOMAIN t = 1..N
  BY <1>1, <1>2, <1>4
<1>6. D!Elements(t) = M
  <2>1. D!Elements(t) \subseteq M
    BY <1>4, <1>5 DEF D!Elements
  <2>2. ASSUME NEW i \in M PROVE i \in D!Elements(t)
    <3> DEFINE n == N + 1 - (Cardinality(Ahead(M, i)) + 1)
    <3>1. n \in 1..N /\ N + 1 - n = Cardinality(Ahead(M, i)) + 1
      BY <1>1
    <3>2. t[n] = i
      BY <1>1, <1>2, <3>1
    <3> QED BY <1>5, <3>1, <3>2 DEF D!Elements
  <2> QED BY <2>1, <2>2
<1>7. Unique(t)
  <2> SUFFICES ASSUME NEW m \in DOMAIN t, NEW n \in DOMAIN t, t[m] = t[n] PROVE m = n
    BY DEF Unique
  <2>1. m \in 1..N /\ n \in 1..N
    BY <1>5
  <2>2. Nth(M, N + 1 - m) = Nth(M, N + 1 - n)
    BY <1>2, <2>1
  <2>3. N + 1 - m = N + 1 - n
    BY <1>1, <1>3, <2>1, <2>2
  <2> QED BY <1>1, <2>1, <2>3
<1> QED BY <1>5, <1>6, <1>7 DEF t

\* No more elements than there are to choose from.
LEMMA ShortUnique ==
  ASSUME NEW T, IsFiniteSet(T), NEW s \in Seq(T), Unique(s)
  PROVE  Len(s) <= Cardinality(T) /\ Cardinality(T) \in Nat
<1>1. s \in [1..Len(s) -> T] /\ Len(s) \in Nat /\ DOMAIN s = 1..Len(s)
  OBVIOUS
<1>2. s \in Injection(1..Len(s), T)
  BY <1>1, Fun_IsInj DEF Unique
<1>3. IsFiniteSet(1..Len(s)) /\ Cardinality(1..Len(s)) = Len(s)
  <2>1. \A n \in Nat : IsFiniteSet(1..n) /\ Cardinality(1..n) = n
    BY FS_Interval
  <2> QED BY <1>1, <2>1
<1> QED BY <1>2, <1>3, FS_Injection, FS_CardinalityType

\* A part of a sequence.
\* Those sifted by this module and by Dialogs are the same.
LEMMA SiftIsSift ==
  ASSUME NEW s, NEW S PROVE D!Sift(s, S) = Sift(s, S)
<1>1. D!Kept(s, S) = Kept(s, S)
  BY Zenon DEF Kept, D!Kept
<1>2. ASSUME NEW M PROVE D!Cardinality(M) = Cardinality(M)
  BY Zenon DEF Cardinality, D!Cardinality
<1>3. ASSUME NEW M, NEW i PROVE D!Ahead(M, i) = Ahead(M, i)
  BY Zenon DEF Ahead, D!Ahead
<1>4. ASSUME NEW M, NEW n PROVE D!Nth(M, n) = Nth(M, n)
  BY Zenon, <1>2, <1>3 DEF Nth, D!Nth
<1> QED BY Zenon, <1>1, <1>2, <1>4 DEF Sift, D!Sift

\* And those of Rows.
LEMMA RowsSift ==
  ASSUME NEW s, NEW S
  PROVE  R!Sift(s, S) = Sift(s, S) /\ R!Falling(S) = Falling(S) /\ R!Cardinality(S) = Cardinality(S)
<1>1. R!Kept(s, S) = Kept(s, S)
  BY Zenon DEF Kept, R!Kept
<1>2. ASSUME NEW M PROVE R!Cardinality(M) = Cardinality(M)
  BY Zenon DEF Cardinality, R!Cardinality
<1>3. ASSUME NEW M, NEW i PROVE R!Ahead(M, i) = Ahead(M, i)
  BY Zenon DEF Ahead, R!Ahead
<1>4. ASSUME NEW M, NEW n PROVE R!Nth(M, n) = Nth(M, n)
  BY Zenon, <1>2, <1>3 DEF Nth, R!Nth
<1>5. R!Sift(s, S) = Sift(s, S)
  BY Zenon, <1>1, <1>2, <1>4 DEF Sift, R!Sift
<1>6. R!Falling(S) = Falling(S)
  BY Zenon, <1>2, <1>4 DEF Falling, R!Falling
<1> QED BY <1>2, <1>5, <1>6

LEMMA SameElements ==
  ASSUME NEW s PROVE R!Elements(s) = D!Elements(s)
BY DEF R!Elements, D!Elements

\* The sequences of Sidebar are those of this module.
-----------------------------------------------------------------------------
(* Dialogs: the inductive invariant.                                       *)

\* Events of a session are of its requests, and a request is told once.
QueueFormed ==
  \A s \in {1, 2} :
    /\ \A i \in DOMAIN queue[s] : SessionOf[queue[s][i][2]] = s
    /\ \A i, j \in DOMAIN queue[s] :
         queue[s][i] = queue[s][j] /\ queue[s][i][1] = "request" => i = j

Coming(r) == <<"request", r>> \in D!Elements(queue[SessionOf[r]])
Shown(r) == r \in D!Elements(pending)

\* A request is on its way, then shown, then answered, and each but once.
OneByOne ==
  \A r \in Requests :
    /\ Coming(r) => ~Shown(r) /\ r \notin given
    /\ Shown(r) => r \notin given
    /\ Coming(r) \/ Shown(r) \/ r \in given => slot[r] # "none"

\* What its task does and what is known of the request go together.
TasksFormed ==
  \A r \in Requests :
    /\ handler[r] \in {"no", "asked"} => slot[r] = "none" /\ reply[r] = "none"
    /\ handler[r] = "waiting" => slot[r] # "none" /\ reply[r] = "none"
    /\ handler[r] = "over" => reply[r] # "none"
    /\ slot[r] = "none" => reply[r] \in {"none", "policy"}
    /\ slot[r] # "none" => reply[r] # "policy"
    /\ r \in given /\ handler[r] = "waiting" => slot[r] = "taken"
    /\ slot[r] = "taken" => r \in given
    /\ reply[r] = "fallback" => r \in cancelled \cup expired \/ (~D!Held(r) /\ r \notin given)

\* What the program cancelled, or the server withdrew, is known to be.
CancelledKnown ==
  \A r \in Requests :
    /\ ~D!Live(r) /\ handler[r] # "no" => r \in cancelled
    /\ notice[r] # "no" => r \in cancelled /\ ~modern
    /\ <<"withdrawn", r>> \in D!Elements(queue[SessionOf[r]]) => notice[r] # "no"

\* Nobody waits in vain.
WaitsShown ==
  \A r \in Requests :
    handler[r] = "waiting" /\ slot[r] = "open" /\ r \notin cancelled => D!Held(r)

FormShown ==
  pending # <<>> =>
    /\ form # Nobody
    /\ form # Head(pending) => /\ D!Id(form) = D!Id(Head(pending))
                               /\ modern \/ SessionOf[form] # SessionOf[Head(pending)]

DialogsInv ==
  /\ D!TypeOK /\ Unique(pending) /\ QueueFormed /\ OneByOne /\ TasksFormed
  /\ CancelledKnown /\ WaitsShown /\ FormShown

-----------------------------------------------------------------------------
(* Dialogs: the steps.                                                     *)

\* Requests are of the first session or the one after it, and those a server
\* sends have ids of their own in it.
Asking ==
  /\ SessionOf \in [Requests -> {1, 2}]
  /\ \A q, r \in Requests : SessionOf[q] = SessionOf[r] /\ IdOf[q] = IdOf[r] => q = r
  /\ Nobody \notin Requests

Events == {"request", "withdrawn"} \X Requests

\* The form made again is of the request shown, or of one before it with its id.
LEMMA Synced ==
  ASSUME Asking, D!TypeOK, pending' \in Seq(Requests), UNCHANGED modern, D!Sync
  PROVE  FormShown' /\ form' \in Requests \cup {Nobody}
<1>1. CASE pending' = <<>>
  BY <1>1 DEF D!Sync, FormShown
<1>2. CASE pending' # <<>>
  <2>1. Head(pending') \in Requests
    BY <1>2
  <2>2. \A q \in Requests : D!Id(q)' = D!Id(q)
    BY DEF D!Id
  <2>3. CASE form' = Head(pending')
    BY <1>2, <2>1, <2>3 DEF FormShown, Asking
  <2>4. CASE form' # Head(pending')
    <3>1. form' = form /\ form # Nobody /\ D!Id(form) = D!Id(Head(pending'))
      BY <1>2, <2>4 DEF D!Sync
    <3>2. form \in Requests
      BY <3>1 DEF D!TypeOK
    <3>3. D!Id(form)' = D!Id(Head(pending))'
      BY <3>1 DEF D!Id
    <3>4. modern' \/ SessionOf[form'] # SessionOf[Head(pending')]
      BY <2>1, <2>4, <3>1, <3>2 DEF D!Id, Asking
    <3> QED BY <3>1, <3>2, <3>3, <3>4 DEF FormShown
  <2> QED BY <2>3, <2>4
<1> QED BY <1>1, <1>2

\* A request told or a withdrawal.
LEMMA Sent ==
  ASSUME Asking, D!TypeOK, QueueFormed, NEW e \in {"request", "withdrawn"}, NEW r \in Requests,
         e = "request" => ~Coming(r), D!Send(e, r)
  PROVE  /\ queue' \in [{1, 2} -> Seq(Events)] /\ QueueFormed'
         /\ \A x \in Events : x \in D!Elements(queue'[SessionOf[x[2]]])
                                <=> x \in D!Elements(queue[SessionOf[x[2]]]) \/ x = <<e, r>>
<1> DEFINE o == SessionOf[r]
           t == Append(queue[o], <<e, r>>)
<1>1. o \in {1, 2} /\ queue[o] \in Seq(Events) /\ <<e, r>> \in Events
  BY DEF Asking, D!TypeOK, Events
<1>2. /\ t \in Seq(Events) /\ D!Elements(t) = D!Elements(queue[o]) \cup {<<e, r>>}
  BY <1>1, Appended
<1>3. /\ Len(queue[o]) \in Nat /\ DOMAIN queue[o] = 1..Len(queue[o])
      /\ DOMAIN t = 1..(Len(queue[o]) + 1) /\ t[Len(queue[o]) + 1] = <<e, r>>
      /\ \A i \in 1..Len(queue[o]) : t[i] = queue[o][i]
  BY <1>1
<1>4. queue' = [queue EXCEPT ![o] = t]
  BY DEF D!Send
<1> HIDE DEF t
<1>5. queue' \in [{1, 2} -> Seq(Events)]
  BY <1>1, <1>2, <1>4 DEF D!TypeOK, Events
<1>6. queue'[o] = t /\ \A s \in {1, 2} : s # o => queue'[s] = queue[s]
  BY <1>1, <1>4 DEF D!TypeOK
<1>7. QueueFormed'
  <2> SUFFICES ASSUME NEW s \in {1, 2}
               PROVE  /\ \A i \in DOMAIN queue'[s] : SessionOf[queue'[s][i][2]] = s
                      /\ \A i, j \in DOMAIN queue'[s] :
                           queue'[s][i] = queue'[s][j] /\ queue'[s][i][1] = "request" => i = j
    BY DEF QueueFormed
  <2>1. CASE s # o
    BY <1>6, <2>1 DEF QueueFormed
  <2>2. CASE s = o
    <3>1. \A i \in DOMAIN t : SessionOf[t[i][2]] = o
      <4> SUFFICES ASSUME NEW i \in DOMAIN t PROVE SessionOf[t[i][2]] = o
        OBVIOUS
      <4>1. CASE i = Len(queue[o]) + 1
        BY <1>3, <4>1
      <4>2. CASE i # Len(queue[o]) + 1
        <5>1. i \in DOMAIN queue[o] /\ t[i] = queue[o][i]
          BY <1>3, <4>2
        <5> QED BY <1>1, <5>1 DEF QueueFormed
      <4> QED BY <4>1, <4>2
    <3>2. e = "request" => \A i \in DOMAIN queue[o] : queue[o][i] # <<e, r>>
      BY DEF Coming, D!Elements
    <3>3. \A i, j \in DOMAIN t : t[i] = t[j] /\ t[i][1] = "request" => i = j
      <4> SUFFICES ASSUME NEW i \in DOMAIN t, NEW j \in DOMAIN t, t[i] = t[j],
                          t[i][1] = "request", i # j
                   PROVE  FALSE
        OBVIOUS
      <4>1. \A k \in DOMAIN t : \/ k = Len(queue[o]) + 1 /\ t[k] = <<e, r>>
                                \/ k \in DOMAIN queue[o] /\ t[k] = queue[o][k]
        BY <1>3
      <4>2. i \in DOMAIN queue[o] /\ j \in DOMAIN queue[o]
        BY <3>2, <4>1
      <4>3. queue[o][i] = queue[o][j] /\ queue[o][i][1] = "request"
        BY <1>3, <4>2
      <4> QED BY <1>1, <4>2, <4>3 DEF QueueFormed
    <3> QED BY <1>6, <2>2, <3>1, <3>3
  <2> QED BY <2>1, <2>2
<1>8. ASSUME NEW x \in Events
      PROVE  x \in D!Elements(queue'[SessionOf[x[2]]])
               <=> x \in D!Elements(queue[SessionOf[x[2]]]) \/ x = <<e, r>>
  <2>1. SessionOf[x[2]] \in {1, 2}
    BY DEF Asking, Events
  <2>2. x = <<e, r>> => SessionOf[x[2]] = o
    OBVIOUS
  <2> QED BY <1>2, <1>6, <2>1, <2>2
<1> QED BY <1>5, <1>7, <1>8

\* An event taken from the front of its queue; a request is not there again.
LEMMA Taken ==
  ASSUME Asking, D!TypeOK, QueueFormed, NEW s \in {1, 2}, queue[s] # <<>>,
         queue' = [queue EXCEPT ![s] = Tail(@)]
  PROVE  LET h == Head(queue[s])
         IN  /\ h \in Events /\ SessionOf[h[2]] = s
             /\ h \in D!Elements(queue[s])
             /\ queue' \in [{1, 2} -> Seq(Events)] /\ QueueFormed'
             /\ \A x \in Events : x \in D!Elements(queue'[SessionOf[x[2]]])
                                    => x \in D!Elements(queue[SessionOf[x[2]]])
             /\ \A x \in Events : x \in D!Elements(queue[SessionOf[x[2]]]) /\ x # h
                                    => x \in D!Elements(queue'[SessionOf[x[2]]])
             /\ h[1] = "request" => h \notin D!Elements(queue'[s])
<1> DEFINE h == Head(queue[s])
           t == Tail(queue[s])
<1>1. queue[s] \in Seq(Events)
  BY DEF D!TypeOK, Events
<1>2. /\ t \in Seq(Events) /\ h \in Events /\ h = queue[s][1]
      /\ D!Elements(queue[s]) = {h} \cup D!Elements(t)
  BY <1>1, Shortened
<1>3. /\ Len(queue[s]) \in Nat /\ Len(queue[s]) >= 1 /\ DOMAIN queue[s] = 1..Len(queue[s])
      /\ DOMAIN t = 1..(Len(queue[s]) - 1)
      /\ \A i \in 1..(Len(queue[s]) - 1) : t[i] = queue[s][i + 1]
  BY <1>1, HeadTailProperties
<1> HIDE DEF h, t
<1>4. \A i \in DOMAIN t : i + 1 \in DOMAIN queue[s] /\ t[i] = queue[s][i + 1]
  BY <1>3
<1>5. 1 \in DOMAIN queue[s]
  BY <1>3
<1>6. SessionOf[h[2]] = s
  BY <1>2, <1>5 DEF QueueFormed
<1>7. queue' \in [{1, 2} -> Seq(Events)] /\ queue'[s] = t
      /\ \A o \in {1, 2} : o # s => queue'[o] = queue[o]
  BY <1>2 DEF D!TypeOK, Events, t
<1>8. QueueFormed'
  <2> SUFFICES ASSUME NEW o \in {1, 2}
               PROVE  /\ \A i \in DOMAIN queue'[o] : SessionOf[queue'[o][i][2]] = o
                      /\ \A i, j \in DOMAIN queue'[o] :
                           queue'[o][i] = queue'[o][j] /\ queue'[o][i][1] = "request" => i = j
    BY DEF QueueFormed
  <2>1. CASE o # s
    BY <1>7, <2>1 DEF QueueFormed
  <2>2. CASE o = s
    <3>1. \A i \in DOMAIN t : SessionOf[t[i][2]] = s
      BY <1>4 DEF QueueFormed
    <3>2. \A i, j \in DOMAIN t : t[i] = t[j] /\ t[i][1] = "request" => i = j
      <4> SUFFICES ASSUME NEW i \in DOMAIN t, NEW j \in DOMAIN t, t[i] = t[j],
                          t[i][1] = "request"
                   PROVE  i = j
        OBVIOUS
      <4>1. i + 1 = j + 1
        BY <1>4 DEF QueueFormed
      <4> QED BY <1>3, <4>1
    <3>3. queue'[o] = t
      BY <1>7, <2>2
    <3> QED BY <2>2, <3>1, <3>2, <3>3
  <2> QED BY <2>1, <2>2
<1>9. ASSUME h[1] = "request" PROVE h \notin D!Elements(t)
  <2> SUFFICES ASSUME NEW i \in DOMAIN t, t[i] = h PROVE FALSE
    BY DEF D!Elements
  <2>1. i + 1 = 1
    BY <1>2, <1>4, <1>5, <1>9 DEF QueueFormed
  <2> QED BY <1>3, <2>1
<1>10. \A x \in Events : SessionOf[x[2]] \in {1, 2}
  BY DEF Asking, Events
<1> QED BY <1>2, <1>6, <1>7, <1>8, <1>9, <1>10 DEF h

\* The window and what is on its way to it are as they were.
LEMMA WindowSame ==
  ASSUME DialogsInv, UNCHANGED <<modern, queue, pending, form, given>>
  PROVE  /\ Unique(pending') /\ QueueFormed' /\ FormShown'
         /\ \A r \in Requests : /\ Coming(r)' <=> Coming(r)
                                /\ Shown(r)' <=> Shown(r)
                                /\ D!Held(r)' <=> D!Held(r)
                                /\ <<"withdrawn", r>> \in D!Elements(queue[SessionOf[r]])'
                                     <=> <<"withdrawn", r>> \in D!Elements(queue[SessionOf[r]])
BY DEF DialogsInv, QueueFormed, FormShown, D!Id, Coming, Shown, D!Held

\* What the server does, and the calls that carry its questions.
LEMMA ServerKeeps ==
  ASSUME Asking, DialogsInv, NEW r \in Requests,
         D!ServerAsks(r) \/ D!ServerWithdraws(r) \/ D!CallGivenUp(r)
  PROVE  DialogsInv'
<1> USE DEF DialogsInv
<1>1. UNCHANGED <<modern, queue, pending, form, given>>
  BY DEF D!ServerAsks, D!ServerWithdraws, D!CallGivenUp, D!window, D!server
<1>2. /\ Unique(pending') /\ QueueFormed' /\ FormShown'
      /\ \A q \in Requests : /\ Coming(q)' <=> Coming(q)
                             /\ Shown(q)' <=> Shown(q)
                             /\ D!Held(q)' <=> D!Held(q)
                             /\ <<"withdrawn", q>> \in D!Elements(queue[SessionOf[q]])'
                                  <=> <<"withdrawn", q>> \in D!Elements(queue[SessionOf[q]])
  BY <1>1, WindowSame
<1>3. /\ UNCHANGED <<slot, reply, gen, deleted, expired>>
      /\ cancelled \subseteq cancelled'
  BY DEF D!ServerAsks, D!ServerWithdraws, D!CallGivenUp, D!server, D!past
<1>4. /\ \A q \in Requests : handler'[q] = handler[q]
                               \/ (q = r /\ handler[q] = "no" /\ handler'[q] = "asked")
      /\ \A q \in Requests : notice'[q] = notice[q] \/ (q \in cancelled' /\ ~modern)
  <2>1. ASSUME D!ServerAsks(r) PROVE handler' = [handler EXCEPT ![r] = "asked"] /\ handler[r] = "no" /\ notice' = notice
    BY <2>1 DEF D!ServerAsks
  <2>2. ASSUME D!ServerWithdraws(r) PROVE handler' = handler /\ notice' = [notice EXCEPT ![r] = "spawned"] /\ r \in cancelled' /\ ~modern
    BY <2>2 DEF D!ServerWithdraws
  <2>3. ASSUME D!CallGivenUp(r) PROVE handler' = handler /\ notice' = notice
    BY <2>3 DEF D!CallGivenUp
  <2>4. handler \in [Requests -> {"no", "asked", "waiting", "over"}] /\ notice \in [Requests -> {"no", "spawned", "told"}]
    BY DEF DialogsInv, D!TypeOK
  <2> HIDE DEF DialogsInv
  <2> QED BY <2>1, <2>2, <2>3, <2>4
<1>9. handler' # handler => D!Live(r)
  BY DEF D!ServerAsks, D!ServerWithdraws, D!CallGivenUp
<1>5. D!TypeOK'
  BY <1>1 DEF D!ServerAsks, D!ServerWithdraws, D!CallGivenUp, D!TypeOK, D!server, D!past, D!window
<1>6. OneByOne' /\ TasksFormed' /\ WaitsShown'
  BY <1>1, <1>2, <1>3, <1>4 DEF OneByOne, TasksFormed, WaitsShown
<1>7. CancelledKnown'
  <2>1. \A q \in Requests : notice[q] # "no" => notice'[q] # "no"
    <3>1. CASE D!ServerWithdraws(r)
      BY <3>1 DEF D!ServerWithdraws, D!TypeOK
    <3>2. CASE D!ServerAsks(r) \/ D!CallGivenUp(r)
      BY <3>2 DEF D!ServerAsks, D!CallGivenUp
    <3> QED BY <3>1, <3>2
  <2>2. \A q \in Requests : D!Live(q)' <=> D!Live(q)
    BY <1>3 DEF D!Live
  <2>3. \A q \in Requests : ~D!Live(q) => handler'[q] = handler[q]
    BY <1>4, <1>9
  <2> QED BY <1>1, <1>2, <1>3, <1>4, <2>1, <2>2, <2>3 DEF CancelledKnown
<1> QED BY <1>2, <1>5, <1>6, <1>7

\* A task's end.
LEMMA OverKeeps ==
  ASSUME Asking, DialogsInv, NEW r \in Requests,
         D!PolicyAnswers(r) \/ D!Answered(r) \/ D!Withdrawn(r) \/ D!Expires(r) \/ D!Dropped(r)
  PROVE  DialogsInv'
<1> USE DEF DialogsInv
<1>1. PICK how \in {"policy", "answer", "fallback"} :
        /\ D!Over(r, how)
        /\ handler[r] \in {"asked", "waiting"}
        /\ how = "policy" <=> handler[r] = "asked"
        /\ how = "fallback" => r \in cancelled \cup expired' \/ (~D!Held(r) /\ slot[r] = "open")
        /\ expired \subseteq expired' /\ expired' \subseteq Requests
  BY DEF D!PolicyAnswers, D!Answered, D!Withdrawn, D!Expires, D!Dropped, D!TypeOK
<1>2. UNCHANGED <<queue, pending, form, given, slot, cancelled, notice, modern, gen, deleted, overtaken>>
  BY <1>1 DEF D!Over, D!window, D!server
<1>3. /\ Unique(pending') /\ QueueFormed' /\ FormShown'
      /\ \A q \in Requests : /\ Coming(q)' <=> Coming(q)
                             /\ Shown(q)' <=> Shown(q)
                             /\ D!Held(q)' <=> D!Held(q)
                             /\ <<"withdrawn", q>> \in D!Elements(queue[SessionOf[q]])'
                                  <=> <<"withdrawn", q>> \in D!Elements(queue[SessionOf[q]])
  BY <1>2, WindowSame
<1>4. /\ \A q \in Requests : q # r => handler'[q] = handler[q] /\ reply'[q] = reply[q]
      /\ handler'[r] = "over" /\ reply'[r] = how
  BY <1>1 DEF D!Over, D!TypeOK
<1>5. D!TypeOK'
  BY <1>1, <1>2 DEF D!Over, D!TypeOK
<1>6. OneByOne' /\ WaitsShown'
  BY <1>2, <1>3, <1>4 DEF OneByOne, WaitsShown
<1>7. TasksFormed'
  <2> SUFFICES ASSUME NEW q \in Requests
               PROVE  /\ handler'[q] \in {"no", "asked"} => slot'[q] = "none" /\ reply'[q] = "none"
                      /\ handler'[q] = "waiting" => slot'[q] # "none" /\ reply'[q] = "none"
                      /\ handler'[q] = "over" => reply'[q] # "none"
                      /\ slot'[q] = "none" => reply'[q] \in {"none", "policy"}
                      /\ slot'[q] # "none" => reply'[q] # "policy"
                      /\ q \in given' /\ handler'[q] = "waiting" => slot'[q] = "taken"
                      /\ slot'[q] = "taken" => q \in given'
                      /\ reply'[q] = "fallback" => q \in cancelled' \cup expired'
                                                     \/ (~D!Held(q)' /\ q \notin given')
    BY DEF TasksFormed
  <2>1. CASE q # r
    BY <1>1, <1>2, <1>3, <1>4, <2>1 DEF TasksFormed
  <2>2. CASE q = r
    BY <1>1, <1>2, <1>3, <1>4, <2>2 DEF TasksFormed
  <2> QED BY <2>1, <2>2
<1>8. CancelledKnown'
  <2>1. \A q \in Requests : handler'[q] # "no" => handler[q] # "no"
    BY <1>1, <1>4
  <2> QED BY <1>2, <1>3, <2>1 DEF CancelledKnown, D!Live
<1> QED BY <1>3, <1>5, <1>6, <1>7, <1>8

\* Reconnect: the session's requests are cancelled with it.
LEMMA ReconnectKeeps ==
  ASSUME Asking, DialogsInv, D!Reconnect PROVE DialogsInv'
<1> USE DEF DialogsInv
<1>1. UNCHANGED <<modern, queue, pending, form, given, handler, slot, reply, notice, expired>>
  BY DEF D!Reconnect, D!window, D!past
<1>2. /\ Unique(pending') /\ QueueFormed' /\ FormShown'
      /\ \A q \in Requests : /\ Coming(q)' <=> Coming(q)
                             /\ Shown(q)' <=> Shown(q)
                             /\ D!Held(q)' <=> D!Held(q)
                             /\ <<"withdrawn", q>> \in D!Elements(queue[SessionOf[q]])'
                                  <=> <<"withdrawn", q>> \in D!Elements(queue[SessionOf[q]])
  BY <1>1, WindowSame
<1>3. D!TypeOK'
  BY <1>1 DEF D!Reconnect, D!TypeOK, D!past
<1>4. cancelled \subseteq cancelled'
  BY DEF D!Reconnect
<1>5. OneByOne' /\ TasksFormed' /\ WaitsShown'
  BY <1>1, <1>2, <1>4 DEF OneByOne, TasksFormed, WaitsShown
<1>6. CancelledKnown'
  <2>1. ASSUME NEW q \in Requests, ~D!Live(q)', handler[q] # "no" PROVE q \in cancelled'
    <3>1. SessionOf[q] = 1
      BY <2>1 DEF D!Reconnect, D!Live, Asking
    <3> QED BY <2>1, <3>1 DEF D!Reconnect
  <2> QED BY <1>1, <1>2, <1>4, <2>1 DEF CancelledKnown
<1> QED BY <1>2, <1>3, <1>5, <1>6

\* ask: the request is on its way to the window.
LEMMA AskTold_ ==
  ASSUME Asking, DialogsInv, NEW r \in Requests, D!AskTold(r)
  PROVE  DialogsInv'
<1> USE DEF DialogsInv
<1>1. UNCHANGED <<pending, form, given, reply, cancelled, notice, modern, gen, deleted, expired>>
  BY DEF D!AskTold, D!window, D!server
<1>2. ~Coming(r) /\ ~Shown(r) /\ r \notin given
  BY DEF D!AskTold, OneByOne, TasksFormed
<1>3. <<"request", r>> \in Events /\ \A q \in Requests : <<"request", q>> \in Events /\ <<"withdrawn", q>> \in Events
  BY DEF Events
<1>4. /\ queue' \in [{1, 2} -> Seq(Events)] /\ QueueFormed'
      /\ \A x \in Events : x \in D!Elements(queue'[SessionOf[x[2]]])
                             <=> x \in D!Elements(queue[SessionOf[x[2]]]) \/ x = <<"request", r>>
  BY <1>2, Sent DEF D!AskTold
<1>5. \A q \in Requests :
        /\ Coming(q)' <=> Coming(q) \/ q = r
        /\ Shown(q)' <=> Shown(q)
        /\ D!Held(q)' <=> D!Held(q) \/ q = r
        /\ <<"withdrawn", q>> \in D!Elements(queue'[SessionOf[q]])
             <=> <<"withdrawn", q>> \in D!Elements(queue[SessionOf[q]])
  BY <1>1, <1>3, <1>4 DEF Coming, Shown, D!Held
<1>6. /\ handler[r] = "asked" /\ slot[r] = "none" /\ reply[r] = "none"
      /\ \A q \in Requests : q # r => handler'[q] = handler[q] /\ slot'[q] = slot[q]
      /\ handler'[r] = "waiting" /\ slot'[r] = "open"
  BY DEF D!AskTold, D!TypeOK, TasksFormed
<1>7. D!TypeOK'
  <2>1. /\ handler' \in [Requests -> {"no", "asked", "waiting", "over"}]
        /\ slot' \in [Requests -> {"none", "open", "taken"}]
        /\ overtaken' \subseteq Requests
    BY DEF D!AskTold, D!TypeOK
  <2> QED BY <1>1, <1>4, <2>1 DEF D!TypeOK, Events
<1>8. Unique(pending') /\ FormShown'
  BY <1>1 DEF FormShown, D!Id
<1>9. OneByOne'
  BY <1>1, <1>2, <1>5, <1>6 DEF OneByOne
<1>10. TasksFormed'
  <2> SUFFICES ASSUME NEW q \in Requests
               PROVE  /\ handler'[q] \in {"no", "asked"} => slot'[q] = "none" /\ reply'[q] = "none"
                      /\ handler'[q] = "waiting" => slot'[q] # "none" /\ reply'[q] = "none"
                      /\ handler'[q] = "over" => reply'[q] # "none"
                      /\ slot'[q] = "none" => reply'[q] \in {"none", "policy"}
                      /\ slot'[q] # "none" => reply'[q] # "policy"
                      /\ q \in given' /\ handler'[q] = "waiting" => slot'[q] = "taken"
                      /\ slot'[q] = "taken" => q \in given'
                      /\ reply'[q] = "fallback" => q \in cancelled' \cup expired'
                                                     \/ (~D!Held(q)' /\ q \notin given')
    BY DEF TasksFormed
  <2>1. CASE q # r
    BY <1>1, <1>5, <1>6, <2>1 DEF TasksFormed
  <2>2. CASE q = r
    BY <1>1, <1>2, <1>6, <2>2
  <2> QED BY <2>1, <2>2
<1>11. CancelledKnown'
  <2>1. \A q \in Requests : handler'[q] # "no" => handler[q] # "no"
    BY <1>6
  <2> QED BY <1>1, <1>5, <2>1 DEF CancelledKnown, D!Live
<1>12. WaitsShown'
  BY <1>1, <1>5, <1>6 DEF WaitsShown
<1> QED BY <1>4, <1>7, <1>8, <1>9, <1>10, <1>11, <1>12

\* on_cancelled: so is the withdrawal.
LEMMA WithdrawalKeeps ==
  ASSUME Asking, DialogsInv, NEW r \in Requests, D!WithdrawalTold(r)
  PROVE  DialogsInv'
<1> USE DEF DialogsInv
<1>1. UNCHANGED <<pending, form, given, handler, slot, reply, cancelled, modern, gen, deleted, expired, overtaken>>
  BY DEF D!WithdrawalTold, D!window, D!server, D!past
<1>2. \A q \in Requests : <<"request", q>> \in Events /\ <<"withdrawn", q>> \in Events
  BY DEF Events
<1>3. /\ queue' \in [{1, 2} -> Seq(Events)] /\ QueueFormed'
      /\ \A x \in Events : x \in D!Elements(queue'[SessionOf[x[2]]])
                             <=> x \in D!Elements(queue[SessionOf[x[2]]]) \/ x = <<"withdrawn", r>>
  BY Sent DEF D!WithdrawalTold
<1>4. \A q \in Requests :
        /\ Coming(q)' <=> Coming(q)
        /\ Shown(q)' <=> Shown(q)
        /\ D!Held(q)' <=> D!Held(q)
        /\ <<"withdrawn", q>> \in D!Elements(queue'[SessionOf[q]])
             <=> <<"withdrawn", q>> \in D!Elements(queue[SessionOf[q]]) \/ q = r
  BY <1>1, <1>2, <1>3 DEF Coming, Shown, D!Held
<1>5. /\ notice[r] = "spawned" /\ notice'[r] = "told"
      /\ \A q \in Requests : q # r => notice'[q] = notice[q]
  BY DEF D!WithdrawalTold, D!TypeOK
<1>6. D!TypeOK'
  <2>1. notice' \in [Requests -> {"no", "spawned", "told"}]
    BY DEF D!WithdrawalTold, D!TypeOK
  <2> QED BY <1>1, <1>3, <2>1 DEF D!TypeOK, Events
<1>7. Unique(pending') /\ FormShown'
  BY <1>1 DEF FormShown, D!Id
<1>8. OneByOne' /\ TasksFormed' /\ WaitsShown'
  BY <1>1, <1>4 DEF OneByOne, TasksFormed, WaitsShown
<1>9. CancelledKnown'
  BY <1>1, <1>4, <1>5 DEF CancelledKnown, D!Live
<1> QED BY <1>3, <1>6, <1>7, <1>8, <1>9

\* apply_events
LEMMA FileKeeps ==
  ASSUME Asking, DialogsInv, NEW s \in {1, 2}, D!File(s)
  PROVE  DialogsInv'
<1> USE DEF DialogsInv
<1>20. PICK h : h = Head(queue[s])
  OBVIOUS
<1>21. PICK r : r = h[2]
  OBVIOUS
<1> DEFINE others == {p \in Requests : D!Id(p) # D!Id(r)}
<1>1. UNCHANGED <<given, handler, slot, reply, cancelled, notice, modern, gen, deleted, expired, overtaken>>
  BY DEF D!File, D!tasks, D!server, D!past
<1>2. /\ h \in Events /\ SessionOf[r] = s /\ h \in D!Elements(queue[s])
      /\ queue' \in [{1, 2} -> Seq(Events)] /\ QueueFormed'
      /\ \A x \in Events : x \in D!Elements(queue'[SessionOf[x[2]]])
                             => x \in D!Elements(queue[SessionOf[x[2]]])
      /\ \A x \in Events : x \in D!Elements(queue[SessionOf[x[2]]]) /\ x # h
                             => x \in D!Elements(queue'[SessionOf[x[2]]])
      /\ h[1] = "request" => h \notin D!Elements(queue'[s])
  BY Taken, <1>20, <1>21 DEF D!File
<1>3. pending' = IF ~D!Live(r) THEN pending
                 ELSE IF h[1] = "request" THEN Append(pending, r)
                 ELSE D!Asked(pending, r)
  BY <1>20, <1>21 DEF D!File
<1>4. r \in Requests /\ h[1] \in {"request", "withdrawn"} /\ h = <<h[1], r>>
  BY <1>2, <1>21 DEF Events
<1>5. \A q \in Requests : <<"request", q>> \in Events /\ <<"withdrawn", q>> \in Events
  BY DEF Events
<1>6. /\ \A q \in Requests : Coming(q)' => Coming(q)
      /\ \A q \in Requests : Coming(q) /\ ~(h[1] = "request" /\ q = r) => Coming(q)'
      /\ h[1] = "request" => Coming(r) /\ ~Coming(r)'
      /\ \A q \in Requests : <<"withdrawn", q>> \in D!Elements(queue'[SessionOf[q]])
                               => <<"withdrawn", q>> \in D!Elements(queue[SessionOf[q]])
  <2>1. \A q \in Requests : /\ <<"request", q>>[2] = q /\ <<"withdrawn", q>>[2] = q
                            /\ <<"request", q>> = h <=> h[1] = "request" /\ q = r
    BY <1>4
  <2>2. h[1] = "request" => <<"request", r>> = h
    BY <1>4
  <2>3. ASSUME NEW q \in Requests
        PROVE  /\ Coming(q)' => Coming(q)
               /\ Coming(q) /\ ~(h[1] = "request" /\ q = r) => Coming(q)'
               /\ <<"withdrawn", q>> \in D!Elements(queue'[SessionOf[q]])
                    => <<"withdrawn", q>> \in D!Elements(queue[SessionOf[q]])
    BY <1>2, <1>5, <2>1 DEF Coming
  <2>4. h[1] = "request" => Coming(r) /\ ~Coming(r)'
    BY <1>2, <2>2 DEF Coming
  <2> QED BY <2>3, <2>4
<1>7. /\ pending' \in Seq(Requests) /\ Unique(pending')
      /\ \A q \in Requests :
           /\ Shown(q)' => Shown(q) \/ (h[1] = "request" /\ q = r)
           /\ Shown(q) /\ ~Shown(q)' => q \in cancelled
           /\ h[1] = "request" /\ D!Live(r) => Shown(r)'
           /\ h[1] = "request" /\ ~D!Live(r) => ~Shown(r)'
  <2>1. CASE ~D!Live(r)
    <3>1. pending' = pending
      BY <1>3, <2>1 DEF D!Live
    <3>2. h[1] = "request" => ~Shown(r)
      BY <1>4, <1>6 DEF OneByOne
    <3> QED BY <1>4, <2>1, <3>1, <3>2 DEF D!TypeOK, Shown
  <2>2. CASE D!Live(r) /\ h[1] = "request"
    <3>1. pending' = Append(pending, r)
      BY <1>3, <2>2
    <3>2. r \notin D!Elements(pending)
      BY <1>4, <1>6, <2>2 DEF OneByOne, Shown
    <3>3. /\ pending' \in Seq(Requests) /\ Unique(pending')
          /\ D!Elements(pending') = D!Elements(pending) \cup {r}
      BY <1>4, <3>1, <3>2, Appended DEF D!TypeOK
    <3>4. \A q \in Requests : Shown(q)' <=> Shown(q) \/ q = r
      BY <3>3 DEF Shown
    <3> QED BY <1>4, <2>2, <3>3, <3>4
  <2>3. CASE D!Live(r) /\ h[1] # "request"
    <3>1. pending' = Sift(pending, others)
      BY <1>3, <2>3, SiftIsSift DEF D!Asked
    <3>2. /\ pending' \in Seq(Requests) /\ Unique(pending')
          /\ D!Elements(pending') = D!Elements(pending) \cap others
      BY <3>1, SiftedElements DEF D!TypeOK
    <3>3. ASSUME NEW q \in Requests, q \notin others, Shown(q) PROVE q \in cancelled
      <4>1. CASE q = r
        <5>1. <<"withdrawn", r>> \in D!Elements(queue[SessionOf[r]])
          BY <1>2, <1>4, <2>3
        <5> QED BY <1>4, <4>1, <5>1 DEF CancelledKnown
      <4>2. CASE q # r
        <5>4. <<"withdrawn", r>> \in D!Elements(queue[SessionOf[r]])
          BY <1>2, <1>4, <2>3
        <5>5. ~modern
          BY <1>4, <5>4 DEF CancelledKnown
        <5>1. SessionOf[q] # SessionOf[r]
          BY <1>4, <3>3, <4>2, <5>5 DEF Asking, D!Id
        <5>2. ~D!Live(q)
          BY <2>3, <5>1 DEF D!Live
        <5>3. handler[q] # "no"
          BY <3>3 DEF OneByOne, TasksFormed
        <5> QED BY <5>2, <5>3 DEF CancelledKnown
      <4> QED BY <4>1, <4>2
    <3>4. \A q \in Requests : Shown(q)' <=> Shown(q) /\ q \in others
      BY <3>2 DEF Shown
    <3> HIDE DEF others
    <3> QED BY <2>3, <3>2, <3>3, <3>4
  <2> QED BY <2>1, <2>2, <2>3
<1>8. \A q \in Requests :
        /\ D!Held(q)' => D!Held(q)
        /\ D!Held(q) /\ ~D!Held(q)' => q \in cancelled
  <2>1. \A q \in Requests : (D!Held(q) <=> Shown(q) \/ Coming(q)) /\ (D!Held(q)' <=> Shown(q)' \/ Coming(q)')
    BY DEF D!Held, Shown, Coming
  <2>2. ASSUME h[1] = "request", ~D!Live(r) PROVE r \in cancelled
    <3>1. handler[r] # "no"
      BY <1>4, <1>6, <2>2 DEF OneByOne, TasksFormed
    <3> QED BY <1>4, <2>2, <3>1 DEF CancelledKnown
  <2> SUFFICES ASSUME NEW q \in Requests
               PROVE  (D!Held(q)' => D!Held(q)) /\ (D!Held(q) /\ ~D!Held(q)' => q \in cancelled)
    OBVIOUS
  <2>3. CASE h[1] = "request" /\ q = r
    BY <1>6, <1>7, <2>1, <2>2, <2>3
  <2>4. CASE ~(h[1] = "request" /\ q = r)
    BY <1>6, <1>7, <2>1, <2>4
  <2> QED BY <2>3, <2>4
<1>9. FormShown' /\ form' \in Requests \cup {Nobody}
  BY <1>1, <1>7, Synced DEF D!File
<1>10. D!TypeOK'
  BY <1>1, <1>2, <1>7, <1>9 DEF D!TypeOK, Events
<1>11. OneByOne'
  <2> SUFFICES ASSUME NEW q \in Requests
               PROVE  /\ Coming(q)' => ~Shown(q)' /\ q \notin given'
                      /\ Shown(q)' => q \notin given'
                      /\ Coming(q)' \/ Shown(q)' \/ q \in given' => slot'[q] # "none"
    BY DEF OneByOne
  <2>1. CASE h[1] = "request" /\ q = r
    BY <1>1, <1>6, <2>1 DEF OneByOne
  <2>2. CASE ~(h[1] = "request" /\ q = r)
    BY <1>1, <1>6, <1>7, <2>2 DEF OneByOne
  <2> QED BY <2>1, <2>2
<1>12. TasksFormed'
  BY <1>1, <1>8 DEF TasksFormed
<1>13. CancelledKnown'
  BY <1>1, <1>6 DEF CancelledKnown, D!Live
<1>14. WaitsShown'
  BY <1>1, <1>8 DEF WaitsShown
<1> QED BY <1>2, <1>7, <1>9, <1>10, <1>11, <1>12, <1>13, <1>14

\* answer_request
LEMMA AnswerKeeps ==
  ASSUME Asking, DialogsInv, D!UserAnswers
  PROVE  DialogsInv'
<1> USE DEF DialogsInv
<1>20. PICK r : r = Head(pending)
  OBVIOUS
<1>1. UNCHANGED <<handler, reply, cancelled, notice, modern, gen, deleted, queue, expired, overtaken>>
  BY DEF D!UserAnswers, D!server, D!past
<1>2. /\ pending' \in Seq(Requests) /\ r \in Requests
      /\ D!Elements(pending) = {r} \cup D!Elements(pending')
      /\ Unique(pending') /\ r \notin D!Elements(pending')
  BY <1>20, Shortened DEF D!UserAnswers, D!TypeOK
<1>3. /\ given' = given \cup {r}
      /\ slot' = [slot EXCEPT ![r] = IF @ = "open" /\ handler[r] = "waiting" THEN "taken" ELSE @]
  BY <1>20 DEF D!UserAnswers, D!Responds
<1>4. /\ \A q \in Requests : q # r => slot'[q] = slot[q]
      /\ slot'[r] = IF slot[r] = "open" /\ handler[r] = "waiting" THEN "taken" ELSE slot[r]
      /\ slot[r] # "none" /\ slot'[r] # "none"
  BY <1>2, <1>3 DEF D!TypeOK, OneByOne, Shown
<1>5. /\ QueueFormed'
      /\ \A q \in Requests : /\ Coming(q)' <=> Coming(q)
                             /\ Shown(q) <=> Shown(q)' \/ q = r
                             /\ <<"withdrawn", q>> \in D!Elements(queue'[SessionOf[q]])
                                  <=> <<"withdrawn", q>> \in D!Elements(queue[SessionOf[q]])
      /\ ~Shown(r)' /\ ~Coming(r)'
  <2>1. QueueFormed' /\ ~Shown(r)' /\ Shown(r)
    BY <1>1, <1>2 DEF QueueFormed, Shown
  <2>2. \A q \in Requests : /\ Coming(q)' <=> Coming(q)
                            /\ Shown(q) <=> Shown(q)' \/ q = r
                            /\ <<"withdrawn", q>> \in D!Elements(queue'[SessionOf[q]])
                                 <=> <<"withdrawn", q>> \in D!Elements(queue[SessionOf[q]])
    BY <1>1, <1>2 DEF Coming, Shown
  <2>3. ~Coming(r)
    BY <1>2, <2>1 DEF OneByOne
  <2> QED BY <1>2, <2>1, <2>2, <2>3
<1>6. \A q \in Requests : (D!Held(q) <=> Shown(q) \/ Coming(q)) /\ (D!Held(q)' <=> Shown(q)' \/ Coming(q)')
  BY DEF D!Held, Shown, Coming
<1>7. FormShown' /\ form' \in Requests \cup {Nobody}
  BY <1>1, <1>2, Synced DEF D!UserAnswers
<1>8. D!TypeOK'
  <2>1. slot' \in [Requests -> {"none", "open", "taken"}] /\ given' \subseteq Requests
    BY <1>2, <1>3 DEF D!TypeOK
  <2> QED BY <1>1, <1>2, <1>7, <2>1 DEF D!TypeOK
<1>9. OneByOne'
  <2> SUFFICES ASSUME NEW q \in Requests
               PROVE  /\ Coming(q)' => ~Shown(q)' /\ q \notin given'
                      /\ Shown(q)' => q \notin given'
                      /\ Coming(q)' \/ Shown(q)' \/ q \in given' => slot'[q] # "none"
    BY DEF OneByOne
  <2>1. CASE q = r
    BY <1>4, <1>5, <2>1
  <2>2. CASE q # r
    BY <1>3, <1>4, <1>5, <2>2 DEF OneByOne
  <2> QED BY <2>1, <2>2
<1>10. TasksFormed'
  <2> SUFFICES ASSUME NEW q \in Requests
               PROVE  /\ handler'[q] \in {"no", "asked"} => slot'[q] = "none" /\ reply'[q] = "none"
                      /\ handler'[q] = "waiting" => slot'[q] # "none" /\ reply'[q] = "none"
                      /\ handler'[q] = "over" => reply'[q] # "none"
                      /\ slot'[q] = "none" => reply'[q] \in {"none", "policy"}
                      /\ slot'[q] # "none" => reply'[q] # "policy"
                      /\ q \in given' /\ handler'[q] = "waiting" => slot'[q] = "taken"
                      /\ slot'[q] = "taken" => q \in given'
                      /\ reply'[q] = "fallback" => q \in cancelled' \cup expired'
                                                     \/ (~D!Held(q)' /\ q \notin given')
    BY DEF TasksFormed
  <2>1. CASE q # r
    BY <1>1, <1>3, <1>4, <1>5, <1>6, <2>1 DEF TasksFormed
  <2>2. CASE q = r
    <3>1. slot[r] \in {"open", "taken"} /\ Shown(r) /\ D!Held(r)
      BY <1>2, <1>4, <1>5, <1>6 DEF D!TypeOK
    <3>2. r \in given'
      BY <1>3
    <3> QED BY <1>1, <1>4, <2>2, <3>1, <3>2 DEF TasksFormed
  <2> QED BY <2>1, <2>2
<1>11. CancelledKnown'
  BY <1>1, <1>5 DEF CancelledKnown, D!Live
<1>12. WaitsShown'
  <2> SUFFICES ASSUME NEW q \in Requests, handler'[q] = "waiting", slot'[q] = "open", q \notin cancelled'
               PROVE  D!Held(q)'
    BY DEF WaitsShown
  <2>1. q # r
    BY <1>1, <1>4
  <2> QED BY <1>1, <1>4, <1>5, <1>6, <2>1 DEF WaitsShown
<1> QED BY <1>2, <1>5, <1>7, <1>8, <1>9, <1>10, <1>11, <1>12

\* finish_delete: no dialog is left, and none of its server's requests waits.
LEMMA DeleteKeeps ==
  ASSUME Asking, DialogsInv, D!Delete
  PROVE  DialogsInv'
<1> USE DEF DialogsInv
<1>1. UNCHANGED <<handler, slot, reply, notice, modern, gen, queue, given, expired, overtaken>>
  BY DEF D!Delete, D!past
<1>2. pending' = <<>> /\ cancelled' = cancelled \cup {q \in Requests : handler[q] # "no"}
  BY DEF D!Delete
<1>3. /\ pending' \in Seq(Requests) /\ Unique(pending') /\ QueueFormed'
      /\ \A q \in Requests : /\ Coming(q)' <=> Coming(q)
                             /\ ~Shown(q)'
                             /\ D!Held(q)' => D!Held(q)
                             /\ <<"withdrawn", q>> \in D!Elements(queue'[SessionOf[q]])
                                  <=> <<"withdrawn", q>> \in D!Elements(queue[SessionOf[q]])
  BY <1>1, <1>2 DEF Unique, QueueFormed, Coming, Shown, D!Held, D!Elements
<1>4. FormShown' /\ form' \in Requests \cup {Nobody}
  BY <1>1, <1>3, Synced DEF D!Delete
<1>5. D!TypeOK'
  BY <1>1, <1>2, <1>3, <1>4 DEF D!TypeOK, D!Delete
<1>6. OneByOne' /\ TasksFormed'
  BY <1>1, <1>2, <1>3 DEF OneByOne, TasksFormed
<1>7. CancelledKnown'
  BY <1>1, <1>2, <1>3 DEF CancelledKnown
<1>8. WaitsShown'
  BY <1>1, <1>2 DEF WaitsShown
<1> QED BY <1>3, <1>4, <1>5, <1>6, <1>7, <1>8

\* Every step, and the start.
LEMMA DialogsKept ==
  ASSUME Asking, DialogsInv, [D!Next]_D!vars PROVE DialogsInv'
<1>1. CASE UNCHANGED D!vars
  BY <1>1 DEF D!vars, D!tasks, D!server, D!window, D!past, DialogsInv, D!TypeOK, QueueFormed, OneByOne,
     TasksFormed, CancelledKnown, WaitsShown, FormShown, D!Id, Coming, Shown, D!Held, D!Live
<1>2. ASSUME NEW r \in Requests, D!ServerAsks(r) \/ D!ServerWithdraws(r) \/ D!CallGivenUp(r) PROVE DialogsInv'
  BY <1>2, ServerKeeps
<1>3. ASSUME NEW r \in Requests, D!Handling(r) PROVE DialogsInv'
  BY <1>3, OverKeeps, AskTold_, WithdrawalKeeps DEF D!Handling
<1>4. ASSUME NEW s \in {1, 2}, D!File(s) PROVE DialogsInv'
  BY <1>4, FileKeeps
<1> QED BY <1>1, <1>2, <1>3, <1>4, AnswerKeeps, ReconnectKeeps, DeleteKeeps DEF D!Next, D!Program

LEMMA DialogsStart ==
  ASSUME Asking, D!Init PROVE DialogsInv
<1>1. D!TypeOK
  <2>1. queue \in [{1, 2} -> Seq({"request", "withdrawn"} \X Requests)]
    BY DEF D!Init
  <2>2. cancelled \subseteq Requests /\ given \subseteq Requests /\ expired \subseteq Requests /\ overtaken \subseteq Requests
    BY DEF D!Init
  <2>5. pending \in Seq(Requests)
    BY DEF D!Init
  <2>3. form \in Requests \cup {Nobody} /\ gen \in {1, 2} /\ deleted \in BOOLEAN /\ modern \in BOOLEAN
    BY DEF D!Init
  <2>4. /\ handler \in [Requests -> {"no", "asked", "waiting", "over"}]
        /\ slot \in [Requests -> {"none", "open", "taken"}]
        /\ reply \in [Requests -> {"none", "policy", "answer", "fallback"}]
        /\ notice \in [Requests -> {"no", "spawned", "told"}]
    BY DEF D!Init
  <2> QED BY <2>1, <2>2, <2>3, <2>4, <2>5 DEF D!TypeOK
<1>2. \A s \in {1, 2} : queue[s] = <<>> /\ D!Elements(queue[s]) = {}
  BY DEF D!Init, D!Elements
<1>3. D!Elements(pending) = {} /\ Unique(pending) /\ QueueFormed
  BY <1>2 DEF D!Init, D!Elements, Unique, QueueFormed
<1>4. \A q \in Requests : ~Coming(q) /\ ~Shown(q) /\ ~D!Held(q) /\ <<"withdrawn", q>> \notin D!Elements(queue[SessionOf[q]])
  BY <1>2, <1>3 DEF Coming, Shown, D!Held, Asking
<1>5. OneByOne /\ TasksFormed /\ CancelledKnown /\ WaitsShown /\ FormShown
  BY <1>3, <1>4 DEF D!Init, OneByOne, TasksFormed, CancelledKnown, WaitsShown, FormShown
<1> QED BY <1>1, <1>3, <1>5 DEF DialogsInv

THEOREM DialogsAreSound ==
  ASSUME Asking
  PROVE  D!Init /\ [][D!Next]_D!vars => []D!DialogsSound
<1>1. D!Init => DialogsInv
  BY DialogsStart
<1>2. DialogsInv /\ [D!Next]_D!vars => DialogsInv'
  BY DialogsKept
<1>3. DialogsInv => D!DialogsSound
  <2> SUFFICES ASSUME DialogsInv PROVE D!DialogsSound
    OBVIOUS
  <2>1. \A r \in Requests :
          /\ slot[r] = "taken" => r \in given
          /\ r \in given /\ handler[r] = "over" /\ reply[r] # "answer" => r \in cancelled \cup expired
    <3> SUFFICES ASSUME NEW r \in Requests, r \in given, handler[r] = "over", reply[r] # "answer"
                 PROVE  r \in cancelled \cup expired
      BY DEF DialogsInv, TasksFormed
    <3>1. slot[r] # "none" /\ reply[r] = "fallback"
      BY DEF DialogsInv, D!TypeOK, OneByOne, TasksFormed
    <3> QED BY <3>1 DEF DialogsInv, TasksFormed
  <2> QED BY <2>1 DEF DialogsInv, D!DialogsSound, Unique, WaitsShown, FormShown
<1> QED BY <1>1, <1>2, <1>3, PTL

\* Nobody waits in vain, no answer goes astray and the fields are those of the
\* request shown, in whatever order requests, withdrawals, time limits, answers,
\* reconnects and the delete of the server fall (ask, apply_events,
\* answer_request, sync_request_ui).
THEOREM DialogsStaySound == JobsSpec => []DialogsSound
<1>1. Asking
  BY JobsAssumption DEF Asking
<1>2. JobsInit => D!Init
  BY DEF JobsInit
<1>3. [JobsNext]_all => [D!Next]_D!vars
  BY DEF JobsNext, FlagStep, DialogsStep, RowsStep, all, ofDialogs, D!vars, D!tasks,
         D!server, D!window, D!past
<1>4. D!DialogsSound => DialogsSound
  BY DEF DialogsSound
<1> QED BY <1>1, <1>2, <1>3, <1>4, DialogsAreSound, PTL DEF JobsSpec

-----------------------------------------------------------------------------
(* Rows.                                                                   *)

\* Tools and calls are numbers from 1, and few.
Numbered ==
  /\ Tools \in SUBSET (Nat \ {0}) /\ Calls \in SUBSET (Nat \ {0}) /\ Matching \in SUBSET R!All
  /\ IsFiniteSet(Tools) /\ IsFiniteSet(Calls)

LEMMA AllFinite ==
  ASSUME Numbered PROVE IsFiniteSet(R!All) /\ R!Cardinality(R!All) \in Nat /\ R!All \in SUBSET (Nat \ {0})
BY FS_Union, FS_CardinalityType, RowsSift DEF Numbered, R!All

\* The rows of a list: names, each once, no more than there are.
LEMMA RowsOfFormed ==
  ASSUME Numbered, NEW m, NEW t \in Seq(R!All), Unique(t), NEW h \in Seq(R!All), Unique(h), NEW f
  PROVE  /\ R!RowsOf(m, t, h, f) \in Seq(R!All) /\ Unique(R!RowsOf(m, t, h, f))
         /\ Len(R!RowsOf(m, t, h, f)) \in 0..R!Cardinality(R!All)
         /\ DOMAIN R!RowsOf(m, t, h, f) = 1..Len(R!RowsOf(m, t, h, f))
         /\ m = "tools" => R!Elements(R!RowsOf(m, t, h, f)) = R!Elements(t) \cap f
         /\ m # "tools" => R!Elements(R!RowsOf(m, t, h, f)) = R!Elements(h) \cap f
<1> DEFINE s == IF m = "tools" THEN t ELSE h
           rows == R!Sift(s, f)
<1>1. s \in Seq(R!All) /\ Unique(s)
  OBVIOUS
<1> HIDE DEF s
<1>2. rows \in Seq(R!All) /\ Unique(rows) /\ R!Elements(rows) = R!Elements(s) \cap f
  BY <1>1, SiftedElements, RowsSift, SameElements
<1>3. Len(rows) <= R!Cardinality(R!All) /\ R!Cardinality(R!All) \in Nat
  BY <1>2, AllFinite, ShortUnique, RowsSift
<1>4. R!RowsOf(m, t, h, f) = rows
  BY DEF R!RowsOf, s
<1> HIDE DEF rows
<1>5. Len(rows) \in Nat /\ DOMAIN rows = 1..Len(rows)
  BY <1>2
<1> QED BY <1>2, <1>3, <1>4, <1>5 DEF s

LEMMA ListsFormed ==
  ASSUME Numbered, R!TypeOK
  PROVE  /\ tools \in Seq(R!All) /\ Unique(tools)
         /\ history \in Seq(R!All) /\ Unique(history)
         /\ R!Elements(history) \subseteq recorded
<1>1. history \in Seq(recorded) /\ recorded \subseteq R!All
  BY DEF R!TypeOK, R!All
<1>2. history \in Seq(R!All) /\ R!Elements(history) \subseteq recorded
  BY <1>1 DEF R!Elements
<1>3. tools \in Seq(R!All)
  <2>1. PICK n \in 0..R!Cardinality(Tools) : tools \in [1..n -> Tools]
    BY DEF R!TypeOK, R!Orders
  <2>2. R!Cardinality(Tools) \in Nat
    BY FS_CardinalityType, RowsSift DEF Numbered
  <2>3. n \in Nat /\ tools \in [1..n -> R!All]
    BY <2>1, <2>2 DEF R!All
  <2> QED BY <2>3
<1> QED BY <1>2, <1>3 DEF R!TypeOK, R!Orders, R!Distinct, Unique

LEMMA ItemsFormed ==
  ASSUME Numbered, R!TypeOK
  PROVE  /\ R!Items \in Seq(R!All) /\ Unique(R!Items)
         /\ Len(R!Items) \in 0..R!Cardinality(R!All) /\ DOMAIN R!Items = 1..Len(R!Items)
         /\ mode = "tools" => R!Elements(R!Items) = R!Elements(tools) \cap filter
         /\ mode # "tools" => R!Elements(R!Items) = R!Elements(history) \cap filter
         /\ \A i \in DOMAIN R!Items : R!Items[i] \in R!All /\ R!Items[i] # R!None
         /\ R!Cardinality(R!All) \in Nat
<1>1. /\ R!Items \in Seq(R!All) /\ Unique(R!Items)
      /\ Len(R!Items) \in 0..R!Cardinality(R!All) /\ DOMAIN R!Items = 1..Len(R!Items)
      /\ mode = "tools" => R!Elements(R!Items) = R!Elements(tools) \cap filter
      /\ mode # "tools" => R!Elements(R!Items) = R!Elements(history) \cap filter
  <2>1. tools \in Seq(R!All) /\ Unique(tools) /\ history \in Seq(R!All) /\ Unique(history)
    BY ListsFormed
  <2>2. R!Items = R!RowsOf(mode, tools, history, filter)
    BY DEF R!Items
  <2> QED BY <2>1, <2>2, RowsOfFormed
<1>2. \A i \in DOMAIN R!Items : R!Items[i] \in R!All
  BY <1>1
<1> QED BY <1>1, <1>2, AllFinite DEF R!None

\* Choosing a row: it is the one meant.
LEMMA ChooseStays ==
  ASSUME Numbered, R!RowStays, NEW i, R!Choose(i) PROVE R!RowStays'
<1>1. R!TypeOK
  BY DEF R!RowStays
<1>2. i \in DOMAIN R!Items /\ i \in 0..R!Cardinality(R!All) /\ R!Items[i] \in R!All
  BY <1>1, ItemsFormed DEF R!Choose
<1>3. R!TypeOK'
  BY <1>1, <1>2 DEF R!Choose, R!TypeOK
<1>4. R!Items' = R!Items
  BY DEF R!Choose, R!Items
<1>5. R!Selected' = meant'
  BY <1>2, <1>4 DEF R!Choose, R!Selected, R!NameIn
<1> QED BY <1>3, <1>5 DEF R!RowStays

\* The calls become others, with all there were: the row is found again.
LEMMA BecomesStays ==
  ASSUME Numbered, R!RowStays, NEW calls \in Seq(Calls), Unique(calls), R!HistoryBecomes(calls),
         R!Elements(history) \subseteq R!Elements(calls), recorded' \in SUBSET Calls,
         R!Elements(calls) \subseteq recorded', recorded \subseteq recorded',
         load' \in {"unread", "reading", "overtaken", "read"}, deleting' = deleting
  PROVE  R!RowStays'
<1> DEFINE rows == R!RowsOf(mode, tools, calls, filter)
<1>1. R!TypeOK
  BY DEF R!RowStays
<1>2. /\ history' = calls /\ UNCHANGED <<mode, tools, filter, clearing, meant, shifted>>
      /\ selected' = IF mode = "history" /\ R!Selected # R!None THEN R!Position(rows, R!Selected) ELSE selected
  BY DEF R!HistoryBecomes, R!Reselect
<1>3. R!Items' = rows
  BY <1>2 DEF R!Items
<1>4. /\ calls \in Seq(R!All) /\ tools \in Seq(R!All) /\ Unique(tools)
  BY <1>1, ListsFormed DEF R!All
<1>5. /\ Len(rows) \in 0..R!Cardinality(R!All) /\ DOMAIN rows = 1..Len(rows)
      /\ mode # "tools" => R!Elements(rows) = R!Elements(calls) \cap filter
      /\ R!Cardinality(R!All) \in Nat
  <2>1. /\ Len(R!RowsOf(mode, tools, calls, filter)) \in 0..R!Cardinality(R!All)
        /\ DOMAIN R!RowsOf(mode, tools, calls, filter) = 1..Len(R!RowsOf(mode, tools, calls, filter))
        /\ mode # "tools" => R!Elements(R!RowsOf(mode, tools, calls, filter)) = R!Elements(calls) \cap filter
    BY <1>4, RowsOfFormed
  <2> QED BY <2>1, AllFinite
<1> HIDE DEF rows
<1>6. \A x : R!Position(rows, x) \in 0..Len(rows)
             /\ (x \in R!Elements(rows) => R!Position(rows, x) \in DOMAIN rows /\ rows[R!Position(rows, x)] = x)
  <2> TAKE x
  <2>1. CASE \E i \in DOMAIN rows : rows[i] = x
    <3>1. R!Position(rows, x) \in DOMAIN rows /\ rows[R!Position(rows, x)] = x
      BY <2>1 DEF R!Position
    <3> QED BY <1>5, <3>1
  <2>2. CASE ~\E i \in DOMAIN rows : rows[i] = x
    <3>1. R!Position(rows, x) = 0 /\ x \notin R!Elements(rows)
      BY <2>2 DEF R!Position, R!Elements
    <3> QED BY <1>5, <3>1
  <2> QED BY <2>1, <2>2
<1>7. selected' \in 0..R!Cardinality(R!All)
  BY <1>1, <1>2, <1>5, <1>6 DEF R!TypeOK
<1>8. R!TypeOK'
  <2>1. calls \in Seq(recorded')
    <3>1. \A i \in 1..Len(calls) : calls[i] \in recorded'
      BY DEF R!Elements
    <3> QED BY <3>1
  <2>2. R!Distinct(calls)
    BY DEF R!Distinct, Unique
  <2> QED BY <1>1, <1>2, <1>7, <2>1, <2>2 DEF R!TypeOK
<1>9. ASSUME meant' # R!None, ~shifted' PROVE R!Selected' = meant'
  <2>1. R!Selected = meant /\ meant' = meant
    BY <1>2, <1>9 DEF R!RowStays
  <2>2. R!Selected \in R!Elements(R!Items)
    BY <1>2, <1>9, <2>1 DEF R!Selected, R!NameIn, R!Elements
  <2>3. mode = "history" => R!Selected \in R!Elements(history) /\ R!Selected \in filter
    BY <1>1, <2>2, ItemsFormed
  <2>4. CASE mode = "history"
    <3>1. R!Selected \in R!Elements(rows)
      BY <1>5, <2>3, <2>4
    <3>2. selected' \in DOMAIN rows /\ rows[selected'] = R!Selected
      BY <1>2, <1>6, <1>9, <2>1, <2>4, <3>1
    <3> QED BY <1>3, <2>1, <3>2 DEF R!Selected, R!NameIn
  <2>5. CASE mode # "history"
    <3>1. mode = "tools"
      BY <1>1, <2>5 DEF R!TypeOK
    <3>2. rows = R!Items /\ selected' = selected
      BY <1>2, <3>1 DEF rows, R!Items, R!RowsOf
    <3> QED BY <1>3, <2>1, <3>2 DEF R!Selected, R!NameIn
  <2> QED BY <2>4, <2>5
<1> QED BY <1>8, <1>9 DEF R!RowStays

LEMMA RecordedStays ==
  ASSUME Numbered, R!RowStays, NEW c \in Calls, R!Recorded(c) PROVE R!RowStays'
<1> DEFINE calls == <<c>> \o history
<1>1. R!TypeOK /\ history \in Seq(Calls) /\ Unique(history) /\ R!Elements(history) \subseteq recorded
  <2>1. R!TypeOK
    BY DEF R!RowStays
  <2> QED BY <2>1, ListsFormed DEF R!TypeOK
<1>2. c \notin recorded /\ recorded' = recorded \cup {c}
  BY DEF R!Recorded
<1>3. /\ calls \in Seq(Calls) /\ DOMAIN calls = 1..(Len(history) + 1)
      /\ calls[1] = c /\ \A i \in 1..Len(history) : calls[i + 1] = history[i]
      /\ Len(history) \in Nat /\ DOMAIN history = 1..Len(history)
  BY <1>1
<1>4. R!HistoryBecomes(calls)
  BY DEF R!Recorded
<1> HIDE DEF calls
<1>5. \A i \in DOMAIN calls : i = 1 \/ (i - 1 \in DOMAIN history /\ calls[i] = history[i - 1])
  BY <1>3
<1>6. R!Elements(calls) \subseteq R!Elements(history) \cup {c} /\ R!Elements(history) \subseteq R!Elements(calls)
  <2>1. R!Elements(calls) \subseteq R!Elements(history) \cup {c}
    BY <1>3, <1>5 DEF R!Elements
  <2>2. \A i \in DOMAIN history : i + 1 \in DOMAIN calls /\ calls[i + 1] = history[i]
    BY <1>3
  <2> QED BY <2>1, <2>2 DEF R!Elements
<1>7. Unique(calls)
  <2> SUFFICES ASSUME NEW i \in DOMAIN calls, NEW j \in DOMAIN calls, calls[i] = calls[j] PROVE i = j
    BY DEF Unique
  <2>1. \A k \in DOMAIN history : history[k] # c
    BY <1>1, <1>2 DEF R!Elements
  <2>2. i = 1 <=> j = 1
    BY <1>3, <1>5, <2>1
  <2>3. CASE i # 1 /\ j # 1
    <3>1. i - 1 = j - 1
      BY <1>1, <1>5, <2>3 DEF Unique
    <3> QED BY <1>3, <3>1
  <2> QED BY <2>2, <2>3
<1>8. recorded' \in SUBSET Calls /\ load' \in {"unread", "reading", "overtaken", "read"} /\ deleting' = deleting
  BY <1>1, <1>2 DEF R!Recorded, R!TypeOK
<1> QED BY <1>1, <1>2, <1>3, <1>4, <1>6, <1>7, <1>8, BecomesStays

LEMMA ReadStays ==
  ASSUME Numbered, R!RowStays, NEW found \in SUBSET Calls, R!HistoryRead(found) PROVE R!RowStays'
<1> DEFINE M == found \cup R!Elements(history)
           calls == R!Falling(M)
<1>1. R!TypeOK /\ R!Elements(history) \subseteq recorded /\ recorded \subseteq Calls
  <2>1. R!TypeOK
    BY DEF R!RowStays
  <2> QED BY <2>1, ListsFormed DEF R!TypeOK
<1>2. M \in SUBSET Calls /\ M \in SUBSET Int /\ IsFiniteSet(M)
  <2>1. M \in SUBSET Calls
    BY <1>1
  <2>2. Calls \in SUBSET Int /\ IsFiniteSet(Calls)
    BY DEF Numbered
  <2> HIDE DEF M
  <2> QED BY <2>1, <2>2, FS_Subset
<1>3. R!HistoryBecomes(calls) /\ recorded' = recorded \cup found /\ load' = "read" /\ deleting' = deleting
  BY DEF R!HistoryRead
<1> HIDE DEF M
<1>4. calls \in Seq(M) /\ R!Elements(calls) = M /\ Unique(calls)
  BY <1>2, FallingOf, RowsSift, SameElements
<1> HIDE DEF calls
<1>5. calls \in Seq(Calls)
  <2>2. \A i \in 1..Len(calls) : calls[i] \in M
    BY <1>4
  <2>1. \A i \in 1..Len(calls) : calls[i] \in Calls
    BY <1>2, <2>2
  <2> QED BY <1>4, <2>1
<1>6. R!Elements(calls) \subseteq recorded' /\ R!Elements(history) \subseteq R!Elements(calls)
  BY <1>1, <1>3, <1>4 DEF M
<1> QED BY <1>1, <1>3, <1>4, <1>5, <1>6, BecomesStays

\* A call deleted below the row chosen leaves it where it is.
LEMMA DeletedStays ==
  ASSUME Numbered, R!RowStays, NEW c \in Calls, R!Deleted(c) PROVE R!RowStays'
<1> DEFINE others == R!All \ {c}
<1>1. R!TypeOK
  BY DEF R!RowStays
<1>2. history' = R!Sift(history, others) /\ deleting' = deleting \ {c}
      /\ UNCHANGED <<mode, tools, load, filter, clearing, recorded>>
  BY DEF R!Deleted
<1>3. /\ history \in Seq(recorded) /\ Unique(history)
      /\ history \in Seq(R!All)
  BY <1>1, ListsFormed DEF R!TypeOK
<1>4. history' \in Seq(recorded') /\ R!Distinct(history')
  <2>1. R!Sift(history, others) \in Seq(recorded) /\ Unique(R!Sift(history, others))
    BY <1>3, SiftedElements, RowsSift, SameElements
  <2> QED BY <1>2, <2>1 DEF R!Distinct, Unique
<1>5. /\ selected' \in {0, selected} /\ shifted' \in BOOLEAN /\ meant' \in {R!None, meant}
  BY <1>1 DEF R!Deleted, R!Unselected, R!Moved, R!TypeOK
<1>6. R!TypeOK'
  <2>1. 0 \in 0..R!Cardinality(R!All)
    BY <1>1, ItemsFormed
  <2> QED BY <1>1, <1>2, <1>4, <1>5, <2>1 DEF R!TypeOK
<1>7. ASSUME meant' # R!None, ~shifted' PROVE R!Selected' = meant'
  <2>1. ~(mode = "history" /\ R!Selected = c)
    BY <1>7 DEF R!Deleted, R!Unselected
  <2>2. selected' = selected /\ meant' = meant /\ ~shifted
        /\ (mode = "history" /\ selected # 0 => R!Position(R!Items, c) \notin 1..selected)
    BY <1>1, <1>7, <2>1 DEF R!Deleted, R!Moved, R!TypeOK
  <2>3. R!Selected = meant
    BY <1>7, <2>2 DEF R!RowStays
  <2>4. selected \in DOMAIN R!Items /\ R!Items[selected] = R!Selected
    BY <1>7, <2>2, <2>3 DEF R!Selected, R!NameIn
  <2>5. DOMAIN R!Items = 1..Len(R!Items) /\ Len(R!Items) \in Nat /\ (\A i \in DOMAIN R!Items : R!Items[i] \in R!All)
    BY <1>1, ItemsFormed
  <2>6. CASE mode # "history"
    <3>1. mode = "tools"
      BY <1>1, <2>6 DEF R!TypeOK
    <3>2. R!Items' = R!Items
      BY <1>2, <3>1 DEF R!Items, R!RowsOf
    <3> QED BY <2>2, <2>3, <3>2 DEF R!Selected, R!NameIn
  <2>7. CASE mode = "history"
    <3>1. R!Items = R!Sift(history, filter) /\ R!Items' = R!Sift(R!Sift(history, others), filter)
      BY <1>2, <2>7 DEF R!Items, R!RowsOf
    <3>2. ASSUME NEW m \in 1..selected PROVE R!Items[m] \in others
      <4>1. m \in DOMAIN R!Items
        BY <2>4, <2>5
      <4>2. R!Items[m] # c
        <5> SUFFICES ASSUME R!Items[m] = c PROVE FALSE
          OBVIOUS
        <5>1. R!Position(R!Items, c) \in DOMAIN R!Items /\ R!Items[R!Position(R!Items, c)] = c
          BY <4>1 DEF R!Position
        <5>2. R!Position(R!Items, c) = m
          BY <1>1, <4>1, <5>1, ItemsFormed DEF Unique
        <5> QED BY <2>2, <2>4, <2>5, <2>7, <5>2
      <4> QED BY <2>5, <4>1, <4>2
    <3>3. selected \in DOMAIN R!Items' /\ R!Items'[selected] = R!Items[selected]
      BY <1>3, <2>4, <3>1, <3>2, SiftedAhead, RowsSift
    <3> QED BY <2>2, <2>3, <2>4, <3>3 DEF R!Selected, R!NameIn
  <2> QED BY <2>6, <2>7
<1> QED BY <1>6, <1>7 DEF R!RowStays

\* What selects nothing, and what leaves the rows and the index alone.
LEMMA RestStays ==
  ASSUME Numbered, R!RowStays,
         \/ UNCHANGED R!vars
         \/ \E m \in {"tools", "history"} : R!SetMode(m)
         \/ R!Leave \/ R!DeleteCall \/ R!Clear \/ R!Cleared
         \/ \E f \in R!Filters : R!SetFilter(f)
         \/ \E order \in R!Orders : R!Relisted(order)
         \/ \E c \in Calls : R!DeleteFails(c)
  PROVE  R!RowStays'
<1>1. R!TypeOK /\ 0 \in 0..R!Cardinality(R!All)
  <2>1. R!TypeOK
    BY DEF R!RowStays
  <2> QED BY <2>1, ItemsFormed
<1>2. CASE \/ \E m \in {"tools", "history"} : R!SetMode(m)
           \/ R!Leave \/ \E f \in R!Filters : R!SetFilter(f)
  <2>1. meant' = R!None /\ R!TypeOK'
    <3>1. CASE \E m \in {"tools", "history"} : R!SetMode(m)
      BY <1>1, <3>1 DEF R!SetMode, R!Unselected, R!Shown, R!TypeOK, R!Filters
    <3>2. CASE R!Leave
      BY <1>1, <3>2 DEF R!Leave, R!Unselected, R!Shown, R!TypeOK, R!Filters
    <3>3. CASE \E f \in R!Filters : R!SetFilter(f)
      BY <1>1, <3>3 DEF R!SetFilter, R!Unselected, R!TypeOK
    <3> QED BY <1>2, <3>1, <3>2, <3>3
  <2> QED BY <2>1 DEF R!RowStays
<1>3. CASE R!Cleared
  <2>1. R!TypeOK'
    <3>1. history' \in Seq(recorded') /\ R!Distinct(history')
      BY <1>3 DEF R!Cleared, R!Distinct
    <3> QED BY <1>1, <1>3, <3>1 DEF R!Cleared, R!Unselected, R!TypeOK
  <2>2. CASE mode = "history"
    BY <1>3, <2>1, <2>2 DEF R!Cleared, R!Unselected, R!RowStays
  <2>3. CASE mode # "history"
    <3>1. mode = "tools" /\ UNCHANGED <<mode, tools, filter, selected, meant, shifted>>
      BY <1>1, <1>3, <2>3 DEF R!Cleared, R!TypeOK
    <3>2. R!Items' = R!Items
      BY <3>1 DEF R!Items, R!RowsOf
    <3> QED BY <2>1, <3>1, <3>2 DEF R!RowStays, R!Selected, R!NameIn
  <2> QED BY <2>2, <2>3
<1>4. CASE UNCHANGED R!vars \/ R!DeleteCall \/ R!Clear \/ \E c \in Calls : R!DeleteFails(c)
  <2>1. UNCHANGED <<mode, tools, history, filter, selected, meant, shifted>>
    BY <1>4 DEF R!vars, R!DeleteCall, R!Clear, R!DeleteFails
  <2>2. R!Items' = R!Items
    BY <2>1 DEF R!Items
  <2>3. R!TypeOK'
    <3>1. CASE R!DeleteCall
      <4>1. R!Selected \in recorded
        BY <1>1, <3>1, ListsFormed DEF R!DeleteCall
      <4> QED BY <1>1, <3>1, <4>1 DEF R!DeleteCall, R!TypeOK
    <3>2. CASE UNCHANGED R!vars \/ R!Clear
      BY <1>1, <3>2 DEF R!vars, R!Clear, R!TypeOK
    <3>3. CASE \E c \in Calls : R!DeleteFails(c)
      BY <1>1, <3>3 DEF R!DeleteFails, R!TypeOK
    <3> QED BY <1>4, <3>1, <3>2, <3>3
  <2> QED BY <2>1, <2>2, <2>3 DEF R!RowStays, R!Selected, R!NameIn
<1>5. CASE \E order \in R!Orders : R!Relisted(order)
  <2>1. /\ tools' \in R!Orders /\ UNCHANGED <<mode, history, load, filter, deleting, clearing, recorded, selected, meant>>
        /\ shifted' = (shifted \/ (selected # 0 /\ mode = "tools"))
    BY <1>5 DEF R!Relisted, R!Moved
  <2>2. R!TypeOK'
    BY <1>1, <2>1 DEF R!TypeOK
  <2>3. ASSUME meant' # R!None, ~shifted' PROVE R!Selected' = meant'
    <3>1. R!Selected = meant /\ meant # R!None /\ ~(selected # 0 /\ mode = "tools")
      BY <2>1, <2>3 DEF R!RowStays
    <3>2. selected \in DOMAIN R!Items
      BY <3>1 DEF R!Selected, R!NameIn
    <3>3. selected # 0
      BY <1>1, <3>2, ItemsFormed
    <3>4. mode # "tools"
      BY <3>1, <3>3
    <3>5. R!Items' = R!Items
      BY <2>1, <3>4 DEF R!Items, R!RowsOf
    <3> QED BY <2>1, <3>1, <3>5 DEF R!Selected, R!NameIn
  <2> QED BY <2>2, <2>3 DEF R!RowStays
<1> QED BY <1>2, <1>3, <1>4, <1>5

LEMMA RowStep ==
  ASSUME Numbered, R!RowStays, [R!Next]_R!vars PROVE R!RowStays'
<1>1. ASSUME NEW down \in BOOLEAN, R!Move(down) PROVE R!RowStays'
  BY <1>1, ChooseStays DEF R!Move
<1> QED BY <1>1, ChooseStays, RecordedStays, ReadStays, DeletedStays, RestStays DEF R!Next

\* The row chosen stays the selected one, for any tools, calls and filters.
THEOREM RowAlwaysStays ==
  ASSUME Numbered
  PROVE  R!Spec => []R!RowStays
<1>1. R!Init => R!RowStays
  <2> SUFFICES ASSUME R!Init PROVE R!RowStays
    OBVIOUS
  <2>1. R!TypeOK
    <3>1. R!Cardinality(R!All) \in Nat
      BY AllFinite
    <3>2. history \in Seq(recorded) /\ R!Distinct(history)
      BY DEF R!Init, R!Distinct
    <3>3. selected \in 0..R!Cardinality(R!All) /\ filter \in R!Filters
      BY <3>1 DEF R!Init, R!Filters
    <3> QED BY <3>2, <3>3 DEF R!Init, R!TypeOK
  <2> QED BY <2>1 DEF R!Init, R!RowStays
<1>2. R!RowStays /\ [R!Next]_R!vars => R!RowStays'
  BY RowStep
<1> QED BY <1>1, <1>2, PTL DEF R!Spec

\* The row chosen stays the selected one whatever is recorded, read, filtered,
\* deleted below it or cleared (push_history, finish_history_load, delete_call).
THEOREM RowStaysSelected == JobsSpec => []RowStays
<1>1. Numbered
  BY JobsAssumption DEF Numbered, R!All
<1>2. JobsInit => R!Init
  BY DEF JobsInit
<1>3. [JobsNext]_all => [R!Next]_R!vars
  BY DEF JobsNext, FlagStep, DialogsStep, RowsStep, all, ofRows, R!vars
<1>4. R!RowStays => RowStays
  BY DEF RowStays
<1> QED BY <1>1, <1>2, <1>3, <1>4, RowAlwaysStays, PTL DEF JobsSpec, R!Spec
=============================================================================
