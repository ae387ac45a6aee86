------------------------- MODULE TicketStreamProofs -------------------------
(***************************************************************************)
(* The fusion of what the routes found, for any documents, questions and   *)
(* lists of at most ten, and the end of a stream, for any agents.          *)
(*                                                                         *)
(* A sort lists what it is given in the order it is given, since each      *)
(* member stands behind as many as come before it.  A document that beats  *)
(* another has been found more often up to some rank, and never less       *)
(* often; a score is the sum, over the ranks, of what a rank is worth more *)
(* than the next one, times the number found up to it.                     *)
(*                                                                         *)
(* StreamInv counts what has been sent: no event "complete" as long as the *)
(* stream goes on, and an error only once it has failed.                   *)
(***************************************************************************)
EXTENDS TicketStream, FiniteSetTheorems, SequenceTheorems, TLAPS

-----------------------------------------------------------------------------
(***************************************************************************)
(* Sorts.                                                                  *)
(***************************************************************************)

\* R puts every member of S before or after every other.
TotalOrder(S, R) ==
  /\ \A x \in S : <<x, x>> \notin R
  /\ \A x, y \in S : x # y => <<x, y>> \in R \/ <<y, x>> \in R
  /\ \A x, y, z \in S : <<x, y>> \in R /\ <<y, z>> \in R => <<x, z>> \in R

\* f lists every member of S, each behind those that R puts before it.
ListsInOrder(f, S, R) ==
  /\ f \in [1 .. Cardinality(S) -> S]
  /\ \A x \in S : \E n \in DOMAIN f : f[n] = x
  /\ \A m, n \in DOMAIN f : m < n => <<f[m], f[n]>> \in R

\* What Ordered lists a finite set by is the order it is given.
LEMMA OrderedIsInOrder ==
  ASSUME NEW S, IsFiniteSet(S), NEW R, TotalOrder(S, R)
  PROVE  ListsInOrder(Ordered(S, R), S, R)
<1> USE DEF TotalOrder
<1> DEFINE Below(x) == {y \in S : <<y, x>> \in R}
           N        == Cardinality(S)
           rank     == [x \in S |-> Cardinality(Below(x)) + 1]
<1>1. N \in Nat
  BY FS_CardinalityType
<1>2. ASSUME NEW x \in S PROVE Cardinality(Below(x)) \in 0 .. N - 1
  <2>1. IsFiniteSet(S \ {x}) /\ Cardinality(S \ {x}) = N - 1
    BY FS_RemoveElement
  <2>2. Below(x) \in SUBSET (S \ {x})
    OBVIOUS
  <2> HIDE DEF Below
  <2>3. IsFiniteSet(Below(x)) /\ Cardinality(Below(x)) <= N - 1
    BY <2>1, <2>2, FS_Subset
  <2> QED
    BY <2>3, <1>1, FS_CardinalityType
<1>3. ASSUME NEW x \in S, NEW y \in S, <<x, y>> \in R PROVE rank[x] < rank[y]
  <2>1. Below(x) \in SUBSET Below(y)
    BY <1>3
  <2>2. x \in Below(y) /\ x \notin Below(x)
    BY <1>3
  <2>3. IsFiniteSet(Below(y))
    BY FS_Subset
  <2>4. /\ Cardinality(Below(x)) <= Cardinality(Below(y))
        /\ Cardinality(Below(x)) # Cardinality(Below(y))
    BY <2>1, <2>2, <2>3, FS_Subset
  <2> HIDE DEF Below
  <2> QED
    BY <2>4, <1>2
<1>4. rank \in [S -> 1 .. N]
  <2> HIDE DEF Below
  <2> QED
    BY <1>1, <1>2
<1>r. \A x \in S : rank[x] = Cardinality(Below(x)) + 1 /\ rank[x] \in 1 .. N
  BY <1>4
<1> HIDE DEF Below, rank
<1>5. ASSUME NEW x \in S, NEW y \in S, rank[x] = rank[y] PROVE x = y
  <2>1. rank[x] \in Int /\ rank[y] \in Int
    BY <1>1, <1>r
  <2>2. <<x, y>> \notin R
    BY <1>3, <1>5, <2>1
  <2>3. <<y, x>> \notin R
    BY <1>3, <1>5, <2>1
  <2> QED
    BY <2>2, <2>3
<1>6. \A n \in 1 .. N : \E x \in S : rank[x] = n
  <2>1. IsFiniteSet(1 .. N) /\ Cardinality(1 .. N) = N
    BY <1>1, FS_Interval
  <2>2. rank \in Injection(S, 1 .. N)
    BY <1>4, <1>5, Zenon DEF Injection, IsInjective
  <2>3. rank \in Surjection(S, 1 .. N)
    BY <2>1, <2>2, FS_Injection
  <2> QED
    BY <2>3 DEF Surjection
<1> DEFINE o == Ordered(S, R)
<1>7. o = [n \in 1 .. N |-> CHOOSE x \in S : Cardinality(Below(x)) = n - 1]
  BY DEF Ordered, Below
<1>8. ASSUME NEW n \in 1 .. N PROVE o[n] \in S /\ rank[o[n]] = n
  <2>1. PICK x \in S : rank[x] = n
    BY <1>6
  <2>2. Cardinality(Below(x)) = n - 1
    BY <2>1, <1>2, <1>r, <1>1
  <2>3. o[n] \in S /\ Cardinality(Below(o[n])) = n - 1
    BY <2>2, <1>7
  <2> QED
    BY <2>3, <1>r, <1>1
<1> HIDE DEF o
<1>9. DOMAIN o = 1 .. N /\ o \in [1 .. N -> S]
  BY <1>7, <1>8
<1>10. ASSUME NEW x \in S PROVE \E n \in 1 .. N : o[n] = x
  BY <1>4, <1>5, <1>8
<1>11. ASSUME NEW m \in 1 .. N, NEW n \in 1 .. N, m < n PROVE <<o[m], o[n]>> \in R
  <2>1. o[m] \in S /\ o[n] \in S /\ rank[o[m]] = m /\ rank[o[n]] = n
    BY <1>8
  <2>2. o[m] # o[n] /\ ~(<<o[n], o[m]>> \in R)
    BY <2>1, <1>3, <1>11, <1>1
  <2> QED
    BY <2>1, <2>2
<1> QED
  BY <1>9, <1>10, <1>11 DEF o, ListsInOrder

\* t has the n members of s by falling value; f says where each one stood.
SortedBy(t, f, s, value, n) ==
  /\ f \in [1 .. n -> 1 .. n]
  /\ t = [i \in 1 .. n |-> s[f[i]]]
  /\ \A j \in 1 .. n : \E i \in 1 .. n : f[i] = j
  /\ \A i, j \in 1 .. n : i < j => value[f[i]] >= value[f[j]]

\* What is sorted is what there was, by falling value.
LEMMA DescendingFalls ==
  ASSUME NEW n \in Nat, NEW s, DOMAIN s = 1 .. n, NEW value \in [1 .. n -> Int]
  PROVE  \E f : SortedBy(Descending(s, value), f, s, value, n)
<1> DEFINE I == 1 .. n
           R == Falling(value)
           f == Ordered(I, R)
<1>1. IsFiniteSet(I) /\ Cardinality(I) = n
  BY FS_Interval
<1>2. \A x, y \in I : <<x, y>> \in R <=> value[x] > value[y] \/ (value[x] = value[y] /\ x < y)
  BY DEF Falling
<1>3. \A x \in I : value[x] \in Int
  OBVIOUS
<1> HIDE DEF R
<1>4. \A x \in I : <<x, x>> \notin R
  BY <1>2, <1>3
<1>5. \A x, y \in I : x # y => <<x, y>> \in R \/ <<y, x>> \in R
  BY <1>2, <1>3
<1>6. \A x, y, z \in I : <<x, y>> \in R /\ <<y, z>> \in R => <<x, z>> \in R
  BY <1>2, <1>3
<1> HIDE DEF I, f
<1>7. ListsInOrder(f, I, R)
  <2>1. TotalOrder(I, R)
    BY <1>4, <1>5, <1>6 DEF TotalOrder
  <2> QED
    BY <1>1, <2>1, OrderedIsInOrder DEF f
<1>8. Descending(s, value) = [i \in 1 .. n |-> s[f[i]]]
  BY DEF Descending, f, I, R
<1>9. \A i, j \in 1 .. n : i < j => value[f[i]] >= value[f[j]]
  <2> SUFFICES ASSUME NEW i \in 1 .. n, NEW j \in 1 .. n, i < j
               PROVE  value[f[i]] >= value[f[j]]
    OBVIOUS
  <2>1. f[i] \in I /\ f[j] \in I /\ <<f[i], f[j]>> \in R
    BY <1>1, <1>7 DEF ListsInOrder
  <2>2. \A x, y \in I : <<x, y>> \in R => value[x] >= value[y]
    BY <1>2, <1>3
  <2> QED
    BY <2>1, <2>2
<1>10. f \in [1 .. n -> 1 .. n] /\ \A j \in 1 .. n : \E i \in 1 .. n : f[i] = j
  BY <1>1, <1>7 DEF ListsInOrder, I
<1> QED
  BY <1>8, <1>9, <1>10 DEF SortedBy

-----------------------------------------------------------------------------
(***************************************************************************)
(* The fusion.                                                             *)
(***************************************************************************)

\* Two routes of at most ten documents have finitely many places, and those are
\* read route after route and rank after rank.
LEMMA PlacesAreFinite ==
  ASSUME NEW P, P \subseteq (1 .. 2) \X (1 .. MaxRank)
  PROVE  IsFiniteSet(P)
<1>1. 1 \in Int /\ 2 \in Int /\ MaxRank \in Int
  BY DEF MaxRank
<1>2. IsFiniteSet(1 .. 2)
  BY <1>1, FS_Interval, Zenon
<1>3. IsFiniteSet(1 .. MaxRank)
  BY <1>1, FS_Interval
<1>4. IsFiniteSet((1 .. 2) \X (1 .. MaxRank))
  BY <1>2, <1>3, FS_Product
<1> QED
  BY <1>4, FS_Subset

LEMMA PlacesAreOrdered ==
  ASSUME NEW P, P \subseteq (1 .. 2) \X (1 .. MaxRank),
         NEW R, R = {pq \in P \X P : Earlier(pq[1], pq[2])}
  PROVE  ListsInOrder(Ordered(P, R), P, R)
<1>1. IsFiniteSet(P)
  BY PlacesAreFinite
<1>2. \A p \in P : p = <<p[1], p[2]>> /\ p[1] \in Nat /\ p[2] \in Nat
  BY DEF MaxRank
<1>3. \A p, q \in P : <<p, q>> \in R <=> p[1] < q[1] \/ (p[1] = q[1] /\ p[2] < q[2])
  BY DEF Earlier
<1>4. \A p \in P : <<p, p>> \notin R
  BY <1>2, <1>3
<1>5. \A p, q \in P : p # q => <<p, q>> \in R \/ <<q, p>> \in R
  <2> SUFFICES ASSUME NEW p \in P, NEW q \in P, <<p, q>> \notin R, <<q, p>> \notin R
               PROVE  p = q
    OBVIOUS
  <2>1. p[1] = q[1] /\ p[2] = q[2]
    BY <1>2, <1>3
  <2> QED
    BY <2>1, <1>2, Zenon
<1>6. \A p, q, r \in P : <<p, q>> \in R /\ <<q, r>> \in R => <<p, r>> \in R
  BY <1>2, <1>3
<1>7. TotalOrder(P, R)
  BY <1>4, <1>5, <1>6 DEF TotalOrder
<1> QED
  BY <1>1, <1>7, OrderedIsInOrder

\* What a list has at some rank is among the keys.
LEMMA MergedHasAll ==
  ASSUME NEW ls, DOMAIN ls \subseteq 1 .. 2
  PROVE  /\ \E n \in Nat : DOMAIN Merged(ls) = 1 .. n
         /\ \A p \in Places(ls) : \E i \in DOMAIN Merged(ls) : Merged(ls)[i] = At(ls, p)
<1> DEFINE F == FirstPlaces(ls)
           R == {pq \in F \X F : Earlier(pq[1], pq[2])}
           o == Ordered(F, R)
<1>1. Places(ls) \subseteq (1 .. 2) \X (1 .. MaxRank)
  BY DEF Places
<1>2. F \subseteq Places(ls)
  BY DEF FirstPlaces
<1> HIDE DEF F
<1>3. ListsInOrder(o, F, R)
  BY <1>1, <1>2, PlacesAreOrdered
<1>4. Merged(ls) = [n \in DOMAIN o |-> At(ls, o[n])]
  BY Zenon DEF Merged, F
<1> HIDE DEF o, R
<1>5. IsFiniteSet(F)
  BY <1>1, <1>2, PlacesAreFinite
<1>6. DOMAIN o = 1 .. Cardinality(F) /\ Cardinality(F) \in Nat
  BY <1>3, <1>5, FS_CardinalityType DEF ListsInOrder
<1>7. ASSUME NEW p \in Places(ls)
      PROVE  \E i \in DOMAIN Merged(ls) : Merged(ls)[i] = At(ls, p)
  <2> DEFINE Q == PlacesOf(ls, At(ls, p))
             S == {pq \in Q \X Q : Earlier(pq[1], pq[2])}
             e == Ordered(Q, S)
  <2>1. p \in Q /\ Q \subseteq (1 .. 2) \X (1 .. MaxRank) /\ IsFiniteSet(Q)
    BY <1>1, PlacesAreFinite DEF PlacesOf
  <2> HIDE DEF Q
  <2>2. ListsInOrder(e, Q, S)
    BY <2>1, PlacesAreOrdered
  <2> HIDE DEF e
  <2>3. Cardinality(Q) \in Nat /\ DOMAIN e = 1 .. Cardinality(Q)
    BY <2>1, <2>2, FS_CardinalityType DEF ListsInOrder
  <2>4. 1 \in DOMAIN e
    BY <2>1, <2>2, <2>3 DEF ListsInOrder
  <2>5. e[1] \in Q
    BY <2>2, <2>4 DEF ListsInOrder
  <2>6. ASSUME NEW q \in Q PROVE ~Earlier(q, e[1])
    <3>1. PICK n \in DOMAIN e : e[n] = q
      BY <2>2 DEF ListsInOrder
    <3>2. n = 1 \/ 1 < n
      BY <2>3
    <3>3. q = e[1] \/ Earlier(e[1], q)
      BY <3>1, <3>2, <2>2, <2>4 DEF ListsInOrder
    <3>4. q[1] \in Nat /\ q[2] \in Nat /\ e[1][1] \in Nat /\ e[1][2] \in Nat
      BY <2>1, <2>5 DEF MaxRank
    <3> QED
      BY <3>3, <3>4 DEF Earlier
  <2>7. e[1] \in Places(ls) /\ At(ls, e[1]) = At(ls, p)
    BY <2>5 DEF Q, PlacesOf
  <2>8. e[1] \in F
    BY <2>6, <2>7 DEF F, FirstPlaces, Q
  <2>9. PICK i \in DOMAIN o : o[i] = e[1]
    BY <2>8, <1>3 DEF ListsInOrder
  <2> QED
    BY <2>7, <2>9, <1>4
<1> QED
  BY <1>4, <1>6, <1>7

\* How many of the ranks up to n are in A.
LEMMA OneMore ==
  ASSUME NEW A, NEW n \in Nat
  PROVE  /\ Cardinality({m \in 1 .. n : m \in A}) \in Nat
         /\ Cardinality({m \in 1 .. n + 1 : m \in A})
              = Cardinality({m \in 1 .. n : m \in A}) + (IF n + 1 \in A THEN 1 ELSE 0)
<1> DEFINE S == {m \in 1 .. n : m \in A}
           T == {m \in 1 .. n + 1 : m \in A}
<1> SUFFICES /\ Cardinality(S) \in Nat
             /\ Cardinality(T) = Cardinality(S) + (IF n + 1 \in A THEN 1 ELSE 0)
  OBVIOUS
<1>1. IsFiniteSet(1 .. n)
  BY FS_Interval
<1>2. IsFiniteSet(S) /\ n + 1 \notin S
  BY <1>1, FS_Subset
<1> HIDE DEF S, T
<1>3. CASE n + 1 \in A
  <2>1. T = S \cup {n + 1}
    BY <1>3 DEF S, T
  <2>2. Cardinality(T) = Cardinality(S) + 1
    BY <2>1, <1>2, FS_AddElement
  <2>3. Cardinality(S) \in Nat
    BY <1>2, FS_CardinalityType
  <2> QED
    BY <2>2, <2>3, <1>3
<1>4. CASE n + 1 \notin A
  <2>1. T = S
    BY <1>4 DEF S, T
  <2> QED
    BY <2>1, <1>2, <1>4, FS_CardinalityType
<1> QED
  BY <1>3, <1>4

LEMMA NoneYet ==
  ASSUME NEW A
  PROVE  Cardinality({m \in 1 .. 0 : m \in A}) = 0
<1>1. {m \in 1 .. 0 : m \in A} = {}
  OBVIOUS
<1> QED
  BY <1>1, FS_EmptySet

\* Scores can be compared.
LEMMA ScoresAreNumbers ==
  ASSUME NEW ls, DOMAIN ls \subseteq 1 .. 2
  PROVE  \A x : RrfScore(ls, x) \in Int
<1> DEFINE hits(x, n) == Cardinality({r \in DOMAIN ls : <<r, n>> \in PlacesOf(ls, x)})
<1>1. \A x, n : hits(x, n) \in Int
  <2> TAKE x, n
  <2> DEFINE A == {r \in DOMAIN ls : <<r, n>> \in PlacesOf(ls, x)}
  <2>1. IsFiniteSet(1 .. 2)
    <3>1. 1 \in Int /\ 2 \in Int
      OBVIOUS
    <3> QED
      BY <3>1, FS_Interval, Zenon
  <2>2. A \in SUBSET (1 .. 2)
    OBVIOUS
  <2> HIDE DEF A
  <2>a. IsFiniteSet(A)
    BY <2>1, <2>2, FS_Subset
  <2>3. Cardinality(A) \in Int
    BY <2>a, FS_CardinalityType
  <2> QED
    BY <2>3 DEF A
<1> HIDE DEF hits
<1>2. \A n \in 1 .. 10 : Share(n) \in Int
  BY DEF Share, Scale, RrfK
<1>3. \A x : \A n \in 1 .. 10 : Share(n) * hits(x, n) \in Int
  BY <1>1, <1>2
<1>4. ASSUME NEW x PROVE RrfScore(ls, x) \in Int
  <2> DEFINE s(n) == Share(n) * hits(x, n)
  <2>1. RrfScore(ls, x) = s(1) + s(2) + s(3) + s(4) + s(5) + s(6) + s(7) + s(8) + s(9) + s(10)
    BY Zenon DEF RrfScore, hits
  <2>2. \A n \in 1 .. 10 : s(n) \in Int
    BY <1>3
  <2> HIDE DEF s
  <2> QED
    BY <2>1, <2>2
<1> QED
  BY <1>4

\* A document that beats another has the greater score.
LEMMA BeatingScoresMore ==
  ASSUME NEW ls, DOMAIN ls = 1 .. 1 \/ DOMAIN ls = 1 .. 2,
         NEW d, NEW e, Beats(ls, e, d)
  PROVE  RrfScore(ls, e) > RrfScore(ls, d)
<1> DEFINE has(x, r)     == {n \in Nat : <<r, n>> \in PlacesOf(ls, x)}
           upTo(x, r, n) == Cardinality({m \in 1 .. n : m \in has(x, r)})
           found(x, n)   == upTo(x, 1, n) + upTo(x, 2, n)
           hits(x, n)    == Cardinality({r \in DOMAIN ls : <<r, n>> \in PlacesOf(ls, x)})
<1>1. \A x, r, n : upTo(x, r, n) = Cardinality({m \in 1 .. n : <<r, m>> \in PlacesOf(ls, x)})
  <2> TAKE x, r, n
  <2>1. {m \in 1 .. n : m \in has(x, r)} = {m \in 1 .. n : <<r, m>> \in PlacesOf(ls, x)}
    OBVIOUS
  <2> QED
    BY <2>1
<1>2. \A x, r : \A n \in Nat : 
        /\ upTo(x, r, n) \in Nat
        /\ upTo(x, r, n + 1) = upTo(x, r, n) + (IF n + 1 \in has(x, r) THEN 1 ELSE 0)
  BY OneMore
<1>3. \A x, r : upTo(x, r, 0) = 0
  BY NoneYet
<1>4. ASSUME NEW x, NEW r, r \notin DOMAIN ls PROVE has(x, r) = {}
  BY <1>4 DEF PlacesOf, Places
<1>5. ASSUME NEW x, NEW n \in Nat
      PROVE  hits(x, n) = (IF n \in has(x, 1) THEN 1 ELSE 0)
                          + (IF n \in has(x, 2) THEN 1 ELSE 0)
  <2> DEFINE A == {r \in DOMAIN ls : <<r, n>> \in PlacesOf(ls, x)}
             to(k) == Cardinality({r \in 1 .. k : r \in A})
  <2>1. 1 \in A <=> n \in has(x, 1)
    BY DEF PlacesOf, Places
  <2>2. 2 \in A <=> n \in has(x, 2)
    BY DEF PlacesOf, Places
  <2>3. {r \in 1 .. 2 : r \in A} = A
    OBVIOUS
  <2> HIDE DEF A, has
  <2>4. to(0) = 0
    BY NoneYet
  <2>5. to(0 + 1) = to(0) + (IF 0 + 1 \in A THEN 1 ELSE 0)
    BY OneMore
  <2>6. to(1 + 1) = to(1) + (IF 1 + 1 \in A THEN 1 ELSE 0)
    BY OneMore
  <2>7. to(2) = Cardinality(A)
    BY <2>3
  <2> HIDE DEF to
  <2>8. Cardinality(A) = (IF 1 \in A THEN 1 ELSE 0) + (IF 2 \in A THEN 1 ELSE 0)
    BY <2>4, <2>5, <2>6, <2>7
  <2> QED
    BY <2>1, <2>2, <2>8 DEF A
<1> HIDE DEF has
<1>6. \A x : found(x, 0) = 0 /\ \A n \in Nat : 
        found(x, n) \in Nat /\ found(x, n + 1) = found(x, n) + hits(x, n + 1)
  <2> HIDE DEF upTo, hits
  <2> QED
    BY <1>2, <1>3, <1>5
<1> HIDE DEF upTo
<1>7. \A n \in 1 .. MaxRank : \A r \in 1 .. 2 : upTo(e, r, n) >= upTo(d, r, n)
  <2> SUFFICES ASSUME NEW n \in 1 .. MaxRank, NEW r \in 1 .. 2
               PROVE  upTo(e, r, n) >= upTo(d, r, n)
    OBVIOUS
  <2>1. CASE r \in DOMAIN ls
    <3>1. <<r, n>> \in (DOMAIN ls) \X (1 .. MaxRank)
      BY <2>1
    <3> QED
      BY <3>1, <1>1 DEF Beats
  <2>2. CASE r \notin DOMAIN ls
    <3>1. has(e, r) = has(d, r)
      BY <2>2, <1>4
    <3>2. upTo(e, r, n) = upTo(d, r, n)
      BY <3>1, Zenon DEF upTo
    <3>3. upTo(d, r, n) \in Nat
      BY <1>2 DEF MaxRank
    <3> QED
      BY <3>2, <3>3
  <2> QED
    BY <2>1, <2>2
<1>8. \E n \in 1 .. MaxRank : \E r \in 1 .. 2 : upTo(e, r, n) > upTo(d, r, n)
  <2>1. PICK p \in (DOMAIN ls) \X (1 .. MaxRank) : upTo(e, p[1], p[2]) > upTo(d, p[1], p[2])
    BY <1>1 DEF Beats
  <2> QED
    BY <2>1
<1>9. /\ \A n \in 1 .. 10 : found(e, n) >= found(d, n)
      /\ \E n \in 1 .. 10 : found(e, n) > found(d, n)
  BY <1>2, <1>7, <1>8 DEF MaxRank
<1> HIDE DEF found, hits
<1> DEFINE score(x) == 
     Share(1) * hits(x, 1) + Share(2) * hits(x, 2) + Share(3) * hits(x, 3)
     + Share(4) * hits(x, 4) + Share(5) * hits(x, 5) + Share(6) * hits(x, 6)
     + Share(7) * hits(x, 7) + Share(8) * hits(x, 8) + Share(9) * hits(x, 9)
     + Share(10) * hits(x, 10)
<1>10. \A x : RrfScore(ls, x) = score(x)
  BY Zenon DEF RrfScore, hits
<1>11. score(e) > score(d)
  <2>1. /\ Share(1) = 249984 /\ Share(2) = 245952 /\ Share(3) = 242048
        /\ Share(4) = 238266 /\ Share(5) = 234600 /\ Share(6) = 231045
        /\ Share(7) = 227597 /\ Share(8) = 224250 /\ Share(9) = 221000
        /\ Share(10) = 217843
    BY DEF Share, Scale, RrfK
  <2> HIDE DEF score
  <2>2. \A x : score(x) = 217843 * found(x, 10)
                 + 3157 * found(x, 9) + 3250 * found(x, 8) + 3347 * found(x, 7)
                 + 3448 * found(x, 6) + 3555 * found(x, 5) + 3666 * found(x, 4)
                 + 3782 * found(x, 3) + 3904 * found(x, 2) + 4032 * found(x, 1)
    <3> TAKE x
    <3>1. \A n \in 1 .. 10 : hits(x, n) = found(x, n) - found(x, n - 1)
      <4> TAKE n \in 1 .. 10
      <4>1. n - 1 \in Nat /\ (n - 1) + 1 = n
        OBVIOUS
      <4>2. /\ found(x, n - 1) \in Nat /\ found(x, n) \in Nat
            /\ found(x, n) = found(x, n - 1) + hits(x, n)
        BY <4>1, <1>6
      <4>3. hits(x, n) \in Int
        BY <1>5
      <4> QED
        BY <4>2, <4>3
    <3>2. /\ hits(x, 1) = found(x, 1)                /\ hits(x, 2) = found(x, 2) - found(x, 1)
          /\ hits(x, 3) = found(x, 3) - found(x, 2)  /\ hits(x, 4) = found(x, 4) - found(x, 3)
          /\ hits(x, 5) = found(x, 5) - found(x, 4)  /\ hits(x, 6) = found(x, 6) - found(x, 5)
          /\ hits(x, 7) = found(x, 7) - found(x, 6)  /\ hits(x, 8) = found(x, 8) - found(x, 7)
          /\ hits(x, 9) = found(x, 9) - found(x, 8)  /\ hits(x, 10) = found(x, 10) - found(x, 9)
      BY <3>1, <1>6
    <3>3. \A n \in 1 .. 10 : found(x, n) \in Int
      BY <1>6
    <3> QED
      BY <2>1, <3>2, <3>3 DEF score
  <2>3. \A n \in 1 .. 10 : found(e, n) \in Int /\ found(d, n) \in Int
    BY <1>6
  <2>4. /\ found(e, 1) >= found(d, 1) /\ found(e, 2) >= found(d, 2) /\ found(e, 3) >= found(d, 3)
        /\ found(e, 4) >= found(d, 4) /\ found(e, 5) >= found(d, 5) /\ found(e, 6) >= found(d, 6)
        /\ found(e, 7) >= found(d, 7) /\ found(e, 8) >= found(d, 8) /\ found(e, 9) >= found(d, 9)
        /\ found(e, 10) >= found(d, 10)
    BY <1>9
  <2>5. \/ found(e, 1) > found(d, 1) \/ found(e, 2) > found(d, 2) \/ found(e, 3) > found(d, 3)
        \/ found(e, 4) > found(d, 4) \/ found(e, 5) > found(d, 5) \/ found(e, 6) > found(d, 6)
        \/ found(e, 7) > found(d, 7) \/ found(e, 8) > found(d, 8) \/ found(e, 9) > found(d, 9)
        \/ found(e, 10) > found(d, 10)
    BY <1>9
  <2>6. /\ score(e) = 217843 * found(e, 10)
             + 3157 * found(e, 9) + 3250 * found(e, 8) + 3347 * found(e, 7)
             + 3448 * found(e, 6) + 3555 * found(e, 5) + 3666 * found(e, 4)
             + 3782 * found(e, 3) + 3904 * found(e, 2) + 4032 * found(e, 1)
        /\ score(d) = 217843 * found(d, 10)
             + 3157 * found(d, 9) + 3250 * found(d, 8) + 3347 * found(d, 7)
             + 3448 * found(d, 6) + 3555 * found(d, 5) + 3666 * found(d, 4)
             + 3782 * found(d, 3) + 3904 * found(d, 2) + 4032 * found(d, 1)
    BY <2>2
  <2> QED
    BY <2>3, <2>4, <2>5, <2>6
<1> QED
  BY <1>10, <1>11

\* A fusion puts a document behind those that beat it.
LEMMA FusionKeepsOrder ==
  ASSUME NEW ls, DOMAIN ls = 1 .. 1 \/ DOMAIN ls = 1 .. 2, NEW k \in Nat,
         NEW d, NEW e, Beats(ls, e, d),
         NEW i \in DOMAIN Fuse(ls, k), Fuse(ls, k)[i] = d
  PROVE  \E j \in 1 .. i - 1 : Fuse(ls, k)[j] = e
<1> DEFINE m     == Merged(ls)
           value == [x \in DOMAIN m |-> RrfScore(ls, m[x])]
           t     == Descending(m, value)
<1>1. PICK n \in Nat : DOMAIN m = 1 .. n
  BY MergedHasAll
<1>2. \A x : RrfScore(ls, x) \in Int
  BY ScoresAreNumbers
<1>3. value \in [1 .. n -> Int]
  BY <1>1, <1>2
<1> HIDE DEF m, value, t
<1>f. PICK f : SortedBy(t, f, m, value, n)
  BY <1>1, <1>3, DescendingFalls DEF t
<1>4. /\ f \in [1 .. n -> 1 .. n]
      /\ t = [x \in 1 .. n |-> m[f[x]]]
      /\ \A y \in 1 .. n : \E x \in 1 .. n : f[x] = y
      /\ \A x, y \in 1 .. n : x < y => value[f[x]] >= value[f[y]]
  BY <1>f DEF SortedBy
<1>5. \A x \in 1 .. n : value[f[x]] = RrfScore(ls, t[x])
  BY <1>1, <1>4 DEF value
<1> DEFINE cut == IF k < n THEN k ELSE n
<1>6. Fuse(ls, k) = [x \in 1 .. cut |-> t[x]]
  <2>1. Fuse(ls, k) = Best(t, k)
    BY DEF Fuse, ByScore, t, value, m
  <2>2. t \in Seq({m[y] : y \in 1 .. n}) /\ Len(t) = n
    BY <1>4
  <2>3. Best(t, k) = SubSeq(t, 1, cut)
    BY <2>2 DEF Best
  <2>4. Len(SubSeq(t, 1, cut)) = cut /\ \A x \in 1 .. cut : SubSeq(t, 1, cut)[x] = t[x]
    BY <2>2, <1>4, SubSeqProperties
  <2>5. SubSeq(t, 1, cut) \in Seq({m[y] : y \in 1 .. n})
    <3> DEFINE S == {m[y] : y \in 1 .. n}
    <3>a. \A x \in 1 .. n : f[x] \in 1 .. n /\ t[x] = m[f[x]]
      BY <1>4
    <3>b. \A x \in 1 .. n : t[x] \in S
      BY <3>a
    <3>c. cut \in Int /\ cut <= n
      OBVIOUS
    <3> HIDE DEF S, cut
    <3>1. cut \in Int /\ \A x \in 1 .. cut : t[x] \in S
      BY <3>b, <3>c
    <3>2. SubSeq(t, 1, cut) \in Seq(S)
      BY <3>1, SubSeqProperties
    <3> QED
      BY <3>2 DEF S
  <2> QED
    BY <2>1, <2>3, <2>4, <2>5
<1>7. i \in 1 .. n /\ i <= cut /\ t[i] = d
  BY <1>6
<1>8. PICK p \in Places(ls) : At(ls, p) = e
  <2>1. PICK p \in (DOMAIN ls) \X (1 .. MaxRank) :
          Cardinality({x \in 1 .. p[2] : <<p[1], x>> \in PlacesOf(ls, e)})
            > Cardinality({x \in 1 .. p[2] : <<p[1], x>> \in PlacesOf(ls, d)})
    BY DEF Beats
  <2> DEFINE E == {x \in 1 .. p[2] : <<p[1], x>> \in PlacesOf(ls, e)}
             D == {x \in 1 .. p[2] : <<p[1], x>> \in PlacesOf(ls, d)}
  <2>2. Cardinality(D) \in Nat
    <3>1. IsFiniteSet(1 .. p[2]) /\ D \in SUBSET (1 .. p[2])
      BY FS_Interval DEF MaxRank
    <3> HIDE DEF D
    <3> QED
      BY <3>1, FS_Subset, FS_CardinalityType
  <2>3. Cardinality(E) # 0
    BY <2>1, <2>2
  <2>4. E # {}
    BY <2>3, FS_EmptySet
  <2> QED
    BY <2>4 DEF PlacesOf
<1>9. PICK q \in 1 .. n : m[q] = e
  BY <1>8, <1>1, MergedHasAll DEF m
<1>10. PICK j \in 1 .. n : f[j] = q
  BY <1>4
<1>11. t[j] = e
  BY <1>4, <1>9, <1>10
<1>12. RrfScore(ls, e) > RrfScore(ls, d)
  BY BeatingScoresMore
<1>13. ~(i <= j)
  <2>1. value[f[i]] = RrfScore(ls, d) /\ value[f[j]] = RrfScore(ls, e)
    BY <1>5, <1>7, <1>11
  <2>2. RrfScore(ls, d) \in Int /\ RrfScore(ls, e) \in Int
    BY <1>2
  <2>3. i # j
    BY <2>1, <2>2, <1>12
  <2>4. ~(value[f[i]] >= value[f[j]])
    BY <2>1, <2>2, <1>12
  <2>5. ~(i < j)
    BY <2>4, <1>4, <1>7
  <2> QED
    BY <2>3, <2>5, <1>7
<1> QED
  BY <1>6, <1>7, <1>11, <1>13

\* The lists and their fusion change together, and only when the routes have ended.
LEMMA OrderHolds == Init /\ [][Next]_vars => []NoneBeatenAbove
<1>1. Init => NoneBeatenAbove
  BY DEF Init, NoneBeatenAbove
<1>2. NoneBeatenAbove /\ [Next]_vars => NoneBeatenAbove'
  <2> SUFFICES ASSUME NoneBeatenAbove, [Next]_vars, pc' = "fused"
               PROVE  NoneBeatenAbove'
    BY DEF NoneBeatenAbove
  <2>1. CASE Gather
    <3>1. pc' = "fused" /\ fused' = Fuse(lists', Fetched) 
      BY <2>1 DEF Gather
    <3>2. DOMAIN lists' = 1 .. 1 \/ DOMAIN lists' = 1 .. 2
      BY <2>1 DEF Gather, Routes
    <3>3. Fetched \in Nat
      BY RetrievalAssumption DEF Fetched, FetchK
    <3> QED
      BY <3>1, <3>2, <3>3, FusionKeepsOrder DEF NoneBeatenAbove
  <2>2. CASE UNCHANGED vars
    BY <2>2 DEF vars, retrieval, NoneBeatenAbove
  <2>3. CASE Next /\ ~Gather
    <3>1. pc = "fused" /\ UNCHANGED <<lists, fused>>
      BY <2>3 DEF Next, Proceed, Process, Search, Execute, Request, RateLimit, Leave,
           Classified, Escalate, Escalated, SearchStarts, NotReranked, Reranked, Retrieved,
           SearchFails, SearchSkipped, ExecuteStarts, Executed, ToolSent, ToolsSent, Reply,
           Complete, Fails, CompletesFailed, retrieval, Ended
    <3> QED
      BY <3>1 DEF NoneBeatenAbove
  <2> QED
    BY <2>1, <2>2, <2>3
<1> QED
  BY <1>1, <1>2, PTL

\* Whatever the routes find or fail to find, and however often they find it, no
\* document of the fusion stands above one that beats it on the routes' lists, and
\* none is kept while such a one is cut.
THEOREM FusionKeepsTheRoutesOrder == Spec => []NoneBeatenAbove
  BY OrderHolds, PTL DEF Spec

-----------------------------------------------------------------------------
(***************************************************************************)
(* The events of a stream.                                                 *)
(***************************************************************************)

\* The events a stream may send.
Steps ==
  {"classify", "classified", "escalate", "escalated", "retrieve", "retrieve empty",
   "retrieve complete", "retrieve error", "retrieve skipped", "execute", "executed",
   "reply", "resolved", "error", "failed"}

Events ==
  [type : {"step", "tool", "message", "error", "complete"}, step : Steps, ok : BOOLEAN]

Has(type) == \E i \in DOMAIN events : events[i].type = type

StreamInv ==
  /\ events \in Seq(Events) /\ tools \in Seq(BOOLEAN)
  /\ pc \notin Ended => ~Has("complete") /\ (Has("error") <=> pc = "failed")
  /\ pc = "done" => Concluded

\* Nothing has been sent at the start.
LEMMA StreamStarts == Init => StreamInv
  BY DEF Init, StreamInv, Ended, Has

\* What one more event changes.
LEMMA OneEventMore ==
  ASSUME events \in Seq(Events), NEW e \in Events, Yield(e)
  PROVE  /\ events' \in Seq(Events)
         /\ \A type : Has(type)' <=> Has(type) \/ e.type = type
         /\ e.type = "complete" /\ ~Has("complete") /\ (e.ok <=> ~Has("error")) => Concluded'
<1>1. /\ events' \in Seq(Events) /\ Len(events') = Len(events) + 1
      /\ events'[Len(events')] = e
      /\ \A i \in 1 .. Len(events) : events'[i] = events[i]
      /\ Len(events) \in Nat /\ DOMAIN events = 1 .. Len(events)
      /\ DOMAIN events' = 1 .. Len(events) + 1
  BY DEF Yield
<1>2. \A type : Has(type)' <=> Has(type) \/ e.type = type
  <2> TAKE type
  <2>1. Has(type) => Has(type)'
    BY <1>1 DEF Has
  <2>2. e.type = type => Has(type)'
    BY <1>1 DEF Has
  <2>3. Has(type)' => Has(type) \/ e.type = type
    BY <1>1 DEF Has
  <2> QED
    BY <2>1, <2>2, <2>3
<1>3. ASSUME e.type = "complete", ~Has("complete"), e.ok <=> ~Has("error") PROVE Concluded'
  <2>1. Last(events') = e
    BY <1>1 DEF Last
  <2>2. events' # <<>>
    BY <1>1
  <2>3. \A i \in 1 .. Len(events') - 1 : events'[i].type # "complete"
    BY <1>1, <1>3 DEF Has
  <2>4. e.ok <=> \A i \in DOMAIN events' : events'[i].type # "error"
    BY <1>1, <1>3 DEF Has
  <2> QED
    BY <2>1, <2>2, <2>3, <2>4, <1>3 DEF Concluded
<1> QED
  BY <1>1, <1>2, <1>3

\* Every event that is sent, and every step without one, keeps the count.
LEMMA StreamStep == StreamInv /\ [Next]_vars => StreamInv'
<1> SUFFICES ASSUME StreamInv, [Next]_vars PROVE StreamInv'
  OBVIOUS
<1> USE DEF Step, Ended
\* Nothing is sent, and the stream goes on as it was or ends with the client.
<1>a. ASSUME UNCHANGED events, tools' \in Seq(BOOLEAN),
             \/ pc' = pc \/ pc' \in {"left", "refused"}
             \/ pc \notin Ended \cup {"failed"} /\ pc' \notin Ended \cup {"failed"}
      PROVE  StreamInv'
  BY <1>a DEF StreamInv, Has, Concluded
\* An event of the middle is sent.
<1>b. ASSUME NEW type \in {"step", "tool", "message"}, NEW step \in Steps, NEW ok \in BOOLEAN,
             Yield(Event(type, step, ok)), tools' \in Seq(BOOLEAN),
             pc \notin Ended \cup {"failed"}, pc' \notin Ended \cup {"failed"}
      PROVE  StreamInv'
  <2> DEFINE e == Event(type, step, ok)
  <2>1. e \in Events /\ e.type = type
    BY DEF Event, Events
  <2> HIDE DEF e
  <2>2. Yield(e)
    BY <1>b DEF e
  <2> QED
    BY <2>1, <2>2, <1>b, OneEventMore DEF StreamInv
<1>1. CASE UNCHANGED vars
  BY <1>1, <1>a DEF vars, Steps, StreamInv
<1>2. CASE RateLimit \/ Leave \/ Gather
  BY <1>2, <1>a DEF RateLimit, Leave, Gather, Steps, StreamInv
<1>3. CASE Request \/ Escalate \/ SearchStarts \/ SearchFails \/ SearchSkipped \/ ExecuteStarts \/ ToolsSent
  BY <1>3, <1>b DEF Request, Escalate, SearchStarts, SearchFails, SearchSkipped,
       ExecuteStarts, ToolsSent, Steps, StreamInv
<1>4. ASSUME NEW c, NEW h \in BOOLEAN, Classified(c, h) PROVE StreamInv'
  BY <1>4, <1>b DEF Classified, Steps, StreamInv
<1>5. ASSUME NEW found, Retrieved(found), pc = "fused" PROVE StreamInv'
  BY <1>5, <1>b DEF Retrieved, Steps, StreamInv
<1>6. ASSUME NEW n \in 0 .. MaxTools, NEW calls \in [1 .. n -> BOOLEAN], Executed(calls)
      PROVE  StreamInv'
  <2>1. calls \in Seq(BOOLEAN)
    BY StreamAssumption
  <2> QED
    BY <1>6, <2>1, <1>a DEF Executed
<1>7. CASE ToolSent
  <2>1. Head(tools) \in BOOLEAN /\ Tail(tools) \in Seq(BOOLEAN)
    BY <1>7 DEF ToolSent, Steps, StreamInv
  <2> QED
    BY <1>7, <2>1, <1>b DEF ToolSent, Steps
<1>8. CASE Reply
  BY <1>8, <1>b DEF Reply, Steps, StreamInv
<1>c. ASSUME NEW step \in Steps, NEW ok \in BOOLEAN, Yield(Event("complete", step, ok)),
             UNCHANGED tools, pc \notin Ended, pc' = "done", ok <=> pc # "failed"
      PROVE  StreamInv'
  <2> DEFINE e == Event("complete", step, ok)
  <2>1. e \in Events /\ e.type = "complete" /\ e.ok = ok
    BY DEF Event, Events
  <2> HIDE DEF e
  <2>2. Yield(e)
    BY <1>c DEF e
  <2> QED
    BY <2>1, <2>2, <1>c, OneEventMore DEF StreamInv
<1>9. CASE Escalated \/ Complete \/ CompletesFailed
  BY <1>9, <1>c DEF Escalated, Complete, CompletesFailed, Steps
<1>10. CASE Fails
  <2> DEFINE e == Event("error", "error", FALSE)
  <2>1. e \in Events /\ e.type = "error"
    BY DEF Event, Events, Steps
  <2> HIDE DEF e
  <2>2. Yield(e)
    BY <1>10 DEF e, Fails
  <2> QED
    BY <2>1, <2>2, <1>10, OneEventMore DEF StreamInv, Fails
<1> QED
  BY <1>1, <1>2, <1>3, <1>4, <1>5, <1>6, <1>7, <1>8, <1>9, <1>10
     DEF Next, Proceed, Process, Search, Execute, Reranked, NotReranked

\* What a stream that was not left has sent when it ends has one "complete", the last
\* event, which says whether an error was reported: the part of StreamConcludes that
\* needs no fairness.
THEOREM EndedStreamsConclude == Spec => [](pc = "done" => Concluded)
<1>1. StreamInv => (pc = "done" => Concluded)
  BY DEF StreamInv
<1> QED
  BY <1>1, StreamStarts, StreamStep, PTL DEF Spec

=============================================================================
