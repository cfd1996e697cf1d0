------------------------------ MODULE DataLemmas ------------------------------
(***************************************************************************)
(* Lemmas about data the library has no usable fact for: induction over    *)
(* numbers and finite sets, sequences without repetitions, and sorting.    *)
(* The greatest version of a ledger, the oldest nodes of a graph, the      *)
(* recency list of a cache and the pages of a trail rest on them.          *)
(*                                                                         *)
(* The library states induction for an operator P(_), which the provers    *)
(* cannot instantiate.  Here it is stated for a set, the numbers or sets   *)
(* of which P holds.  All of it follows from one fact of the library, that *)
(* the finite subsets of a set are well founded under inclusion.           *)
(***************************************************************************)
EXTENDS Integers, SequencesExt, FiniteSetTheorems, SequenceTheorems, WellFoundedInduction, TLAPS

(* A family of finite sets has a member without a smaller one in it.       *)
LEMMA SmallestOfFamily ==
  ASSUME NEW F, F # {}, \A A \in F : IsFiniteSet(A)
  PROVE  \E A \in F : \A B \in F : B \subseteq A => B = A
<1> DEFINE S == UNION F
<1>1. F \subseteq FiniteSubsetsOf(S)
  BY DEF FiniteSubsetsOf
<1>2. PICK A \in F : \A B \in F : <<B, A>> \notin StrictSubsetOrdering(S)
  BY <1>1, WFMin, FS_StrictSubsetOrderingWellFounded
<1>3. ASSUME NEW B \in F, B \subseteq A, B # A PROVE FALSE
  BY <1>2, <1>3 DEF StrictSubsetOrdering
<1> QED BY <1>3

LEMMA SmallestNumber ==
  ASSUME NEW T, T \subseteq Nat, T # {}
  PROVE  \E n \in T : \A m \in T : n <= m
<1> DEFINE F == {0..n : n \in T}
<1>1. PICK A \in F : \A B \in F : B \subseteq A => B = A
  <2>1. \A B \in F : IsFiniteSet(B) BY FS_Interval
  <2>2. F # {} OBVIOUS
  <2> HIDE DEF F
  <2> QED BY <2>1, <2>2, SmallestOfFamily
<1>2. PICK n \in T : A = 0..n OBVIOUS
<1>3. ASSUME NEW m \in T, m < n PROVE FALSE
  <2>1. 0..m \in F /\ 0..m \subseteq A BY <1>2, <1>3
  <2>2. n \in 0..n /\ n \notin 0..m BY <1>3
  <2> QED BY <1>1, <1>2, <2>1, <2>2
<1> QED BY <1>3

LEMMA LargestNumber ==
  ASSUME NEW T, T \subseteq Nat, T # {}, NEW b \in Nat, \A n \in T : n <= b
  PROVE  \E n \in T : \A m \in T : m <= n
<1> DEFINE U == {b - n : n \in T}
<1>1. U \subseteq Nat
  BY \A n \in T : b - n \in Nat
<1>2. U # {} OBVIOUS
<1>3. PICK u \in U : \A v \in U : u <= v BY <1>1, <1>2, SmallestNumber
<1>4. PICK n \in T : u = b - n OBVIOUS
<1>5. ASSUME NEW m \in T PROVE m <= n
  BY <1>3, <1>4
<1> QED BY <1>5

LEMMA NumbersByInduction ==
  ASSUME NEW T, 0 \in T, \A n \in Nat : n \in T => n + 1 \in T
  PROVE  Nat \subseteq T
<1> SUFFICES ASSUME Nat \ T # {} PROVE FALSE OBVIOUS
<1>1. PICK n \in Nat \ T : \A m \in Nat \ T : n <= m BY SmallestNumber
<1>2. n # 0 /\ n - 1 \in Nat OBVIOUS
<1>3. n - 1 \in T BY <1>1, <1>2
<1> QED BY <1>1, <1>2, <1>3

LEMMA SetsByInduction ==
  ASSUME NEW S, IsFiniteSet(S), NEW F, {} \in F,
         \A A \in SUBSET S, x \in S : A \in F => A \cup {x} \in F
  PROVE  SUBSET S \subseteq F
<1> DEFINE G == (SUBSET S) \ F
<1> SUFFICES ASSUME G # {} PROVE FALSE OBVIOUS
<1>1. PICK A \in G : \A B \in G : B \subseteq A => B = A
  <2>1. \A A \in G : IsFiniteSet(A) BY FS_Subset
  <2> HIDE DEF G
  <2> QED BY <2>1, SmallestOfFamily
<1>2. PICK x \in A : TRUE OBVIOUS
<1>3. A \ {x} \in F BY <1>1, <1>2
<1>4. (A \ {x}) \cup {x} = A OBVIOUS
<1> QED BY <1>1, <1>2, <1>3, <1>4

------------------------------------------------------------------------------
(* Sequences and their elements                                            *)

LEMMA Members ==
  ASSUME NEW S, NEW q \in Seq(S)
  PROVE  \A e : e \in ToSet(q) <=> \E i \in 1..Len(q) : e = q[i]
BY DEF ToSet

LEMMA UpTo == \A n \in Nat : IsFiniteSet(1..n) /\ Cardinality(1..n) = n
BY FS_Interval

LEMMA MembersAreFinite ==
  ASSUME NEW S, NEW q \in Seq(S)
  PROVE  IsFiniteSet(ToSet(q))
<1>1. q \in Surjection(1..Len(q), ToSet(q))
  BY DEF Surjection, ToSet
<1>2. IsFiniteSet(1..Len(q))
  BY FS_Interval
<1>3. QED
  BY <1>1, <1>2, FS_Surjection

(* A sequence holds the elements of two others, each at its place or       *)
(* behind the first.                                                       *)
Joins(c, q, p) ==
  /\ Len(c) = Len(q) + Len(p) /\ ToSet(c) = ToSet(q) \cup ToSet(p)
  /\ \A i \in 1..Len(q) : i \in 1..Len(c) /\ c[i] = q[i] /\ q[i] \in ToSet(q)
  /\ \A i \in 1..Len(p) : Len(q) + i \in 1..Len(c) /\ c[Len(q) + i] = p[i] /\ p[i] \in ToSet(p)
  /\ \A i \in 1..Len(c) : i \in 1..Len(q) \/ \E k \in 1..Len(p) : i = Len(q) + k

LEMMA Concatenated ==
  ASSUME NEW S, NEW q \in Seq(S), NEW p \in Seq(S)
  PROVE  q \o p \in Seq(S) /\ Joins(q \o p, q, p)
<1>1. /\ q \o p \in Seq(S) /\ Len(q \o p) = Len(q) + Len(p)
      /\ \A i \in 1..Len(q) + Len(p) :
           (q \o p)[i] = IF i <= Len(q) THEN q[i] ELSE p[i - Len(q)]
  BY ConcatProperties, Zenon
<1> DEFINE c == q \o p
<1>2. Len(q) \in Nat /\ Len(p) \in Nat
  OBVIOUS
<1>3. \A i \in 1..Len(q) : i \in 1..Len(c) /\ c[i] = q[i] /\ q[i] \in ToSet(q)
  <2>1. \A i \in 1..Len(q) : q[i] \in ToSet(q)
    BY DEF ToSet
  <2>2. QED
    BY <1>1, <1>2, <2>1
<1>4. \A i \in 1..Len(p) :
        Len(q) + i \in 1..Len(c) /\ c[Len(q) + i] = p[i] /\ p[i] \in ToSet(p)
  <2>1. \A i \in 1..Len(p) : p[i] \in ToSet(p)
    BY DEF ToSet
  <2>2. \A i \in 1..Len(p) :
          /\ Len(q) + i \in 1..Len(q) + Len(p) /\ ~(Len(q) + i <= Len(q))
          /\ Len(q) + i - Len(q) = i
    BY <1>2
  <2>3. QED
    BY <1>1, <2>1, <2>2
<1>5. \A i \in 1..Len(c) : i \in 1..Len(q) \/ \E k \in 1..Len(p) : i = Len(q) + k
  <2>1. ASSUME NEW i \in 1..Len(c), i \notin 1..Len(q)
        PROVE  i - Len(q) \in 1..Len(p) /\ i = Len(q) + (i - Len(q))
    BY <1>1, <1>2, <2>1
  <2>2. QED
    BY <2>1
<1>6. c \in Seq(S) /\ Len(c) = Len(q) + Len(p)
  BY <1>1
<1> HIDE DEF c
<1>7. ToSet(c) = ToSet(q) \cup ToSet(p)
  <2>1. \A e : e \in ToSet(c) <=> \E i \in 1..Len(c) : e = c[i]
    BY <1>6, Members
  <2>2. ASSUME NEW e \in ToSet(c)
        PROVE  e \in ToSet(q) \cup ToSet(p)
    <3>1. PICK i \in 1..Len(c) : e = c[i]
      BY <2>1
    <3>2. CASE i \in 1..Len(q)
      BY <1>3, <3>1, <3>2
    <3>3. CASE i \notin 1..Len(q)
      <4>1. PICK k \in 1..Len(p) : i = Len(q) + k
        BY <1>5, <3>3
      <4>2. QED
        BY <1>4, <3>1, <4>1
    <3>4. QED
      BY <3>2, <3>3
  <2>3. ASSUME NEW e \in ToSet(q)
        PROVE  e \in ToSet(c)
    <3>1. PICK i \in 1..Len(q) : e = q[i]
      BY DEF ToSet
    <3>2. i \in 1..Len(c) /\ e = c[i]
      BY <1>3, <3>1
    <3>3. QED
      BY <2>1, <3>2
  <2>4. ASSUME NEW e \in ToSet(p)
        PROVE  e \in ToSet(c)
    <3>1. PICK i \in 1..Len(p) : e = p[i]
      BY DEF ToSet
    <3>2. Len(q) + i \in 1..Len(c) /\ e = c[Len(q) + i]
      BY <1>4, <3>1
    <3>3. QED
      BY <2>1, <3>2
  <2>5. QED
    BY <2>2, <2>3, <2>4
<1>8. QED
  BY <1>3, <1>4, <1>5, <1>6, <1>7 DEF c, Joins

------------------------------------------------------------------------------
(* Sequences without repetitions                                           *)

(* Removing an element takes it out and keeps the rest in its order.       *)
LEMMA FirstIsRemoved ==
  ASSUME NEW S, NEW q \in Seq(S), IsInjective(q), NEW i
  PROVE  /\ RemoveFirst(q, i) \in Seq(S) /\ IsInjective(RemoveFirst(q, i))
         /\ ToSet(RemoveFirst(q, i)) = ToSet(q) \ {i}
         /\ Len(RemoveFirst(q, i)) = IF i \in ToSet(q) THEN Len(q) - 1 ELSE Len(q)
<1>1. CASE ~\E n \in 1..Len(q) : q[n] = i
  <2>1. RemoveFirst(q, i) = q
    BY <1>1 DEF RemoveFirst
  <2>2. i \notin ToSet(q)
    BY <1>1 DEF ToSet
  <2>3. QED
    BY <2>1, <2>2
<1>2. CASE \E n \in 1..Len(q) : q[n] = i
  <2>1. PICK n \in 1..Len(q) : q[n] = i
    BY <1>2
  <2>2. {m \in 1..Len(q) : q[m] = i} = {n}
    BY <2>1 DEF IsInjective
  <2>3. Min({n}) = n
    BY <2>1 DEF Min
  <2>4. SelectInSeq(q, LAMBDA v : v = i) = n
    BY <2>2, <2>3 DEF SelectInSeq
  <2> DEFINE c == SubSeq(q, 1, n - 1) \o SubSeq(q, n + 1, Len(q))
  <2>5. RemoveFirst(q, i) = c
    BY <1>2, <2>4 DEF RemoveFirst, RemoveAt
  <2>6. /\ c \in Seq(S) /\ Len(c) = Len(q) - 1
        /\ \A m \in 1..Len(c) : c[m] = IF m < n THEN q[m] ELSE q[m + 1]
    <3> DEFINE a == SubSeq(q, 1, n - 1)
               b == SubSeq(q, n + 1, Len(q))
    <3>1. /\ a \in Seq(S) /\ Len(a) = n - 1
          /\ \A m \in 1..Len(a) : a[m] = q[m]
      BY <2>1
    <3>2. /\ b \in Seq(S) /\ Len(b) = Len(q) - n
          /\ \A m \in 1..Len(b) : b[m] = q[n + m]
      BY <2>1
    <3> HIDE DEF a, b
    <3>3. /\ a \o b \in Seq(S) /\ Len(a \o b) = Len(a) + Len(b)
          /\ \A m \in 1..Len(a) + Len(b) :
               (a \o b)[m] = IF m <= Len(a) THEN a[m] ELSE b[m - Len(a)]
      BY <3>1, <3>2, ConcatProperties, Zenon
    <3>4. c = a \o b
      BY DEF a, b
    <3>5. ASSUME NEW m \in 1..Len(a \o b)
          PROVE  (a \o b)[m] = IF m < n THEN q[m] ELSE q[m + 1]
      <4>1. CASE m < n
        BY <2>1, <3>1, <3>2, <3>3, <3>5, <4>1
      <4>2. CASE m >= n
        <5>1. m - Len(a) \in 1..Len(b) /\ n + (m - Len(a)) = m + 1
          BY <2>1, <3>1, <3>2, <3>3, <3>5, <4>2
        <5>2. (a \o b)[m] = b[m - Len(a)]
          BY <2>1, <3>1, <3>3, <3>5, <4>2
        <5>3. b[m - Len(a)] = q[n + (m - Len(a))]
          BY <3>2, <5>1
        <5>4. QED
          BY <2>1, <4>2, <5>1, <5>2, <5>3
      <4>3. QED
        BY <2>1, <3>1, <3>2, <3>3, <4>1, <4>2
    <3>6. Len(a \o b) = Len(q) - 1
      BY <2>1, <3>1, <3>2, <3>3
    <3>7. QED
      BY <3>3, <3>4, <3>5, <3>6
  <2> HIDE DEF c
  <2>7. IsInjective(c)
    BY <2>1, <2>6 DEF IsInjective
  <2>8. ToSet(c) = ToSet(q) \ {i}
    <3>1. ToSet(c) \subseteq ToSet(q) \ {i}
      BY <2>1, <2>6 DEF IsInjective, ToSet
    <3>2. ASSUME NEW m \in 1..Len(q), m # n
          PROVE  \E k \in 1..Len(c) : c[k] = q[m]
      <4>1. CASE m < n
        BY <2>1, <2>6, <3>2, <4>1
      <4>2. CASE m > n
        <5>1. m - 1 \in 1..Len(c) /\ c[m - 1] = q[m]
          BY <2>1, <2>6, <3>2, <4>2
        <5>2. QED
          BY <5>1
      <4>3. QED
        BY <3>2, <4>1, <4>2
    <3>3. ASSUME NEW x \in ToSet(q), x # i
          PROVE  x \in ToSet(c)
      <4>1. PICK m \in 1..Len(q) : q[m] = x
        BY DEF ToSet
      <4>2. PICK k \in 1..Len(c) : c[k] = x
        BY <2>1, <3>2, <3>3, <4>1
      <4>3. QED
        BY <2>6, <4>2 DEF ToSet
    <3>4. QED
      BY <3>1, <3>3
  <2>9. i \in ToSet(q)
    BY <2>1 DEF ToSet
  <2>10. QED
    BY <2>9, <2>5, <2>6, <2>7, <2>8
<1>3. QED
  BY <1>1, <1>2

(* Appending a new element adds it.                                       *)
LEMMA ListGrows ==
  ASSUME NEW S, NEW q \in Seq(S), IsInjective(q), NEW i \in S, i \notin ToSet(q)
  PROVE  /\ Append(q, i) \in Seq(S) /\ IsInjective(Append(q, i))
         /\ ToSet(Append(q, i)) = ToSet(q) \cup {i}
         /\ Len(Append(q, i)) = Len(q) + 1
<1>1. /\ Append(q, i) \in Seq(S) /\ Len(Append(q, i)) = Len(q) + 1
      /\ \A n \in 1..Len(q) + 1 :
           Append(q, i)[n] = IF n = Len(q) + 1 THEN i ELSE q[n]
  OBVIOUS
<1>2. Len(q) \in Nat /\ DOMAIN q = 1..Len(q)
  OBVIOUS
<1>3. DOMAIN Append(q, i) = 1..Len(q) + 1
  BY <1>1
<1>4. IsInjective(Append(q, i))
  BY <1>1, <1>2, <1>3 DEF IsInjective, ToSet
<1>5. ToSet(Append(q, i)) \subseteq ToSet(q) \cup {i}
  BY <1>1, <1>2, <1>3 DEF ToSet
<1>6. ToSet(q) \cup {i} \subseteq ToSet(Append(q, i))
  <2>1. \A n \in 1..Len(q) : q[n] = Append(q, i)[n] /\ n \in 1..Len(q) + 1
    BY <1>1, <1>2
  <2>2. i = Append(q, i)[Len(q) + 1] /\ Len(q) + 1 \in 1..Len(q) + 1
    BY <1>1, <1>2
  <2>3. QED
    BY <1>1, <2>1, <2>2 DEF ToSet
<1>7. QED
  BY <1>1, <1>4, <1>5, <1>6

------------------------------------------------------------------------------
(* Sorting by counting places                                              *)

(* before is a set of pairs: an order is a value here, as an operator      *)
(* could not be passed to a lemma.                                         *)
StrictOrder(before, S) ==
  /\ \A a \in S : <<a, a>> \notin before
  /\ \A a, b, c \in S : <<a, b>> \in before /\ <<b, c>> \in before => <<a, c>> \in before
  /\ \A a, b \in S : a # b => <<a, b>> \in before \/ <<b, a>> \in before

LEMMA ImageCount ==
  ASSUME NEW n \in Nat, NEW q, \A i, j \in 1..n : q[i] = q[j] => i = j
  PROVE  \A D : D = {q[i] : i \in 1..n} => IsFiniteSet(D) /\ Cardinality(D) = n
<1> DEFINE D == {q[i] : i \in 1..n}
           f == [i \in 1..n |-> q[i]]
<1>1. f \in Bijection(1..n, D)
  BY DEF Bijection, Injection, Surjection, IsInjective
<1>2. ExistsBijection(1..n, D)
  BY <1>1 DEF ExistsBijection
<1>3. IsFiniteSet(1..n) /\ Cardinality(1..n) = n
  BY FS_Interval
<1> HIDE DEF D, f
<1>4. IsFiniteSet(D) /\ Cardinality(D) = n
  BY <1>2, <1>3, FS_Bijection
<1>5. QED
  BY <1>4 DEF D

LEMMA LeastExists ==
  ASSUME NEW S, IsFiniteSet(S), NEW before, StrictOrder(before, S),
         NEW T \in SUBSET S, T # {}
  PROVE  \E m \in T : \A a \in T \ {m} : <<m, a>> \in before
<1> DEFINE HasLeast(A) == A = {} \/ \E m \in A : \A a \in A \ {m} : <<m, a>> \in before
           F == {A \in SUBSET S : HasLeast(A)}
<1>1. {} \in F
  OBVIOUS
<1>2. ASSUME NEW A \in SUBSET S, NEW x \in S, A \in F
      PROVE  A \cup {x} \in F
  <2>1. CASE A = {}
    BY <1>2, <2>1
  <2>2. CASE A # {}
    <3>1. PICK m \in A : \A a \in A \ {m} : <<m, a>> \in before
      BY <1>2, <2>2
    <3>2. CASE x = m
      <4>1. A \cup {x} = A
        BY <3>2
      <4>2. QED
        BY <1>2, <4>1
    <3>3. CASE <<m, x>> \in before
      <4>1. \A a \in (A \cup {x}) \ {m} : <<m, a>> \in before
        BY <3>1, <3>3
      <4>2. QED
        BY <4>1
    <3>4. CASE <<x, m>> \in before
      <4>1. \A a \in (A \cup {x}) \ {x} : <<x, a>> \in before
        BY <1>2, <3>1, <3>4 DEF StrictOrder
      <4>2. QED
        BY <4>1
    <3>5. QED
      BY <3>2, <3>3, <3>4 DEF StrictOrder
  <2>3. QED
    BY <2>1, <2>2
<1> HIDE DEF F
<1>3. SUBSET S \subseteq F
  BY <1>1, <1>2, SetsByInduction
<1>4. QED
  BY <1>3 DEF F

(* q lists the first n elements of S in their order.                       *)
Lists(q, n, before, S) ==
  /\ q \in [1..n -> S]
  /\ \A i \in 1..n : \A a \in S : <<a, q[i]>> \in before <=> \E j \in 1..(i - 1) : a = q[j]

LEMMA ListsAreInjective ==
  ASSUME NEW S, NEW before, StrictOrder(before, S), NEW n \in Nat, NEW q,
         Lists(q, n, before, S)
  PROVE  \A i, j \in 1..n : q[i] = q[j] => i = j
<1>1. \A i \in 1..n : q[i] \in S
  BY DEF Lists
<1>2. ASSUME NEW i \in 1..n, NEW j \in 1..n, j < i
      PROVE  <<q[j], q[i]>> \in before
  <2>1. j \in 1..(i - 1)
    BY <1>2
  <2>2. QED
    BY <1>1, <2>1 DEF Lists
<1>3. ASSUME NEW i \in 1..n, NEW j \in 1..n, j < i, q[i] = q[j]
      PROVE  FALSE
  BY <1>1, <1>2, <1>3 DEF StrictOrder
<1>4. QED
  <2>1. \A i, j \in 1..n : i = j \/ i < j \/ j < i
    OBVIOUS
  <2>2. QED
    BY <1>3, <2>1

(* Any number of the first elements can be listed.                         *)
LEMMA ListExists ==
  ASSUME NEW S, IsFiniteSet(S), NEW before, StrictOrder(before, S)
  PROVE  \A n \in Nat : n <= Cardinality(S) => \E q : Lists(q, n, before, S)
<1> DEFINE T == {n \in Nat : n <= Cardinality(S) => \E q : Lists(q, n, before, S)}
<1>0. Cardinality(S) \in Nat
  BY FS_CardinalityType
<1>1. 0 \in T
  <2>1. Lists([i \in 1..0 |-> i], 0, before, S)
    BY DEF Lists
  <2>2. QED
    BY <2>1
<1>2. ASSUME NEW n \in Nat, n \in T
      PROVE  n + 1 \in T
  <2> SUFFICES ASSUME n + 1 <= Cardinality(S)
               PROVE  \E q : Lists(q, n + 1, before, S)
    OBVIOUS
  <2>1. PICK q : Lists(q, n, before, S)
    BY <1>0, <1>2
  <2>2. q \in [1..n -> S] /\ \A i, j \in 1..n : q[i] = q[j] => i = j
    BY <2>1, ListsAreInjective DEF Lists
  <2> DEFINE D == {q[i] : i \in 1..n}
  <2>3. IsFiniteSet(D) /\ Cardinality(D) = n
    BY <2>2, ImageCount
  <2>4. D \subseteq S
    BY <2>2
  <2>5. S \ D # {}
    <3>1. SUFFICES ASSUME S = D PROVE FALSE
      BY <2>4
    <3>2. QED
      BY <1>0, <2>3, <3>1
  <2>6. PICK m \in S \ D : \A a \in (S \ D) \ {m} : <<m, a>> \in before
    <3> DEFINE U == S \ D
    <3>1. U \in SUBSET S /\ U # {}
      BY <2>5
    <3> HIDE DEF U
    <3>2. \E m \in U : \A a \in U \ {m} : <<m, a>> \in before
      BY <3>1, LeastExists
    <3>3. QED
      BY <3>2 DEF U
  <2> DEFINE p == [i \in 1..(n + 1) |-> IF i <= n THEN q[i] ELSE m]
  <2>7. p \in [1..(n + 1) -> S]
    BY <2>2
  <2>8. \A i \in 1..n : p[i] = q[i] /\ p[n + 1] = m
    OBVIOUS
  <2>9. \A j \in 1..n : <<q[j], m>> \in before
    <3> SUFFICES ASSUME NEW j \in 1..n, <<m, q[j]>> \in before
                 PROVE  FALSE
      BY <2>2, <2>6 DEF StrictOrder
    <3>1. PICK k \in 1..(j - 1) : m = q[k]
      BY <2>1 DEF Lists
    <3>2. k \in 1..n
      OBVIOUS
    <3>3. QED
      BY <2>6, <3>1, <3>2
  <2>10. ASSUME NEW a \in S
         PROVE  <<a, m>> \in before <=> a \in D
    <3>1. a \in D => <<a, m>> \in before
      BY <2>9
    <3>2. a \notin D => <<a, m>> \notin before
      BY <2>6, <2>10 DEF StrictOrder
    <3>3. QED
      BY <3>1, <3>2
  <2>11. ASSUME NEW i \in 1..(n + 1), NEW a \in S
         PROVE  <<a, p[i]>> \in before <=> \E j \in 1..(i - 1) : a = p[j]
    <3>1. CASE i <= n
      <4>1. i \in 1..n /\ p[i] = q[i] /\ \A j \in 1..(i - 1) : p[j] = q[j]
        BY <2>11, <3>1
      <4> HIDE DEF p
      <4>2. QED
        BY <2>1, <4>1 DEF Lists
    <3>2. CASE i = n + 1
      <4>1. p[i] = m /\ 1..(i - 1) = 1..n /\ \A j \in 1..n : p[j] = q[j]
        BY <3>2
      <4> HIDE DEF p
      <4>2. QED
        BY <2>10, <4>1
    <3>3. QED
      BY <3>1, <3>2
  <2> HIDE DEF p
  <2>12. Lists(p, n + 1, before, S)
    BY <2>7, <2>11 DEF Lists
  <2>13. QED
    BY <2>12
<1> HIDE DEF T
<1>3. Nat \subseteq T
  BY <1>1, <1>2, NumbersByInduction
<1>4. QED
  BY <1>3 DEF T

(* All of S can be listed, and the place of an element is the number of    *)
(* those before it.                                                        *)
LEMMA PlacesAreCounts ==
  ASSUME NEW S, IsFiniteSet(S), NEW before, StrictOrder(before, S)
  PROVE  \E q \in [1..Cardinality(S) -> S] :
           /\ \A i, j \in 1..Cardinality(S) : q[i] = q[j] => i = j
           /\ \A e \in S : \E i \in 1..Cardinality(S) : e = q[i]
           /\ \A i, j \in 1..Cardinality(S) : i < j => <<q[i], q[j]>> \in before
           /\ \A i \in 1..Cardinality(S) :
                Cardinality({f \in S : <<f, q[i]>> \in before}) = i - 1
<1>1. PICK n \in Nat : n = Cardinality(S)
  BY FS_CardinalityType
<1>2. PICK q : Lists(q, n, before, S)
  BY <1>1, ListExists
<1>3. q \in [1..n -> S] /\ \A i, j \in 1..n : q[i] = q[j] => i = j
  BY <1>2, ListsAreInjective DEF Lists
<1>4. {q[i] : i \in 1..n} = S
  <2> DEFINE D == {q[i] : i \in 1..n}
  <2>1. IsFiniteSet(D) /\ Cardinality(D) = n
    BY <1>3, ImageCount
  <2>2. D \in SUBSET S
    BY <1>3
  <2> HIDE DEF D
  <2>3. S = D
    BY <1>1, <2>1, <2>2, FS_Subset
  <2>4. QED
    BY <2>3 DEF D
<1>5. ASSUME NEW i \in 1..n
      PROVE  Cardinality({f \in S : <<f, q[i]>> \in before}) = i - 1
  <2> DEFINE B == {q[j] : j \in 1..(i - 1)}
  <2>1. i - 1 \in Nat /\ \A j \in 1..(i - 1) : j \in 1..n
    BY <1>1
  <2>2. {f \in S : <<f, q[i]>> \in before} = B
    BY <1>2, <1>3, <2>1 DEF Lists
  <2>3. \A j, k \in 1..(i - 1) : q[j] = q[k] => j = k
    BY <1>3, <2>1
  <2>4. IsFiniteSet(B) /\ Cardinality(B) = i - 1
    BY <2>1, <2>3, ImageCount
  <2>5. QED
    BY <2>2, <2>4
<1>6. ASSUME NEW i \in 1..n, NEW j \in 1..n, i < j
      PROVE  <<q[i], q[j]>> \in before
  <2>1. i \in 1..(j - 1) /\ q[i] \in S
    BY <1>3, <1>6
  <2>2. QED
    BY <1>2, <2>1 DEF Lists
<1>7. \A e \in S : \E i \in 1..n : e = q[i]
  BY <1>4
<1>8. QED
  BY <1>1, <1>3, <1>5, <1>6, <1>7

LEMMA PlacesAreTaken ==
  ASSUME NEW S, IsFiniteSet(S), NEW before, StrictOrder(before, S),
         NEW k \in 1..Cardinality(S)
  PROVE  \E e \in S : Cardinality({f \in S : <<f, e>> \in before}) = k - 1
<1>1. PICK q \in [1..Cardinality(S) -> S] :
        \A i \in 1..Cardinality(S) : Cardinality({f \in S : <<f, q[i]>> \in before}) = i - 1
  BY PlacesAreCounts
<1>2. q[k] \in S /\ Cardinality({f \in S : <<f, q[k]>> \in before}) = k - 1
  BY <1>1
<1>3. QED
  BY <1>2

(* A sequence with every element at its place is sorted.                   *)
LEMMA SortingSorts ==
  ASSUME NEW S, IsFiniteSet(S), NEW before, StrictOrder(before, S),
         NEW s \in [1..Cardinality(S) -> S],
         \A k \in 1..Cardinality(S) : Cardinality({f \in S : <<f, s[k]>> \in before}) = k - 1
  PROVE  /\ s \in Seq(S) /\ Len(s) = Cardinality(S) /\ ToSet(s) = S /\ IsInjective(s)
         /\ \A i, j \in 1..Len(s) : i < j => <<s[i], s[j]>> \in before
<1> DEFINE count(e) == Cardinality({f \in S : <<f, e>> \in before})
<1>1. Cardinality(S) \in Nat
  BY FS_CardinalityType
<1>2. PICK q \in [1..Cardinality(S) -> S] :
        /\ \A i, j \in 1..Cardinality(S) : q[i] = q[j] => i = j
        /\ \A e \in S : \E i \in 1..Cardinality(S) : e = q[i]
        /\ \A i, j \in 1..Cardinality(S) : i < j => <<q[i], q[j]>> \in before
        /\ \A i \in 1..Cardinality(S) : count(q[i]) = i - 1
  BY PlacesAreCounts
<1>3. \A k \in 1..Cardinality(S) : s[k] \in S /\ count(s[k]) = k - 1
  OBVIOUS
<1> HIDE DEF count
<1>4. ASSUME NEW k \in 1..Cardinality(S)
      PROVE  s[k] = q[k]
  <2>1. PICK i \in 1..Cardinality(S) : s[k] = q[i]
    BY <1>2, <1>3
  <2>2. i - 1 = k - 1
    BY <1>2, <1>3, <2>1
  <2>3. i = k
    BY <2>2
  <2>4. QED
    BY <2>1, <2>3
<1>5. s = q
  <2>1. s = [k \in 1..Cardinality(S) |-> s[k]] /\ q = [k \in 1..Cardinality(S) |-> q[k]]
    OBVIOUS
  <2>2. QED
    BY <1>4, <2>1
<1>6. q \in Seq(S) /\ Len(q) = Cardinality(S)
  BY <1>1
<1>7. ToSet(q) = S
  <2>1. DOMAIN q = 1..Cardinality(S) /\ \A i \in DOMAIN q : q[i] \in S
    OBVIOUS
  <2>2. ToSet(q) = {q[i] : i \in 1..Cardinality(S)}
    BY <2>1 DEF ToSet
  <2>3. QED
    BY <1>2, <2>1, <2>2
<1>8. IsInjective(q)
  BY <1>2 DEF IsInjective
<1>9. QED
  BY <1>2, <1>5, <1>6, <1>7, <1>8

(* Exactly n elements have fewer than n before them.                       *)
LEMMA FirstAreCounted ==
  ASSUME NEW S, IsFiniteSet(S), NEW before, StrictOrder(before, S),
         NEW n \in Nat, n <= Cardinality(S)
  PROVE  Cardinality({e \in S : Cardinality({f \in S : <<f, e>> \in before}) < n}) = n
<1> DEFINE count(e) == Cardinality({f \in S : <<f, e>> \in before})
<1>1. Cardinality(S) \in Nat
  BY FS_CardinalityType
<1>2. PICK q \in [1..Cardinality(S) -> S] :
        /\ \A i, j \in 1..Cardinality(S) : q[i] = q[j] => i = j
        /\ \A e \in S : \E i \in 1..Cardinality(S) : e = q[i]
        /\ \A i \in 1..Cardinality(S) : count(q[i]) = i - 1
  BY PlacesAreCounts
<1> DEFINE D == {q[i] : i \in 1..n}
<1> HIDE DEF count
<1>3. \A i \in 1..n : i \in 1..Cardinality(S)
  BY <1>1
<1>4. {e \in S : count(e) < n} = D
  <2>1. D \subseteq {e \in S : count(e) < n}
    <3> SUFFICES ASSUME NEW i \in 1..n
                 PROVE  q[i] \in S /\ count(q[i]) < n
      OBVIOUS
    <3>1. q[i] \in S /\ count(q[i]) = i - 1
      BY <1>2, <1>3
    <3>2. QED
      BY <3>1
  <2>2. ASSUME NEW e \in S, count(e) < n
        PROVE  e \in D
    <3>1. PICK i \in 1..Cardinality(S) : e = q[i]
      BY <1>2
    <3>2. i - 1 < n
      BY <1>2, <2>2, <3>1
    <3>3. i \in 1..n
      BY <1>1, <3>2
    <3>4. QED
      BY <3>1, <3>3
  <2>3. QED
    BY <2>1, <2>2
<1>5. IsFiniteSet(D) /\ Cardinality(D) = n
  <2>1. \A i, j \in 1..n : q[i] = q[j] => i = j
    BY <1>2, <1>3
  <2> DEFINE r == [i \in 1..n |-> q[i]]
  <2>2. \A i, j \in 1..n : r[i] = r[j] => i = j
    BY <2>1
  <2>3. D = {r[i] : i \in 1..n}
    OBVIOUS
  <2> HIDE DEF r, D
  <2>4. QED
    BY <2>2, <2>3, ImageCount
<1> HIDE DEF D
<1>6. QED
  BY <1>4, <1>5 DEF count
===============================================================================
