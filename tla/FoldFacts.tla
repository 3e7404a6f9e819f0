------------------------------ MODULE FoldFacts ------------------------------
(* Induction on a set of numbers, and what the folds of the community modules *)
(* compute: for a step given as a function, the recursion that FoldLeft       *)
(* unfolds to has a solution on the subsets of the positions.                 *)
EXTENDS Integers, Sequences, SequenceTheorems, WellFoundedInduction, TLAPS

LessThan == {p \in Nat \X Nat : p[1] < p[2]}

LEMMA LessThanWF == IsWellFoundedOn(LessThan, Nat)
BY NatLessThanWellFounded, Zenon DEF OpToRel, LessThan

LEMMA SetInduction ==
  ASSUME NEW S, 0 \in S, \A n \in Nat : n \in S => n + 1 \in S
  PROVE  Nat \subseteq S
<1> DEFINE T == Nat \ S
<1> SUFFICES ASSUME T # {} PROVE FALSE
  OBVIOUS
<1>1. PICK x \in T : \A y \in T : ~(<<y, x>> \in LessThan)
  <2>1. T \subseteq Nat
    OBVIOUS
  <2> HIDE DEF T
  <2>2. QED
    BY <2>1, WFMin, LessThanWF
<1>2. x \in Nat \ {0} /\ x - 1 \in Nat /\ (x - 1) + 1 = x
  OBVIOUS
<1>3. x - 1 \in T
  BY <1>2
<1>4. <<x - 1, x>> \in LessThan
  BY <1>2 DEF LessThan
<1>5. QED
  BY <1>1, <1>3, <1>4

\* The same up to a bound.
LEMMA BoundedInduction ==
  ASSUME NEW n \in Nat, NEW S, 0 \in S, \A i \in 0..(n - 1) : i \in S => i + 1 \in S
  PROVE  0..n \subseteq S
<1> DEFINE U == {i \in Nat : i \in S \/ i > n}
<1>1. 0 \in U
  OBVIOUS
<1>2. ASSUME NEW i \in Nat, i \in U PROVE i + 1 \in U
  <2>1. CASE i > n
    BY <2>1
  <2>2. CASE i = n
    BY <2>2
  <2>3. CASE i < n
    <3>1. i \in S /\ i \in 0..(n - 1)
      BY <1>2, <2>3
    <3>2. QED
      BY <3>1
  <2>4. QED
    BY <2>1, <2>2, <2>3
<1> HIDE DEF U
<1>3. Nat \subseteq U
  BY <1>1, <1>2, SetInduction
<1>4. QED
  BY <1>3 DEF U

\* The largest of a set of numbers, as the folds choose it.
Top(s) == CHOOSE x \in s : \A y \in s : x >= y

LEMMA TopOfInterval ==
  ASSUME NEW i \in Nat \ {0}
  PROVE  Top(1..i) = i /\ 1..i # {} /\ (1..i) \ {i} = 1..(i - 1)
<1>1. i \in 1..i /\ \A y \in 1..i : i >= y
  OBVIOUS
<1>2. ASSUME NEW x \in 1..i, \A y \in 1..i : x >= y PROVE x = i
  BY <1>1, <1>2
<1>3. Top(1..i) = i
  BY <1>1, <1>2 DEF Top
<1>4. QED
  BY <1>1, <1>3

LEMMA TopWithNew ==
  ASSUME NEW m \in Nat, NEW s \in SUBSET (1..(m + 1)), m + 1 \in s
  PROVE  Top(s) = m + 1 /\ s \ {m + 1} \in SUBSET (1..m) /\ \A y \in s : Top(s) >= y
<1>1. \A y \in s : m + 1 >= y
  OBVIOUS
<1>2. ASSUME NEW x \in s, \A y \in s : x >= y PROVE x = m + 1
  BY <1>1, <1>2
<1>3. Top(s) = m + 1
  BY <1>1, <1>2 DEF Top
<1>4. s \ {m + 1} \in SUBSET (1..m)
  OBVIOUS
<1>5. QED
  BY <1>1, <1>3, <1>4

LEMMA TopIn ==
  ASSUME NEW n \in Nat, NEW s \in SUBSET (1..n), s # {}
  PROVE  Top(s) \in s /\ \A y \in s : Top(s) >= y
<1> DEFINE P == {m \in Nat : \A u \in SUBSET (1..m) : u # {} => Top(u) \in u /\ \A y \in u : Top(u) >= y}
<1>1. 0 \in P
  <2>1. 1..0 = {}
    OBVIOUS
  <2>2. QED
    BY <2>1
<1>2. ASSUME NEW m \in 0..(n - 1), m \in P PROVE m + 1 \in P
  <2>1. m \in Nat /\ m + 1 \in Nat
    OBVIOUS
  <2>2. ASSUME NEW u \in SUBSET (1..(m + 1)), u # {}
        PROVE  Top(u) \in u /\ \A y \in u : Top(u) >= y
    <3>1. CASE m + 1 \in u
      BY <2>1, <3>1, TopWithNew
    <3>2. CASE m + 1 \notin u
      <4>1. u \in SUBSET (1..m)
        BY <2>1, <3>2
      <4>2. QED
        BY <1>2, <2>2, <4>1
    <3>3. QED
      BY <3>1, <3>2
  <2>3. QED
    BY <2>1, <2>2
<1> HIDE DEF P
<1>3. 0..n \subseteq P
  BY <1>1, <1>2, BoundedInduction
<1>4. n \in P
  BY <1>3
<1>5. QED
  BY <1>4 DEF P

\* g is the recursion of FoldLeft on the subsets of 1..n, its step a function.
Iterates(g, S, b, st, n, q) ==
  /\ g \in [SUBSET (1..n) -> S]
  /\ \A s \in SUBSET (1..n) : g[s] = IF s = {} THEN b ELSE st[<<g[s \ {Top(s)}], q[Top(s)]>>]

LEMMA FoldIter ==
  ASSUME NEW S, NEW T, NEW b \in S, NEW st \in [S \X T -> S], NEW n \in Nat,
         NEW q \in [1..n -> T]
  PROVE  \E g : Iterates(g, S, b, st, n, q)
<1> DEFINE Solves(g, m) == /\ g \in [SUBSET (1..m) -> S]
                           /\ \A s \in SUBSET (1..m) :
                                g[s] = IF s = {} THEN b ELSE st[<<g[s \ {Top(s)}], q[Top(s)]>>]
           P == {m \in Nat : \E g : Solves(g, m)}
<1>1. 0 \in P
  <2>1. 1..0 = {} /\ SUBSET (1..0) = {{}}
    OBVIOUS
  <2>2. Solves([s \in SUBSET (1..0) |-> b], 0)
    BY <2>1
  <2>3. QED
    BY <2>2
<1>2. ASSUME NEW m \in 0..(n - 1), m \in P PROVE m + 1 \in P
  <2>1. PICK g : Solves(g, m)
    BY <1>2
  <2> DEFINE k == m + 1
             h == [s \in SUBSET (1..k) |->
                     IF k \in s THEN st[<<g[s \ {k}], q[k]>>] ELSE g[s]]
  <2>2. m \in Nat /\ k \in 1..n /\ q[k] \in T
    OBVIOUS
  <2>3. ASSUME NEW s \in SUBSET (1..k), k \in s
        PROVE  Top(s) = k /\ s \ {k} \in SUBSET (1..m) /\ s # {} /\ k \notin s \ {k}
    BY <2>2, <2>3, TopWithNew
  <2>4. ASSUME NEW s \in SUBSET (1..k), k \notin s PROVE s \in SUBSET (1..m)
    BY <2>2, <2>4
  <2>5. ASSUME NEW s \in SUBSET (1..m) PROVE s \in SUBSET (1..k) /\ k \notin s /\ h[s] = g[s]
    BY <2>2
  <2> HIDE DEF k
  <2>6. h \in [SUBSET (1..k) -> S]
    <3> SUFFICES ASSUME NEW s \in SUBSET (1..k) PROVE h[s] \in S
      BY Zenon
    <3>1. CASE k \in s
      <4>1. g[s \ {k}] \in S
        BY <2>1, <2>3, <3>1
      <4>2. QED
        BY <2>2, <3>1, <4>1
    <3>2. CASE k \notin s
      BY <2>1, <2>4, <3>2
    <3>3. QED
      BY <3>1, <3>2
  <2>7. ASSUME NEW s \in SUBSET (1..k)
        PROVE  h[s] = IF s = {} THEN b ELSE st[<<h[s \ {Top(s)}], q[Top(s)]>>]
    <3>1. CASE k \in s
      <4>1. h[s] = st[<<g[s \ {k}], q[k]>>]
        BY <3>1
      <4>2. h[s \ {k}] = g[s \ {k}]
        BY <2>3, <2>5, <3>1
      <4> HIDE DEF h
      <4>3. QED
        BY <2>3, <3>1, <4>1, <4>2
    <3>2. CASE k \notin s
      <4>1. h[s] = g[s] /\ s \in SUBSET (1..m)
        BY <2>4, <3>2
      <4>2. g[s] = IF s = {} THEN b ELSE st[<<g[s \ {Top(s)}], q[Top(s)]>>]
        BY <2>1, <4>1
      <4>3. s \ {Top(s)} \in SUBSET (1..m)
        BY <4>1
      <4>4. h[s \ {Top(s)}] = g[s \ {Top(s)}]
        BY <2>5, <4>3
      <4> HIDE DEF h
      <4>5. QED
        BY <4>1, <4>2, <4>4
    <3>3. QED
      BY <3>1, <3>2
  <2> HIDE DEF h
  <2>8. Solves(h, k)
    BY <2>6, <2>7
  <2> HIDE DEF Solves
  <2>9. k \in P
    BY <2>2, <2>8
  <2>10. QED
    BY <2>9 DEF k
<1> HIDE DEF P
<1>3. 0..n \subseteq P
  BY <1>1, <1>2, BoundedInduction
<1>4. n \in P
  BY <1>3
<1>5. PICK g : Solves(g, n)
  BY <1>4 DEF P
<1>6. QED
  BY <1>5 DEF Iterates

=============================================================================
