---------------------------- MODULE SelectionProofs ----------------------------
(***************************************************************************)
(* The laws of Select, and the induction they rest on.  The induction      *)
(* theorems of the library take an operator for what is to be proved, which*)
(* the provers cannot be given; here it is a set of numbers or of sequences*)
(* of which every one has to be shown to be a member.                      *)
(***************************************************************************)
EXTENDS Selection, SequencesExt, WellFoundedInduction, SequenceTheorems, TLAPS

(* Every set of numbers that is not empty has a smallest one.                *)
LEMMA Smallest ==
  ASSUME NEW N \in SUBSET Nat, N # {}
  PROVE  \E n \in N : \A m \in N : n <= m
<1> DEFINE R == OpToRel(<, Nat)
<1>1. IsWellFoundedOn(R, Nat)
  BY NatLessThanWellFounded
<1>2. \A x, y \in Nat : <<x, y>> \in R <=> x < y
  BY DEF OpToRel
<1> HIDE DEF R
<1>3. PICK n \in N : \A m \in N : ~ (<<m, n>> \in R)
  BY <1>1, WFMin
<1>4. \A m \in N : n <= m
  <2> TAKE m \in N
  <2>1. n \in Nat /\ m \in Nat /\ ~(m < n)
    BY <1>2, <1>3
  <2> QED
    BY <2>1
<1> QED
  BY <1>4

(* Every set of numbers with a bound that is not empty has a largest one.    *)
LEMMA Largest ==
  ASSUME NEW b \in Nat, NEW N \in SUBSET (0..b), N # {}
  PROVE  \E n \in N : \A m \in N : m <= n
<1> DEFINE Above == {k \in Nat : \A m \in N : m <= k}
<1>1. b \in Above
  OBVIOUS
<1>2. PICK k \in Above : \A m \in Above : k <= m
  BY <1>1, Smallest
<1>3. CASE k \in N
  BY <1>2, <1>3
<1>4. CASE k \notin N
  <2>1. PICK m \in N : TRUE
    OBVIOUS
  <2>2. m \in Nat /\ m < k
    BY <1>2, <1>4
  <2>3. k - 1 \in Above
    BY <1>2, <1>4, <2>2
  <2> QED
    BY <1>2, <2>2, <2>3
<1> QED
  BY <1>3, <1>4

(* Induction, for a set of numbers.                                          *)
LEMMA AllNumbers ==
  ASSUME NEW N \in SUBSET Nat, 0 \in N, \A n \in N : n + 1 \in N
  PROVE  \A n \in Nat : n \in N
<1> SUFFICES ASSUME Nat \ N # {} PROVE FALSE
  OBVIOUS
<1>1. PICK n \in Nat \ N : \A m \in Nat \ N : n <= m
  BY Smallest
<1>2. n # 0 /\ n - 1 \in Nat
  BY <1>1
<1>3. n - 1 \in N
  BY <1>1, <1>2
<1> QED
  BY <1>1, <1>2, <1>3

(* f and g start equal, and each next value is if the one before it is.      *)
RemainEqual(f, g, n) == f[0] = g[0] /\ \A i \in 1..n : f[i - 1] = g[i - 1] => f[i] = g[i]

(* Two functions are equal up to n if they start equal and remain so.        *)
LEMMA UpwardsEqual ==
  ASSUME NEW n \in Nat, NEW f, NEW g, RemainEqual(f, g, n)
  PROVE  f[n] = g[n]
<1> USE DEF RemainEqual
<1> DEFINE N == {i \in Nat : i <= n => f[i] = g[i]}
<1>1. 0 \in N
  OBVIOUS
<1>2. ASSUME NEW i \in N PROVE i + 1 \in N
  <2>1. i + 1 <= n => i + 1 \in 1..n /\ (i + 1) - 1 = i
    OBVIOUS
  <2> QED
    BY <2>1
<1>3. N \in SUBSET Nat
  OBVIOUS
<1> HIDE DEF N
<1>4. \A i \in Nat : i \in N
  BY <1>1, <1>2, <1>3, AllNumbers
<1> QED
  BY <1>4 DEF N

(* What follows on a value at a number, and a function that goes that way.   *)
StepsOn(V) == [V \X Nat -> V]

Follows(f, c, next) == f[0] = c /\ \A n \in Nat : f[n + 1] = next[<<f[n], n + 1>>]

(* A function that is defined by what follows on each of its values exists.  *)
LEMMA Recursion ==
  ASSUME NEW V, NEW c \in V, NEW next \in StepsOn(V)
  PROVE  \E f \in [Nat -> V] : Follows(f, c, next)
<1> USE DEF StepsOn, Follows
<1> DEFINE Upto(n) == {g \in [Nat -> V] : g[0] = c /\ \A i \in Nat : i < n => g[i + 1] = next[<<g[i], i + 1>>]}
           Found == {n \in Nat : Upto(n) # {}}
           Unique == {n \in Nat : \A g, h \in Upto(n) : g[n] = h[n]}
<1>1. \A n \in Nat : n \in Found
  <2>1. 0 \in Found
    <3>1. [i \in Nat |-> c] \in Upto(0)
      OBVIOUS
    <3> QED
      BY <3>1
  <2>2. ASSUME NEW n \in Found PROVE n + 1 \in Found
    <3>1. PICK g \in Upto(n) : TRUE
      OBVIOUS
    <3> DEFINE h == [g EXCEPT ![n + 1] = next[<<g[n], n + 1>>]]
    <3>2. g \in [Nat -> V] /\ g[0] = c /\ \A i \in Nat : i < n => g[i + 1] = next[<<g[i], i + 1>>]
      BY <3>1
    <3>3. next[<<g[n], n + 1>>] \in V
      BY <3>2
    <3>4. h \in [Nat -> V] /\ h[0] = c
      BY <3>2, <3>3
    <3>5. h[n + 1] = next[<<g[n], n + 1>>] /\ \A i \in Nat : i # n + 1 => h[i] = g[i]
      BY <3>2
    <3> HIDE DEF h
    <3>6. ASSUME NEW i \in Nat, i < n + 1 PROVE h[i + 1] = next[<<h[i], i + 1>>]
      <4>1. CASE i = n
        BY <4>1, <3>5
      <4>2. CASE i < n
        BY <4>2, <3>5, <3>2
      <4> QED
        BY <4>1, <4>2, <3>6
    <3>7. h \in Upto(n + 1)
      BY <3>4, <3>6
    <3> QED
      BY <3>7
  <2>3. Found \in SUBSET Nat
    OBVIOUS
  <2> HIDE DEF Found
  <2> QED
    BY <2>1, <2>2, <2>3, AllNumbers
<1>2. \A n \in Nat : Upto(n + 1) \subseteq Upto(n)
  OBVIOUS
<1>3. \A n \in Nat : n \in Unique
  <2>1. 0 \in Unique
    OBVIOUS
  <2>2. ASSUME NEW n \in Unique PROVE n + 1 \in Unique
    <3>1. ASSUME NEW g \in Upto(n + 1), NEW h \in Upto(n + 1) PROVE g[n + 1] = h[n + 1]
      <4>1. g \in Upto(n) /\ h \in Upto(n)
        BY <1>2
      <4>2. g[n] = h[n]
        BY <4>1
      <4>3. n < n + 1 /\ n \in Nat
        OBVIOUS
      <4>4. g[n + 1] = next[<<g[n], n + 1>>] /\ h[n + 1] = next[<<h[n], n + 1>>]
        BY <4>3
      <4> QED
        BY <4>2, <4>4
    <3> HIDE DEF Upto
    <3> QED
      BY <3>1
  <2>3. Unique \in SUBSET Nat
    OBVIOUS
  <2> HIDE DEF Unique
  <2> QED
    BY <2>1, <2>2, <2>3, AllNumbers
<1> DEFINE G(n) == CHOOSE g : g \in Upto(n)
           f == [n \in Nat |-> G(n)[n]]
<1>4. ASSUME NEW n \in Nat PROVE G(n) \in Upto(n)
  <2>1. PICK g : g \in Upto(n)
    BY <1>1
  <2> HIDE DEF Upto
  <2> QED
    BY <2>1
<1> HIDE DEF G
<1>5. ASSUME NEW n \in Nat PROVE G(n) \in [Nat -> V] /\ G(n)[0] = c
  <2>1. G(n) \in Upto(n)
    BY <1>4
  <2> QED
    BY <2>1
<1>6. f \in [Nat -> V] /\ f[0] = c
  BY <1>5
<1>7. ASSUME NEW n \in Nat PROVE f[n + 1] = next[<<f[n], n + 1>>]
  <2>1. G(n) \in Upto(n) /\ G(n + 1) \in Upto(n + 1) /\ n < n + 1
    BY <1>4
  <2>2. G(n + 1) \in Upto(n)
    BY <1>2, <2>1
  <2>3. G(n)[n] = G(n + 1)[n]
    <3> HIDE DEF Upto
    <3> QED
      BY <1>3, <2>1, <2>2
  <2>4. G(n + 1)[n + 1] = next[<<G(n + 1)[n], n + 1>>]
    BY <2>1
  <2> QED
    BY <2>3, <2>4
<1> QED
  BY <1>6, <1>7

(* Induction, for a set of sequences that are extended at their end.         *)
LEMMA AllSequences ==
  ASSUME NEW T, NEW A \in SUBSET Seq(T), <<>> \in A,
         \A s \in A, x \in T : Append(s, x) \in A
  PROVE  \A s \in Seq(T) : s \in A
<1> DEFINE N == {n \in Nat : \A s \in Seq(T) : Len(s) = n => s \in A}
<1>1. 0 \in N
  <2>1. \A s \in Seq(T) : Len(s) = 0 => s = <<>>
    OBVIOUS
  <2> QED
    BY <2>1
<1>2. ASSUME NEW n \in N PROVE n + 1 \in N
  <2> SUFFICES ASSUME NEW s \in Seq(T), Len(s) = n + 1 PROVE s \in A
    OBVIOUS
  <2>1. PICK r \in Seq(T), x \in T : s = Append(r, x)
    <3>1. s # <<>>
      OBVIOUS
    <3> QED
      BY <3>1, SequenceEmptyOrAppend
  <2>2. Len(r) = n
    BY <2>1
  <2> QED
    BY <2>1, <2>2
<1>3. N \in SUBSET Nat
  OBVIOUS
<1> HIDE DEF N
<1>4. \A n \in Nat : n \in N
  BY <1>1, <1>2, <1>3, AllNumbers
<1> QED
  BY <1>4 DEF N

(* What is in a sequence when one more is appended.                          *)
LEMMA ElementsAppend ==
  ASSUME NEW T, NEW s \in Seq(T), NEW x \in T
  PROVE  ToSet(Append(s, x)) = ToSet(s) \union {x}
<1>1. DOMAIN s = 1..Len(s) /\ DOMAIN Append(s, x) = 1..(Len(s) + 1) /\ Len(s) \in Nat
  OBVIOUS
<1>2. \A i \in 1..Len(s) : Append(s, x)[i] = s[i]
  OBVIOUS
<1>3. Append(s, x)[Len(s) + 1] = x
  OBVIOUS
<1>4. \A i \in 1..(Len(s) + 1) : i \in 1..Len(s) \/ i = Len(s) + 1
  BY <1>1
<1>5. Len(s) + 1 \in 1..(Len(s) + 1) /\ \A i \in 1..Len(s) : i \in 1..(Len(s) + 1)
  BY <1>1
<1> QED
  BY <1>1, <1>2, <1>3, <1>4, <1>5 DEF ToSet

-------------------------------------------------------------------------------
(* What the function is that Select takes its last value of.                 *)
Selects(kept, s, S) ==
  /\ kept[0] = <<>>
  /\ \A i \in 1..Len(s) :
       kept[i] = IF s[i] \in S THEN Append(kept[i - 1], s[i]) ELSE kept[i - 1]

(* Select is the last value of such a function.                              *)
LEMMA SelectUnfolds ==
  ASSUME NEW T, NEW S, NEW s \in Seq(T)
  PROVE  \E kept \in [0..Len(s) -> Seq(T)] : Selects(kept, s, S) /\ Select(s, S) = kept[Len(s)]
<1> DEFINE n == Len(s)
           Kept(g) == g = [i \in 0..n |->
                             IF i = 0 THEN <<>>
                             ELSE IF s[i] \in S THEN Append(g[i - 1], s[i]) ELSE g[i - 1]]
           next == [p \in Seq(T) \X Nat |->
                      IF p[2] \in 1..n /\ s[p[2]] \in S THEN Append(p[1], s[p[2]]) ELSE p[1]]
<1>1. n \in Nat /\ \A i \in 1..n : s[i] \in T
  OBVIOUS
<1>13. n \in Nat
  OBVIOUS
<1> HIDE DEF n
<1>2. next \in [Seq(T) \X Nat -> Seq(T)] /\ <<>> \in Seq(T)
  BY <1>1
<1>3. \A r \in Seq(T), i \in 1..n :
        next[<<r, i>>] = IF s[i] \in S THEN Append(r, s[i]) ELSE r
  OBVIOUS
<1> HIDE DEF next, Kept
<1> DEFINE V == Seq(T)
<1> HIDE DEF V
<1>14. next \in StepsOn(V) /\ <<>> \in V
  BY <1>2 DEF V, StepsOn
<1>15. \E f \in [Nat -> V] : Follows(f, <<>>, next)
  BY <1>14, Recursion
<1>4. PICK f \in [Nat -> Seq(T)] : f[0] = <<>> /\ \A i \in Nat : f[i + 1] = next[<<f[i], i + 1>>]
  BY <1>15 DEF V, Follows
<1> DEFINE g == [i \in 0..n |-> f[i]]
<1>5. ASSUME NEW i \in 1..n
      PROVE  g[i] = IF s[i] \in S THEN Append(g[i - 1], s[i]) ELSE g[i - 1]
  <2>1. i - 1 \in Nat /\ (i - 1) + 1 = i /\ i \in 0..n /\ i - 1 \in 0..n
    BY <1>13
  <2>2. f[i] = next[<<f[i - 1], i>>] /\ f[i - 1] \in Seq(T)
    BY <1>4, <2>1
  <2> QED
    BY <1>3, <2>1, <2>2
<1>6. g \in [0..n -> Seq(T)] /\ g[0] = <<>>
  BY <1>13, <1>4
<1> HIDE DEF g
<1>7. Kept(g)
  <2> USE DEF Kept
  <2>1. g = [i \in 0..n |-> g[i]]
    BY <1>6
  <2>2. \A i \in 0..n : g[i] = IF i = 0 THEN <<>>
                               ELSE IF s[i] \in S THEN Append(g[i - 1], s[i]) ELSE g[i - 1]
    <3> TAKE i \in 0..n
    <3>1. CASE i = 0
      BY <3>1, <1>6
    <3>2. CASE i # 0
      <4>1. i \in 1..n
        BY <1>13, <3>2
      <4> QED
        BY <1>5, <3>2, <4>1
    <3> QED
      BY <3>1, <3>2
  <2> QED
    BY <2>1, <2>2
<1> DEFINE k == CHOOSE h : Kept(h)
<1>8. Select(s, S) = k[n]
  BY DEF Select, n, Kept
<1>9. Kept(k)
  BY <1>7
<1> HIDE DEF k
<1>10. /\ k[0] = <<>>
       /\ \A i \in 1..n : k[i] = IF s[i] \in S THEN Append(k[i - 1], s[i]) ELSE k[i - 1]
  <2> DEFINE Value(i) == IF i = 0 THEN <<>>
                         ELSE IF s[i] \in S THEN Append(k[i - 1], s[i]) ELSE k[i - 1]
  <2>1. k = [i \in 0..n |-> Value(i)]
    BY <1>9 DEF Kept
  <2> HIDE DEF Value
  <2>2. \A i \in 0..n : k[i] = Value(i)
    BY <2>1
  <2>3. k[0] = <<>>
    BY <1>13, <2>2 DEF Value
  <2>4. ASSUME NEW i \in 1..n
        PROVE  k[i] = IF s[i] \in S THEN Append(k[i - 1], s[i]) ELSE k[i - 1]
    <3>1. i \in 0..n /\ i # 0
      BY <1>13
    <3> QED
      BY <2>2, <3>1 DEF Value
  <2> QED
    BY <2>3, <2>4
<1>11. RemainEqual(k, g, n)
  <2>1. \A i \in 1..n : k[i - 1] = g[i - 1] => k[i] = g[i]
    BY <1>5, <1>10
  <2>2. k[0] = g[0]
    BY <1>6, <1>10
  <2> QED
    BY <2>1, <2>2 DEF RemainEqual
<1>12. Select(s, S) = g[n]
  BY <1>13, <1>8, <1>11, UpwardsEqual
<1> QED
  BY <1>5, <1>6, <1>12 DEF n, Selects

(* Select returns a sequence of the same elements.                           *)
LEMMA SelectType ==
  ASSUME NEW T, NEW S, NEW s \in Seq(T)
  PROVE  Select(s, S) \in Seq(T)
<1>1. PICK kept \in [0..Len(s) -> Seq(T)] : Selects(kept, s, S) /\ Select(s, S) = kept[Len(s)]
  BY SelectUnfolds, ZenonT(60)
<1>2. Len(s) \in 0..Len(s)
  OBVIOUS
<1> QED
  BY <1>1, <1>2

(* Of no elements none is selected.                                          *)
LEMMA SelectNothing ==
  ASSUME NEW T, NEW S, NEW s \in Seq(T)
  PROVE  Len(s) = 0 => Select(s, S) = <<>>
<1>1. PICK kept \in [0..Len(s) -> Seq(T)] : Selects(kept, s, S) /\ Select(s, S) = kept[Len(s)]
  BY SelectUnfolds, ZenonT(60)
<1> QED
  BY <1>1 DEF Selects

(* The same, for the empty sequence.                                         *)
LEMMA SelectEmpty == \A S : Select(<<>>, S) = <<>>
<1>1. <<>> \in Seq({}) /\ Len(<<>>) = 0
  OBVIOUS
<1> QED
  BY <1>1, SelectNothing

(* What is appended is selected last, or not at all.                         *)
LEMMA SelectAppend ==
  ASSUME NEW T, NEW S, NEW s \in Seq(T), NEW x \in T
  PROVE  Select(Append(s, x), S) = IF x \in S THEN Append(Select(s, S), x) ELSE Select(s, S)
<1> DEFINE r == Append(s, x)
           n == Len(s)
<1>1. r \in Seq(T) /\ n \in Nat /\ Len(r) = n + 1 /\ r[n + 1] = x
  OBVIOUS
<1>2. \A i \in 1..n : i \in 1..(n + 1) /\ r[i] = s[i]
  OBVIOUS
<1> HIDE DEF r
<1>3. PICK k : Selects(k, s, S) /\ Select(s, S) = k[n]
  BY SelectUnfolds
<1>4. PICK h : Selects(h, r, S) /\ Select(r, S) = h[Len(r)]
  BY <1>1, SelectUnfolds
<1> HIDE DEF n
<1>5. RemainEqual(k, h, n)
  <2>1. k[0] = h[0]
    BY <1>3, <1>4 DEF Selects
  <2>2. ASSUME NEW i \in 1..n, k[i - 1] = h[i - 1] PROVE k[i] = h[i]
    <3>1. k[i] = IF s[i] \in S THEN Append(k[i - 1], s[i]) ELSE k[i - 1]
      BY <1>3 DEF Selects, n
    <3>2. h[i] = IF r[i] \in S THEN Append(h[i - 1], r[i]) ELSE h[i - 1]
      BY <1>1, <1>2, <1>4 DEF Selects
    <3> QED
      BY <1>2, <2>2, <3>1, <3>2
  <2> QED
    BY <2>1, <2>2 DEF RemainEqual
<1>6. k[n] = h[n]
  BY <1>1, <1>5, UpwardsEqual
<1>7. n + 1 \in 1..Len(r) /\ (n + 1) - 1 = n
  BY <1>1
<1>8. h[n + 1] = IF x \in S THEN Append(h[n], x) ELSE h[n]
  BY <1>1, <1>4, <1>7 DEF Selects
<1> QED
  BY <1>1, <1>3, <1>4, <1>6, <1>8 DEF r

(* What is selected is in both, and no longer.                               *)
LEMMA SelectSound ==
  ASSUME NEW T, NEW S, NEW s \in Seq(T)
  PROVE  /\ Select(s, S) \in Seq(T) /\ Len(Select(s, S)) <= Len(s)
         /\ ToSet(Select(s, S)) = ToSet(s) \intersect S
<1> DEFINE A == {r \in Seq(T) : Len(Select(r, S)) <= Len(r) /\ ToSet(Select(r, S)) = ToSet(r) \intersect S}
<1>1. <<>> \in A
  BY SelectEmpty DEF ToSet
<1>2. ASSUME NEW r \in A, NEW x \in T PROVE Append(r, x) \in A
  <2> DEFINE q == Select(r, S)
  <2>1. q \in Seq(T) /\ Len(q) <= Len(r) /\ ToSet(q) = ToSet(r) \intersect S
    BY SelectType
  <2>2. ToSet(Append(r, x)) = ToSet(r) \union {x} /\ ToSet(Append(q, x)) = ToSet(q) \union {x}
    BY <2>1, ElementsAppend
  <2>3. Select(Append(r, x), S) = IF x \in S THEN Append(q, x) ELSE q
    BY SelectAppend
  <2> HIDE DEF q
  <2>4. ToSet(Select(Append(r, x), S)) = ToSet(Append(r, x)) \intersect S
    BY <2>1, <2>2, <2>3
  <2>5. Len(Select(Append(r, x), S)) <= Len(Append(r, x)) /\ Append(r, x) \in Seq(T)
    BY <2>1, <2>3
  <2> QED
    BY <2>4, <2>5
<1>3. A \in SUBSET Seq(T)
  OBVIOUS
<1> HIDE DEF A
<1>4. s \in A
  BY <1>1, <1>2, <1>3, AllSequences
<1> QED
  BY <1>4, SelectType DEF A

(* What is selected of a concatenation.                                      *)
LEMMA SelectConcat ==
  ASSUME NEW T, NEW S, NEW s \in Seq(T), NEW t \in Seq(T)
  PROVE  Select(s \o t, S) = Select(s, S) \o Select(t, S)
<1> DEFINE A == {r \in Seq(T) : Select(s \o r, S) = Select(s, S) \o Select(r, S)}
<1>1. <<>> \in A
  <2>1. s \o <<>> = s /\ Select(s, S) \in Seq(T)
    BY SelectType
  <2>2. Select(s, S) \o <<>> = Select(s, S)
    BY <2>1
  <2> QED
    BY <2>1, <2>2, SelectEmpty
<1>2. ASSUME NEW r \in A, NEW x \in T PROVE Append(r, x) \in A
  <2> DEFINE u == s \o r
             p == Select(s, S)
             q == Select(r, S)
  <2>1. r \in Seq(T) /\ u \in Seq(T) /\ Select(u, S) = p \o q
    OBVIOUS
  <2>2. s \o Append(r, x) = Append(u, x)
    BY <2>1
  <2>3. p \in Seq(T) /\ q \in Seq(T)
    BY <2>1, SelectType
  <2>4. Select(Append(r, x), S) = IF x \in S THEN Append(q, x) ELSE q
    BY <2>1, SelectAppend
  <2>5. u \in Seq(T)
    BY <2>1
  <2> HIDE DEF u, p, q
  <2>6. Select(Append(u, x), S) = IF x \in S THEN Append(Select(u, S), x) ELSE Select(u, S)
    BY <2>5, SelectAppend
  <2>7. p \o Append(q, x) = Append(p \o q, x)
    BY <2>3
  <2>8. Select(Append(u, x), S) = p \o Select(Append(r, x), S)
    BY <2>1, <2>6, <2>7, <2>4
  <2>9. Append(r, x) \in Seq(T)
    BY <2>1
  <2> QED
    BY <2>2, <2>8, <2>9 DEF p
<1>3. A \in SUBSET Seq(T)
  OBVIOUS
<1> HIDE DEF A
<1>4. t \in A
  BY <1>1, <1>2, <1>3, AllSequences
<1> QED
  BY <1>4 DEF A

(* Of one element.                                                           *)
LEMMA SelectOne ==
  ASSUME NEW x, NEW S
  PROVE  Select(<<x>>, S) = IF x \in S THEN <<x>> ELSE <<>>
<1>1. <<>> \in Seq({x}) /\ <<x>> = Append(<<>>, x)
  OBVIOUS
<1>2. Select(Append(<<>>, x), S) = IF x \in S THEN Append(Select(<<>>, S), x) ELSE Select(<<>>, S)
  BY <1>1, SelectAppend, ZenonT(60)
<1> QED
  BY <1>1, <1>2, SelectEmpty

(* What is selected when the first element is taken away.                    *)
LEMMA SelectTail ==
  ASSUME NEW T, NEW S, NEW s \in Seq(T), s # <<>>
  PROVE  /\ Tail(s) \in Seq(T)
         /\ Select(Tail(s), S) \in Seq(T)
         /\ Head(s) \in S => Select(s, S) = <<Head(s)>> \o Select(Tail(s), S)
         /\ Head(s) \notin S => Select(s, S) = Select(Tail(s), S)
<1> DEFINE x == Head(s)
           t == Tail(s)
<1>1. x \in T /\ t \in Seq(T) /\ <<x>> \in Seq(T) /\ s = <<x>> \o t
  OBVIOUS
<1>2. Select(t, S) \in Seq(T)
  BY <1>1, SelectType
<1> HIDE DEF x, t
<1>3. Select(s, S) = Select(<<x>>, S) \o Select(t, S)
  BY <1>1, SelectConcat
<1>4. Select(<<x>>, S) = IF x \in S THEN <<x>> ELSE <<>>
  BY SelectOne
<1>5. <<>> \o Select(t, S) = Select(t, S)
  BY <1>2
<1>6. x \in S => Select(s, S) = <<x>> \o Select(t, S)
  BY <1>3, <1>4
<1>7. x \notin S => Select(s, S) = Select(t, S)
  BY <1>3, <1>4, <1>5
<1> QED
  BY <1>1, <1>2, <1>6, <1>7 DEF x, t

(* Everything, and nothing, is selected.                                     *)
LEMMA SelectAllOrNone ==
  ASSUME NEW T, NEW S, NEW s \in Seq(T)
  PROVE  /\ ToSet(s) \subseteq S => Select(s, S) = s
         /\ ToSet(s) \intersect S = {} => Select(s, S) = <<>>
<1> DEFINE A == {r \in Seq(T) : /\ ToSet(r) \subseteq S => Select(r, S) = r
                                /\ ToSet(r) \intersect S = {} => Select(r, S) = <<>>}
<1>1. <<>> \in A
  BY SelectEmpty
<1>2. ASSUME NEW r \in A, NEW x \in T PROVE Append(r, x) \in A
  <2>1. ToSet(Append(r, x)) = ToSet(r) \union {x} /\ Append(r, x) \in Seq(T)
    BY ElementsAppend
  <2>2. Select(Append(r, x), S) = IF x \in S THEN Append(Select(r, S), x) ELSE Select(r, S)
    BY SelectAppend
  <2> QED
    BY <2>1, <2>2
<1>3. A \in SUBSET Seq(T)
  OBVIOUS
<1> HIDE DEF A
<1>4. s \in A
  BY <1>1, <1>2, <1>3, AllSequences
<1> QED
  BY <1>4 DEF A

(* A selection from a selection.                                             *)
LEMMA SelectTwice ==
  ASSUME NEW T, NEW S, NEW R \in SUBSET S, NEW s \in Seq(T)
  PROVE  Select(Select(s, S), R) = Select(s, R)
<1> DEFINE A == {r \in Seq(T) : Select(Select(r, S), R) = Select(r, R)}
<1>1. <<>> \in A
  BY SelectEmpty
<1>2. ASSUME NEW r \in A, NEW x \in T PROVE Append(r, x) \in A
  <2> DEFINE q == Select(r, S)
  <2>1. q \in Seq(T) /\ Append(r, x) \in Seq(T) /\ Select(q, R) = Select(r, R)
    BY SelectType
  <2>2. /\ Select(Append(r, x), S) = IF x \in S THEN Append(q, x) ELSE q
        /\ Select(Append(r, x), R) = IF x \in R THEN Append(Select(r, R), x) ELSE Select(r, R)
    BY SelectAppend
  <2> HIDE DEF q
  <2>3. Select(Append(q, x), R) = IF x \in R THEN Append(Select(q, R), x) ELSE Select(q, R)
    <3>1. q \in Seq(T)
      BY <2>1
    <3> QED
      BY <3>1, SelectAppend
  <2> QED
    BY <2>1, <2>2, <2>3
<1>3. A \in SUBSET Seq(T)
  OBVIOUS
<1> HIDE DEF A
<1>4. s \in A
  BY <1>1, <1>2, <1>3, AllSequences
<1> QED
  BY <1>4 DEF A

(* One element and no other is selected, at whichever place it is.           *)
LEMMA SelectUnique ==
  ASSUME NEW T, NEW S, NEW s \in Seq(T), NEW i \in DOMAIN s, \A j \in DOMAIN s : s[j] \in S <=> j = i
  PROVE  Select(s, S) = <<s[i]>>
<1> DEFINE Only(r, k) == \A j \in DOMAIN r : r[j] \in S <=> j = k
           A == {r \in Seq(T) : \A k \in DOMAIN r : Only(r, k) => Select(r, S) = <<r[k]>>}
<1>1. <<>> \in A
  OBVIOUS
<1>2. ASSUME NEW r \in A, NEW x \in T PROVE Append(r, x) \in A
  <2> DEFINE u == Append(r, x)
  <2>1. /\ u \in Seq(T) /\ DOMAIN u = 1..(Len(r) + 1) /\ DOMAIN r = 1..Len(r) /\ Len(r) \in Nat
        /\ r \in Seq(T) /\ u[Len(r) + 1] = x /\ \A j \in DOMAIN r : u[j] = r[j] /\ j \in DOMAIN u /\ j # Len(r) + 1
    OBVIOUS
  <2>2. Select(u, S) = IF x \in S THEN Append(Select(r, S), x) ELSE Select(r, S)
    BY <2>1, SelectAppend
  <2> HIDE DEF u
  <2>3. ASSUME NEW k \in DOMAIN u, Only(u, k) PROVE Select(u, S) = <<u[k]>>
    <3>1. CASE k = Len(r) + 1
      <4>1. \A j \in DOMAIN r : r[j] \notin S
        BY <2>1, <2>3, <3>1
      <4>2. ToSet(r) \intersect S = {}
        BY <4>1 DEF ToSet
      <4>3. Select(r, S) = <<>>
        BY <2>1, <4>2, SelectAllOrNone
      <4>4. x \in S
        BY <2>1, <2>3, <3>1
      <4> QED
        BY <2>1, <2>2, <3>1, <4>3, <4>4
    <3>2. CASE k # Len(r) + 1
      <4>1. k \in DOMAIN r /\ u[k] = r[k] /\ Len(r) + 1 \in DOMAIN u
        BY <2>1, <3>2
      <4>2. x \notin S
        BY <2>1, <2>3, <3>2, <4>1
      <4>3. Only(r, k)
        BY <2>1, <2>3
      <4> QED
        BY <2>2, <4>1, <4>2, <4>3
    <3> QED
      BY <3>1, <3>2
  <2> QED
    BY <2>1, <2>3 DEF u
<1>3. A \in SUBSET Seq(T)
  OBVIOUS
<1> HIDE DEF A
<1>4. s \in A
  BY <1>1, <1>2, <1>3, AllSequences
<1> QED
  BY <1>4 DEF A

(* What is in a sequence without its first element.                          *)
LEMMA ElementsTail ==
  ASSUME NEW T, NEW s \in Seq(T), s # <<>>
  PROVE  /\ Head(s) \in T /\ Tail(s) \in Seq(T)
         /\ ToSet(s) = {Head(s)} \union ToSet(Tail(s))
         /\ \A x \in ToSet(Tail(s)) : \E i \in 2..Len(s) : s[i] = x
<1> DEFINE t == Tail(s)
<1>1. /\ Head(s) \in T /\ t \in Seq(T) /\ Len(s) \in Nat /\ DOMAIN s = 1..Len(s)
      /\ Len(s) > 0 /\ Len(t) = Len(s) - 1 /\ DOMAIN t = 1..(Len(s) - 1)
      /\ Head(s) = s[1] /\ \A i \in 1..(Len(s) - 1) : t[i] = s[i + 1]
  OBVIOUS
<1> HIDE DEF t
<1>2. \A x \in ToSet(t) : \E i \in 2..Len(s) : s[i] = x
  <2> TAKE x \in ToSet(t)
  <2>1. PICK i \in 1..(Len(s) - 1) : x = t[i]
    BY <1>1 DEF ToSet
  <2>2. i + 1 \in 2..Len(s) /\ s[i + 1] = x
    BY <1>1, <2>1
  <2> QED
    BY <2>2
<1>3. \A x \in ToSet(s) : x = Head(s) \/ x \in ToSet(t)
  <2> TAKE x \in ToSet(s)
  <2>1. PICK i \in 1..Len(s) : x = s[i]
    BY <1>1 DEF ToSet
  <2>2. CASE i # 1
    <3>1. i - 1 \in DOMAIN t /\ t[i - 1] = s[i]
      BY <1>1, <2>2
    <3> QED
      BY <2>1, <3>1 DEF ToSet
  <2> QED
    BY <1>1, <2>1, <2>2
<1>4. Head(s) \in ToSet(s) /\ \A x \in ToSet(t) : x \in ToSet(s)
  <2>1. 1 \in DOMAIN s /\ \A i \in 2..Len(s) : i \in DOMAIN s
    BY <1>1
  <2> QED
    BY <1>1, <1>2, <2>1 DEF ToSet
<1>5. ToSet(s) = {Head(s)} \union ToSet(t)
  BY <1>3, <1>4
<1> QED
  BY <1>1, <1>2, <1>5 DEF t

(* What is in a concatenation.                                               *)
LEMMA ElementsConcat ==
  ASSUME NEW T, NEW s \in Seq(T), NEW t \in Seq(T)
  PROVE  s \o t \in Seq(T) /\ ToSet(s \o t) = ToSet(s) \union ToSet(t)
<1> DEFINE u == s \o t
<1>1. /\ u \in Seq(T) /\ Len(s) \in Nat /\ Len(t) \in Nat /\ DOMAIN s = 1..Len(s) /\ DOMAIN t = 1..Len(t)
      /\ DOMAIN u = 1..(Len(s) + Len(t))
      /\ \A i \in 1..(Len(s) + Len(t)) : u[i] = IF i <= Len(s) THEN s[i] ELSE t[i - Len(s)]
  OBVIOUS
<1> HIDE DEF u
<1>2. ASSUME NEW x \in ToSet(u) PROVE x \in ToSet(s) \union ToSet(t)
  <2>1. PICK i \in 1..(Len(s) + Len(t)) : x = u[i]
    BY <1>1, <1>2 DEF ToSet
  <2>2. CASE i <= Len(s)
    BY <1>1, <2>1, <2>2 DEF ToSet
  <2>3. CASE ~(i <= Len(s))
    <3>1. i - Len(s) \in DOMAIN t
      BY <1>1, <2>1, <2>3
    <3> QED
      BY <1>1, <2>1, <2>3, <3>1 DEF ToSet
  <2> QED
    BY <2>2, <2>3
<1>3. ASSUME NEW x \in ToSet(s) PROVE x \in ToSet(u)
  <2>1. PICK i \in DOMAIN s : x = s[i]
    BY <1>3 DEF ToSet
  <2>2. i \in DOMAIN u /\ u[i] = s[i]
    BY <1>1
  <2> QED
    BY <2>1, <2>2 DEF ToSet
<1>4. ASSUME NEW x \in ToSet(t) PROVE x \in ToSet(u)
  <2>1. PICK i \in DOMAIN t : x = t[i]
    BY <1>4 DEF ToSet
  <2>2. Len(s) + i \in DOMAIN u /\ u[Len(s) + i] = t[i]
    BY <1>1
  <2> QED
    BY <2>1, <2>2 DEF ToSet
<1> QED
  BY <1>1, <1>2, <1>3, <1>4 DEF u

(* Nothing occurs twice.                                                     *)
Distinct(s) == \A i, j \in 1..Len(s) : s[i] = s[j] => i = j

(* One more element leaves all of a sequence different when it is new.       *)
LEMMA AppendDistinct ==
  ASSUME NEW T, NEW s \in Seq(T), NEW x \in T
  PROVE  Distinct(Append(s, x)) = (Distinct(s) /\ x \notin ToSet(s))
<1> DEFINE t == Append(s, x)
           n == Len(s)
<1>1. DOMAIN s = 1..n /\ Len(t) = n + 1 /\ n \in Nat
  OBVIOUS
<1>2. \A i \in 1..n : t[i] = s[i]
  OBVIOUS
<1>3. t[n + 1] = x
  OBVIOUS
<1> HIDE DEF t
<1>4. (\A i, j \in 1..(n + 1) : t[i] = t[j] => i = j)
        = ((\A i, j \in 1..n : s[i] = s[j] => i = j) /\ \A i \in 1..n : s[i] # x)
  <2>1. \A i \in 1..(n + 1) : i \in 1..n \/ i = n + 1
    BY <1>1
  <2>2. n + 1 \in 1..(n + 1) /\ \A i \in 1..n : i \in 1..(n + 1) /\ i # n + 1
    BY <1>1
  <2> HIDE DEF n
  <2> QED
    BY <1>1, <1>2, <1>3, <2>1, <2>2
<1>5. (x \notin ToSet(s)) = \A i \in 1..n : s[i] # x
  BY <1>1 DEF ToSet
<1>6. Distinct(t) = (Distinct(s) /\ x \notin ToSet(s))
  BY <1>1, <1>4, <1>5 DEF Distinct
<1> QED
  BY <1>6 DEF t

(* What is selected occurs once when it does in the whole.                   *)
LEMMA SelectDistinct ==
  ASSUME NEW T, NEW S, NEW s \in Seq(T), Distinct(s)
  PROVE  Distinct(Select(s, S))
<1> DEFINE A == {r \in Seq(T) : Distinct(r) => Distinct(Select(r, S))}
<1>1. <<>> \in A
  BY SelectEmpty DEF Distinct
<1>2. ASSUME NEW r \in A, NEW x \in T PROVE Append(r, x) \in A
  <2> DEFINE q == Select(r, S)
  <2>1. r \in Seq(T)
    OBVIOUS
  <2>2. q \in Seq(T)
    BY <2>1, SelectSound
  <2>3. /\ Append(r, x) \in Seq(T) /\ ToSet(q) = ToSet(r) \intersect S
        /\ Select(Append(r, x), S) = IF x \in S THEN Append(q, x) ELSE q
    BY <2>1, SelectSound, SelectAppend
  <2>4. Distinct(r) => Distinct(q)
    OBVIOUS
  <2> HIDE DEF q
  <2>5. Distinct(Append(r, x)) = (Distinct(r) /\ x \notin ToSet(r))
    BY <2>1, AppendDistinct
  <2>6. Distinct(Append(q, x)) = (Distinct(q) /\ x \notin ToSet(q))
    BY <2>2, AppendDistinct
  <2> QED
    BY <2>1, <2>2, <2>3, <2>4, <2>5, <2>6
<1> HIDE DEF A
<1>3. A \in SUBSET Seq(T)
  BY DEF A
<1>4. \A r \in Seq(T) : r \in A
  BY <1>1, <1>2, <1>3, AllSequences
<1> QED
  BY <1>4 DEF A


(* Only the elements of the sequence matter.                                 *)
LEMMA SelectMembers ==
  ASSUME NEW T, NEW R, NEW S, NEW s \in Seq(T), ToSet(s) \intersect R = ToSet(s) \intersect S
  PROVE  Select(s, R) = Select(s, S)
<1> DEFINE I == ToSet(s) \intersect R
           q == Select(s, R)
           r == Select(s, S)
<1>1. q \in Seq(T) /\ ToSet(q) = I
  BY SelectSound
<1>2. r \in Seq(T) /\ ToSet(r) = I
  BY SelectSound
<1>3. Select(q, I) = Select(s, I)
  <2>1. I \in SUBSET R
    OBVIOUS
  <2> HIDE DEF I
  <2> QED
    BY <2>1, SelectTwice
<1>4. Select(r, I) = Select(s, I)
  <2>1. I \in SUBSET S
    OBVIOUS
  <2> HIDE DEF I
  <2> QED
    BY <2>1, SelectTwice
<1> HIDE DEF q, r, I
<1>5. q \in Seq(T) /\ r \in Seq(T)
  BY <1>1, <1>2
<1>6. Select(q, I) = q /\ Select(r, I) = r
  BY <1>1, <1>2, <1>5, SelectAllOrNone
<1>7. q = r
  BY <1>3, <1>4, <1>6
<1> QED
  BY <1>7 DEF q, r
===============================================================================
