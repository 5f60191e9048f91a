-------------------------- MODULE ManagedSocketProofs --------------------------
(***************************************************************************)
(* Proofs about ManagedSocket for every limit, timeout and chunk size.     *)
(* IInv ties together the outstanding write, lastWrite, the queue and the  *)
(* state of the stream.  Shape and Held say what is in the queue: pieces   *)
(* of one interval of byte numbers, which the erasing and cutting of       *)
(* completeWrite keep an interval.  On these the refinement of ByteStream  *)
(* rests.                                                                  *)
(***************************************************************************)
EXTENDS ManagedSocket, SelectionProofs

(***************************************************************************)
(* The queue.  Its buffers are pieces of one interval of byte numbers, in  *)
(* order and without a gap: what was accepted and not sent.                *)
(***************************************************************************)
Pieces == [first : Nat, size : Nat \ {0}]

\* the last byte of the first k buffers, a being the one before the queue
End(q, a, k) == IF k = 0 THEN a ELSE q[k].first + q[k].size - 1

Joined(q, a, b) ==
  /\ q \in Seq(Pieces)
  /\ \A k \in 1..Len(q) : q[k].first = End(q, a, k - 1) + 1
  /\ End(q, a, Len(q)) = b

(* What a piece of the queue starts and ends with.                           *)
LEMMA PieceEnds ==
  ASSUME NEW q, NEW a \in Nat, NEW b, Joined(q, a, b)
  PROVE  /\ q \in Seq(Pieces) /\ Len(q) \in Nat /\ DOMAIN q = 1..Len(q)
         /\ End(q, a, 0) = a /\ End(q, a, Len(q)) = b
         /\ \A k \in 1..Len(q) :
              /\ q[k] \in Pieces /\ q[k].first \in Nat /\ q[k].size \in Nat \ {0}
              /\ q[k].first = End(q, a, k - 1) + 1
              /\ End(q, a, k) = q[k].first + q[k].size - 1
<1>1. q \in Seq(Pieces) /\ Len(q) \in Nat /\ DOMAIN q = 1..Len(q) /\ \A k \in 1..Len(q) : q[k] \in Pieces
  BY DEF Joined
<1>2. \A p \in Pieces : p.first \in Nat /\ p.size \in Nat \ {0}
  BY DEF Pieces
<1>3. End(q, a, 0) = a /\ \A k \in 1..Len(q) : End(q, a, k) = q[k].first + q[k].size - 1
  BY <1>1 DEF End
<1>4. End(q, a, Len(q)) = b /\ \A k \in 1..Len(q) : q[k].first = End(q, a, k - 1) + 1
  BY DEF Joined
<1> QED
  BY <1>1, <1>2, <1>3, <1>4

(* Each piece takes the end further.                                         *)
LEMMA EndsGrow ==
  ASSUME NEW q, NEW a \in Nat, NEW b, Joined(q, a, b)
  PROVE  /\ \A k \in 0..Len(q) : End(q, a, k) \in Nat
         /\ \A j, k \in 0..Len(q) : j <= k => End(q, a, j) + (k - j) <= End(q, a, k)
         /\ \A k \in 1..Len(q) : End(q, a, k) = End(q, a, k - 1) + q[k].size
<1>11. \A k \in 1..Len(q) :
         /\ q[k] \in Pieces /\ q[k].first \in Nat /\ q[k].size \in Nat \ {0}
         /\ q[k].first = End(q, a, k - 1) + 1
         /\ End(q, a, k) = q[k].first + q[k].size - 1
  BY PieceEnds
<1> DEFINE n == Len(q)
           e(k) == End(q, a, k)
<1>1. n \in Nat /\ e(0) = a
  BY PieceEnds
<1>2. ASSUME NEW k \in 1..n PROVE e(k - 1) \in Nat => e(k) \in Nat /\ e(k) = e(k - 1) + q[k].size /\ e(k) > e(k - 1)
  <2>1. /\ q[k].first \in Nat /\ q[k].size \in Nat \ {0} /\ q[k].first = e(k - 1) + 1
        /\ e(k) = q[k].first + q[k].size - 1
    BY <1>11
  <2> DEFINE x == q[k].size
             y == e(k - 1)
  <2>2. x \in Nat \ {0} /\ e(k) = (y + 1) + x - 1
    BY <2>1
  <2> HIDE DEF e, x, y
  <2>3. y \in Nat => e(k) \in Nat /\ e(k) = y + x /\ e(k) > y
    BY <2>2
  <2> QED
    BY <2>3 DEF x, y
<1> HIDE DEF n, e
<1> DEFINE Good(k) == e(k) \in Nat /\ \A j \in 0..k : e(j) \in Nat /\ e(j) + (k - j) <= e(k)
           N == {k \in Nat : k <= n => Good(k)}
<1>3. 0 \in N
  BY <1>1
<1>4. ASSUME NEW k \in N PROVE k + 1 \in N
  <2> SUFFICES ASSUME k + 1 <= n PROVE Good(k + 1)
    BY <1>1
  <2>1. Good(k) /\ k + 1 \in 1..n /\ (k + 1) - 1 = k
    BY <1>1
  <2>2. e(k) \in Nat /\ e(k + 1) \in Nat /\ e(k + 1) > e(k)
    BY <1>2, <2>1
  <2>3. ASSUME NEW j \in 0..(k + 1) PROVE e(j) \in Nat /\ e(j) + (k + 1 - j) <= e(k + 1)
    <3>1. CASE j = k + 1
      BY <2>2, <3>1
    <3>2. CASE j # k + 1
      <4>1. j \in 0..k
        BY <3>2
      <4> QED
        BY <2>1, <2>2, <4>1
    <3> QED
      BY <3>1, <3>2
  <2> QED
    BY <2>2, <2>3
<1>5. N \in SUBSET Nat
  OBVIOUS
<1> HIDE DEF N
<1>6. \A k \in Nat : k \in N
  BY <1>3, <1>4, <1>5, AllNumbers
<1>7. \A k \in 0..n : Good(k)
  BY <1>1, <1>6 DEF N
<1>8. \A k \in 1..n : e(k) = e(k - 1) + q[k].size
  <2> TAKE k \in 1..n
  <2>1. k - 1 \in 0..n
    BY <1>1
  <2> QED
    BY <1>2, <1>7, <2>1
<1> HIDE DEF Good
<1>9. \A k \in 0..n : e(k) \in Nat /\ \A j \in 0..k : e(j) + (k - j) <= e(k)
  BY <1>7 DEF Good
<1>10. \A j, k \in 0..n : j <= k => e(j) + (k - j) <= e(k)
  BY <1>1, <1>9
<1> QED
  BY <1>8, <1>9, <1>10 DEF n, e

(* The sum of the sizes is what the interval holds.                          *)
LEMMA SumIs ==
  ASSUME NEW q, NEW a \in Nat, NEW b, Joined(q, a, b)
  PROVE  Sum(q) = b - a
<1> DEFINE n == Len(q)
           Upto(g) == g = [i \in 0..n |-> IF i = 0 THEN 0 ELSE g[i - 1] + q[i].size]
           h == [i \in 0..n |-> End(q, a, i) - a]
           f == CHOOSE g : Upto(g)
<1>1. n \in Nat /\ n \in 0..n
  BY PieceEnds
<1>2. h[0] = 0 /\ \A i \in 1..n : h[i] = h[i - 1] + q[i].size
  <2>1. h[0] = 0
    BY <1>1, PieceEnds
  <2>2. ASSUME NEW i \in 1..n PROVE h[i] = h[i - 1] + q[i].size
    <3>1. i \in 0..n /\ i - 1 \in 0..n
      BY <1>1
    <3>2. End(q, a, i) = End(q, a, i - 1) + q[i].size /\ End(q, a, i - 1) \in Nat /\ q[i].size \in Nat
      BY <3>1, EndsGrow, PieceEnds
    <3> QED
      BY <3>1, <3>2
  <2> QED
    BY <2>1, <2>2
<1>3. h[n] = b - a
  BY <1>1, PieceEnds
<1>4. h = [i \in 0..n |-> h[i]]
  OBVIOUS
<1>5. Sum(q) = f[n]
  BY DEF Sum
<1> HIDE DEF h, n
<1>6. Upto(h)
  <2>1. \A i \in 0..n : h[i] = IF i = 0 THEN 0 ELSE h[i - 1] + q[i].size
    <3> TAKE i \in 0..n
    <3>1. CASE i = 0
      BY <1>2, <3>1
    <3>2. CASE i # 0
      <4>1. i \in 1..n
        BY <1>1, <3>2
      <4> QED
        BY <1>2, <3>2, <4>1
    <3> QED
      BY <3>1, <3>2
  <2> QED
    BY <1>4, <2>1
<1> HIDE DEF Upto
<1>7. Upto(f)
  BY <1>6
<1> HIDE DEF f
<1>8. f[0] = 0 /\ \A i \in 1..n : f[i] = f[i - 1] + q[i].size
  <2> DEFINE Value(i) == IF i = 0 THEN 0 ELSE f[i - 1] + q[i].size
  <2>1. f = [i \in 0..n |-> Value(i)]
    BY <1>7 DEF Upto
  <2> HIDE DEF Value
  <2>2. \A i \in 0..n : f[i] = Value(i)
    BY <2>1
  <2>3. f[0] = 0
    BY <1>1, <2>2 DEF Value
  <2>4. ASSUME NEW i \in 1..n PROVE f[i] = f[i - 1] + q[i].size
    <3>1. i \in 0..n /\ i # 0
      BY <1>1
    <3> QED
      BY <2>2, <3>1 DEF Value
  <2> QED
    BY <2>3, <2>4
<1>9. RemainEqual(f, h, n)
  BY <1>2, <1>8 DEF RemainEqual
<1>10. f[n] = h[n]
  BY <1>1, <1>9, UpwardsEqual
<1> QED
  BY <1>3, <1>5, <1>10

(* The same for the sum of the first buffers.                                *)
LEMMA JoinedFirst ==
  ASSUME NEW q, NEW a \in Nat, NEW b, Joined(q, a, b), NEW k \in 0..Len(q)
  PROVE  Joined(SubSeq(q, 1, k), a, End(q, a, k)) /\ Sum(SubSeq(q, 1, k)) = End(q, a, k) - a
<1> DEFINE r == SubSeq(q, 1, k)
<1>1. q \in Seq(Pieces) /\ Len(q) \in Nat
  BY PieceEnds
<1>2. r \in Seq(Pieces) /\ Len(r) = k /\ \A i \in 1..k : r[i] = q[i]
  BY <1>1
<1> HIDE DEF r
<1>3. \A i \in 0..k : End(r, a, i) = End(q, a, i)
  BY <1>1, <1>2 DEF End
<1>4. \A i \in 1..k : i \in 1..Len(q) /\ i - 1 \in 0..k
  BY <1>1
<1>5. \A i \in 1..k : r[i].first = End(r, a, i - 1) + 1
  BY <1>2, <1>3, <1>4, PieceEnds, SMTT(40)
<1>6. End(r, a, k) = End(q, a, k)
  BY <1>3
<1>7. Joined(r, a, End(q, a, k))
  BY <1>2, <1>5, <1>6 DEF Joined
<1> QED
  BY <1>7, SumIs DEF r

(* The queue after its first buffers.                                        *)
LEMMA JoinedRest ==
  ASSUME NEW q, NEW a \in Nat, NEW b, Joined(q, a, b), NEW k \in 0..Len(q)
  PROVE  Joined(SubSeq(q, k + 1, Len(q)), End(q, a, k), b)
<1>0. /\ q \in Seq(Pieces) /\ Len(q) \in Nat /\ DOMAIN q = 1..Len(q)
      /\ End(q, a, 0) = a /\ End(q, a, Len(q)) = b
      /\ \A i \in 1..Len(q) :
           /\ q[i] \in Pieces /\ q[i].first \in Nat /\ q[i].size \in Nat \ {0}
           /\ q[i].first = End(q, a, i - 1) + 1
           /\ End(q, a, i) = q[i].first + q[i].size - 1
  BY PieceEnds
<1> DEFINE r == SubSeq(q, k + 1, Len(q))
           n == Len(q)
           c == End(q, a, k)
<1>1. q \in Seq(Pieces) /\ n \in Nat
  BY PieceEnds
<1>2. r \in Seq(Pieces) /\ Len(r) = n - k /\ \A i \in 1..(n - k) : r[i] = q[i + k]
  BY <1>1
<1> HIDE DEF r
<1>3. \A i \in 0..(n - k) : End(r, c, i) = End(q, a, i + k)
  BY <1>1, <1>2 DEF End
<1>4. ASSUME NEW i \in 1..(n - k) PROVE r[i].first = End(r, c, i - 1) + 1
  <2>1. i + k \in 1..n /\ i - 1 \in 0..(n - k) /\ (i - 1) + k = (i + k) - 1
    BY <1>1
  <2>2. q[i + k].first = End(q, a, (i + k) - 1) + 1
    BY <1>0, <2>1
  <2> QED
    BY <1>2, <1>3, <2>1, <2>2
<1>5. End(r, c, n - k) = b
  <2>1. n - k \in 0..(n - k) /\ (n - k) + k = n
    BY <1>1
  <2> QED
    BY <1>3, <2>1, PieceEnds
<1> QED
  BY <1>2, <1>4, <1>5 DEF Joined, r, c, n

(* The queue with one more buffer.                                           *)
LEMMA JoinedAppend ==
  ASSUME NEW q, NEW a \in Nat, NEW b \in Nat, Joined(q, a, b), NEW size \in Nat \ {0}
  PROVE  Joined(Append(q, [first |-> b + 1, size |-> size]), a, b + size)
<1>0. /\ q \in Seq(Pieces) /\ Len(q) \in Nat /\ DOMAIN q = 1..Len(q)
      /\ End(q, a, 0) = a /\ End(q, a, Len(q)) = b
      /\ \A i \in 1..Len(q) :
           /\ q[i] \in Pieces /\ q[i].first \in Nat /\ q[i].size \in Nat \ {0}
           /\ q[i].first = End(q, a, i - 1) + 1
           /\ End(q, a, i) = q[i].first + q[i].size - 1
  BY PieceEnds
<1> DEFINE p == [first |-> b + 1, size |-> size]
           n == Len(q)
           r == Append(q, p)
<1>1. q \in Seq(Pieces) /\ n \in Nat
  BY PieceEnds
<1>2. p \in Pieces /\ p.first = b + 1 /\ p.size = size
  BY DEF Pieces
<1> HIDE DEF p
<1>3. r \in Seq(Pieces) /\ Len(r) = n + 1 /\ r[n + 1] = p /\ \A i \in 1..n : r[i] = q[i]
  BY <1>1, <1>2
<1> HIDE DEF r
<1>4. \A i \in 0..n : End(r, a, i) = End(q, a, i)
  BY <1>1, <1>3 DEF End
<1>5. ASSUME NEW i \in 1..(n + 1) PROVE r[i].first = End(r, a, i - 1) + 1
  <2>1. CASE i = n + 1
    <3>1. End(r, a, n) = b
      BY <1>1, <1>4, PieceEnds
    <3> QED
      BY <1>1, <1>2, <1>3, <2>1, <3>1
  <2>2. CASE i # n + 1
    <3>1. i \in 1..n /\ i - 1 \in 0..n
      BY <1>1, <2>2
    <3>2. q[i].first = End(q, a, i - 1) + 1
      BY <1>0, <3>1
    <3> QED
      BY <1>3, <1>4, <3>1, <3>2
  <2> QED
    BY <2>1, <2>2
<1>6. End(r, a, n + 1) = b + size
  <2>1. n + 1 # 0 /\ End(r, a, n + 1) = p.first + p.size - 1
    BY <1>1, <1>3 DEF End
  <2>2. p.first + p.size - 1 = b + size
    BY <1>2
  <2> QED
    BY <2>1, <2>2
<1> QED
  BY <1>3, <1>5, <1>6 DEF Joined, r, p

(* The queue of which the first buffer is cut.                               *)
LEMMA JoinedCut ==
  ASSUME NEW q, NEW a \in Nat, NEW b, Joined(q, a, b), q # <<>>,
         NEW cut \in Nat, cut < Head(q).size
  PROVE  Joined(<<[first |-> Head(q).first + cut, size |-> Head(q).size - cut]>> \o Tail(q), a + cut, b)
<1>0. /\ q \in Seq(Pieces) /\ Len(q) \in Nat /\ DOMAIN q = 1..Len(q)
      /\ End(q, a, 0) = a /\ End(q, a, Len(q)) = b
      /\ \A i \in 1..Len(q) :
           /\ q[i] \in Pieces /\ q[i].first \in Nat /\ q[i].size \in Nat \ {0}
           /\ q[i].first = End(q, a, i - 1) + 1
           /\ End(q, a, i) = q[i].first + q[i].size - 1
  BY PieceEnds
<1> DEFINE p == [first |-> Head(q).first + cut, size |-> Head(q).size - cut]
           n == Len(q)
           r == <<p>> \o Tail(q)
<1>8. q \in Seq(Pieces)
  BY <1>0
<1>9. n \in Nat \ {0} /\ Head(q) = q[1]
  BY <1>8
<1>1. q \in Seq(Pieces) /\ n \in Nat \ {0} /\ 1 \in 1..n
  BY <1>8, <1>9
<1>2. /\ Head(q) = q[1] /\ q[1].first = a + 1 /\ q[1].size \in Nat \ {0}
      /\ End(q, a, 1) = q[1].first + q[1].size - 1
  BY <1>0, <1>1, <1>9
<1>3. p \in Pieces /\ p.first = a + cut + 1 /\ p.size = q[1].size - cut
  BY <1>2, SMTT(40) DEF Pieces
<1> HIDE DEF p
<1>4. r \in Seq(Pieces) /\ Len(r) = n /\ r[1] = p /\ \A i \in 2..n : r[i] = q[i]
  BY <1>1, <1>3
<1> HIDE DEF r
<1>5. \A i \in 1..n : End(r, a + cut, i) = End(q, a, i)
  <2> TAKE i \in 1..n
  <2>1. CASE i = 1
    <3>1. End(r, a + cut, 1) = p.first + p.size - 1
      BY <1>4 DEF End
    <3>2. p.first + p.size - 1 = q[1].first + q[1].size - 1
      <4> DEFINE x == q[1].size
      <4>1. x \in Nat /\ q[1].first = a + 1 /\ p.first = a + cut + 1 /\ p.size = x - cut
        BY <1>2, <1>3
      <4> HIDE DEF x
      <4>2. p.first + p.size - 1 = a + x /\ (a + 1) + x - 1 = a + x
        BY <4>1
      <4> QED
        BY <4>1, <4>2 DEF x
    <3>3. End(r, a + cut, 1) = End(q, a, 1)
      BY <1>2, <3>1, <3>2
    <3> QED
      BY <2>1, <3>3
  <2>2. CASE i # 1
    BY <1>1, <1>4, <2>2 DEF End
  <2> QED
    BY <2>1, <2>2
<1>6. ASSUME NEW i \in 1..n PROVE r[i].first = End(r, a + cut, i - 1) + 1
  <2>1. CASE i = 1
    BY <1>3, <1>4, <2>1 DEF End
  <2>2. CASE i # 1
    <3>1. i \in 2..n /\ i - 1 \in 1..n
      BY <1>1, <2>2
    <3>2. q[i].first = End(q, a, i - 1) + 1
      BY <1>0, <3>1
    <3> QED
      BY <1>4, <1>5, <3>1, <3>2
  <2> QED
    BY <2>1, <2>2
<1>7. End(r, a + cut, n) = b
  <2>1. n \in 1..n
    BY <1>1
  <2> QED
    BY <1>5, <2>1, PieceEnds
<1> QED
  BY <1>4, <1>6, <1>7 DEF Joined, r, p

(* The queue is empty when nothing is waiting.                               *)
LEMMA JoinedEmpty ==
  ASSUME NEW q, NEW a \in Nat, NEW b, Joined(q, a, b)
  PROVE  b \in Nat /\ a <= b /\ (q = <<>> <=> a = b)
<1> DEFINE n == Len(q)
<1>1. n \in Nat /\ q \in Seq(Pieces) /\ End(q, a, 0) = a /\ End(q, a, n) = b
  BY PieceEnds
<1>2. End(q, a, n) \in Nat /\ End(q, a, 0) + (n - 0) <= End(q, a, n)
  BY <1>1, EndsGrow
<1>3. q = <<>> <=> n = 0
  BY <1>1
<1> HIDE DEF n
<1>4. b \in Nat /\ a + n <= b /\ (n = 0 => a = b)
  BY <1>1, <1>2
<1> QED
  BY <1>1, <1>3, <1>4

(* Max and Min of FiniteSetsExt, on numbers.                                 *)
LEMMA MaxIs ==
  ASSUME NEW n \in Nat, NEW K \in SUBSET (0..n), K # {}
  PROVE  Max(K) \in K /\ \A k \in K : k <= Max(K)
<1>1. \E m \in K : \A k \in K : m >= k
  BY Largest
<1>2. Max(K) \in K /\ \A k \in K : Max(K) >= k
  BY <1>1 DEF Max
<1> QED
  BY <1>2

LEMMA MinIs ==
  ASSUME NEW x \in Nat, NEW y \in Nat
  PROVE  Min({x, y}) = IF x <= y THEN x ELSE y
<1>1. \E m \in {x, y} : \A k \in {x, y} : m =< k
  OBVIOUS
<1>2. Min({x, y}) \in {x, y} /\ \A k \in {x, y} : Min({x, y}) =< k
  BY <1>1 DEF Min
<1> DEFINE m == Min({x, y})
<1> HIDE DEF m
<1>3. m \in {x, y} /\ m <= x /\ m <= y
  BY <1>2 DEF m
<1> QED
  BY <1>3 DEF m

(* What is left when bytes were written: the interval from there on.         *)
LEMMA Consumed ==
  ASSUME NEW q, NEW a \in Nat, NEW b, Joined(q, a, b), NEW bytes \in Nat, a + bytes <= b
  PROVE  Joined(Consume(q, bytes), a + bytes, b)
<1> DEFINE n == Len(q)
           e(k) == End(q, a, k)
           K == {k \in 0..n : Sum(SubSeq(q, 1, k)) <= bytes}
           gone == Max(K)
           rest == SubSeq(q, gone + 1, n)
           cut == bytes - Sum(SubSeq(q, 1, gone))
           left == <<[first |-> Head(rest).first + cut, size |-> Head(rest).size - cut]>> \o Tail(rest)
<1>1. n \in Nat /\ b \in Nat /\ e(0) = a /\ e(n) = b
  BY PieceEnds, JoinedEmpty
<1>2. \A k \in 0..n : Sum(SubSeq(q, 1, k)) = e(k) - a
  BY JoinedFirst
<1>3. \A k \in 0..n : e(k) \in Nat /\ e(0) <= e(k)
  <2> TAKE k \in 0..n
  <2>1. \A i \in 0..n : e(i) \in Nat
    BY EndsGrow
  <2>2. \A i, j \in 0..n : i <= j => e(i) + (j - i) <= e(j)
    BY EndsGrow
  <2>3. 0 \in 0..n /\ 0 <= k
    BY <1>1
  <2> HIDE DEF e
  <2>4. e(0) + (k - 0) <= e(k) /\ e(0) \in Nat /\ e(k) \in Nat
    BY <2>1, <2>2, <2>3
  <2> QED
    BY <2>3, <2>4
<1>4. Consume(q, bytes) = IF cut = 0 THEN rest ELSE left
  BY DEF Consume
<1>5. 0 \in K /\ K \in SUBSET (0..n) /\ \A k \in 0..n : k \in K <=> e(k) - a <= bytes
  BY <1>1, <1>2
<1> HIDE DEF K
<1>6. gone \in K /\ \A k \in K : k <= gone
  BY <1>1, <1>5, MaxIs
<1>7. gone \in 0..n /\ e(gone) - a <= bytes
  BY <1>5, <1>6
<1> HIDE DEF gone
<1>8. cut = a + bytes - e(gone) /\ cut \in Nat
  BY <1>1, <1>2, <1>3, <1>7
<1>9. Joined(rest, e(gone), b)
  BY <1>7, JoinedRest
<1>10. CASE cut = 0
  <2>1. a + bytes = e(gone)
    BY <1>1, <1>3, <1>7, <1>8, <1>10, SMTT(40)
  <2> QED
    BY <1>4, <1>9, <1>10, <2>1
<1>11. CASE cut # 0
  <2>1. e(gone) # b
    BY <1>1, <1>8, <1>11
  <2>2. gone + 1 \in 1..n /\ (gone + 1) - 1 = gone
    <3>1. gone # n
      BY <1>1, <2>1
    <3> QED
      BY <1>1, <1>7, <3>1
  <2>3. e(gone + 1) - a > bytes
    <3>1. gone + 1 \notin K
      BY <1>6, <1>7
    <3>2. gone + 1 \in 0..n
      BY <2>2
    <3> QED
      BY <1>3, <1>5, <3>1, <3>2
  <2>4. e(gone + 1) = e(gone) + q[gone + 1].size /\ q[gone + 1].size \in Nat
    <3>1. \A k \in 1..n : e(k) = e(k - 1) + q[k].size
      BY EndsGrow
    <3>2. \A k \in 1..n : q[k].size \in Nat
      BY PieceEnds
    <3> QED
      BY <2>2, <3>1, <3>2
  <2>5. rest # <<>> /\ Head(rest) = q[gone + 1]
    <3>1. q \in Seq(Pieces)
      BY PieceEnds
    <3>2. rest \in Seq(Pieces) /\ Len(rest) = n - gone /\ rest[1] = q[gone + 1]
      BY <2>2, <3>1
    <3>3. n - gone \in Nat \ {0}
      BY <1>1, <2>2
    <3> HIDE DEF rest
    <3>4. rest # <<>> /\ Head(rest) = rest[1]
      BY <3>2, <3>3
    <3> QED
      BY <3>2, <3>4
  <2>6. cut < Head(rest).size
    <3> DEFINE x == q[gone + 1].size
    <3>1. x \in Nat /\ e(gone) + x - a > bytes /\ e(gone) \in Nat
      BY <1>3, <1>7, <2>3, <2>4
    <3> HIDE DEF x, e
    <3>2. cut < x
      BY <1>8, <3>1
    <3> QED
      BY <2>5, <3>2 DEF x
  <2> HIDE DEF rest, cut
  <2>7. Joined(left, e(gone) + cut, b)
    BY <1>3, <1>7, <1>8, <1>9, <2>5, <2>6, JoinedCut
  <2>8. e(gone) + cut = a + bytes
    BY <1>3, <1>7, <1>8
  <2> QED
    BY <1>4, <1>11, <2>7, <2>8
<1> QED
  BY <1>10, <1>11

(* A write is offered a part of what is waiting, and never nothing.          *)
LEMMA OfferedIs ==
  ASSUME NEW q, NEW a \in Nat, NEW b, Joined(q, a, b), q # <<>>
  PROVE  Offered(q) \in 1..(b - a)
<1> DEFINE n == Len(q)
           e(k) == End(q, a, k)
           m == Min({n, ChunkBuffers})
           s == Sum(SubSeq(q, 1, m))
<1>1. n \in Nat \ {0} /\ b \in Nat /\ e(0) = a /\ e(n) = b
  <2>1. q \in Seq(Pieces) /\ n \in Nat /\ b \in Nat /\ e(0) = a /\ e(n) = b
    BY PieceEnds, JoinedEmpty
  <2> QED
    BY <2>1
<1>2. ChunkBytes \in Nat \ {0} /\ ChunkBuffers \in Nat \ {0}
  BY SocketAssumption
<1>3. m \in 1..n
  <2>1. m = IF n <= ChunkBuffers THEN n ELSE ChunkBuffers
    BY <1>1, <1>2, MinIs
  <2> QED
    BY <1>1, <1>2, <2>1
<1>4. \A k \in 0..n : e(k) \in Nat
  BY EndsGrow
<1>5. \A i, j \in 0..n : i <= j => e(i) + (j - i) <= e(j)
  BY EndsGrow
<1>6. s = e(m) - a
  BY <1>3, JoinedFirst
<1> HIDE DEF m, s, e
<1>7. s \in 1..(b - a)
  <2>1. 0 \in 0..n /\ m \in 0..n /\ n \in 0..n /\ 0 <= m /\ m <= n
    BY <1>1, <1>3
  <2>2. e(0) + (m - 0) <= e(m) /\ e(m) + (n - m) <= e(n) /\ e(m) \in Nat
    BY <1>4, <1>5, <2>1
  <2> QED
    BY <1>1, <1>3, <1>6, <2>2
<1>8. CASE n = 1
  <2>1. \A k \in 1..n : e(k) = e(k - 1) + q[k].size
    BY EndsGrow DEF e
  <2>2. 1 \in 1..n /\ 1 - 1 = 0
    BY <1>1
  <2>3. e(1) = e(0) + q[1].size
    BY <2>1, <2>2
  <2>4. \A k \in 1..n : q[k].size \in Nat \ {0}
    BY PieceEnds
  <2>5. q[1].size = b - a /\ q[1].size \in 1..(b - a)
    BY <1>1, <1>8, <2>2, <2>3, <2>4
  <2> QED
    BY <1>8, <2>5 DEF Offered
<1>9. CASE n # 1
  <2>1. Offered(q) = Min({ChunkBytes, s})
    BY <1>9 DEF Offered, s, m
  <2>2. Min({ChunkBytes, s}) = IF ChunkBytes <= s THEN ChunkBytes ELSE s
    BY <1>2, <1>7, MinIs
  <2> QED
    BY <1>1, <1>2, <1>7, <2>1, <2>2
<1> QED
  BY <1>8, <1>9

(* The bytes after a up to b, in their order.                                *)
Interval(a, b) == [i \in 1..(b - a) |-> a + i]

LEMMA IntervalShape ==
  ASSUME NEW a \in Nat, NEW b \in Nat, a <= b
  PROVE  /\ Interval(a, b) \in Seq(Nat) /\ Len(Interval(a, b)) = b - a
         /\ \A i \in 1..(b - a) : Interval(a, b)[i] = a + i
         /\ a = b => Interval(a, b) = <<>>
<1>1. b - a \in Nat /\ \A i \in 1..(b - a) : a + i \in Nat
  OBVIOUS
<1> DEFINE n == b - a
<1> HIDE DEF n
<1>2. n \in Nat /\ Interval(a, b) = [i \in 1..n |-> a + i] /\ \A i \in 1..n : a + i \in Nat
  BY <1>1 DEF n, Interval
<1> DEFINE s == Interval(a, b)
<1> HIDE DEF s
<1>3. s \in Seq(Nat) /\ Len(s) = n /\ \A i \in 1..n : s[i] = a + i
  BY <1>2 DEF s
<1>4. n = 0 => s = <<>>
  BY <1>3
<1>5. a = b => n = 0
  BY DEF n
<1> QED
  BY <1>3, <1>4, <1>5 DEF s, n

LEMMA IntervalConcat ==
  ASSUME NEW a \in Nat, NEW b \in Nat, NEW c \in Nat, a <= c, c <= b
  PROVE  Interval(a, c) \o Interval(c, b) = Interval(a, b)
<1> DEFINE s == Interval(a, c)
           t == Interval(c, b)
           u == Interval(a, b)
           v == s \o t
<1>1. /\ s \in Seq(Nat) /\ Len(s) = c - a /\ \A i \in 1..(c - a) : s[i] = a + i
      /\ t \in Seq(Nat) /\ Len(t) = b - c /\ \A i \in 1..(b - c) : t[i] = c + i
  BY IntervalShape
<1>2. a <= b
  OBVIOUS
<1>3. u \in Seq(Nat) /\ Len(u) = b - a /\ \A i \in 1..(b - a) : u[i] = a + i
  BY <1>2, IntervalShape
<1> HIDE DEF s, t, u
<1>4. v \in Seq(Nat) /\ Len(v) = b - a
  <2>1. s \in Seq(Nat) /\ t \in Seq(Nat)
    BY <1>1
  <2>2. v \in Seq(Nat) /\ Len(v) = Len(s) + Len(t)
    BY <2>1
  <2> QED
    BY <1>1, <2>2
<1>5. \A i \in 1..(b - a) : v[i] = IF i <= c - a THEN s[i] ELSE t[i - (c - a)]
  BY <1>1, SMTT(40)
<1> HIDE DEF v
<1>6. ASSUME NEW i \in 1..(b - a) PROVE v[i] = u[i]
  <2>1. CASE i <= c - a
    <3>1. i \in 1..(c - a)
      BY <2>1
    <3> QED
      BY <1>1, <1>3, <1>5, <2>1, <3>1
  <2>2. CASE ~(i <= c - a)
    <3>1. i - (c - a) \in 1..(b - c)
      BY <2>2
    <3>2. t[i - (c - a)] = c + (i - (c - a))
      BY <1>1, <3>1
    <3> QED
      BY <1>3, <1>5, <2>2, <3>2
  <2> QED
    BY <2>1, <2>2
<1>7. v = u
  <2>1. v \in Seq(Nat) /\ u \in Seq(Nat) /\ Len(v) = Len(u) /\ \A i \in 1..Len(v) : v[i] = u[i]
    BY <1>3, <1>4, <1>6
  <2> QED
    BY <2>1, SeqEqual
<1> QED
  BY <1>7 DEF s, t, u, v

(* The bytes of the queue, one buffer after the other, are the interval.     *)
LEMMA BytesAre ==
  ASSUME NEW q, NEW a \in Nat, NEW b, Joined(q, a, b)
  PROVE  FlattenSeq([i \in 1..Len(q) |-> BytesOf(q[i])]) = Interval(a, b)
<1>10. /\ q \in Seq(Pieces) /\ Len(q) \in Nat /\ DOMAIN q = 1..Len(q)
       /\ End(q, a, 0) = a /\ End(q, a, Len(q)) = b
       /\ \A i \in 1..Len(q) :
            /\ q[i] \in Pieces /\ q[i].first \in Nat /\ q[i].size \in Nat \ {0}
            /\ q[i].first = End(q, a, i - 1) + 1
            /\ End(q, a, i) = q[i].first + q[i].size - 1
  BY PieceEnds
<1> DEFINE n == Len(q)
           e(k) == End(q, a, k)
           seqs == [i \in 1..n |-> BytesOf(q[i])]
<1>1. n \in Nat /\ b \in Nat /\ a <= b /\ e(0) = a /\ e(n) = b
  BY PieceEnds, JoinedEmpty
<1>2. \A k \in 0..n : e(k) \in Nat
  BY EndsGrow
<1>3. \A i, j \in 0..n : i <= j => e(i) + (j - i) <= e(j)
  BY EndsGrow
<1>4. \A k \in 1..n : q[k].first = e(k - 1) + 1 /\ q[k].size \in Nat
  BY <1>10
<1>5. \A k \in 1..n : e(k) = e(k - 1) + q[k].size
  BY EndsGrow
<1>6. Len(seqs) = n
  BY <1>1
<1> HIDE DEF n, e
<1>7. ASSUME NEW k \in 1..n PROVE seqs[k] = Interval(e(k - 1), e(k)) /\ a <= e(k - 1) /\ e(k - 1) <= e(k)
  <2>1. 0 \in 0..n /\ k - 1 \in 0..n /\ k \in 0..n /\ 0 <= k - 1 /\ k - 1 <= k
    BY <1>1
  <2>2. e(k - 1) \in Nat /\ e(k) \in Nat /\ e(0) + ((k - 1) - 0) <= e(k - 1) /\ e(k - 1) + (k - (k - 1)) <= e(k)
    BY <1>2, <1>3, <2>1
  <2>3. a <= e(k - 1) /\ e(k - 1) <= e(k)
    BY <1>1, <2>1, <2>2
  <2>4. q[k].first = e(k - 1) + 1 /\ q[k].size = e(k) - e(k - 1)
    <3> DEFINE x == q[k].size
    <3>1. x \in Nat /\ e(k) = e(k - 1) + x
      BY <1>4, <1>5
    <3> HIDE DEF x
    <3>2. x = e(k) - e(k - 1)
      BY <2>2, <3>1
    <3> QED
      BY <1>4, <3>2 DEF x
  <2>5. BytesOf(q[k]) = [j \in 1..(e(k) - e(k - 1)) |-> (e(k - 1) + 1) + j - 1]
    BY <2>4 DEF BytesOf
  <2> DEFINE x == e(k - 1)
             y == e(k)
  <2>6. x \in Nat /\ y \in Nat
    BY <2>2
  <2> HIDE DEF x, y
  <2>7. \A j \in 1..(y - x) : (x + 1) + j - 1 = x + j
    BY <2>6
  <2>8. [j \in 1..(y - x) |-> (x + 1) + j - 1] = Interval(x, y)
    BY <2>7 DEF Interval
  <2> QED
    BY <2>3, <2>5, <2>8 DEF x, y
<1>8. CASE n = 0
  <2>1. FlattenSeq(seqs) = seqs
    BY <1>6, <1>8 DEF FlattenSeq
  <2>2. a = b
    BY <1>1, <1>8
  <2>3. Interval(a, b) = <<>>
    BY <1>1, <2>2, IntervalShape
  <2>4. seqs = <<>>
    BY <1>8
  <2> QED
    BY <2>1, <2>3, <2>4 DEF n
<1>9. CASE n # 0
  <2> HIDE DEF seqs
  <2> DEFINE Upto(g) == g = [i \in 1..n |-> IF i = 1 THEN seqs[i] ELSE g[i - 1] \o seqs[i]]
             h == [i \in 1..n |-> Interval(a, e(i))]
             f == CHOOSE g : Upto(g)
  <2>1. FlattenSeq(seqs) = f[n]
    BY <1>6, <1>9 DEF FlattenSeq
  <2>2. ASSUME NEW i \in 1..n PROVE h[i] = IF i = 1 THEN seqs[i] ELSE h[i - 1] \o seqs[i]
    <3>1. CASE i = 1
      <4>1. e(i - 1) = a
        BY <1>1, <3>1
      <4>2. seqs[i] = Interval(e(i - 1), e(i))
        BY <1>7
      <4> QED
        BY <3>1, <4>1, <4>2
    <3>2. CASE i # 1
      <4>1. i - 1 \in 1..n /\ i \in 0..n /\ i - 1 \in 0..n
        BY <1>1, <3>2
      <4>2. seqs[i] = Interval(e(i - 1), e(i)) /\ a <= e(i - 1) /\ e(i - 1) <= e(i)
        BY <1>7
      <4>3. e(i) \in Nat /\ e(i - 1) \in Nat
        BY <1>2, <4>1
      <4>4. Interval(a, e(i - 1)) \o Interval(e(i - 1), e(i)) = Interval(a, e(i))
        BY <4>2, <4>3, IntervalConcat
      <4> QED
        BY <3>2, <4>1, <4>2, <4>4
    <3> QED
      BY <3>1, <3>2
  <2>3. h = [i \in 1..n |-> h[i]]
    OBVIOUS
  <2>4. n \in 1..n /\ h[n] = Interval(a, b)
    BY <1>1, <1>9
  <2> HIDE DEF h
  <2>5. Upto(h)
    BY <2>2, <2>3
  <2> HIDE DEF Upto
  <2>6. Upto(f)
    BY <2>5
  <2> HIDE DEF f
  <2>7. \A i \in 1..n : f[i] = IF i = 1 THEN seqs[i] ELSE f[i - 1] \o seqs[i]
    <3> DEFINE Value(i) == IF i = 1 THEN seqs[i] ELSE f[i - 1] \o seqs[i]
    <3>1. f = [i \in 1..n |-> Value(i)]
      BY <2>6 DEF Upto
    <3> HIDE DEF Value
    <3>2. \A i \in 1..n : f[i] = Value(i)
      BY <3>1
    <3> QED
      BY <3>2 DEF Value
  <2> DEFINE N == {k \in Nat : k + 1 <= n => f[k + 1] = h[k + 1]}
  <2>8. 0 \in N
    <3>1. 1 \in 1..n
      BY <1>1, <1>9
    <3> QED
      BY <2>2, <2>7, <3>1
  <2>9. ASSUME NEW k \in N PROVE k + 1 \in N
    <3> SUFFICES ASSUME (k + 1) + 1 <= n PROVE f[(k + 1) + 1] = h[(k + 1) + 1]
      OBVIOUS
    <3> DEFINE i == (k + 1) + 1
    <3>1. i \in 1..n /\ i # 1 /\ i - 1 = k + 1 /\ k + 1 <= n
      BY <1>1
    <3>2. f[i - 1] = h[i - 1]
      BY <3>1
    <3> HIDE DEF i
    <3>3. f[i] = f[i - 1] \o seqs[i] /\ h[i] = h[i - 1] \o seqs[i]
      BY <2>2, <2>7, <3>1
    <3> QED
      BY <3>2, <3>3 DEF i
  <2>10. N \in SUBSET Nat
    OBVIOUS
  <2> HIDE DEF N
  <2>11. \A k \in Nat : k \in N
    BY <2>8, <2>9, <2>10, AllNumbers
  <2>12. f[n] = h[n]
    <3>1. n - 1 \in Nat /\ (n - 1) + 1 = n
      BY <1>1, <1>9
    <3>2. n - 1 \in N
      BY <2>11, <3>1
    <3> QED
      BY <1>1, <3>1, <3>2 DEF N
  <2> QED
    BY <2>1, <2>4, <2>12 DEF seqs, n
<1> QED
  BY <1>8, <1>9

(* A part of an interval is an interval.                                     *)
LEMMA IntervalPart ==
  ASSUME NEW a \in Nat, NEW b \in Nat, NEW c \in Nat, NEW d \in Nat, a <= c, c <= d, d <= b
  PROVE  SubSeq(Interval(a, b), c - a + 1, d - a) = Interval(c, d)
<1> DEFINE s == Interval(a, b)
           t == Interval(c, d)
           i == c - a + 1
           j == d - a
           u == SubSeq(s, i, j)
<1>1. a <= b
  OBVIOUS
<1>2. s \in Seq(Nat) /\ Len(s) = b - a /\ \A k \in 1..(b - a) : s[k] = a + k
  BY <1>1, IntervalShape
<1>3. t \in Seq(Nat) /\ Len(t) = d - c /\ \A k \in 1..(d - c) : t[k] = c + k
  BY IntervalShape
<1> HIDE DEF s, t
<1>4. i \in 1..(Len(s) + 1) /\ j \in (i - 1)..Len(s)
  BY <1>2
<1> HIDE DEF i, j
<1>5. /\ u \in Seq(Nat) /\ Len(u) = j - i + 1
      /\ \A k \in 1..(j - i + 1) : u[k] = s[i + k - 1]
  BY <1>2, <1>4
<1> HIDE DEF u
<1>6. j - i + 1 = d - c
  BY DEF i, j
<1>7. ASSUME NEW k \in 1..(d - c) PROVE u[k] = t[k]
  <2>1. i + k - 1 = c - a + k /\ c - a + k \in 1..(b - a)
    BY DEF i
  <2>2. s[c - a + k] = a + (c - a + k)
    BY <1>2, <2>1
  <2>3. a + (c - a + k) = c + k
    OBVIOUS
  <2> QED
    BY <1>3, <1>5, <1>6, <2>1, <2>2, <2>3
<1>8. u = t
  <2>1. u \in Seq(Nat) /\ t \in Seq(Nat) /\ Len(u) = Len(t) /\ \A k \in 1..Len(u) : u[k] = t[k]
    BY <1>3, <1>5, <1>6, <1>7
  <2> QED
    BY <2>1, SeqEqual
<1> QED
  BY <1>8 DEF u, s, t, i, j

(* Bytes that are added at the end.                                          *)
LEMMA IntervalGrows ==
  ASSUME NEW a \in Nat, NEW b \in Nat, NEW c \in Nat, a <= b, b < c
  PROVE  Len(Interval(a, c)) > Len(Interval(a, b)) /\ IsPrefix(Interval(a, b), Interval(a, c))
<1> DEFINE s == Interval(a, b)
           t == Interval(a, c)
<1>1. a <= c /\ b <= c /\ a <= a /\ a - a + 1 = 1
  OBVIOUS
<1>2. Len(s) = b - a /\ Len(t) = c - a
  BY <1>1, IntervalShape
<1>3. SubSeq(s, a - a + 1, b - a) = s /\ SubSeq(t, a - a + 1, b - a) = s
  BY <1>1, IntervalPart
<1>4. SubSeq(s, 1, b - a) = s /\ SubSeq(t, 1, b - a) = s
  BY <1>1, <1>3
<1> HIDE DEF s, t
<1>5. Len(s) <= Len(t) /\ Len(t) > Len(s)
  BY <1>2
<1> QED
  BY <1>2, <1>4, <1>5 DEF IsPrefix, s, t

(* Bytes that leave at the start.                                            *)
LEMMA IntervalShrinks ==
  ASSUME NEW a \in Nat, NEW b \in Nat, NEW n \in 1..(b - a)
  PROVE  /\ n \in 1..Len(Interval(a, b))
         /\ Interval(0, a + n) = Interval(0, a) \o SubSeq(Interval(a, b), 1, n)
         /\ Interval(a + n, b) = SubSeq(Interval(a, b), n + 1, Len(Interval(a, b)))
<1>1. a <= a /\ a <= a + n /\ a + n <= b /\ a <= b /\ b <= b /\ a + n \in Nat /\ 0 \in Nat /\ 0 <= a
  OBVIOUS
<1>2. /\ a - a + 1 = 1 /\ (a + n) - a = n /\ (a + n) - a + 1 = n + 1
  OBVIOUS
<1>3. Len(Interval(a, b)) = b - a
  BY <1>1, IntervalShape
<1>4. SubSeq(Interval(a, b), a - a + 1, (a + n) - a) = Interval(a, a + n)
  BY <1>1, IntervalPart
<1>5. SubSeq(Interval(a, b), (a + n) - a + 1, b - a) = Interval(a + n, b)
  BY <1>1, IntervalPart
<1>6. Interval(0, a) \o Interval(a, a + n) = Interval(0, a + n)
  BY <1>1, IntervalConcat
<1>7. SubSeq(Interval(a, b), 1, n) = Interval(a, a + n)
  BY <1>2, <1>4
<1>8. SubSeq(Interval(a, b), n + 1, b - a) = Interval(a + n, b)
  BY <1>2, <1>5
<1> QED
  BY <1>3, <1>6, <1>7, <1>8

(* lastWrite is set exactly while a write is outstanding: never two at once. *)
OneWrite == writing <=> write # Idle

IInv ==
  /\ owner \in BOOLEAN /\ disconnecting \in BOOLEAN
  /\ lastWrite \in {None} \union Nat
  /\ OneWrite
  /\ NoStall
  /\ stream = "shut" => outBuf = <<>> /\ write = Idle /\ disconnecting
  /\ failures = IF owner THEN 0 ELSE 1

USE DEF None, Idle, writing, OneWrite, NoStall

(* The write that prepareWrite starts on an idle socket is outstanding with  *)
(* lastWrite set, and it starts none only on an empty queue.                 *)
LEMMA StartWriteIdle ==
  ASSUME NEW q, StartWrite(q)
  PROVE  /\ lastWrite' \in {None} \union Nat
         /\ OneWrite'
         /\ write' = Idle => q = <<>>
         /\ q = <<>> => write' = Idle
  BY DEF StartWrite

(* disconnect() shuts the stream down only on a socket with nothing to send. *)
LEMMA StartDisconnectFlushed ==
  ASSUME IInv, owner = TRUE, stream # "terminated", StartDisconnect,
         UNCHANGED <<outBuf, write>>
  PROVE  /\ disconnecting' = TRUE
         /\ stream' = "shut" => outBuf' = <<>> /\ write' = Idle
  BY DEF IInv, StartDisconnect, Shutdown

(* fail() tells the owner the first time and never again.                    *)
LEMMA FailCounts ==
  ASSUME IInv, Fail
  PROVE  owner' = FALSE /\ failures' = 1
<1>1. CASE owner = TRUE
  BY <1>1 DEF Fail, IInv
<1>2. CASE owner = FALSE
  BY <1>2 DEF Fail, IInv
<1> QED
  BY <1>1, <1>2 DEF IInv

LEMMA IInvInit == Init => IInv
  BY DEF Init, IInv

LEMMA IInvNext == SocketAssumption /\ IInv /\ [Next]_vars => IInv'
<1> SUFFICES ASSUME SocketAssumption, IInv, [Next]_vars PROVE IInv'
  OBVIOUS
<1> USE DEF queueVars, discVars, ownVars
<1>1. ASSUME NEW size \in BufferSizes, WriteOverflow(size) PROVE IInv'
  BY <1>1, StartDisconnectFlushed DEF WriteOverflow, CanWrite, Alive, IInv
<1>2. ASSUME NEW size \in BufferSizes, NEW lowPrio \in BOOLEAN, WriteQueued(size, lowPrio)
      PROVE IInv'
  <2>1. stream # "shut" /\ owner = TRUE /\ disconnecting = FALSE
    BY <1>2 DEF WriteQueued, CanWrite, IInv
  <2>2. /\ lastWrite' \in {None} \union Nat
        /\ OneWrite'
        /\ write' = Idle => outBuf' = <<>>
    BY <1>2, StartWriteIdle DEF WriteQueued, IInv
  <2>3. stream' = stream /\ disconnecting' \in BOOLEAN
    BY <1>2 DEF WriteQueued, StartDisconnect, Stuck, IInv
  <2>4. UNCHANGED ownVars
    BY <1>2 DEF WriteQueued
  <2> QED
    BY <2>1, <2>2, <2>3, <2>4 DEF IInv
<1>3. ASSUME Disconnect PROVE IInv'
  BY <1>3, StartDisconnectFlushed DEF Disconnect, Alive, IInv
<1>4. ASSUME NEW ok \in BOOLEAN, CompleteAccept(ok) PROVE IInv'
  <2>1. owner' \in BOOLEAN /\ failures' = (IF owner' THEN 0 ELSE 1) /\ (owner' = TRUE => owner = TRUE)
    <3>1. CASE ok = TRUE
      BY <1>4, <3>1 DEF CompleteAccept, IInv
    <3>2. CASE ok = FALSE
      BY <1>4, <3>2, FailCounts DEF CompleteAccept
    <3> QED
      BY <3>1, <3>2
  <2> QED
    BY <1>4, <2>1 DEF CompleteAccept, IInv
<1>5. ASSUME NEW ok \in BOOLEAN, CompleteInit(ok) PROVE IInv'
  <2>1. owner' \in BOOLEAN /\ failures' = (IF owner' THEN 0 ELSE 1) /\ (owner' = TRUE => owner = TRUE)
    <3>1. CASE ok = TRUE
      BY <1>5, <3>1 DEF CompleteInit, IInv
    <3>2. CASE ok = FALSE
      BY <1>5, <3>2, FailCounts DEF CompleteInit
    <3> QED
      BY <3>1, <3>2
  <2> QED
    BY <1>5, <2>1 DEF CompleteInit, IInv
<1>6. ASSUME CompleteWrite PROVE IInv'
  <2>1. stream # "shut"
    BY <1>6 DEF CompleteWrite, IInv
  <2>2. /\ lastWrite' \in {None} \union Nat
        /\ OneWrite'
        /\ write' = Idle => outBuf' = <<>>
        /\ outBuf' = <<>> => write' = Idle
    BY <1>6, StartWriteIdle DEF CompleteWrite
  <2>3. stream' = "shut" => outBuf' = <<>> /\ disconnecting
    BY <1>6, <2>1 DEF CompleteWrite, Shutdown
  <2>4. UNCHANGED <<discVars, ownVars>>
    BY <1>6 DEF CompleteWrite
  <2> QED
    BY <2>2, <2>3, <2>4 DEF IInv
<1>7. ASSUME CompleteWriteError PROVE IInv'
  BY <1>7, FailCounts DEF CompleteWriteError, IInv
<1>8. ASSUME PrepareRead2 \/ CompleteRead PROVE IInv'
  BY <1>8 DEF PrepareRead2, CompleteRead, IInv
<1>9. ASSUME CompleteReadError \/ RunFailJob PROVE IInv'
  BY <1>9, FailCounts DEF CompleteReadError, RunFailJob, IInv
<1>10. ASSUME Disconnector \/ Release PROVE IInv'
  BY <1>10 DEF Disconnector, Release, IInv
<1>11. ASSUME NEW n \in 1..MaxBytes, KernelWrite(n) PROVE IInv'
  BY <1>11 DEF KernelWrite, IInv
<1>12. ASSUME KernelWriteFails \/ KernelRead \/ KernelReadFails PROVE IInv'
  BY <1>12 DEF KernelWriteFails, KernelRead, KernelReadFails, IInv
<1>13. ASSUME Tick PROVE IInv'
  <2>1. lastWrite' \in {None} \union Nat /\ (lastWrite' = None <=> lastWrite = None)
    BY <1>13 DEF Tick, Older, IInv
  <2> QED
    BY <1>13, <2>1 DEF Tick, IInv
<1>14. CASE UNCHANGED vars
  BY <1>14 DEF vars, IInv
<1> QED
  BY <1>1, <1>2, <1>3, <1>4, <1>5, <1>6, <1>7, <1>8, <1>9, <1>10, <1>11, <1>12, <1>13, <1>14
     DEF Next, OwnerStep, Handlers, Kernel

LEMMA SocketInvariant == Spec => []IInv
<1>1. Init => IInv
  BY IInvInit
<1>2. IInv /\ [Next]_vars => IInv'
  BY IInvNext, SocketAssumption
<1> QED
  BY <1>1, <1>2, PTL DEF Spec

(* Of all the ways in which a connection can fail, its owner hears of one,   *)
(* once: the Client deletes itself in the failed handler.                    *)
THEOREM OwnerFailedOnce == Spec => []FailedOnce
<1>1. IInv => FailedOnce
  BY DEF IInv, FailedOnce
<1> QED
  BY <1>1, SocketInvariant, PTL

(* As long as the owner has not been told of a failure, queued data has a    *)
(* write outstanding.                                                        *)
THEOREM QueuedDataMoves == Spec => []NoStall
<1>1. IInv => NoStall
  BY DEF IInv
<1> QED
  BY <1>1, SocketInvariant, PTL

(* A stream is shut down for sending only after everything accepted left.    *)
THEOREM FlushedAtShutdown == Spec => []ShutdownFlushes
<1>1. IInv => ShutdownFlushes
  BY DEF IInv, ShutdownFlushes
<1> QED
  BY <1>1, SocketInvariant, PTL

-------------------------------------------------------------------------------
(* The rest of the state.                                                    *)
Shape ==
  /\ stage \in {"accepting", "handshake", "ready"}
  /\ stream \in {"open", "shut", "closed", "terminated"}
  /\ lastWrite \in {None} \union 0..(WriteTimeout + 1)
  /\ overflow \in {None} \union 0..(OverflowTimeout + 1)
  /\ closer \in {None} \union 0..DisconnectTimeout
  /\ read \in {"none", "poll", "polled", "data", "arrived", "error"}
  /\ ready \in Seq({"write", "read", "fail", "close"})
  /\ disconnecting \in BOOLEAN /\ owner \in BOOLEAN /\ ownerGone \in BOOLEAN

LEMMA Timeouts == WriteTimeout \in Nat /\ OverflowTimeout \in Nat /\ DisconnectTimeout \in Nat
  BY SocketAssumption

LEMMA OlderType ==
  ASSUME NEW timeout \in Nat, NEW age \in {None} \union 0..(timeout + 1)
  PROVE  /\ Older(age, timeout) \in {None} \union 0..(timeout + 1)
         /\ Older(age, timeout) = None <=> age = None
  BY DEF Older

LEMMA ShapeNext == Shape /\ [Next]_vars => Shape'
<1> SUFFICES ASSUME Shape, [Next]_vars PROVE Shape'
  OBVIOUS
<1> USE DEF queueVars, discVars, ownVars
<1> DEFINE Handler == {"write", "read", "fail", "close"}
           Closers == {None} \union 0..DisconnectTimeout
           Streams == {"open", "shut", "closed", "terminated"}
<1>1. ready \in Seq(Handler) /\ \A h \in Handler : Append(ready, h) \in Seq(Handler)
  BY DEF Shape
<1>2. ASSUME StartDisconnect
      PROVE  /\ disconnecting' = TRUE /\ closer' \in Closers /\ stream' \in Streams
             /\ ready' \in Seq(Handler)
  <2>1. DisconnectTimeout \in Closers
    BY Timeouts
  <2>2. stream' \in Streams
    BY <1>2 DEF StartDisconnect, Shutdown, Shape
  <2> QED
    BY <1>1, <1>2, <2>1, <2>2 DEF StartDisconnect
<1>3. ASSUME Fail PROVE owner' = FALSE /\ ownerGone' = ownerGone
  BY <1>3 DEF Fail
<1>4. ASSUME NEW h, Run(h) PROVE ready' \in Seq(Handler)
  BY <1>1, <1>4 DEF Run
<1>5. ASSUME NEW q, StartWrite(q) PROVE lastWrite' \in {None} \union 0..(WriteTimeout + 1)
  BY <1>5, Timeouts DEF StartWrite
<1>6. ASSUME NEW size \in BufferSizes, WriteOverflow(size) PROVE Shape'
  <2>1. StartDisconnect /\ UNCHANGED <<stage, lastWrite, overflow, read, owner, ownerGone>>
    BY <1>6 DEF WriteOverflow
  <2> QED
    BY <1>2, <2>1 DEF Shape
<1>7. ASSUME NEW size \in BufferSizes, NEW lowPrio \in BOOLEAN, WriteQueued(size, lowPrio)
      PROVE  Shape'
  <2>1. /\ overflow' = IF Over(size) THEN 0 ELSE overflow
        /\ IF writing THEN UNCHANGED <<write, lastWrite>> ELSE StartWrite(outBuf')
        /\ IF Stuck THEN StartDisconnect ELSE UNCHANGED <<stream, disconnecting, closer, ready>>
        /\ UNCHANGED <<stage, read, owner, ownerGone>>
    BY <1>7 DEF WriteQueued
  <2>2. overflow' \in {None} \union 0..(OverflowTimeout + 1)
    BY <2>1, Timeouts DEF Shape
  <2>3. lastWrite' \in {None} \union 0..(WriteTimeout + 1)
    BY <1>5, <2>1 DEF Shape
  <2>4. disconnecting' \in BOOLEAN /\ closer' \in Closers /\ stream' \in Streams /\ ready' \in Seq(Handler)
    <3>1. CASE Stuck
      BY <1>2, <2>1, <3>1
    <3>2. CASE ~Stuck
      BY <2>1, <3>2 DEF Shape
    <3> QED
      BY <3>1, <3>2
  <2> QED
    BY <2>1, <2>2, <2>3, <2>4 DEF Shape
<1>8. CASE Disconnect
  <2>1. /\ ownerGone' = TRUE /\ UNCHANGED <<stage, lastWrite, overflow, read, owner>>
        /\ IF disconnecting THEN UNCHANGED <<stream, disconnecting, closer, ready>> ELSE StartDisconnect
    BY <1>8 DEF Disconnect
  <2>2. disconnecting' \in BOOLEAN /\ closer' \in Closers /\ stream' \in Streams /\ ready' \in Seq(Handler)
    <3>1. CASE ~disconnecting
      BY <1>2, <2>1, <3>1
    <3>2. CASE disconnecting
      BY <2>1, <3>2 DEF Shape
    <3> QED
      BY <3>1, <3>2
  <2> QED
    BY <2>1, <2>2 DEF Shape
<1>9. ASSUME NEW ok \in BOOLEAN, CompleteAccept(ok) \/ CompleteInit(ok) PROVE Shape'
  <2>1. owner' \in BOOLEAN /\ ownerGone' = ownerGone
    BY <1>3, <1>9 DEF CompleteAccept, CompleteInit, Shape
  <2>2. /\ stage' \in {"accepting", "handshake", "ready"} /\ read' \in {read, "poll"}
        /\ UNCHANGED <<stream, lastWrite, overflow, closer, ready, disconnecting>>
    BY <1>9 DEF CompleteAccept, CompleteInit, Shape
  <2> QED
    BY <2>1, <2>2 DEF Shape
<1>10. CASE CompleteWrite
  <2>1. /\ Run("write") /\ StartWrite(outBuf') /\ overflow' \in {None, overflow}
        /\ stream' = stream \/ Shutdown
        /\ UNCHANGED <<stage, closer, disconnecting, read, owner, ownerGone>>
    BY <1>10 DEF CompleteWrite
  <2>2. ready' \in Seq(Handler) /\ lastWrite' \in {None} \union 0..(WriteTimeout + 1)
    BY <1>4, <1>5, <2>1
  <2>3. stream' \in Streams
    BY <2>1 DEF Shutdown, Shape
  <2> QED
    BY <2>1, <2>2, <2>3 DEF Shape
<1>11. CASE CompleteWriteError
  <2>1. ready' \in Seq(Handler) /\ owner' = FALSE /\ ownerGone' = ownerGone
    BY <1>3, <1>4, <1>11 DEF CompleteWriteError
  <2> QED
    BY <1>11, <2>1 DEF CompleteWriteError, Shape
<1>12. CASE CompleteReadError \/ RunFailJob
  <2>1. ready' \in Seq(Handler) /\ owner' = FALSE /\ ownerGone' = ownerGone
    BY <1>3, <1>4, <1>12 DEF CompleteReadError, RunFailJob
  <2> QED
    BY <1>12, <2>1 DEF CompleteReadError, RunFailJob, Shape
<1>13. CASE PrepareRead2 \/ CompleteRead \/ Disconnector
  <2>1. ready' \in Seq(Handler)
    BY <1>4, <1>13 DEF PrepareRead2, CompleteRead, Disconnector
  <2> QED
    BY <1>13, <2>1 DEF PrepareRead2, CompleteRead, Disconnector, Shape
<1>14. CASE Release
  BY <1>14 DEF Release, Shape
<1>15. ASSUME NEW n \in 1..MaxBytes, KernelWrite(n) PROVE Shape'
  BY <1>1, <1>15 DEF KernelWrite, Shape
<1>16. CASE KernelWriteFails \/ KernelRead \/ KernelReadFails
  <2>1. ready' \in Seq(Handler)
    BY <1>1, <1>16 DEF KernelWriteFails, KernelRead, KernelReadFails
  <2> QED
    BY <1>16, <2>1 DEF KernelWriteFails, KernelRead, KernelReadFails, Shape
<1>17. CASE Tick
  <2>1. lastWrite' \in {None} \union 0..(WriteTimeout + 1)
    BY <1>17, Timeouts, OlderType DEF Tick, Shape
  <2>2. overflow' \in {None} \union 0..(OverflowTimeout + 1)
    BY <1>17, Timeouts, OlderType DEF Tick, Shape
  <2>3. closer' \in Closers
    BY <1>17, Timeouts DEF Tick, Shape
  <2>4. ready' \in Seq(Handler)
    BY <1>1, <1>17 DEF Tick
  <2> QED
    BY <1>17, <2>1, <2>2, <2>3, <2>4 DEF Tick, Shape
<1>18. CASE UNCHANGED vars
  BY <1>18 DEF vars, Shape
<1> QED
  BY <1>6, <1>7, <1>8, <1>9, <1>10, <1>11, <1>12, <1>13, <1>14, <1>15, <1>16, <1>17, <1>18
     DEF Next, OwnerStep, Handlers, Kernel

LEMMA ShapeAlways == Spec => []Shape
<1>1. Init => Shape
  <2>1. <<>> \in Seq({"write", "read", "fail", "close"})
    OBVIOUS
  <2> QED
    BY <2>1 DEF Init, Shape
<1>2. Shape /\ [Next]_vars => Shape'
  BY ShapeNext
<1> QED
  BY <1>1, <1>2, PTL DEF Spec

-------------------------------------------------------------------------------
(* The bytes: what is queued is what was accepted and not sent, and a write  *)
(* is outstanding for some of it.                                            *)
Held ==
  /\ accepted \in Nat /\ sent \in Nat /\ accepted <= MaxBytes
  /\ Joined(outBuf, sent, accepted)
  /\ write \in [st : {"none", "pending", "done", "error"}, n : Nat]
  /\ write.st \in {"pending", "done"} => write.n \in 1..(accepted - sent)
  /\ write.st \in {"none", "error"} => write.n = 0

(* A write that is started on the queue is offered what is there.            *)
LEMMA StartWriteFits ==
  ASSUME NEW q, NEW a \in Nat, NEW b, Joined(q, a, b), StartWrite(q)
  PROVE  /\ write' \in [st : {"none", "pending", "done", "error"}, n : Nat]
         /\ write'.st \in {"pending", "done"} => write'.n \in 1..(b - a)
         /\ write'.st \in {"none", "error"} => write'.n = 0
<1>1. CASE q = <<>>
  BY <1>1 DEF StartWrite
<1>2. CASE q # <<>>
  <2>1. Offered(q) \in 1..(b - a) /\ b \in Nat
    BY <1>2, OfferedIs, JoinedEmpty
  <2>2. write' = [st |-> "pending", n |-> Offered(q)]
    BY <1>2 DEF StartWrite
  <2> QED
    BY <2>1, <2>2
<1> QED
  BY <1>1, <1>2

LEMMA HeldInit == Init => Held
<1> SUFFICES ASSUME Init PROVE Held
  OBVIOUS
<1>1. MaxBytes \in Nat
  BY SocketAssumption
<1>2. Joined(<<>>, 0, 0)
  BY DEF Joined, End
<1> QED
  BY <1>1, <1>2 DEF Init, Held

LEMMA HeldNext == Held /\ [Next]_vars => Held'
<1> SUFFICES ASSUME Held, [Next]_vars PROVE Held'
  OBVIOUS
<1> USE DEF queueVars, discVars, ownVars
<1>1. CASE UNCHANGED <<outBuf, accepted, sent, write>>
  BY <1>1 DEF Held
<1>2. /\ accepted \in Nat /\ sent \in Nat /\ sent <= accepted /\ accepted <= MaxBytes
      /\ Joined(outBuf, sent, accepted)
  BY JoinedEmpty DEF Held
<1>3. ASSUME NEW size \in BufferSizes, NEW lowPrio \in BOOLEAN, WriteQueued(size, lowPrio)
      PROVE  Held'
  <2>1. size \in Nat \ {0} /\ MaxBytes \in Nat
    BY SocketAssumption
  <2>2. /\ accepted' = accepted + size /\ accepted + size <= MaxBytes /\ sent' = sent
        /\ outBuf' = Append(outBuf, [first |-> accepted + 1, size |-> size])
        /\ IF writing THEN UNCHANGED <<write, lastWrite>> ELSE StartWrite(outBuf')
    BY <1>3 DEF WriteQueued
  <2>3. Joined(outBuf', sent', accepted')
    BY <1>2, <2>1, <2>2, JoinedAppend
  <2>4. /\ write' \in [st : {"none", "pending", "done", "error"}, n : Nat]
        /\ write'.st \in {"pending", "done"} => write'.n \in 1..(accepted' - sent')
        /\ write'.st \in {"none", "error"} => write'.n = 0
    <3>1. CASE writing
      BY <1>2, <2>1, <2>2, <3>1 DEF Held
    <3>2. CASE ~writing
      BY <1>2, <2>2, <2>3, <3>2, StartWriteFits
    <3> QED
      BY <3>1, <3>2
  <2> QED
    BY <1>2, <2>1, <2>2, <2>3, <2>4 DEF Held
<1>4. CASE CompleteWrite
  <2>1. /\ write.st = "done" /\ accepted' = accepted /\ sent' = sent + write.n
        /\ outBuf' = Consume(outBuf, write.n) /\ StartWrite(outBuf')
    BY <1>4 DEF CompleteWrite
  <2>2. write.n \in Nat /\ sent + write.n <= accepted
    BY <1>2, <2>1 DEF Held
  <2>3. Joined(outBuf', sent', accepted') /\ sent' \in Nat
    BY <1>2, <2>1, <2>2, Consumed
  <2>4. /\ write' \in [st : {"none", "pending", "done", "error"}, n : Nat]
        /\ write'.st \in {"pending", "done"} => write'.n \in 1..(accepted' - sent')
        /\ write'.st \in {"none", "error"} => write'.n = 0
    BY <2>1, <2>3, StartWriteFits
  <2> QED
    BY <1>2, <2>1, <2>3, <2>4 DEF Held
<1>5. CASE CompleteWriteError \/ KernelWriteFails
  BY <1>5 DEF CompleteWriteError, KernelWriteFails, Held
<1>6. ASSUME NEW n \in 1..MaxBytes, KernelWrite(n) PROVE Held'
  <2>1. /\ write.st = "pending" /\ n \in 1..write.n /\ write' = [st |-> "done", n |-> n]
        /\ UNCHANGED <<outBuf, accepted, sent>>
    BY <1>6 DEF KernelWrite
  <2>2. write.n \in 1..(accepted - sent)
    BY <2>1 DEF Held
  <2>3. n \in Nat /\ n \in 1..(accepted - sent)
    BY <1>2, <2>1, <2>2
  <2> QED
    BY <2>1, <2>3 DEF Held
<1>7. ASSUME NEW size \in BufferSizes, WriteOverflow(size) PROVE Held'
  BY <1>1, <1>7 DEF WriteOverflow
<1>8. CASE Disconnect
  BY <1>1, <1>8 DEF Disconnect
<1>9. CASE Tick \/ KernelRead \/ KernelReadFails
  BY <1>1, <1>9 DEF Tick, KernelRead, KernelReadFails
<1>10. ASSUME NEW ok \in BOOLEAN, CompleteAccept(ok) \/ CompleteInit(ok) PROVE Held'
  BY <1>1, <1>10 DEF CompleteAccept, CompleteInit
<1>11. CASE PrepareRead2 \/ CompleteRead \/ CompleteReadError \/ RunFailJob \/ Disconnector \/ Release
  BY <1>1, <1>11 DEF PrepareRead2, CompleteRead, CompleteReadError, RunFailJob, Disconnector, Release
<1>12. CASE UNCHANGED vars
  BY <1>1, <1>12 DEF vars
<1> QED
  BY <1>3, <1>4, <1>5, <1>6, <1>7, <1>8, <1>9, <1>10, <1>11, <1>12 DEF Next, OwnerStep, Handlers, Kernel

LEMMA HeldAlways == Spec => []Held
<1>1. Init => Held
  BY HeldInit
<1>2. Held /\ [Next]_vars => Held'
  BY HeldNext
<1> QED
  BY <1>1, <1>2, PTL DEF Spec

(* What getQueuedBytes finds is what was accepted and not sent.              *)
LEMMA QueuedBytes ==
  ASSUME NEW q, NEW a \in Nat, NEW b, Joined(q, a, b)
  PROVE  Sum(q) = b - a /\ b \in Nat /\ a <= b
  BY SumIs, JoinedEmpty

(* A socket counts as overflowing exactly while its queue is at the limit,   *)
(* so verifyOverflow counts it neither too long nor too little (write,       *)
(* completeWrite).                                                           *)
THEOREM OverflowAlwaysExact == Spec => []OverflowExact
<1> USE DEF queueVars, discVars, ownVars
<1>1. Init => OverflowExact
  <2> SUFFICES ASSUME Init PROVE OverflowExact
    OBVIOUS
  <2>1. Joined(<<>>, 0, 0)
    BY DEF Joined, End
  <2>2. Sum(<<>>) = 0 /\ MaxBufferSize \in Nat
    BY <2>1, QueuedBytes, SocketAssumption
  <2> QED
    BY <2>2 DEF Init, OverflowExact
<1>2. Shape /\ Held /\ Held' /\ OverflowExact /\ [Next]_vars => OverflowExact'
  <2> SUFFICES ASSUME Shape, Held, Held', OverflowExact, [Next]_vars PROVE OverflowExact'
    OBVIOUS
  <2>1. /\ accepted \in Nat /\ sent \in Nat /\ sent <= accepted /\ Sum(outBuf) = accepted - sent
        /\ accepted' \in Nat /\ sent' \in Nat /\ sent' <= accepted' /\ Sum(outBuf') = accepted' - sent'
        /\ MaxBufferSize \in Nat
    BY QueuedBytes, SocketAssumption DEF Held
  <2> HIDE DEF Held
  <2> DEFINE s == Sum(outBuf)
             t == Sum(outBuf')
  <2>2. s \in Nat /\ t \in Nat
    <3>1. \A x, y \in Nat : x <= y => y - x \in Nat
      OBVIOUS
    <3> QED
      BY <2>1, <3>1
  <2>3. ((MaxBufferSize > 0 /\ s > MaxBufferSize) => overflow # None)
        /\ (overflow # None => MaxBufferSize > 0 /\ s >= MaxBufferSize)
    BY DEF OverflowExact
  <2>4. ASSUME (MaxBufferSize > 0 /\ t > MaxBufferSize) => overflow' # None,
               overflow' # None => MaxBufferSize > 0 /\ t >= MaxBufferSize
        PROVE  OverflowExact'
    BY <2>4 DEF OverflowExact
  <2>5. CASE UNCHANGED <<outBuf, overflow>>
    BY <2>5 DEF OverflowExact
  <2>6. ASSUME NEW size \in BufferSizes, NEW lowPrio \in BOOLEAN, WriteQueued(size, lowPrio)
        PROVE  OverflowExact'
    <3>1. /\ overflow' = IF Over(size) THEN 0 ELSE overflow
          /\ accepted' = accepted + size /\ sent' = sent
      BY <2>6 DEF WriteQueued
    <3>2. size \in Nat \ {0}
      BY SocketAssumption
    <3>3. t = s + size
      BY <2>1, <3>1, <3>2
    <3>4. Over(size) <=> MaxBufferSize > 0 /\ s + size > MaxBufferSize
      BY DEF Over
    <3> HIDE DEF s, t
    <3>5. CASE Over(size)
      BY <2>1, <2>2, <2>4, <3>1, <3>2, <3>3, <3>4, <3>5
    <3>6. CASE ~Over(size)
      <4>1. overflow' = None
        BY <2>1, <2>2, <2>3, <3>1, <3>2, <3>4, <3>6
      <4> QED
        BY <2>2, <2>4, <3>3, <3>4, <3>6, <4>1
    <3> QED
      BY <3>5, <3>6
  <2>7. CASE CompleteWrite
    <3>1. /\ overflow' = IF overflow # None /\ t < MaxBufferSize THEN None ELSE overflow
          /\ accepted' = accepted /\ sent' = sent + write.n /\ write.n \in Nat
      BY <2>7 DEF CompleteWrite, Held
    <3>2. t <= s
      BY <2>1, <3>1
    <3> HIDE DEF s, t
    <3> QED
      BY <2>1, <2>2, <2>3, <2>4, <3>1, <3>2
  <2>8. CASE Tick
    <3>1. outBuf' = outBuf /\ (overflow' = None <=> overflow = None)
      BY <2>8, Timeouts, OlderType DEF Tick, Shape
    <3> QED
      BY <3>1 DEF OverflowExact
  <2>9. ASSUME NEW size \in BufferSizes, WriteOverflow(size) PROVE OverflowExact'
    BY <2>5, <2>9 DEF WriteOverflow
  <2>10. ASSUME NEW ok \in BOOLEAN, CompleteAccept(ok) \/ CompleteInit(ok) PROVE OverflowExact'
    BY <2>5, <2>10 DEF CompleteAccept, CompleteInit
  <2>11. ASSUME NEW n \in 1..MaxBytes, KernelWrite(n) PROVE OverflowExact'
    BY <2>5, <2>11 DEF KernelWrite
  <2>12. CASE Disconnect \/ CompleteWriteError \/ KernelWriteFails \/ KernelRead \/ KernelReadFails
    BY <2>5, <2>12 DEF Disconnect, CompleteWriteError, KernelWriteFails, KernelRead, KernelReadFails
  <2>13. CASE PrepareRead2 \/ CompleteRead \/ CompleteReadError \/ RunFailJob \/ Disconnector \/ Release
    BY <2>5, <2>13 DEF PrepareRead2, CompleteRead, CompleteReadError, RunFailJob, Disconnector, Release
  <2>14. CASE UNCHANGED vars
    BY <2>5, <2>14 DEF vars
  <2> QED
    BY <2>6, <2>7, <2>8, <2>9, <2>10, <2>11, <2>12, <2>13, <2>14 DEF Next, OwnerStep, Handlers, Kernel
<1> QED
  BY <1>1, <1>2, HeldAlways, ShapeAlways, PTL DEF Spec

(* The socket's state is of its type; in particular no buffer is ever empty, *)
(* and no more is written than is queued (prepareWrite, completeWrite).      *)
THEOREM TypeCorrect == Spec => []TypeOK
<1>1. IInv /\ Held /\ Shape => TypeOK
  <2> SUFFICES ASSUME IInv, Held, Shape PROVE TypeOK
    OBVIOUS
  <2>6. /\ outBuf \in Seq(Pieces) /\ Len(outBuf) \in Nat /\ DOMAIN outBuf = 1..Len(outBuf)
        /\ End(outBuf, sent, 0) = sent /\ End(outBuf, sent, Len(outBuf)) = accepted
        /\ \A k \in 1..Len(outBuf) :
             /\ outBuf[k] \in Pieces /\ outBuf[k].first \in Nat /\ outBuf[k].size \in Nat \ {0}
             /\ outBuf[k].first = End(outBuf, sent, k - 1) + 1
             /\ End(outBuf, sent, k) = outBuf[k].first + outBuf[k].size - 1
    BY PieceEnds DEF Held
  <2> DEFINE n == Len(outBuf)
             e(k) == End(outBuf, sent, k)
  <2>1. accepted \in Nat /\ sent \in Nat /\ sent <= accepted /\ accepted <= MaxBytes
    BY QueuedBytes DEF Held
  <2>2. accepted \in 0..MaxBytes /\ sent \in 0..MaxBytes
    BY <2>1, SocketAssumption
  <2>3. write \in [st : {"none", "pending", "done", "error"}, n : 0..MaxBytes]
    <3>1. write.n \in 0..MaxBytes
      BY <2>1, SocketAssumption DEF Held
    <3> QED
      BY <3>1 DEF Held
  <2>4. outBuf \in Seq(Buffers)
    <3>1. /\ outBuf \in Seq(Pieces) /\ n \in Nat
          /\ \A k \in 1..n :
               /\ outBuf[k] \in Pieces /\ outBuf[k].first = e(k - 1) + 1 /\ outBuf[k].size \in Nat \ {0}
      BY <2>6
    <3>2. \A k \in 0..n : e(k) \in Nat
      BY EndsGrow DEF Held
    <3>3. \A i, j \in 0..n : i <= j => e(i) + (j - i) <= e(j)
      BY EndsGrow DEF Held
    <3>4. \A k \in 1..n : e(k) = e(k - 1) + outBuf[k].size
      BY EndsGrow DEF Held
    <3>5. e(n) = accepted
      BY PieceEnds DEF Held
    <3> HIDE DEF e, n
    <3>6. ASSUME NEW k \in 1..n PROVE outBuf[k] \in Buffers
      <4>1. k \in 0..n /\ k - 1 \in 0..n /\ n \in 0..n /\ k <= n
        BY <3>1
      <4>2. e(k) \in Nat /\ e(k - 1) \in Nat /\ e(k) + (n - k) <= accepted
        BY <3>2, <3>3, <3>5, <4>1
      <4> DEFINE x == outBuf[k].size
      <4>3. x \in Nat \ {0} /\ outBuf[k].first = e(k - 1) + 1 /\ e(k) = e(k - 1) + x
        BY <3>1, <3>4
      <4> HIDE DEF x
      <4>4. x \in 1..MaxBytes /\ e(k - 1) + 1 \in 1..MaxBytes
        <5>1. MaxBytes \in Nat /\ n \in Nat /\ k \in Nat /\ accepted \in Nat
          BY <2>1, <3>1, SocketAssumption
        <5>2. e(k) <= accepted
          BY ONLY <4>1, <4>2, <5>1
        <5>3. e(k) <= MaxBytes
          BY ONLY <2>1, <4>2, <5>1, <5>2
        <5> QED
          BY ONLY <4>2, <4>3, <5>1, <5>3
      <4>5. outBuf[k] = [first |-> outBuf[k].first, size |-> outBuf[k].size]
        BY <3>1 DEF Pieces
      <4> QED
        BY <4>3, <4>4, <4>5 DEF Buffers, x
    <3> QED
      BY <3>1, <3>6 DEF n
  <2>5. failures \in 0..2
    BY DEF IInv
  <2> QED
    BY <2>2, <2>3, <2>4, <2>5 DEF Shape, TypeOK
<1> QED
  BY <1>1, SocketInvariant, HeldAlways, ShapeAlways, PTL

-------------------------------------------------------------------------------
(* The socket implements the byte stream.                                    *)

(* Only a socket that was told to disconnect is closed by a timer, and only  *)
(* one that was told to, or has lost its owner, is no longer open.           *)
Closing ==
  /\ closer # None \/ "close" \in ToSet(ready) => disconnecting
  /\ stream # "open" => disconnecting \/ ~owner

LEMMA HandlersQueued ==
  ASSUME NEW T, NEW s \in Seq(T)
  PROVE  /\ \A x \in T : ToSet(Append(s, x)) = ToSet(s) \union {x}
         /\ s # <<>> => Head(s) \in ToSet(s) /\ ToSet(Tail(s)) \subseteq ToSet(s)
<1>1. \A x \in T : ToSet(Append(s, x)) = ToSet(s) \union {x}
  BY ElementsAppend
<1>2. s # <<>> => ToSet(s) = {Head(s)} \union ToSet(Tail(s))
  BY ElementsTail
<1> QED
  BY <1>1, <1>2

LEMMA ClosingNext == Shape /\ Closing /\ [Next]_vars => Closing'
<1> SUFFICES ASSUME Shape, Closing, [Next]_vars PROVE Closing'
  OBVIOUS
<1> USE DEF queueVars, discVars, ownVars
<1> DEFINE Handler == {"write", "read", "fail", "close"}
           Due == "close" \in ToSet(ready)
<1>1. ready \in Seq(Handler) /\ disconnecting \in BOOLEAN /\ owner \in BOOLEAN
  BY DEF Shape
<1>2. \A h \in Handler : ToSet(Append(ready, h)) = ToSet(ready) \union {h}
  BY <1>1, HandlersQueued
<1>3. ready # <<>> => Head(ready) \in ToSet(ready) /\ ToSet(Tail(ready)) \subseteq ToSet(ready)
  BY <1>1, HandlersQueued
<1>4. ASSUME NEW h, Run(h) PROVE (Due' => Due) /\ (h = "close" => Due)
  BY <1>3, <1>4 DEF Run
<1>5. ASSUME disconnecting' = TRUE PROVE Closing'
  BY <1>5 DEF Closing
<1>6. ASSUME NEW size \in BufferSizes, WriteOverflow(size) PROVE Closing'
  BY <1>5, <1>6 DEF WriteOverflow, StartDisconnect
<1>7. ASSUME NEW size \in BufferSizes, NEW lowPrio \in BOOLEAN, WriteQueued(size, lowPrio)
      PROVE  Closing'
  <2>1. CASE Stuck
    BY <1>5, <1>7, <2>1 DEF WriteQueued, StartDisconnect
  <2>2. CASE ~Stuck
    BY <1>7, <2>2 DEF WriteQueued, Closing
  <2> QED
    BY <2>1, <2>2
<1>8. CASE Disconnect
  <2>1. CASE disconnecting
    BY <1>1, <1>5, <1>8, <2>1 DEF Disconnect
  <2>2. CASE ~disconnecting
    BY <1>5, <1>8, <2>2 DEF Disconnect, StartDisconnect
  <2> QED
    BY <2>1, <2>2
<1>9. ASSUME NEW ok \in BOOLEAN, CompleteAccept(ok) \/ CompleteInit(ok) PROVE Closing'
  <2>1. owner' = owner \/ owner' = FALSE
    BY <1>9 DEF CompleteAccept, CompleteInit, Fail
  <2>2. UNCHANGED <<stream, closer, ready, disconnecting>>
    BY <1>9 DEF CompleteAccept, CompleteInit
  <2> QED
    BY <1>1, <2>1, <2>2 DEF Closing
<1>10. CASE CompleteWrite
  <2>1. /\ Run("write") /\ UNCHANGED <<closer, disconnecting, owner>>
        /\ stream' = stream \/ disconnecting
    BY <1>10 DEF CompleteWrite
  <2> QED
    BY <1>4, <2>1 DEF Closing
<1>11. CASE CompleteWriteError \/ CompleteReadError \/ RunFailJob
  <2>1. /\ \E h : Run(h)
        /\ owner' = FALSE /\ UNCHANGED <<stream, closer, disconnecting>>
    BY <1>11 DEF CompleteWriteError, CompleteReadError, RunFailJob, Fail
  <2> QED
    BY <1>4, <2>1 DEF Closing
<1>12. CASE PrepareRead2 \/ CompleteRead
  <2>1. Run("read") /\ UNCHANGED <<stream, closer, disconnecting, owner>>
    BY <1>12 DEF PrepareRead2, CompleteRead
  <2> QED
    BY <1>4, <2>1 DEF Closing
<1>13. CASE Disconnector
  <2>1. Run("close") /\ UNCHANGED <<disconnecting>>
    BY <1>13 DEF Disconnector
  <2>2. disconnecting = TRUE
    BY <1>1, <1>4, <2>1 DEF Closing
  <2> QED
    BY <1>5, <2>1, <2>2
<1>14. CASE Release
  BY <1>14 DEF Release, Closing
<1>15. CASE (\E n \in 1..MaxBytes : KernelWrite(n)) \/ KernelWriteFails \/ KernelRead \/ KernelReadFails
  <2>1. /\ ready' = Append(ready, "write") \/ ready' = Append(ready, "read")
        /\ UNCHANGED <<stream, closer, disconnecting, owner>>
    BY <1>15 DEF KernelWrite, KernelWriteFails, KernelRead, KernelReadFails
  <2>2. Due' => Due
    BY <1>2, <2>1
  <2> QED
    BY <2>1, <2>2 DEF Closing
<1>16. CASE Tick
  <2>1. /\ UNCHANGED <<stream, disconnecting, owner>>
        /\ closer' # None => closer # None
        /\ ready' = ready \/ (ready' = Append(ready, "close") /\ closer # None)
    BY <1>16 DEF Tick
  <2>2. Due' => Due \/ closer # None
    BY <2>1
  <2> QED
    BY <2>1, <2>2 DEF Closing
<1>17. CASE UNCHANGED vars
  BY <1>17 DEF vars, Closing
<1> QED
  BY <1>6, <1>7, <1>8, <1>9, <1>10, <1>11, <1>12, <1>13, <1>14, <1>15, <1>16, <1>17
     DEF Next, OwnerStep, Handlers, Kernel

LEMMA ClosingAlways == Spec => []Closing
<1>1. Init => Closing
  BY DEF Init, Closing, ToSet
<1>2. Shape /\ Closing /\ [Next]_vars => Closing'
  BY ClosingNext
<1> QED
  BY <1>1, <1>2, ShapeAlways, PTL DEF Spec

(* The abstract state.                                                       *)
delivered == [i \in 1..sent |-> i]
end == CASE stream = "open" -> "open" [] stream = "shut" -> "finished" [] OTHER -> "aborted"

LEMMA AbstractState ==
  ASSUME Held
  PROVE  unsent = Interval(sent, accepted) /\ delivered = Interval(0, sent)
<1>1. Joined(outBuf, sent, accepted) /\ sent \in Nat
  BY DEF Held
<1>2. unsent = Interval(sent, accepted)
  BY <1>1, BytesAre DEF unsent
<1>3. delivered = Interval(0, sent)
  <2>1. sent - 0 = sent /\ \A i \in 1..sent : 0 + i = i
    BY <1>1
  <2> QED
    BY <2>1 DEF delivered, Interval
<1> QED
  BY <1>2, <1>3

LEMMA AbstractNext ==
  ASSUME Held'
  PROVE  unsent' = Interval(sent', accepted') /\ delivered' = Interval(0, sent')
<1>1. Joined(outBuf', sent', accepted') /\ sent' \in Nat
  BY DEF Held
<1>2. unsent' = Interval(sent', accepted')
  BY <1>1, BytesAre DEF unsent
<1>3. delivered' = Interval(0, sent')
  <2>1. \A s \in Nat : s - 0 = s /\ \A i \in 1..s : 0 + i = i
    OBVIOUS
  <2> QED
    BY <1>1, <2>1 DEF delivered, Interval
<1> QED
  BY <1>2, <1>3

(* The actions of the stream, in terms of the socket.                        *)
LEMMA StreamStops ==
  ASSUME disconnecting \in BOOLEAN, disconnecting' \in BOOLEAN, disconnecting => disconnecting'
  PROVE  Stream!Stop
  BY Zenon DEF Stream!Stop

LEMMA StreamStutters ==
  ASSUME UNCHANGED <<disconnecting, outBuf, sent, stream>>
  PROVE  UNCHANGED Stream!absVars
<1>1. unsent' = unsent
  BY DEF unsent
<1> QED
  BY <1>1 DEF Stream!absVars

LEMMA StreamAccepts ==
  ASSUME Shape, disconnecting = FALSE, disconnecting' \in BOOLEAN, stream = "open", UNCHANGED <<stream, sent>>,
         Len(unsent') > Len(unsent), IsPrefix(unsent, unsent')
  PROVE  Stream!Next
<1>1. Stream!Stop
  BY StreamStops
<1>2. Stream!Accept
  BY <1>1 DEF Stream!Accept, Stream!IsPrefix, IsPrefix
<1> QED
  BY <1>2 DEF Stream!Next

LEMMA StreamDelivers ==
  ASSUME Shape, UNCHANGED disconnecting, stream # "shut", NEW n \in 1..Len(unsent),
         delivered' = delivered \o SubSeq(unsent, 1, n),
         unsent' = SubSeq(unsent, n + 1, Len(unsent)),
         end' = end \/ (disconnecting /\ unsent' = <<>> /\ end' \in {"finished", "aborted"})
  PROVE  Stream!Next
<1>1. Stream!Stop
  BY StreamStops DEF Shape
<1>2. end # "finished"
  BY DEF end
<1>3. Stream!Deliver
  BY <1>1, <1>2 DEF Stream!Deliver, delivered, end
<1> QED
  BY <1>3 DEF Stream!Next

LEMMA StreamDisconnects ==
  ASSUME disconnecting' = TRUE, UNCHANGED <<outBuf, sent>>,
         end' = end \/ (unsent = <<>> /\ stream = "open" /\ stream' = "shut")
  PROVE  Stream!Next
<1>1. unsent' = unsent
  BY DEF unsent
<1>2. Stream!Disconnect
  BY <1>1 DEF Stream!Disconnect, end
<1> QED
  BY <1>2 DEF Stream!Next

LEMMA StreamAborts ==
  ASSUME Shape, disconnecting' \in BOOLEAN, disconnecting => disconnecting',
         UNCHANGED <<outBuf, sent>>, stream' \in {"closed", "terminated"}
  PROVE  Stream!Next
<1>1. unsent' = unsent
  BY DEF unsent
<1>2. Stream!Stop
  BY StreamStops DEF Shape
<1>3. end' = "aborted"
  BY DEF end
<1>4. Stream!Abort
  BY <1>1, <1>2, <1>3 DEF Stream!Abort, end
<1> QED
  BY <1>4 DEF Stream!Next

LEMMA StreamStep ==
  IInv /\ Held /\ Held' /\ Shape /\ Shape' /\ Closing /\ [Next]_vars => [Stream!Next]_(Stream!absVars)
<1> SUFFICES ASSUME IInv, Held, Held', Shape, Shape', Closing, [Next]_vars
             PROVE  Stream!Next \/ UNCHANGED Stream!absVars
  OBVIOUS
<1> USE DEF queueVars, discVars, ownVars
<1>1. CASE UNCHANGED <<disconnecting, outBuf, sent, stream>>
  BY <1>1, StreamStutters
<1>2. unsent = Interval(sent, accepted) /\ delivered = Interval(0, sent)
  BY AbstractState
<1>3. unsent' = Interval(sent', accepted') /\ delivered' = Interval(0, sent')
  BY AbstractNext
<1>4. accepted \in Nat /\ sent \in Nat /\ sent <= accepted /\ (outBuf = <<>> => sent = accepted)
  BY JoinedEmpty DEF Held
<1>5. sent = accepted => unsent = <<>>
  BY <1>2, <1>4, IntervalShape
<1>6. ASSUME StartDisconnect, UNCHANGED <<outBuf, sent>>, ~disconnecting, owner, Alive PROVE Stream!Next
  <2>1. disconnecting' = TRUE
    BY <1>6 DEF StartDisconnect
  <2>2. CASE writing
    <3>1. end' = end
      BY <1>6, <2>2 DEF StartDisconnect, end
    <3> QED
      BY <1>6, <2>1, <3>1, StreamDisconnects
  <2>3. CASE ~writing
    <3>1. outBuf = <<>>
      BY <1>6, <2>3 DEF IInv
    <3>2. stream = "open" /\ stream' \in {"shut", "terminated"}
      BY <1>6, <2>3 DEF StartDisconnect, Shutdown, Closing, Shape
    <3>3. CASE stream' = "shut"
      <4>1. end' = end \/ (unsent = <<>> /\ stream = "open" /\ stream' = "shut")
        BY <1>4, <1>5, <3>1, <3>2, <3>3
      <4> QED
        BY <1>6, <2>1, <4>1, StreamDisconnects
    <3>4. CASE stream' = "terminated"
      BY <1>6, <2>1, <3>4, StreamAborts
    <3> QED
      BY <3>2, <3>3, <3>4
  <2> QED
    BY <2>2, <2>3
<1>7. ASSUME NEW size \in BufferSizes, WriteOverflow(size) PROVE Stream!Next
  BY <1>6, <1>7 DEF WriteOverflow, CanWrite
<1>8. ASSUME NEW size \in BufferSizes, NEW lowPrio \in BOOLEAN, WriteQueued(size, lowPrio)
      PROVE  Stream!Next
  <2>1. /\ size \in Nat \ {0} /\ ~disconnecting /\ owner /\ disconnecting' \in BOOLEAN
        /\ accepted' = accepted + size /\ sent' = sent
    BY <1>8, SocketAssumption DEF WriteQueued, CanWrite, Shape
  <2>2. stream = "open" /\ stream' = stream
    BY <1>8, <2>1 DEF WriteQueued, StartDisconnect, Stuck, Closing, Shape
  <2>3. accepted + size \in Nat /\ accepted < accepted + size
    BY <1>4, <2>1
  <2>4. Len(Interval(sent, accepted + size)) > Len(Interval(sent, accepted))
        /\ IsPrefix(Interval(sent, accepted), Interval(sent, accepted + size))
    BY <1>4, <2>3, IntervalGrows
  <2>5. Len(unsent') > Len(unsent) /\ IsPrefix(unsent, unsent')
    BY <1>2, <1>3, <2>1, <2>4
  <2>6. disconnecting = FALSE
    BY <2>1 DEF Shape
  <2> QED
    BY <2>1, <2>2, <2>5, <2>6, StreamAccepts
<1>9. CASE Disconnect
  <2>1. CASE disconnecting
    BY <1>1, <1>9, <2>1 DEF Disconnect
  <2>2. CASE ~disconnecting
    BY <1>6, <1>9, <2>2 DEF Disconnect
  <2> QED
    BY <2>1, <2>2
<1>10. CASE CompleteWrite
  <2>1. /\ write.st = "done" /\ accepted' = accepted /\ sent' = sent + write.n
        /\ stream' = stream \/ (disconnecting /\ outBuf' = <<>> /\ Shutdown)
        /\ UNCHANGED disconnecting
    BY <1>10 DEF CompleteWrite
  <2> DEFINE n == write.n
  <2>2. n \in 1..(accepted - sent)
    BY <2>1 DEF Held
  <2>3. /\ n \in 1..Len(Interval(sent, accepted))
        /\ Interval(0, sent + n) = Interval(0, sent) \o SubSeq(Interval(sent, accepted), 1, n)
        /\ Interval(sent + n, accepted)
             = SubSeq(Interval(sent, accepted), n + 1, Len(Interval(sent, accepted)))
    BY <1>4, <2>2, IntervalShrinks
  <2>4. /\ n \in 1..Len(unsent)
        /\ delivered' = delivered \o SubSeq(unsent, 1, n)
        /\ unsent' = SubSeq(unsent, n + 1, Len(unsent))
    BY <1>2, <1>3, <2>1, <2>3
  <2>5. stream # "shut"
    BY <2>1 DEF IInv
  <2>6. end' = end \/ (disconnecting /\ unsent' = <<>> /\ end' \in {"finished", "aborted"})
    <3>1. CASE stream' = stream
      BY <3>1 DEF end
    <3>2. CASE disconnecting /\ outBuf' = <<>> /\ Shutdown
      <4>1. accepted' \in Nat /\ sent' \in Nat /\ sent' = accepted'
        BY <3>2, JoinedEmpty DEF Held
      <4>2. unsent' = <<>>
        <5>1. \A a \in Nat : Interval(a, a) = <<>>
          <6> TAKE a \in Nat
          <6>1. a <= a
            OBVIOUS
          <6> QED
            BY <6>1, IntervalShape
        <5> QED
          BY <1>3, <4>1, <5>1
      <4>3. stream' = "terminated" \/ (stream # "closed" /\ stream' = "shut")
        BY <3>2 DEF Shutdown
      <4>4. stream # "terminated"
        BY <1>10 DEF CompleteWrite, Run, Alive
      <4>5. CASE stream = "closed"
        BY <4>3, <4>5 DEF end
      <4>6. CASE stream = "open"
        BY <3>2, <4>2, <4>3, <4>6 DEF end
      <4> QED
        BY <2>5, <4>4, <4>5, <4>6 DEF Shape
    <3> QED
      BY <2>1, <3>1, <3>2
  <2> HIDE DEF n
  <2> QED
    BY <2>1, <2>4, <2>5, <2>6, StreamDelivers
<1>11. CASE Disconnector \/ Release
  BY <1>11, StreamAborts DEF Disconnector, Release, Shape
<1>12. ASSUME NEW ok \in BOOLEAN, CompleteAccept(ok) \/ CompleteInit(ok) PROVE UNCHANGED Stream!absVars
  BY <1>12, StreamStutters DEF CompleteAccept, CompleteInit
<1>13. CASE CompleteWriteError \/ PrepareRead2 \/ CompleteRead \/ CompleteReadError \/ RunFailJob
  BY <1>1, <1>13 DEF CompleteWriteError, PrepareRead2, CompleteRead, CompleteReadError, RunFailJob
<1>14. CASE (\E n \in 1..MaxBytes : KernelWrite(n)) \/ KernelWriteFails \/ KernelRead \/ KernelReadFails
  BY <1>1, <1>14 DEF KernelWrite, KernelWriteFails, KernelRead, KernelReadFails
<1>15. CASE Tick \/ UNCHANGED vars
  BY <1>1, <1>15 DEF Tick, vars
<1> QED
  BY <1>7, <1>8, <1>9, <1>10, <1>11, <1>12, <1>13, <1>14, <1>15 DEF Next, OwnerStep, Handlers, Kernel

(* A socket is a byte stream: whatever is accepted leaves in order, each byte*)
(* once and none skipped, nothing is accepted after disconnect(), and the    *)
(* stream ends in order only with nothing left to send (write, completeWrite,*)
(* disconnect, Disconnector).                                                *)
THEOREM SocketIsStream == Spec => StreamSpec
<1>1. Init => Stream!Init
  <2> SUFFICES ASSUME Init PROVE Stream!Init
    OBVIOUS
  <2>1. Held
    BY HeldInit
  <2>2. unsent = <<>> /\ delivered = <<>>
    BY <2>1, AbstractState, IntervalShape DEF Init
  <2> QED
    BY <2>2 DEF Init, Stream!Init, delivered
<1>2. IInv /\ Held /\ Held' /\ Shape /\ Shape' /\ Closing /\ [Next]_vars => [Stream!Next]_(Stream!absVars)
  BY StreamStep
<1> QED
  BY <1>1, <1>2, SocketInvariant, HeldAlways, ShapeAlways, ClosingAlways, PTL
     DEF Spec, StreamSpec, Stream!Spec
===============================================================================
