--------------------------- MODULE BBS0JournalProofs ---------------------------
(***************************************************************************)
(* Proofs about BBS0Journal for every set of posts, every size of a board, *)
(* every compaction interval and every length of the journal.  The types   *)
(* hold whatever an append may leave behind.  When it writes the whole of  *)
(* its record or nothing of it, the files that a crash leaves always load  *)
(* to the board in memory, and the index implements BulletinBoard.         *)
(*                                                                         *)
(* The journal may have more than memory has: the records of entries that  *)
(* the retention removed, when the record of the removal could not be      *)
(* written.  Carries says what these may be: older than all that is in     *)
(* memory, and there only when the board is full, so that the retention of *)
(* the next start removes them again.                                      *)
(***************************************************************************)
EXTENDS BBS0Journal, SelectionProofs

(* An append is not cut short.                                               *)
Whole == "torn" \notin Faults

(* The entries of a board: in the order of their times, one for each post.   *)
Neat(es) ==
  \A i, j \in 1..Len(es) : i < j => es[i].ts <= es[j].ts /\ es[i].tth # es[j].tth

Boards == [entries : Seq(Entries), horizon : Horizons]

(* A board as it is in memory.                                               *)
Fit(b) ==
  /\ b \in Boards
  /\ Len(b.entries) <= MaxPosts
  /\ Neat(b.entries)
  /\ \A e \in ToSet(b.entries) : b.horizon <= e.ts

(* What the records of a journal make when memory has b.                     *)
Carries(r, b) ==
  /\ r \in Boards
  /\ Neat(r.entries)
  /\ r.horizon <= b.horizon
  /\ \E older \in Seq(Entries) :
       /\ r.entries = older \o b.entries
       /\ older = <<>> => r.horizon = b.horizon
       /\ older # <<>> => Len(b.entries) = MaxPosts

LEMMA Sizes == MaxPosts \in Nat \ {0} /\ None \notin Seq(Lines) \union Entries
  BY BBSAssumption

-------------------------------------------------------------------------------
(* Sequences of entries.                                                     *)

(* The entries of other posts.                                               *)
Others(p) == [tth : Posts \ {p}, ts : Times, removed : BOOLEAN]

LEMMA NeatEmpty == Neat(<<>>) /\ <<>> \in Seq(Entries)
  BY DEF Neat

LEMMA NeatAppend ==
  ASSUME NEW s \in Seq(Entries), NEW x \in Entries
  PROVE  Neat(Append(s, x)) = (Neat(s) /\ \A e \in ToSet(s) : e.ts <= x.ts /\ e.tth # x.tth)
<1> DEFINE t == Append(s, x)
           n == Len(s)
           Before(d, e) == d.ts <= e.ts /\ d.tth # e.tth
<1>1. DOMAIN s = 1..n /\ Len(t) = n + 1 /\ n \in Nat
  OBVIOUS
<1>2. \A i \in 1..n : t[i] = s[i]
  OBVIOUS
<1>3. t[n + 1] = x
  OBVIOUS
<1> HIDE DEF t, Before
<1>4. (\A i, j \in 1..(n + 1) : i < j => Before(t[i], t[j]))
        = ((\A i, j \in 1..n : i < j => Before(s[i], s[j])) /\ \A i \in 1..n : Before(s[i], x))
  <2>1. \A i \in 1..(n + 1) : i \in 1..n \/ i = n + 1
    BY <1>1
  <2>2. n + 1 \in 1..(n + 1) /\ \A i \in 1..n : i \in 1..(n + 1) /\ i < n + 1 /\ ~(n + 1 < i)
    BY <1>1
  <2>3. ~(n + 1 < n + 1)
    BY <1>1
  <2> HIDE DEF n
  <2> QED
    BY <1>1, <1>2, <1>3, <2>1, <2>2, <2>3
<1>5. (\A e \in ToSet(s) : Before(e, x)) = \A i \in 1..n : Before(s[i], x)
  BY <1>1 DEF ToSet
<1>6. Neat(t) = (Neat(s) /\ \A e \in ToSet(s) : Before(e, x))
  BY <1>1, <1>4, <1>5 DEF Neat, Before
<1> QED
  BY <1>6 DEF t, Before

LEMMA NeatConcat ==
  ASSUME NEW s \in Seq(Entries), NEW t \in Seq(Entries), Neat(s \o t)
  PROVE  /\ Neat(s) /\ Neat(t)
         /\ \A d \in ToSet(s), e \in ToSet(t) : d.ts <= e.ts /\ d.tth # e.tth
<1> DEFINE u == s \o t
           m == Len(s)
           n == Len(t)
           Before(d, e) == d.ts <= e.ts /\ d.tth # e.tth
<1>1. /\ m \in Nat /\ n \in Nat /\ DOMAIN s = 1..m /\ DOMAIN t = 1..n /\ Len(u) = m + n
      /\ \A i \in 1..m : u[i] = s[i]
      /\ \A i \in 1..n : u[m + i] = t[i]
  OBVIOUS
<1>2. \A i, j \in 1..(m + n) : i < j => Before(u[i], u[j])
  BY <1>1 DEF Neat
<1> HIDE DEF u, m, n, Before
<1>3. /\ \A i \in 1..m : i \in 1..(m + n)
      /\ \A i \in 1..n : m + i \in 1..(m + n)
      /\ \A i, j \in 1..n : i < j => m + i < m + j
      /\ \A i \in 1..m, j \in 1..n : i < m + j
  BY <1>1
<1>4. \A i, j \in 1..m : i < j => Before(s[i], s[j])
  BY <1>1, <1>2, <1>3
<1>5. \A i, j \in 1..n : i < j => Before(t[i], t[j])
  BY <1>1, <1>2, <1>3
<1>6. \A i \in 1..m, j \in 1..n : Before(s[i], t[j])
  BY <1>1, <1>2, <1>3
<1>7. \A d \in ToSet(s), e \in ToSet(t) : Before(d, e)
  BY <1>1, <1>6 DEF ToSet
<1> QED
  BY <1>4, <1>5, <1>7 DEF Neat, Before, m, n

LEMMA WithoutIs ==
  ASSUME NEW es \in Seq(Entries), NEW p
  PROVE  /\ Without(es, p) = Select(es, Others(p))
         /\ Without(es, p) \in Seq(Entries)
         /\ ToSet(Without(es, p)) = {e \in ToSet(es) : e.tth # p}
<1> DEFINE S == {es[i] : i \in {j \in DOMAIN es : es[j].tth # p}}
<1>1. ToSet(es) \subseteq Entries
  BY DEF ToSet
<1>2. ToSet(es) \intersect S = {e \in ToSet(es) : e.tth # p}
  BY DEF ToSet
<1>3. ToSet(es) \intersect Others(p) = {e \in ToSet(es) : e.tth # p}
  BY <1>1 DEF Entries, Others
<1>4. Without(es, p) = Select(es, S)
  BY DEF Without
<1> HIDE DEF S
<1>5. Select(es, S) = Select(es, Others(p))
  BY <1>2, <1>3, SelectMembers
<1>6. Select(es, Others(p)) \in Seq(Entries) /\ ToSet(Select(es, Others(p))) = ToSet(es) \intersect Others(p)
  BY SelectSound
<1> QED
  BY <1>3, <1>4, <1>5, <1>6

(* Taking out a post leaves the entries neat, and takes out one at most.     *)
LEMMA WithoutNeat ==
  ASSUME NEW es \in Seq(Entries), NEW p, Neat(es)
  PROVE  /\ Neat(Without(es, p))
         /\ (\A e \in ToSet(es) : e.tth # p) => Without(es, p) = es
         /\ (\E e \in ToSet(es) : e.tth = p) => Len(Without(es, p)) = Len(es) - 1
<1> DEFINE W(s) == Select(s, Others(p))
           Has(s) == \E e \in ToSet(s) : e.tth = p
           A == {s \in Seq(Entries) : Neat(s) => /\ Neat(W(s))
                                                 /\ ~Has(s) => W(s) = s
                                                 /\ Has(s) => Len(W(s)) = Len(s) - 1}
<1>1. <<>> \in A
  <2>1. W(<<>>) = <<>>
    BY SelectEmpty
  <2>2. ToSet(<<>>) = {}
    BY DEF ToSet
  <2> QED
    BY <2>1, <2>2, NeatEmpty
<1>2. ASSUME NEW s \in A, NEW x \in Entries PROVE Append(s, x) \in A
  <2> DEFINE t == Append(s, x)
             q == W(s)
  <2>1. s \in Seq(Entries)
    OBVIOUS
  <2>2. q \in Seq(Entries)
    BY <2>1, SelectSound
  <2>3. ToSet(q) \subseteq ToSet(s) /\ t \in Seq(Entries) /\ ToSet(t) = ToSet(s) \union {x}
        /\ Len(t) = Len(s) + 1
    BY <2>1, SelectSound, ElementsAppend
  <2>4. W(t) = IF x \in Others(p) THEN Append(q, x) ELSE q
    BY <2>1, SelectAppend
  <2>5. x \in Others(p) <=> x.tth # p
    BY DEF Entries, Others
  <2>6. Neat(t) = (Neat(s) /\ \A e \in ToSet(s) : e.ts <= x.ts /\ e.tth # x.tth)
    BY <2>1, NeatAppend
  <2>7. Neat(s) => /\ Neat(q)
                   /\ ~Has(s) => q = s
                   /\ Has(s) => Len(q) = Len(s) - 1
    OBVIOUS
  <2>8. Neat(Append(q, x)) = (Neat(q) /\ \A e \in ToSet(q) : e.ts <= x.ts /\ e.tth # x.tth)
    <3> HIDE DEF q
    <3> QED
      BY <2>2, NeatAppend
  <2>9. Len(Append(q, x)) = Len(q) + 1 /\ Len(q) \in Nat /\ Len(s) \in Nat
    <3> HIDE DEF q
    <3> QED
      BY <2>1, <2>2
  <2>10. Has(t) <=> Has(s) \/ x.tth = p
    BY <2>3
  <2>11. t = Append(s, x)
    OBVIOUS
  <2> HIDE DEF q, t, W
  <2> SUFFICES ASSUME Neat(t)
               PROVE  /\ Neat(W(t))
                      /\ ~Has(t) => W(t) = t
                      /\ Has(t) => Len(W(t)) = Len(t) - 1
    BY <2>3, <2>11
  <2>12. Neat(s) /\ \A e \in ToSet(s) : e.ts <= x.ts /\ e.tth # x.tth
    BY <2>6
  <2>13. CASE x.tth = p
    <3>1. ~Has(s) /\ Has(t)
      BY <2>10, <2>12, <2>13
    <3>2. q = s /\ Neat(q) /\ W(t) = q
      BY <2>4, <2>5, <2>7, <2>12, <2>13, <3>1
    <3> QED
      BY <2>3, <2>9, <3>1, <3>2
  <2>14. CASE x.tth # p
    <3>1. W(t) = Append(q, x)
      BY <2>4, <2>5, <2>14
    <3>2. Neat(W(t))
      BY <2>3, <2>7, <2>8, <2>12, <3>1
    <3>3. ~Has(t) => W(t) = t
      BY <2>7, <2>10, <2>11, <2>12, <3>1
    <3>4. Has(t) => Len(W(t)) = Len(t) - 1
      BY <2>3, <2>7, <2>9, <2>10, <2>12, <2>14, <3>1
    <3> QED
      BY <3>2, <3>3, <3>4
  <2> QED
    BY <2>13, <2>14
<1> HIDE DEF A
<1>3. A \in SUBSET Seq(Entries)
  BY DEF A
<1>4. \A s \in Seq(Entries) : s \in A
  BY <1>1, <1>2, <1>3, AllSequences
<1>5. Without(es, p) = W(es)
  BY WithoutIs
<1> QED
  BY <1>4, <1>5 DEF A

-------------------------------------------------------------------------------
(* What the records of a journal make.                                       *)

LEMMA Kinds ==
  ASSUME NEW l \in Records
  PROVE  \/ l.kind = "P" /\ l.entry \in Entries
         \/ l.kind = "D" /\ l.entry \in Entries /\ l.horizon \in Horizons
         \/ l.kind = "H" /\ l.horizon \in Horizons
  BY DEF Records

LEMMA AreRecords ==
  ASSUME NEW e \in Entries, NEW h \in Horizons
  PROVE  PostLine(e) \in Records /\ DeleteLine(e, h) \in Records /\ HorizonLine(h) \in Records
  BY DEF Records, PostLine, DeleteLine, HorizonLine

LEMMA HorizonTypes ==
  /\ Horizons \subseteq Int /\ 0 \in Horizons /\ Times \subseteq Horizons
  /\ \A a, b \in Horizons : /\ Larger(a, b) \in Horizons /\ Larger(a, b) >= a /\ Larger(a, b) >= b
                            /\ a >= b => Larger(a, b) = a
                            /\ b >= a => Larger(a, b) = b
  /\ \A t \in Times, h \in Horizons : Larger(t, h) \in Times
  BY BBSAssumption DEF Horizons, Times, Larger

LEMMA ApplyIs ==
  ASSUME NEW b \in Boards, NEW e \in Entries, NEW h \in Horizons
  PROVE  /\ Apply(b, PostLine(e)) =
              [entries |-> Append(Without(b.entries, e.tth), e), horizon |-> b.horizon]
         /\ Apply(b, DeleteLine(e, h)) =
              [entries |-> Without(b.entries, e.tth), horizon |-> Larger(h, b.horizon)]
         /\ Apply(b, HorizonLine(h)) = [entries |-> b.entries, horizon |-> h]
  BY DEF Boards, Apply, PostLine, DeleteLine, HorizonLine

LEMMA ApplyType ==
  ASSUME NEW b \in Boards, NEW l \in Records
  PROVE  Apply(b, l) \in Boards
<1>1. b.entries \in Seq(Entries) /\ b.horizon \in Horizons
  BY DEF Boards
<1>2. CASE l.kind = "P" /\ l.entry \in Entries
  <2>1. Without(b.entries, l.entry.tth) \in Seq(Entries)
    BY <1>1, WithoutIs
  <2>2. Append(Without(b.entries, l.entry.tth), l.entry) \in Seq(Entries)
    BY <1>2, <2>1
  <2> QED
    BY <1>1, <1>2, <2>2 DEF Apply, Boards
<1>3. CASE l.kind = "D" /\ l.entry \in Entries /\ l.horizon \in Horizons
  <2>1. Without(b.entries, l.entry.tth) \in Seq(Entries)
    BY <1>1, WithoutIs
  <2>2. Larger(l.horizon, b.horizon) \in Horizons
    BY <1>1, <1>3, HorizonTypes
  <2> QED
    BY <1>3, <2>1, <2>2 DEF Apply, Boards
<1>4. CASE l.kind = "H" /\ l.horizon \in Horizons
  BY <1>1, <1>4 DEF Apply, Boards
<1> QED
  BY <1>2, <1>3, <1>4, Kinds

LEMMA EmptyType == EmptyBoard \in Boards /\ Fit(EmptyBoard) /\ EmptyBoard.entries = <<>> /\ EmptyBoard.horizon = 0
<1>1. ToSet(<<>>) = {}
  BY DEF ToSet
<1>2. Len(<<>>) = 0 /\ 0 <= MaxPosts
  BY Sizes
<1> QED
  BY <1>1, <1>2, NeatEmpty, HorizonTypes DEF EmptyBoard, Boards, Fit

(* What the function is that Replay takes its last value of.                 *)
Replays(upto, s) ==
  /\ upto[0] = EmptyBoard
  /\ \A i \in 1..Len(s) : upto[i] = Apply(upto[i - 1], s[i])

LEMMA ReplayUnfolds ==
  ASSUME NEW s \in Seq(Records)
  PROVE  \E upto \in [0..Len(s) -> Boards] : Replays(upto, s) /\ Replay(s) = upto[Len(s)]
<1> DEFINE n == Len(s)
           Kept(g) == g = [i \in 0..n |-> IF i = 0 THEN EmptyBoard ELSE Apply(g[i - 1], s[i])]
           next == [p \in Boards \X Nat |-> IF p[2] \in 1..n THEN Apply(p[1], s[p[2]]) ELSE p[1]]
<1>1. n \in Nat /\ \A i \in 1..n : s[i] \in Records
  OBVIOUS
<1>13. n \in Nat
  OBVIOUS
<1> HIDE DEF n
<1>2. next \in StepsOn(Boards) /\ EmptyBoard \in Boards
  BY <1>1, ApplyType, EmptyType DEF StepsOn
<1>3. \A b \in Boards, i \in 1..n : next[<<b, i>>] = Apply(b, s[i])
  BY <1>13
<1> HIDE DEF next, Kept
<1>15. \E f \in [Nat -> Boards] : Follows(f, EmptyBoard, next)
  BY <1>2, Recursion
<1>4. PICK f \in [Nat -> Boards] : f[0] = EmptyBoard /\ \A i \in Nat : f[i + 1] = next[<<f[i], i + 1>>]
  BY <1>15 DEF Follows
<1> DEFINE g == [i \in 0..n |-> f[i]]
<1>5. ASSUME NEW i \in 1..n PROVE g[i] = Apply(g[i - 1], s[i])
  <2>1. i - 1 \in Nat /\ (i - 1) + 1 = i /\ i \in 0..n /\ i - 1 \in 0..n
    BY <1>13
  <2>2. f[i] = next[<<f[i - 1], i>>] /\ f[i - 1] \in Boards
    BY <1>4, <2>1
  <2> QED
    BY <1>3, <2>1, <2>2
<1>6. g \in [0..n -> Boards] /\ g[0] = EmptyBoard
  BY <1>13, <1>4
<1> HIDE DEF g
<1>7. Kept(g)
  <2> USE DEF Kept
  <2>1. g = [i \in 0..n |-> g[i]]
    BY <1>6
  <2>2. \A i \in 0..n : g[i] = IF i = 0 THEN EmptyBoard ELSE Apply(g[i - 1], s[i])
    <3> TAKE i \in 0..n
    <3>1. CASE i = 0
      BY <3>1, <1>6
    <3>2. CASE i # 0
      <4>1. i \in 1..n
        BY <1>13, <3>2
      <4> QED
        BY <1>5, <3>2, <4>1
    <3> QED
      BY <3>1, <3>2
  <2> QED
    BY <2>1, <2>2
<1> DEFINE k == CHOOSE h : Kept(h)
<1>8. Replay(s) = k[n]
  BY DEF Replay, n, Kept
<1>9. Kept(k)
  BY <1>7
<1> HIDE DEF k
<1>10. k[0] = EmptyBoard /\ \A i \in 1..n : k[i] = Apply(k[i - 1], s[i])
  <2> DEFINE Value(i) == IF i = 0 THEN EmptyBoard ELSE Apply(k[i - 1], s[i])
  <2>1. k = [i \in 0..n |-> Value(i)]
    BY <1>9 DEF Kept
  <2> HIDE DEF Value
  <2>2. \A i \in 0..n : k[i] = Value(i)
    BY <2>1
  <2>3. k[0] = EmptyBoard
    BY <1>13, <2>2 DEF Value
  <2>4. ASSUME NEW i \in 1..n PROVE k[i] = Apply(k[i - 1], s[i])
    <3>1. i \in 0..n /\ i # 0
      BY <1>13
    <3> QED
      BY <2>2, <3>1 DEF Value
  <2> QED
    BY <2>3, <2>4
<1>11. RemainEqual(k, g, n)
  <2>1. \A i \in 1..n : k[i - 1] = g[i - 1] => k[i] = g[i]
    BY <1>5, <1>10
  <2>2. k[0] = g[0]
    BY <1>6, <1>10
  <2> QED
    BY <2>1, <2>2 DEF RemainEqual
<1>12. Replay(s) = g[n]
  BY <1>13, <1>8, <1>11, UpwardsEqual
<1> QED
  BY <1>5, <1>6, <1>12 DEF n, Replays

LEMMA ReplayType == ASSUME NEW s \in Seq(Records) PROVE Replay(s) \in Boards
<1>1. PICK upto \in [0..Len(s) -> Boards] : Replays(upto, s) /\ Replay(s) = upto[Len(s)]
  BY ReplayUnfolds
<1>2. Len(s) \in 0..Len(s)
  OBVIOUS
<1> QED
  BY <1>1, <1>2

LEMMA ReplayEmpty == Replay(<<>>) = EmptyBoard
<1>1. <<>> \in Seq(Records) /\ Len(<<>>) = 0
  OBVIOUS
<1>2. PICK upto \in [0..Len(<<>>) -> Boards] : Replays(upto, <<>>) /\ Replay(<<>>) = upto[Len(<<>>)]
  BY <1>1, ReplayUnfolds
<1> QED
  BY <1>1, <1>2 DEF Replays

(* A record that is appended is applied last.                                *)
LEMMA ReplayAppend ==
  ASSUME NEW s \in Seq(Records), NEW l \in Records
  PROVE  Replay(Append(s, l)) = Apply(Replay(s), l)
<1> DEFINE r == Append(s, l)
           n == Len(s)
<1>1. r \in Seq(Records) /\ n \in Nat /\ Len(r) = n + 1 /\ r[n + 1] = l
  OBVIOUS
<1>2. \A i \in 1..n : i \in 1..(n + 1) /\ r[i] = s[i]
  OBVIOUS
<1>3. PICK f \in [0..Len(s) -> Boards] : Replays(f, s) /\ Replay(s) = f[Len(s)]
  BY ReplayUnfolds
<1>4. r \in Seq(Records)
  BY <1>1
<1> HIDE DEF r
<1>5. PICK g \in [0..Len(r) -> Boards] : Replays(g, r) /\ Replay(r) = g[Len(r)]
  BY <1>4, ReplayUnfolds
<1>6. /\ f[0] = EmptyBoard /\ \A i \in 1..n : f[i] = Apply(f[i - 1], s[i])
      /\ g[0] = EmptyBoard /\ \A i \in 1..(n + 1) : g[i] = Apply(g[i - 1], r[i])
  BY <1>1, <1>3, <1>5 DEF Replays
<1> HIDE DEF n
<1>7. RemainEqual(g, f, n)
  <2>1. \A i \in 1..n : g[i - 1] = f[i - 1] => g[i] = f[i]
    BY <1>2, <1>6
  <2> QED
    BY <1>6, <2>1 DEF RemainEqual
<1>8. g[n] = f[n]
  BY <1>1, <1>7, UpwardsEqual
<1>9. n + 1 \in 1..(n + 1) /\ (n + 1) - 1 = n
  BY <1>1
<1>10. g[n + 1] = Apply(f[n], l)
  BY <1>1, <1>6, <1>8, <1>9
<1> QED
  BY <1>1, <1>3, <1>5, <1>10 DEF r, n

-------------------------------------------------------------------------------
(* The files.                                                                *)

(* What a file is when no write to it was cut short: the header, and records.*)
Journals == {f \in Seq(Lines) : f # <<>> /\ f[1] = Header /\ Tail(f) \in Seq(Records)}

(* What a file makes.                                                        *)
Content(f) == IF f = None THEN EmptyBoard ELSE Replay(Tail(f))

LEMMA LineKinds ==
  /\ Header \in Lines /\ Records \subseteq Lines /\ Header # Torn /\ Header # Garbage
  /\ Torn \notin Records /\ Garbage \notin Records
<1>1. Header.kind = "header" /\ Torn.kind = "torn" /\ Garbage.kind = "garbage"
  BY DEF Header, Torn, Garbage
<1>2. \A l \in Records : l.kind \in {"P", "D", "H"}
  BY DEF Records
<1> QED
  BY <1>1, <1>2 DEF Lines

LEMMA ContentType ==
  ASSUME NEW f \in Journals \union {None}
  PROVE  Content(f) \in Boards
  BY ReplayType, EmptyType DEF Content, Journals

(* A journal is complete, and has a line in it that is not a record only at  *)
(* its start.                                                                *)
LEMMA JournalLines ==
  ASSUME NEW f \in Journals
  PROVE  /\ f \in Seq(Lines) /\ f # <<>> /\ f # None /\ f[1] = Header
         /\ Last(f) # Torn /\ Complete(f) = f
         /\ \A i \in DOMAIN f : f[i] # Garbage
<1> DEFINE n == Len(f)
<1>1. f \in Seq(Lines) /\ f # <<>> /\ f[1] = Header /\ Tail(f) \in Seq(Records)
  BY DEF Journals
<1>2. n \in Nat /\ n >= 1 /\ DOMAIN f = 1..n
  BY <1>1
<1>3. \A i \in 2..n : i - 1 \in 1..Len(Tail(f)) /\ f[i] = Tail(f)[i - 1]
  BY <1>1
<1>4. \A i \in 2..n : f[i] \in Records
  BY <1>1, <1>3
<1>5. \A i \in 1..n : i = 1 \/ i \in 2..n
  BY <1>2
<1>6. \A i \in 1..n : f[i] # Torn /\ f[i] # Garbage
  BY <1>1, <1>4, <1>5, LineKinds
<1>7. Last(f) = f[n] /\ n \in 1..n
  BY <1>2 DEF Last
<1> QED
  BY <1>1, <1>2, <1>6, <1>7, Sizes DEF Complete

LEMMA JournalExtended ==
  ASSUME NEW f \in Journals, NEW l \in Records
  PROVE  /\ Append(f, l) \in Journals
         /\ Content(Append(f, l)) = Apply(Content(f), l)
<1>1. f \in Seq(Lines) /\ f # <<>> /\ f[1] = Header /\ Tail(f) \in Seq(Records)
  BY DEF Journals
<1>2. l \in Lines
  BY LineKinds
<1>3. /\ Append(f, l) \in Seq(Lines) /\ Append(f, l) # <<>> /\ Append(f, l)[1] = f[1]
      /\ Tail(Append(f, l)) = Append(Tail(f), l)
  <2>1. Append(f, l) \in Seq(Lines) /\ Append(f, l) # <<>> /\ Append(f, l)[1] = f[1]
    BY <1>1, <1>2
  <2>2. Tail(Append(f, l)) = Append(Tail(f), l)
    <3>1. Tail(f) \in Seq(Lines)
      BY <1>1
    <3>2. Tail(Append(f, l)) \in Seq(Lines) /\ Append(Tail(f), l) \in Seq(Lines)
      BY <1>2, <2>1, <3>1
    <3>3. Len(Tail(Append(f, l))) = Len(f) /\ Len(Append(Tail(f), l)) = Len(f)
      BY <1>1, <1>2
    <3>4. \A i \in 1..Len(f) : Tail(Append(f, l))[i] = Append(Tail(f), l)[i]
      BY <1>1, <1>2
    <3> QED
      BY <3>2, <3>3, <3>4, SeqEqual
  <2> QED
    BY <2>1, <2>2
<1>4. Append(Tail(f), l) \in Seq(Records)
  BY <1>1
<1>5. Append(f, l) # None /\ f # None
  BY <1>1, <1>3, Sizes
<1>6. Replay(Append(Tail(f), l)) = Apply(Replay(Tail(f)), l)
  BY <1>1, ReplayAppend
<1> QED
  BY <1>1, <1>3, <1>4, <1>5, <1>6 DEF Journals, Content

LEMMA JournalBegun ==
  ASSUME NEW l \in Records
  PROVE  /\ <<Header>> \in Journals /\ Content(<<Header>>) = EmptyBoard
         /\ <<Header, l>> \in Journals /\ Content(<<Header, l>>) = Apply(EmptyBoard, l)
<1>1. Header \in Lines
  BY LineKinds
<1>2. <<Header>> \in Seq(Lines) /\ <<Header>> # <<>> /\ <<Header>>[1] = Header /\ Tail(<<Header>>) = <<>>
  <2>1. <<Header>> \in Seq(Lines)
    BY <1>1
  <2> QED
    BY <2>1
<1>3. <<Header>> \in Journals
  <2>1. <<>> \in Seq(Records)
    OBVIOUS
  <2> QED
    BY <1>2, <2>1 DEF Journals
<1>4. Content(<<Header>>) = EmptyBoard
  BY <1>2, ReplayEmpty, Sizes DEF Content
<1>5. Append(<<Header>>, l) = <<Header, l>>
  <2>1. ASSUME NEW x, NEW y PROVE Append(<<x>>, y) = <<x, y>>
    <3>1. <<x>> \in Seq({x, y}) /\ <<x, y>> \in Seq({x, y}) /\ Append(<<x>>, y) \in Seq({x, y})
      OBVIOUS
    <3>2. /\ Len(Append(<<x>>, y)) = 2 /\ Len(<<x, y>>) = 2
          /\ Append(<<x>>, y)[1] = x /\ Append(<<x>>, y)[2] = y
          /\ <<x, y>>[1] = x /\ <<x, y>>[2] = y
      OBVIOUS
    <3>3. \A i \in 1..2 : i = 1 \/ i = 2
      OBVIOUS
    <3> QED
      BY <3>1, <3>2, <3>3, SeqEqual
  <2> QED
    BY <2>1
<1> QED
  BY <1>3, <1>4, <1>5, JournalExtended

(* What an append leaves of a file that nothing was cut short in.            *)
LEMMA AppendedIs ==
  ASSUME index \in Journals \union {None}, NEW l \in Records
  PROVE  Appended(l) \in Journals /\ Content(Appended(l)) = Apply(Content(index), l)
<1>1. CASE index = None
  <2>1. Appended(l) = <<Header, l>> /\ Content(index) = EmptyBoard
    BY <1>1 DEF Appended, Content
  <2> QED
    BY <2>1, JournalBegun
<1>2. CASE index \in Journals
  <2>1. index # None /\ index # <<>> /\ index[Len(index)] # Torn
    BY <1>2, JournalLines DEF Last
  <2>2. Appended(l) = Append(index, l)
    BY <2>1 DEF Appended, OnTorn
  <2> QED
    BY <1>2, <2>2, JournalExtended
<1> QED
  BY <1>1, <1>2

(* A file whose records make entries that are in order loads.                *)
LEMMA JournalLoads ==
  ASSUME NEW f \in Journals, Neat(Content(f).entries)
  PROVE  f # None /\ Loads(f) /\ Replayed(f) = Content(f)
<1>1. f # None /\ f # <<>> /\ f[1] = Header /\ Complete(f) = f /\ \A i \in DOMAIN f : f[i] # Garbage
  BY JournalLines
<1>2. Replayed(f) = Content(f)
  BY <1>1 DEF Replayed, Content
<1>3. InOrder(Content(f).entries)
  <2> DEFINE es == Content(f).entries
  <2>1. es \in Seq(Entries)
    BY ContentType DEF Boards
  <2> HIDE DEF es
  <2>2. \A i \in 2..Len(es) : i \in 1..Len(es) /\ i - 1 \in 1..Len(es) /\ i - 1 < i
    BY <2>1
  <2>3. Neat(es)
    BY DEF es
  <2>4. InOrder(es)
    BY <2>2, <2>3 DEF InOrder, Neat
  <2> QED
    BY <2>4 DEF es
<1> QED
  BY <1>1, <1>2, <1>3 DEF Loads

-------------------------------------------------------------------------------
(* The snapshot of a compaction.                                             *)

PostLines(es) == [i \in DOMAIN es |-> PostLine(es[i])]

LEMMA PostLinesAppend ==
  ASSUME NEW es \in Seq(Entries), NEW e \in Entries
  PROVE  /\ PostLines(es) \in Seq(Records)
         /\ PostLines(Append(es, e)) = Append(PostLines(es), PostLine(e))
<1> DEFINE n == Len(es)
           t == Append(es, e)
<1>1. /\ n \in Nat /\ DOMAIN es = 1..n /\ DOMAIN t = 1..(n + 1)
      /\ \A i \in 1..n : es[i] \in Entries /\ t[i] = es[i]
      /\ t[n + 1] = e
  OBVIOUS
<1>2. 0 \in Horizons
  BY HorizonTypes
<1>3. \A d \in Entries : PostLine(d) \in Records
  BY <1>2, AreRecords
<1> HIDE DEF n, t
<1>4. PostLines(es) = [i \in 1..n |-> PostLine(es[i])]
  BY <1>1 DEF PostLines
<1>5. PostLines(es) \in Seq(Records) /\ Len(PostLines(es)) = n
  BY <1>1, <1>3, <1>4
<1>6. PostLines(t) = [i \in 1..(n + 1) |-> PostLine(t[i])]
  BY <1>1 DEF PostLines
<1>7. \A i \in 1..(n + 1) : t[i] \in Entries
  <2>1. \A i \in 1..(n + 1) : i \in 1..n \/ i = n + 1
    BY <1>1
  <2> QED
    BY <1>1, <2>1
<1>8. \A i \in 1..(n + 1) : PostLine(t[i]) \in Records
  BY <1>3, <1>7
<1>9. PostLines(t) \in Seq(Records) /\ Len(PostLines(t)) = n + 1
  BY <1>1, <1>6, <1>8
<1>10. PostLine(e) \in Records
  BY <1>3
<1> DEFINE a == PostLines(es)
           b == Append(a, PostLine(e))
           l == PostLine(e)
<1>11. a \in Seq(Records) /\ Len(a) = n /\ l \in Records
  BY <1>5, <1>10
<1>12. \A i \in 1..n : a[i] = PostLine(es[i])
  BY <1>4
<1> HIDE DEF a, l
<1>13. b \in Seq(Records) /\ Len(b) = n + 1 /\ b[n + 1] = l /\ \A i \in 1..n : b[i] = a[i]
  BY <1>1, <1>11 DEF l
<1> HIDE DEF b
<1>14. \A i \in 1..(n + 1) : PostLines(t)[i] = b[i]
  <2> TAKE i \in 1..(n + 1)
  <2>1. CASE i \in 1..n
    BY <1>1, <1>6, <1>12, <1>13, <2>1
  <2>2. CASE i = n + 1
    BY <1>1, <1>6, <1>13, <2>2 DEF l
  <2> QED
    BY <1>1, <2>1, <2>2
<1>15. PostLines(t) = b
  BY <1>9, <1>13, <1>14, SeqEqual
<1> QED
  BY <1>5, <1>15 DEF a, b, t

(* Replaying an entry after another makes the board they are from.           *)
LEMMA ReplayPosts ==
  ASSUME NEW h \in Horizons, NEW hs \in Seq(Records), Replay(hs) = [entries |-> <<>>, horizon |-> h],
         NEW es \in Seq(Entries), Neat(es)
  PROVE  /\ PostLines(es) \in Seq(Records)
         /\ Replay(hs \o PostLines(es)) = [entries |-> es, horizon |-> h]
<1> DEFINE A == {s \in Seq(Entries) : Neat(s) => /\ PostLines(s) \in Seq(Records)
                                                 /\ Replay(hs \o PostLines(s)) = [entries |-> s, horizon |-> h]}
<1>1. <<>> \in A
  <2>1. PostLines(<<>>) = <<>>
    BY DEF PostLines
  <2>2. hs \o <<>> = hs /\ <<>> \in Seq(Records)
    OBVIOUS
  <2> QED
    BY <2>1, <2>2, NeatEmpty
<1>2. ASSUME NEW s \in A, NEW x \in Entries PROVE Append(s, x) \in A
  <2>1. s \in Seq(Entries)
    OBVIOUS
  <2>2. Neat(s) => /\ PostLines(s) \in Seq(Records)
                   /\ Replay(hs \o PostLines(s)) = [entries |-> s, horizon |-> h]
    OBVIOUS
  <2> HIDE DEF A
  <2>3. Append(s, x) \in Seq(Entries)
    BY <2>1
  <2>4. SUFFICES ASSUME Neat(Append(s, x))
                 PROVE  /\ PostLines(Append(s, x)) \in Seq(Records)
                        /\ Replay(hs \o PostLines(Append(s, x))) = [entries |-> Append(s, x), horizon |-> h]
    BY <2>3 DEF A
  <2>5. Neat(s) /\ \A e \in ToSet(s) : e.tth # x.tth
    BY <2>1, <2>4, NeatAppend
  <2> DEFINE r == PostLines(s)
             l == PostLine(x)
             b == [entries |-> s, horizon |-> h]
  <2>6. PostLines(Append(s, x)) = Append(r, l)
    BY <2>1, PostLinesAppend
  <2>7. r \in Seq(Records) /\ Replay(hs \o r) = b
    BY <2>2, <2>5
  <2>8. l \in Records
    BY AreRecords
  <2>9. b \in Boards /\ b.entries = s /\ b.horizon = h
    BY <2>1 DEF Boards
  <2>10. Without(s, x.tth) = s
    BY <2>1, <2>5, WithoutNeat
  <2>11. Apply(b, l) = [entries |-> Append(s, x), horizon |-> h]
    <3> HIDE DEF b
    <3> QED
      BY <2>9, <2>10, ApplyIs
  <2> HIDE DEF r, l, b
  <2>12. hs \o r \in Seq(Records)
    BY <2>7
  <2>13. hs \o Append(r, l) = Append(hs \o r, l)
    <3>1. hs \o Append(r, l) \in Seq(Records) /\ Append(hs \o r, l) \in Seq(Records)
      BY <2>7, <2>8
    <3>2. /\ Len(hs \o Append(r, l)) = Len(hs) + Len(r) + 1
          /\ Len(Append(hs \o r, l)) = Len(hs) + Len(r) + 1
          /\ Len(hs) \in Nat /\ Len(r) \in Nat
      BY <2>7, <2>8
    <3>3. \A i \in 1..(Len(hs) + Len(r) + 1) : (hs \o Append(r, l))[i] = Append(hs \o r, l)[i]
      BY <2>7, <2>8
    <3> QED
      BY <3>1, <3>2, <3>3, SeqEqual
  <2>14. Replay(Append(hs \o r, l)) = Apply(b, l)
    BY <2>7, <2>8, <2>12, ReplayAppend
  <2>15. Append(r, l) \in Seq(Records)
    BY <2>7, <2>8
  <2> QED
    BY <2>6, <2>11, <2>13, <2>14, <2>15
<1>3. A \in SUBSET Seq(Entries)
  OBVIOUS
<1> HIDE DEF A
<1>4. \A s \in Seq(Entries) : s \in A
  BY <1>1, <1>2, <1>3, AllSequences
<1> QED
  BY <1>4 DEF A

(* The snapshot of a board makes that board.                                 *)
LEMMA SnapshotIs ==
  ASSUME Fit([entries |-> entries, horizon |-> horizon])
  PROVE  Snapshot \in Journals /\ Content(Snapshot) = [entries |-> entries, horizon |-> horizon]
<1> DEFINE hs == IF horizon > 0 THEN <<HorizonLine(horizon)>> ELSE <<>>
           ps == PostLines(entries)
<1>1. entries \in Seq(Entries) /\ horizon \in Horizons /\ Neat(entries)
  BY DEF Fit, Boards
<1>2. hs \in Seq(Records) /\ Replay(hs) = [entries |-> <<>>, horizon |-> horizon]
  <2>1. CASE horizon > 0
    <3> DEFINE l == HorizonLine(horizon)
    <3>1. l \in Records
      BY <1>1, AreRecords DEF HorizonLine, Records
    <3>2. Apply(EmptyBoard, l) = [entries |-> <<>>, horizon |-> horizon]
      BY <1>1 DEF Apply, EmptyBoard, HorizonLine
    <3> HIDE DEF l
    <3>3. <<>> \in Seq(Records) /\ Append(<<>>, l) = <<l>> /\ <<l>> \in Seq(Records)
      BY <3>1
    <3>4. Replay(<<l>>) = Apply(EmptyBoard, l)
      BY <3>1, <3>3, ReplayAppend, ReplayEmpty
    <3> QED
      BY <2>1, <3>2, <3>3, <3>4 DEF l
  <2>2. CASE ~(horizon > 0)
    <3>1. horizon = 0
      BY <1>1, <2>2, BBSAssumption DEF Horizons
    <3> QED
      BY <2>2, <3>1, ReplayEmpty DEF EmptyBoard
  <2> QED
    BY <2>1, <2>2
<1>3. Snapshot = <<Header>> \o hs \o ps
  BY DEF Snapshot, PostLines
<1> HIDE DEF hs, ps
<1>4. ps \in Seq(Records) /\ Replay(hs \o ps) = [entries |-> entries, horizon |-> horizon]
  BY <1>1, <1>2, ReplayPosts DEF ps
<1> DEFINE rs == hs \o ps
<1>5. rs \in Seq(Records) /\ rs \in Seq(Lines) /\ hs \in Seq(Lines) /\ ps \in Seq(Lines)
  <2>1. hs \in Seq(Lines)
    <3>1. \A i \in 1..Len(hs) : hs[i] \in Lines
      BY <1>2, LineKinds
    <3> QED
      BY <1>2, <3>1
  <2>2. ps \in Seq(Lines)
    <3>1. \A i \in 1..Len(ps) : ps[i] \in Lines
      BY <1>4, LineKinds
    <3> QED
      BY <1>4, <3>1
  <2> QED
    BY <1>2, <1>4, <2>1, <2>2
<1>6. <<Header>> \in Seq(Lines)
  BY LineKinds
<1>7. (<<Header>> \o hs) \o ps = <<Header>> \o rs
  BY <1>5, <1>6, ConcatAssociative
<1> HIDE DEF rs
<1> DEFINE f == <<Header>> \o rs
<1>8. f \in Seq(Lines) /\ f # <<>> /\ f[1] = Header
  BY <1>5, <1>6
<1>9. Tail(f) = rs
  <2>1. Len(f) = Len(rs) + 1 /\ \A i \in 1..Len(rs) : f[i + 1] = rs[i]
    BY <1>5, <1>6
  <2>2. Tail(f) \in Seq(Lines) /\ Len(Tail(f)) = Len(rs) /\ \A i \in 1..Len(rs) : Tail(f)[i] = f[i + 1]
    <3> HIDE DEF f
    <3> QED
      BY <1>5, <1>8, <2>1
  <2> QED
    BY <1>5, <2>1, <2>2, SeqEqual
<1>10. f # None
  BY <1>8, Sizes
<1>11. Snapshot = f
  BY <1>3, <1>7
<1> HIDE DEF f
<1> QED
  BY <1>4, <1>5, <1>8, <1>9, <1>10, <1>11 DEF Journals, Content, rs

-------------------------------------------------------------------------------
(* What an operation makes of a board, and of the records that carry it.     *)

LEMMA NeatEnds ==
  ASSUME NEW es \in Seq(Entries), Neat(es), es # <<>>
  PROVE  /\ es[1] \in ToSet(es) /\ es[Len(es)] \in ToSet(es)
         /\ \A e \in ToSet(es) : es[1].ts <= e.ts /\ e.ts <= es[Len(es)].ts
<1> DEFINE n == Len(es)
<1>1. n \in Nat /\ n >= 1 /\ DOMAIN es = 1..n /\ \A i \in 1..n : es[i] \in Entries
  OBVIOUS
<1> HIDE DEF n
<1>2. \A e \in Entries : e.ts \in Int
  BY HorizonTypes DEF Entries
<1>3. 1 \in 1..n /\ n \in 1..n
  BY <1>1
<1>4. \A i, j \in 1..n : i < j => es[i].ts <= es[j].ts
  BY DEF Neat, n
<1>5. \A i \in 1..n : es[1].ts <= es[i].ts
  <2> TAKE i \in 1..n
  <2>1. i = 1 \/ 1 < i
    BY <1>1
  <2>2. es[i].ts <= es[i].ts
    BY <1>1, <1>2
  <2> QED
    BY <1>3, <1>4, <2>1, <2>2
<1>6. \A i \in 1..n : es[i].ts <= es[n].ts
  <2> TAKE i \in 1..n
  <2>1. i = n \/ i < n
    BY <1>1
  <2>2. es[i].ts <= es[i].ts
    BY <1>1, <1>2
  <2> QED
    BY <1>3, <1>4, <2>1, <2>2
<1> QED
  BY <1>1, <1>3, <1>5, <1>6 DEF ToSet, n

LEMMA NeatTail ==
  ASSUME NEW es \in Seq(Entries), Neat(es), es # <<>>
  PROVE  /\ Head(es) = es[1] /\ es[1] \in Entries /\ Tail(es) \in Seq(Entries)
         /\ es = <<es[1]>> \o Tail(es)
         /\ Neat(Tail(es)) /\ ToSet(Tail(es)) \subseteq ToSet(es)
         /\ \A e \in ToSet(Tail(es)) : e.tth # es[1].tth
<1>1. /\ Head(es) = es[1] /\ es[1] \in Entries /\ Tail(es) \in Seq(Entries)
      /\ <<es[1]>> \in Seq(Entries)
  OBVIOUS
<1>2. es = <<es[1]>> \o Tail(es)
  <2>1. <<es[1]>> \o Tail(es) \in Seq(Entries)
    BY <1>1
  <2>2. Len(<<es[1]>> \o Tail(es)) = Len(es)
    BY <1>1
  <2>3. \A i \in 1..Len(es) : es[i] = (<<es[1]>> \o Tail(es))[i]
    BY <1>1
  <2> QED
    BY <2>1, <2>2, <2>3, SeqEqual
<1>3. Neat(<<es[1]>> \o Tail(es))
  BY <1>2
<1>4. /\ Neat(Tail(es))
      /\ \A d \in ToSet(<<es[1]>>), e \in ToSet(Tail(es)) : d.ts <= e.ts /\ d.tth # e.tth
  BY <1>1, <1>3, NeatConcat
<1>5. es[1] \in ToSet(<<es[1]>>)
  BY DEF ToSet
<1>6. ToSet(Tail(es)) \subseteq ToSet(es)
  BY ElementsTail
<1> QED
  BY <1>1, <1>2, <1>4, <1>5, <1>6

(* An entry that may be written to b: none of b's is later.                  *)
Fresh(b, e) ==
  /\ e \in Entries /\ b.horizon <= e.ts
  /\ \A d \in ToSet(b.entries) : d.ts <= e.ts

Grown(b, e) == Append(Without(b.entries, e.tth), e)

(* The board when e is written, and the oldest entry gone if it is too long. *)
After(b, e) ==
  IF Len(Grown(b, e)) > MaxPosts
  THEN [entries |-> Tail(Grown(b, e)), horizon |-> Grown(b, e)[2].ts]
  ELSE [entries |-> Grown(b, e), horizon |-> b.horizon]

LEMMA GrownIs ==
  ASSUME NEW b, Fit(b), NEW e, Fresh(b, e)
  PROVE  /\ Grown(b, e) \in Seq(Entries) /\ Neat(Grown(b, e)) /\ Grown(b, e) # <<>>
         /\ Grown(b, e)[Len(Grown(b, e))] = e
         /\ \A d \in ToSet(Grown(b, e)) : b.horizon <= d.ts
         /\ Len(Grown(b, e)) > MaxPosts =>
              /\ \A d \in ToSet(b.entries) : d.tth # e.tth
              /\ Len(b.entries) = MaxPosts /\ Len(Grown(b, e)) = MaxPosts + 1
         /\ (\A d \in ToSet(b.entries) : d.tth # e.tth) \/ Len(Grown(b, e)) = Len(b.entries)
<1> DEFINE es == b.entries
           w == Without(es, e.tth)
           Has == \E d \in ToSet(es) : d.tth = e.tth
<1>1. es \in Seq(Entries) /\ Neat(es) /\ Len(es) <= MaxPosts /\ (\A d \in ToSet(es) : b.horizon <= d.ts)
      /\ b.horizon \in Horizons
  BY DEF Fit, Boards
<1>2. e \in Entries /\ b.horizon <= e.ts /\ \A d \in ToSet(es) : d.ts <= e.ts
  BY DEF Fresh
<1> HIDE DEF es
<1>3. w \in Seq(Entries) /\ ToSet(w) = {d \in ToSet(es) : d.tth # e.tth}
  BY <1>1, WithoutIs
<1>4. Neat(w) /\ (~Has => w = es) /\ (Has => Len(w) = Len(es) - 1)
  BY <1>1, WithoutNeat
<1> HIDE DEF w
<1>5. Neat(Append(w, e)) = (Neat(w) /\ \A d \in ToSet(w) : d.ts <= e.ts /\ d.tth # e.tth)
  BY <1>2, <1>3, NeatAppend
<1>6. Neat(Append(w, e))
  BY <1>2, <1>3, <1>4, <1>5
<1>7. ToSet(Append(w, e)) = ToSet(w) \union {e}
  BY <1>2, <1>3, ElementsAppend
<1>8. Append(w, e) \in Seq(Entries) /\ Append(w, e) # <<>> /\ Append(w, e)[Len(Append(w, e))] = e
      /\ Len(Append(w, e)) = Len(w) + 1
  BY <1>2, <1>3
<1>9. Len(w) \in Nat /\ Len(es) \in Nat /\ MaxPosts \in Nat
  BY <1>1, <1>3, Sizes
<1>10. \A d \in ToSet(Append(w, e)) : b.horizon <= d.ts
  BY <1>1, <1>2, <1>3, <1>7
<1>11. Len(Append(w, e)) > MaxPosts => ~Has /\ Len(es) = MaxPosts /\ Len(Append(w, e)) = MaxPosts + 1
  BY <1>1, <1>4, <1>8, <1>9
<1>12. ~Has \/ Len(Append(w, e)) = Len(es)
  BY <1>4, <1>8, <1>9
<1> QED
  BY <1>6, <1>8, <1>10, <1>11, <1>12 DEF Grown, w, es

LEMMA AfterFit ==
  ASSUME NEW b, Fit(b), NEW e, Fresh(b, e)
  PROVE  /\ Fit(After(b, e))
         /\ Len(Grown(b, e)) > MaxPosts =>
              /\ Len(After(b, e).entries) = MaxPosts
              /\ Grown(b, e)[1] \in Entries
              /\ Larger(b.horizon, Grown(b, e)[2].ts) = Grown(b, e)[2].ts
              /\ \A d \in ToSet(After(b, e).entries) : d.tth # Grown(b, e)[1].tth
<1> DEFINE all == Grown(b, e)
<1>1. /\ all \in Seq(Entries) /\ Neat(all) /\ all # <<>>
      /\ \A d \in ToSet(all) : b.horizon <= d.ts
      /\ Len(all) > MaxPosts => Len(all) = MaxPosts + 1
  BY GrownIs
<1>2. b.horizon \in Horizons
  BY DEF Fit, Boards
<1> HIDE DEF all
<1>3. CASE Len(all) > MaxPosts
  <2> DEFINE t == Tail(all)
             c == [entries |-> t, horizon |-> all[2].ts]
  <2>1. /\ all[1] \in Entries /\ t \in Seq(Entries) /\ Neat(t) /\ ToSet(t) \subseteq ToSet(all)
        /\ \A d \in ToSet(t) : d.tth # all[1].tth
    BY <1>1, NeatTail
  <2>2. Len(t) = MaxPosts /\ t # <<>> /\ t[1] = all[2] /\ Len(all) >= 2
    <3>1. MaxPosts \in Nat /\ MaxPosts >= 1 /\ Len(all) = MaxPosts + 1
      BY <1>1, <1>3, Sizes
    <3>2. Len(t) = Len(all) - 1 /\ \A i \in 1..(Len(all) - 1) : t[i] = all[i + 1]
      BY <1>1
    <3>3. 1 \in 1..(Len(all) - 1) /\ Len(all) \in Nat
      BY <3>1
    <3>4. t[1] = all[1 + 1] /\ Len(t) = MaxPosts
      BY <3>1, <3>2, <3>3
    <3>5. t # <<>>
      <4>1. t \in Seq(Entries)
        BY <2>1
      <4> HIDE DEF t
      <4> QED
        BY <3>1, <3>4, <4>1
    <3> QED
      BY <3>1, <3>4, <3>5
  <2> HIDE DEF t
  <2>3. t[1] \in ToSet(t) /\ \A d \in ToSet(t) : t[1].ts <= d.ts
    BY <2>1, <2>2, NeatEnds
  <2>4. all[2] \in Entries
    BY <1>1, <2>2
  <2>5. all[2].ts \in Horizons
    BY <2>4, HorizonTypes DEF Entries
  <2>6. b.horizon <= all[2].ts
    BY <1>1, <2>1, <2>2, <2>3
  <2>7. Larger(b.horizon, all[2].ts) = all[2].ts
    BY <1>2, <2>5, <2>6, HorizonTypes
  <2>8. Fit(c)
    BY <2>1, <2>2, <2>3, <2>5 DEF Fit, Boards
  <2>9. After(b, e) = c
    BY <1>3 DEF After, all, t
  <2> QED
    BY <2>1, <2>2, <2>7, <2>8, <2>9 DEF all
<1>4. CASE ~(Len(all) > MaxPosts)
  <2>1. After(b, e) = [entries |-> all, horizon |-> b.horizon]
    BY <1>4 DEF After, all
  <2>2. Len(all) <= MaxPosts
    BY <1>1, <1>4, Sizes
  <2>3. Fit([entries |-> all, horizon |-> b.horizon])
    BY <1>1, <1>2, <2>2 DEF Fit, Boards
  <2> QED
    BY <1>4, <2>1, <2>3 DEF all
<1> QED
  BY <1>3, <1>4

(* Sequences joined in one order or in the other.                            *)
LEMMA ConcatThenAppend ==
  ASSUME NEW s \in Seq(Entries), NEW t \in Seq(Entries), NEW x \in Entries
  PROVE  Append(s \o t, x) = s \o Append(t, x)
<1>1. Append(s \o t, x) \in Seq(Entries) /\ s \o Append(t, x) \in Seq(Entries)
  OBVIOUS
<1>2. /\ Len(Append(s \o t, x)) = Len(s) + Len(t) + 1
      /\ Len(s \o Append(t, x)) = Len(s) + Len(t) + 1
  OBVIOUS
<1>3. \A i \in 1..(Len(s) + Len(t) + 1) : Append(s \o t, x)[i] = (s \o Append(t, x))[i]
  OBVIOUS
<1> QED
  BY <1>1, <1>2, <1>3, SeqEqual

LEMMA ConcatOneThen ==
  ASSUME NEW s \in Seq(Entries), NEW t \in Seq(Entries), NEW x \in Entries
  PROVE  s \o (<<x>> \o t) = Append(s, x) \o t
<1>1. <<x>> \in Seq(Entries) /\ <<x>> \o t \in Seq(Entries) /\ Append(s, x) \in Seq(Entries)
  OBVIOUS
<1>2. s \o (<<x>> \o t) = (s \o <<x>>) \o t
  BY <1>1, ConcatAssociative
<1>3. s \o <<x>> = Append(s, x)
  BY AppendIsConcat
<1> QED
  BY <1>2, <1>3

(* The record of an entry is written: the journal carries the new board.     *)
LEMMA CarriesPost ==
  ASSUME NEW b, Fit(b), NEW r, Carries(r, b), NEW e, Fresh(b, e)
  PROVE  Carries(Apply(r, PostLine(e)), After(b, e))
<1> DEFINE p == e.tth
           W(s) == Without(s, p)
           all == Grown(b, e)
           next == After(b, e)
           Has == \E d \in ToSet(b.entries) : d.tth = p
<1>1. /\ b.entries \in Seq(Entries) /\ b.horizon \in Horizons /\ Neat(b.entries)
      /\ Len(b.entries) <= MaxPosts
  BY DEF Fit, Boards
<1>2. /\ r \in Boards /\ r.entries \in Seq(Entries) /\ r.horizon \in Horizons /\ Neat(r.entries)
      /\ r.horizon <= b.horizon
  BY DEF Carries, Boards
<1>3. PICK older \in Seq(Entries) :
        /\ r.entries = older \o b.entries
        /\ older = <<>> => r.horizon = b.horizon
        /\ older # <<>> => Len(b.entries) = MaxPosts
  BY DEF Carries
<1>4. e \in Entries /\ e.ts \in Int /\ \A d \in Entries : d.ts \in Int
  BY HorizonTypes DEF Fresh, Entries
<1>5. Apply(r, PostLine(e)) = [entries |-> Append(W(r.entries), e), horizon |-> r.horizon]
  <2>1. 0 \in Horizons
    BY HorizonTypes
  <2> QED
    BY <1>2, <1>4, <2>1, ApplyIs
<1>6. /\ W(r.entries) \in Seq(Entries) /\ W(older) \in Seq(Entries) /\ W(b.entries) \in Seq(Entries)
      /\ ToSet(W(r.entries)) = {d \in ToSet(r.entries) : d.tth # p}
  BY <1>1, <1>2, <1>3, WithoutIs
<1>7. W(r.entries) = W(older) \o W(b.entries)
  <2>1. Select(older \o b.entries, Others(p)) = Select(older, Others(p)) \o Select(b.entries, Others(p))
    BY <1>1, <1>3, SelectConcat
  <2> QED
    BY <1>1, <1>2, <1>3, <2>1, WithoutIs
<1>8. /\ ToSet(r.entries) = ToSet(older) \union ToSet(b.entries)
      /\ Neat(older)
      /\ \A d \in ToSet(older), c \in ToSet(b.entries) : d.ts <= c.ts /\ d.tth # c.tth
  <2>1. Neat(older \o b.entries)
    BY <1>2, <1>3
  <2> QED
    BY <1>1, <1>3, <2>1, NeatConcat, ElementsConcat
<1>9. ToSet(older) \subseteq Entries /\ ToSet(b.entries) \subseteq Entries
  BY <1>1, <1>3 DEF ToSet
<1>10. \A d \in ToSet(r.entries) : d.ts <= e.ts
  <2>1. \A c \in ToSet(b.entries) : c.ts <= e.ts
    BY DEF Fresh
  <2>2. ASSUME NEW d \in ToSet(older) PROVE d.ts <= e.ts
    <3>1. older # <<>>
      BY DEF ToSet
    <3>2. Len(b.entries) >= 1
      BY <1>3, <3>1, Sizes
    <3>3. b.entries[1] \in ToSet(b.entries)
      BY <1>1, <3>2 DEF ToSet
    <3>4. d.ts <= b.entries[1].ts /\ b.entries[1].ts <= e.ts
      BY <1>8, <2>1, <3>3
    <3> QED
      BY <1>4, <1>9, <3>3, <3>4
  <2> QED
    BY <1>8, <2>1, <2>2
<1>11. Neat(W(r.entries)) /\ Neat(Append(W(r.entries), e))
  <2>1. Neat(W(r.entries))
    BY <1>2, WithoutNeat
  <2>2. Neat(Append(W(r.entries), e))
           = (Neat(W(r.entries)) /\ \A d \in ToSet(W(r.entries)) : d.ts <= e.ts /\ d.tth # e.tth)
    <3> HIDE DEF W
    <3> QED
      BY <1>4, <1>6, NeatAppend
  <2> QED
    BY <1>6, <1>10, <2>1, <2>2
<1>12. Append(W(r.entries), e) = W(older) \o all
  <2>1. all = Append(W(b.entries), e)
    BY DEF Grown
  <2> HIDE DEF W, all
  <2> QED
    BY <1>4, <1>6, <1>7, <2>1, ConcatThenAppend, SMTT(40)
<1>13. /\ all \in Seq(Entries) /\ Neat(all) /\ all # <<>>
       /\ Len(all) > MaxPosts => ~Has /\ Len(b.entries) = MaxPosts /\ Len(all) = MaxPosts + 1
       /\ ~Has \/ Len(all) = Len(b.entries)
  BY GrownIs
<1>14. Append(W(r.entries), e) \in Seq(Entries)
  <2> HIDE DEF W
  <2> QED
    BY <1>4, <1>6
<1> DEFINE made == Apply(r, PostLine(e))
<1>15. made \in Boards /\ Neat(made.entries) /\ made.horizon = r.horizon /\ made.entries = W(older) \o all
  BY <1>2, <1>5, <1>11, <1>12, <1>14 DEF Boards
<1>16. Fit(next) /\ (Len(all) > MaxPosts => Len(next.entries) = MaxPosts)
  BY AfterFit
<1>17. next.horizon \in Horizons
  BY <1>16 DEF Fit, Boards
<1>18. CASE Len(all) > MaxPosts
  <2> DEFINE gone == Append(W(older), all[1])
  <2>1. next = [entries |-> Tail(all), horizon |-> all[2].ts]
    BY <1>18 DEF After
  <2> HIDE DEF all
  <2>2. all[1] \in Entries /\ Tail(all) \in Seq(Entries) /\ all = <<all[1]>> \o Tail(all)
    BY <1>13, NeatTail
  <2> HIDE DEF W
  <2>3. gone \in Seq(Entries) /\ gone # <<>>
    <3>1. ASSUME NEW s \in Seq(Entries), NEW x \in Entries
          PROVE  Append(s, x) \in Seq(Entries) /\ Append(s, x) # <<>>
      OBVIOUS
    <3> QED
      BY <1>6, <2>2, <3>1
  <2>4. W(older) \o all = gone \o Tail(all)
    <3>1. W(older) \o (<<all[1]>> \o Tail(all)) = Append(W(older), all[1]) \o Tail(all)
      BY <1>6, <2>2, ConcatOneThen
    <3> QED
      BY <2>2, <3>1
  <2>5. all[2] \in ToSet(all) /\ all[2] \in Entries
    <3>1. 2 \in 1..Len(all)
      BY <1>13, <1>18, Sizes
    <3> QED
      BY <1>13, <3>1 DEF ToSet
  <2>6. b.horizon <= all[2].ts
    BY <2>5, GrownIs DEF all
  <2>7. r.horizon <= next.horizon
    <3>1. next.horizon = all[2].ts
      BY <2>1
    <3> HIDE DEF next
    <3>2. r.horizon \in Int /\ b.horizon \in Int /\ next.horizon \in Int
      BY <1>1, <1>2, <1>17, HorizonTypes
    <3> QED
      BY <1>2, <2>6, <3>1, <3>2
  <2> HIDE DEF gone, next, made
  <2>8. made.entries = gone \o next.entries
    BY <1>15, <2>1, <2>4
  <2>9. Len(next.entries) = MaxPosts
    BY <1>16, <1>18
  <2>10. Carries(made, next)
    BY <1>15, <2>3, <2>7, <2>8, <2>9 DEF Carries
  <2> QED
    BY <2>10 DEF made, next
<1>19. CASE ~(Len(all) > MaxPosts)
  <2>1. next = [entries |-> all, horizon |-> b.horizon]
    BY <1>19 DEF After
  <2>2. older # <<>> => Has
    <3>1. Len(all) = Len(Without(b.entries, e.tth)) + 1
      BY <1>4, <1>6 DEF Grown
    <3>2. ~Has => Without(b.entries, e.tth) = b.entries
      BY <1>1, WithoutNeat
    <3> QED
      BY <1>1, <1>3, <1>19, <3>1, <3>2, Sizes
  <2>3. W(older) = older
    <3>1. ToSet(<<>>) = {}
      BY DEF ToSet
    <3>2. \A d \in ToSet(older) : d.tth # p
      BY <1>8, <2>2, <3>1
    <3> QED
      BY <1>3, <1>8, <3>2, WithoutNeat
  <2>4. older # <<>> => Len(all) = MaxPosts
    BY <1>3, <1>13, <2>2
  <2> HIDE DEF W, all, Has, next, made
  <2>5. /\ made.entries = older \o next.entries
        /\ older = <<>> => made.horizon = next.horizon
        /\ older # <<>> => Len(next.entries) = MaxPosts
        /\ made.horizon <= next.horizon
    BY <1>2, <1>3, <1>15, <2>1, <2>3, <2>4
  <2>6. Carries(made, next)
    BY <1>3, <1>15, <2>5 DEF Carries
  <2> QED
    BY <2>6 DEF made, next
<1> QED
  BY <1>18, <1>19

LEMMA HorizonOrder ==
  \A a, b, c \in Horizons :
    /\ a <= a /\ (a <= b /\ b <= c => a <= c)
    /\ a <= b => a = b \/ b > a
<1>1. \A h \in Horizons : h \in Int
  BY HorizonTypes
<1> QED
  BY <1>1

(* The record of the removal is written: the post is in no entry of the      *)
(* journal any more, and the board in memory is as it was.                   *)
LEMMA CarriesDelete ==
  ASSUME NEW b, Fit(b), NEW r, Carries(r, b), NEW e \in Entries,
         \A d \in ToSet(b.entries) : d.tth # e.tth
  PROVE  Carries(Apply(r, DeleteLine(e, b.horizon)), b)
<1> DEFINE p == e.tth
           W(s) == Without(s, p)
           made == Apply(r, DeleteLine(e, b.horizon))
<1>1. b.entries \in Seq(Entries) /\ b.horizon \in Horizons /\ Neat(b.entries)
  BY DEF Fit, Boards
<1>2. /\ r \in Boards /\ r.entries \in Seq(Entries) /\ r.horizon \in Horizons /\ Neat(r.entries)
      /\ r.horizon <= b.horizon
  BY DEF Carries, Boards
<1>3. PICK older \in Seq(Entries) :
        /\ r.entries = older \o b.entries
        /\ older = <<>> => r.horizon = b.horizon
        /\ older # <<>> => Len(b.entries) = MaxPosts
  BY DEF Carries
<1>4. made = [entries |-> W(r.entries), horizon |-> Larger(b.horizon, r.horizon)]
  BY <1>1, <1>2, ApplyIs
<1>5. Larger(b.horizon, r.horizon) = b.horizon
  BY <1>1, <1>2, HorizonTypes
<1>6. W(r.entries) \in Seq(Entries) /\ W(older) \in Seq(Entries) /\ Neat(W(r.entries))
  BY <1>1, <1>2, <1>3, WithoutIs, WithoutNeat
<1>7. W(b.entries) = b.entries
  BY <1>1, WithoutNeat
<1>8. W(r.entries) = W(older) \o b.entries
  <2>1. Select(older \o b.entries, Others(p)) = Select(older, Others(p)) \o Select(b.entries, Others(p))
    BY <1>1, <1>3, SelectConcat
  <2> QED
    BY <1>1, <1>2, <1>3, <1>7, <2>1, WithoutIs
<1>9. older = <<>> => W(older) = <<>>
  <2>1. Without(<<>>, p) = <<>>
    BY SelectEmpty DEF Without
  <2> QED
    BY <2>1
<1>10. b.horizon <= b.horizon
  BY <1>1, HorizonOrder
<1> HIDE DEF W, made
<1>11. made \in Boards /\ made.entries = W(older) \o b.entries /\ made.horizon = b.horizon
       /\ Neat(made.entries)
  BY <1>1, <1>4, <1>5, <1>6, <1>8 DEF Boards
<1>12. W(older) # <<>> => Len(b.entries) = MaxPosts
  BY <1>3, <1>9
<1>13. Carries(made, b)
  BY <1>6, <1>10, <1>11, <1>12 DEF Carries
<1> QED
  BY <1>13 DEF made

LEMMA CarriesSelf ==
  ASSUME NEW b, Fit(b)
  PROVE  Carries(b, b)
<1>1. b \in Boards /\ b.entries \in Seq(Entries) /\ b.horizon \in Horizons /\ Neat(b.entries)
  BY DEF Fit, Boards
<1>2. b.horizon <= b.horizon
  BY <1>1, HorizonOrder
<1>3. <<>> \in Seq(Entries) /\ b.entries = <<>> \o b.entries
  BY <1>1
<1> QED
  BY <1>1, <1>2, <1>3 DEF Carries

(* A start makes the board in memory of what carries it, but for a horizon   *)
(* that the oldest entry of a full board may take the place of.              *)
LEMMA CarriesPruned ==
  ASSUME NEW b, Fit(b), NEW r, Carries(r, b)
  PROVE  /\ Carries(r, Pruned(r)) /\ Fit(Pruned(r))
         /\ \/ Pruned(r) = b
            \/ /\ Len(b.entries) = MaxPosts
               /\ b.entries[1].ts > b.horizon
               /\ Pruned(r) = [b EXCEPT !.horizon = b.entries[1].ts]
<1> DEFINE over == Len(r.entries) - MaxPosts
           n == Len(b.entries)
<1>1. /\ b \in Boards /\ b.entries \in Seq(Entries) /\ b.horizon \in Horizons /\ Neat(b.entries)
      /\ n <= MaxPosts /\ n \in Nat
      /\ \A e \in ToSet(b.entries) : b.horizon <= e.ts
  BY DEF Fit, Boards
<1>2. /\ r \in Boards /\ r.entries \in Seq(Entries) /\ r.horizon \in Horizons /\ Neat(r.entries)
      /\ r.horizon <= b.horizon
  BY DEF Carries, Boards
<1>3. PICK older \in Seq(Entries) :
        /\ r.entries = older \o b.entries
        /\ older = <<>> => r.horizon = b.horizon
        /\ older # <<>> => Len(b.entries) = MaxPosts
  BY DEF Carries
<1>4. MaxPosts \in Nat /\ MaxPosts >= 1
  BY Sizes
<1>5. Len(older) \in Nat /\ (older = <<>> <=> Len(older) = 0) /\ Len(r.entries) = Len(older) + n
  BY <1>1, <1>3
<1>6. CASE older = <<>>
  <2>1. r.entries = b.entries /\ r.horizon = b.horizon
    BY <1>1, <1>3, <1>6
  <2>2. r = b
    BY <1>1, <1>2, <2>1 DEF Boards
  <2>3. over <= 0
    BY <1>1, <1>4, <1>5, <1>6
  <2>4. Pruned(r) = b
    BY <2>2, <2>3 DEF Pruned
  <2> QED
    BY <2>2, <2>4, CarriesSelf
<1>7. CASE older # <<>>
  <2> DEFINE h == b.entries[1].ts
             c == [entries |-> b.entries, horizon |-> h]
  <2>1. n = MaxPosts /\ over = Len(older) /\ ~(over <= 0)
    BY <1>1, <1>3, <1>4, <1>5, <1>7, SMTT(40)
  <2>2. SubSeq(r.entries, over + 1, Len(r.entries)) = b.entries
    <3> DEFINE m == Len(older)
               s == SubSeq(r.entries, m + 1, m + n)
    <3>1. /\ m \in Nat /\ n \in Nat
          /\ \A i \in 1..n : r.entries[m + i] = b.entries[i]
      BY <1>1, <1>3
    <3>2. \A i \in (m + 1)..(m + n) : r.entries[i] \in Entries
      BY <1>2, <1>5, <3>1
    <3> HIDE DEF m, n
    <3>3. /\ s \in Seq(Entries)
          /\ Len(s) = IF m + 1 <= m + n THEN (m + n) - (m + 1) + 1 ELSE 0
          /\ \A i \in 1..((m + n) - (m + 1) + 1) : s[i] = r.entries[(m + 1) + i - 1]
      BY <3>1, <3>2, SubSeqProperties
    <3>4. (m + n) - (m + 1) + 1 = n /\ (m + 1 <= m + n <=> n # 0) /\ \A i \in 1..n : (m + 1) + i - 1 = m + i
      BY <3>1
    <3>5. Len(s) = n /\ \A i \in 1..n : s[i] = b.entries[i]
      BY <3>1, <3>3, <3>4
    <3> HIDE DEF s
    <3>6. s = b.entries
      BY <1>1, <3>3, <3>5, SeqEqual DEF n
    <3> QED
      BY <1>5, <2>1, <3>6 DEF m, n, s
  <2>3. r.entries[over + 1] = b.entries[1]
    BY <1>1, <1>3, <1>4, <2>1
  <2>4. b.entries # <<>>
    BY <1>4, <2>1
  <2>5. b.entries[1] \in ToSet(b.entries) /\ b.entries[1] \in Entries
        /\ \A e \in ToSet(b.entries) : h <= e.ts
    BY <1>1, <2>4, NeatEnds
  <2>6. h \in Horizons /\ b.horizon <= h
    BY <1>1, <2>5, HorizonTypes DEF Entries
  <2> HIDE DEF h
  <2>7. r.horizon <= h
    BY <1>1, <1>2, <2>6, HorizonOrder
  <2>8. Larger(r.horizon, h) = h
    BY <1>2, <2>6, <2>7, HorizonTypes
  <2>9. Pruned(r) = c
    BY <2>1, <2>2, <2>3, <2>8 DEF Pruned, h
  <2>10. Fit(c)
    BY <1>1, <2>5, <2>6 DEF Fit, Boards, h
  <2>11. Carries(r, c)
    <3>1. c.entries = b.entries /\ c.horizon = h
      OBVIOUS
    <3> HIDE DEF c
    <3> QED
      BY <1>2, <1>3, <1>7, <2>7, <3>1 DEF Carries
  <2>12. c = b \/ h > b.horizon
    <3>1. h = b.horizon \/ h > b.horizon
      BY <1>1, <2>6, HorizonOrder
    <3>2. h = b.horizon => c = b
      BY <1>1 DEF Boards
    <3> QED
      BY <3>1, <3>2
  <2>13. c = [b EXCEPT !.horizon = h]
    BY <1>1 DEF Boards
  <2> QED
    BY <2>1, <2>9, <2>10, <2>11, <2>12, <2>13 DEF h
<1> QED
  BY <1>6, <1>7

-------------------------------------------------------------------------------
(* The inductive invariant.                                                  *)

Memory == [entries |-> entries, horizon |-> horizon]

(* What each step of a handler may rely on.                                  *)
Working ==
  /\ clock \in Times /\ mutations \in Nat /\ up \in {"running", "down"}
  /\ step \in {"idle", "append", "prune", "snapshot", "drop backup", "back up", "replace", "finish"}
  /\ entry \in IF step \in {"append", "prune"} THEN Entries ELSE {None}
  /\ up = "down" => step = "idle" /\ entries = <<>> /\ horizon = 0
  /\ step = "append" =>
       /\ Fresh(Memory, entry)
       /\ IF entry.removed THEN \E i \in Indexed(entry.tth) : ~entries[i].removed
          ELSE Indexed(entry.tth) = {}
  /\ step = "prune" =>
       /\ Len(entries) = MaxPosts
       /\ \A e \in ToSet(entries) : e.tth # entry.tth

(* Which files there are, and what the temporary one is good for.            *)
Files ==
  /\ index \in Journals \union {None} /\ bak \in Journals \union {None} /\ tmp \in Journals \union {None}
  /\ step \in {"prune", "snapshot", "drop backup", "back up", "finish"} => index # None
  /\ step = "replace" => index = None /\ bak # None
  /\ step = "back up" => bak = None
  /\ up = "running" /\ step \in {"idle", "append"} /\ index = None => bak = None
  /\ step \in {"drop backup", "back up", "replace"} => tmp = Snapshot

(* What is served is in the journal that a start would find.                 *)
Kept == Carries(Content(Found), Served) /\ Fit(Served)

KeptInv == Working /\ Files /\ Kept

(* What a start makes of the file it finds.                                  *)
Start(f) == IF f = None THEN EmptyBoard ELSE Pruned(Replayed(f))

LEMMA StartIs ==
  ASSUME NEW f \in Journals \union {None}, NEW b, Fit(b), Carries(Content(f), b)
  PROVE  (f = None \/ Loads(f)) /\ Start(f) = Pruned(Content(f))
<1>1. CASE f = None
  <2>1. Content(f) = EmptyBoard
    BY <1>1 DEF Content
  <2>2. Len(EmptyBoard.entries) - MaxPosts <= 0
    <3>1. Len(<<>>) = 0
      OBVIOUS
    <3> QED
      BY <3>1, EmptyType, Sizes
  <2>3. Pruned(EmptyBoard) = EmptyBoard
    BY <2>2 DEF Pruned
  <2> QED
    BY <1>1, <2>1, <2>3 DEF Start
<1>2. CASE f \in Journals
  <2>1. Neat(Content(f).entries)
    BY DEF Carries
  <2>2. f # None /\ Loads(f) /\ Replayed(f) = Content(f)
    BY <1>2, <2>1, JournalLoads
  <2> QED
    BY <2>2 DEF Start
<1> QED
  BY <1>1, <1>2

LEMMA RecoveredIsStart == Recovered = Start(Found) /\ (Recovers <=> Found = None \/ Loads(Found))
  BY DEF Recovered, Start, Recovers

(* What the board promises of a write is what the code does.                 *)
LEMMA StoreWith ==
  ASSUME NEW b, Fit(b), NEW e, Fresh(b, e)
  PROVE  Store!With(b, e) = After(b, e)
<1> DEFINE all == Grown(b, e)
           n == Len(all)
<1>1. Store!With(b, e) =
        IF n - MaxPosts <= 0 THEN [b EXCEPT !.entries = all]
        ELSE [entries |-> SubSeq(all, (n - MaxPosts) + 1, n), horizon |-> all[(n - MaxPosts) + 1].ts]
  <2>1. Store!Select(b.entries, Store!Besides(e.tth, b)) = Select(b.entries, Store!Besides(e.tth, b))
    BY DEF Store!Select, Select
  <2>2. Select(b.entries, Store!Besides(e.tth, b)) = Without(b.entries, e.tth)
    BY DEF Store!Besides, Without
  <2> QED
    BY <2>1, <2>2 DEF Store!With, Grown
<1>2. all \in Seq(Entries) /\ n \in Nat /\ (n > MaxPosts => n = MaxPosts + 1)
  BY GrownIs
<1>3. b \in Boards /\ MaxPosts \in Nat /\ MaxPosts >= 1
  BY Sizes DEF Fit
<1>4. After(b, e) = IF n > MaxPosts THEN [entries |-> Tail(all), horizon |-> all[2].ts]
                    ELSE [entries |-> all, horizon |-> b.horizon]
  BY DEF After
<1>5. CASE n > MaxPosts
  <2> DEFINE s == SubSeq(all, 2, n)
  <2>1. (n - MaxPosts) + 1 = 2 /\ ~(n - MaxPosts <= 0) /\ n >= 2
    BY <1>2, <1>3, <1>5
  <2>2. s = Tail(all)
    <3> HIDE DEF all
    <3>1. \A i \in 2..n : all[i] \in Entries
      BY <1>2
    <3>2. /\ Tail(all) \in Seq(Entries) /\ Len(Tail(all)) = n - 1
          /\ \A i \in 1..(n - 1) : Tail(all)[i] = all[i + 1]
      BY <1>2, <2>1
    <3> HIDE DEF n
    <3>3. /\ s \in Seq(Entries) /\ Len(s) = IF 2 <= n THEN n - 2 + 1 ELSE 0
          /\ \A i \in 1..(n - 2 + 1) : s[i] = all[2 + i - 1]
      BY <1>2, <3>1, SubSeqProperties
    <3>4. n - 2 + 1 = n - 1 /\ \A i \in 1..(n - 1) : 2 + i - 1 = i + 1
      BY <1>2
    <3>5. Len(s) = n - 1 /\ \A i \in 1..(n - 1) : s[i] = Tail(all)[i]
      BY <2>1, <3>2, <3>3, <3>4
    <3> HIDE DEF s
    <3> QED
      BY <3>2, <3>3, <3>5, SeqEqual
  <2> HIDE DEF all, n
  <2>3. Store!With(b, e) = [entries |-> s, horizon |-> all[2].ts]
    BY <1>1, <2>1
  <2> QED
    BY <1>4, <1>5, <2>2, <2>3
<1>6. CASE ~(n > MaxPosts)
  <2>1. n - MaxPosts <= 0
    BY <1>2, <1>3, <1>6
  <2> HIDE DEF all, n
  <2>2. [b EXCEPT !.entries = all] = [entries |-> all, horizon |-> b.horizon]
    BY <1>3 DEF Boards
  <2> QED
    BY <1>1, <1>4, <1>6, <2>1, <2>2
<1> QED
  BY <1>5, <1>6

(* The last time of a board is no later than an entry it may be given.       *)
LEMMA LatestIs ==
  ASSUME NEW b, Fit(b)
  PROVE  /\ Store!Latest(b) = IF b.entries = <<>> THEN b.horizon ELSE b.entries[Len(b.entries)].ts
         /\ \A e : Fresh(b, e) => Store!Latest(b) <= e.ts
<1>1. b.entries \in Seq(Entries) /\ b.horizon \in Horizons /\ Neat(b.entries)
      /\ \A e \in ToSet(b.entries) : b.horizon <= e.ts
  BY DEF Fit, Boards
<1>2. CASE b.entries = <<>>
  BY <1>2 DEF Store!Latest, Fresh
<1>3. CASE b.entries # <<>>
  <2> DEFINE l == b.entries[Len(b.entries)]
  <2>1. l \in ToSet(b.entries)
    BY <1>1, <1>3, NeatEnds
  <2>2. l \in Entries
    BY <1>1, <2>1 DEF ToSet
  <2>3. l.ts \in Horizons
    BY <2>2, HorizonTypes DEF Entries
  <2>4. b.horizon <= l.ts
    BY <1>1, <2>1
  <2> HIDE DEF l
  <2>5. l.ts > b.horizon \/ l.ts = b.horizon
    BY <1>1, <2>3, <2>4, HorizonOrder
  <2>6. Store!Latest(b) = l.ts
    BY <1>3, <2>5 DEF Store!Latest, l
  <2> QED
    BY <1>3, <2>1, <2>6 DEF Fresh, l
<1> QED
  BY <1>2, <1>3

-------------------------------------------------------------------------------
(* Each step keeps the invariant, and is a step of BulletinBoard or none.    *)

LEMMA MemoryIs ==
  ASSUME KeptInv, up = "running"
  PROVE  /\ Served = Memory /\ Fit(Memory) /\ Memory \in Boards /\ Carries(Content(Found), Memory)
         /\ Memory.entries = entries /\ Memory.horizon = horizon
         /\ entries \in Seq(Entries) /\ Len(entries) <= MaxPosts /\ horizon \in Horizons
<1>1. Served = Memory
  BY DEF Served, Memory
<1>2. Memory.entries = entries /\ Memory.horizon = horizon
  BY DEF Memory
<1> QED
  BY <1>1, <1>2 DEF KeptInv, Kept, Fit, Boards

LEMMA FoundType ==
  ASSUME Files
  PROVE  Found \in Journals \union {None}
  BY DEF Files, Found

(* A step of the running hub that leaves the board as it is, and a journal   *)
(* that makes what the one before it made, or the board itself.              *)
StaysRunning == up = "running" /\ UNCHANGED <<up, entries, horizon>>

LEMMA StaysKept ==
  ASSUME KeptInv, StaysRunning,
         Content(Found') = Content(Found) \/ Content(Found') = Memory
  PROVE  Kept' /\ Served' = Served
<1>1. Served' = Served /\ Served = Memory
  BY DEF StaysRunning, Served, Memory
<1>2. Carries(Content(Found), Memory) /\ Fit(Memory)
  BY MemoryIs DEF StaysRunning
<1>3. Carries(Content(Found'), Memory)
  BY <1>2, CarriesSelf
<1>4. Carries(Content(Found'), Served') /\ Fit(Served')
  BY <1>1, <1>2, <1>3
<1> QED
  BY <1>1, <1>4 DEF Kept

(* The time that a command is given.                                         *)
LEMMA NextIsFresh ==
  ASSUME KeptInv, up = "running", NEW p \in Posts, NEW r \in BOOLEAN
  PROVE  Fresh(Memory, [tth |-> p, ts |-> NextTimestamp, removed |-> r])
<1> DEFINE last == IF entries = <<>> THEN 0 ELSE entries[Len(entries)].ts
           t == NextTimestamp
<1>1. entries \in Seq(Entries) /\ horizon \in Horizons /\ Neat(entries) /\ clock \in Times
  BY MemoryIs DEF KeptInv, Working, Fit
<1>2. last \in Horizons
  <2>1. CASE entries = <<>>
    BY <2>1, HorizonTypes
  <2>2. CASE entries # <<>>
    <3>1. Len(entries) \in 1..Len(entries)
      BY <1>1, <2>2
    <3>2. entries[Len(entries)] \in Entries
      BY <1>1, <3>1
    <3> QED
      BY <2>2, <3>2, HorizonTypes DEF Entries
  <2> QED
    BY <2>1, <2>2
<1>3. t = Larger(clock, Larger(horizon, last))
  BY DEF NextTimestamp
<1> HIDE DEF last, t
<1> DEFINE h == Larger(horizon, last)
<1>4. h \in Horizons /\ h >= horizon /\ h >= last
  BY <1>1, <1>2, HorizonTypes
<1> HIDE DEF h
<1>5. t \in Times /\ t >= h
  BY <1>1, <1>3, <1>4, HorizonTypes DEF h
<1>6. horizon <= t /\ last <= t
  <2>1. horizon \in Int /\ last \in Int /\ h \in Int /\ t \in Int
    BY <1>1, <1>2, <1>4, <1>5, HorizonTypes
  <2> QED
    BY <1>4, <1>5, <2>1
<1>7. \A d \in ToSet(entries) : d.ts <= t
  <2> TAKE d \in ToSet(entries)
  <2>1. entries # <<>>
    BY DEF ToSet
  <2>2. d.ts <= last
    BY <1>1, <2>1, NeatEnds DEF last
  <2>3. d \in Entries
    BY <1>1 DEF ToSet
  <2>4. d.ts \in Horizons /\ t \in Horizons
    BY <1>5, <2>3, HorizonTypes DEF Entries
  <2> QED
    BY <1>2, <1>6, <2>2, <2>4, HorizonOrder
<1>8. [tth |-> p, ts |-> t, removed |-> r] \in Entries
  BY <1>5 DEF Entries
<1> QED
  BY <1>6, <1>7, <1>8 DEF Fresh, Memory, t

LEMMA BeginStep ==
  ASSUME KeptInv, NEW p \in Posts, Post(p) \/ Withdraw(p)
  PROVE  KeptInv' /\ Served' = Served
<1>1. /\ up = "running" /\ step = "idle" /\ step' = "append"
      /\ UNCHANGED <<clock, up, board, disk>>
  BY DEF Post, Withdraw, Ready
<1>2. Kept' /\ Served' = Served
  <2>1. Found' = Found
    BY <1>1 DEF Found, disk
  <2>2. StaysRunning
    BY <1>1 DEF StaysRunning, board
  <2> QED
    BY <2>1, <2>2, StaysKept
<1>3. Files'
  BY <1>1 DEF KeptInv, Files, board, disk, Snapshot
<1>4. Memory' = Memory
  BY <1>1 DEF Memory, board
<1>5. CASE Post(p)
  <2>1. entry' = [tth |-> p, ts |-> NextTimestamp, removed |-> FALSE] /\ Indexed(p) = {}
    BY <1>5 DEF Post
  <2>2. Fresh(Memory, entry')
    BY <1>1, <2>1, NextIsFresh
  <2>3. entry' \in Entries /\ entry'.tth = p /\ entry'.removed = FALSE
    BY <2>1, <2>2 DEF Fresh
  <2>4. Fresh(Memory', entry') /\ Indexed(p)' = {}
    BY <1>1, <1>4, <2>1, <2>2 DEF Indexed, board
  <2>5. Working'
    BY <1>1, <2>3, <2>4 DEF KeptInv, Working, Indexed, board
  <2> QED
    BY <1>2, <1>3, <2>5 DEF KeptInv
<1>6. CASE Withdraw(p)
  <2>1. /\ entry' = [tth |-> p, ts |-> NextTimestamp, removed |-> TRUE]
        /\ \E i \in Indexed(p) : ~entries[i].removed
    BY <1>6 DEF Withdraw
  <2>2. Fresh(Memory, entry')
    BY <1>1, <2>1, NextIsFresh
  <2>3. entry' \in Entries /\ entry'.tth = p /\ entry'.removed = TRUE
    BY <2>1, <2>2 DEF Fresh
  <2>4. Fresh(Memory', entry') /\ Indexed(p)' = Indexed(p) /\ entries' = entries
    BY <1>1, <1>4, <2>2 DEF Indexed, board
  <2>5. Working'
    BY <1>1, <2>1, <2>3, <2>4 DEF KeptInv, Working, Indexed, board
  <2> QED
    BY <1>2, <1>3, <2>5 DEF KeptInv
<1> QED
  BY <1>5, <1>6

LEMMA ThenIs == ASSUME NEW m PROVE Then(m) \in {"snapshot", "idle"}
  BY DEF Then

(* A record is written: the journal it is appended to, and the one it makes. *)
LEMMA AppendedFound ==
  ASSUME KeptInv, step \in {"append", "prune"}, NEW l \in Records, index' = Appended(l)
  PROVE  /\ index' \in Journals /\ index' # None /\ Found' = index'
         /\ Content(index') = Apply(Content(Found), l)
<1>1. index \in Journals \union {None} /\ bak \in Journals \union {None}
  BY DEF KeptInv, Files
<1>2. up = "running"
  BY DEF KeptInv, Working
<1>3. Content(Found) = Content(index)
  <2>1. index = None => bak = None
    BY <1>2 DEF KeptInv, Files
  <2> QED
    BY <2>1 DEF Found
<1>4. index' \in Journals /\ Content(index') = Apply(Content(index), l)
  BY <1>1, AppendedIs
<1>5. index' # None
  BY <1>4, JournalLines
<1> QED
  BY <1>3, <1>4, <1>5 DEF Found

LEMMA LatestInt ==
  ASSUME NEW b, Fit(b)
  PROVE  Store!Latest(b) \in Int
<1>1. b.entries \in Seq(Entries) /\ b.horizon \in Horizons /\ Neat(b.entries)
  BY DEF Fit, Boards
<1>2. CASE b.entries = <<>>
  <2>1. Store!Latest(b) = b.horizon
    BY <1>2, LatestIs
  <2> QED
    BY <1>1, <2>1, HorizonTypes, ZenonT(60)
<1>3. CASE b.entries # <<>>
  <2>1. Store!Latest(b) = b.entries[Len(b.entries)].ts
    BY <1>3, LatestIs
  <2>2. b.entries[Len(b.entries)] \in ToSet(b.entries)
    BY <1>1, <1>3, NeatEnds
  <2>3. b.entries[Len(b.entries)] \in Entries
    BY <1>1, <2>2 DEF ToSet
  <2>4. b.entries[Len(b.entries)].ts \in Times
    BY <2>3 DEF Entries
  <2> QED
    BY <2>1, <2>4, HorizonTypes, ZenonT(60)
<1> QED
  BY <1>2, <1>3

(* What writing an entry does to memory.                                     *)
LEMMA WrittenMemory ==
  ASSUME KeptInv, Written
  PROVE  /\ up' = "running" /\ Memory' = After(Memory, entry) /\ mutations' \in Nat
         /\ \/ step' = "prune" /\ entry' \in Entries /\ Len(entries') = MaxPosts
               /\ \A e \in ToSet(entries') : e.tth # entry'.tth
            \/ step' \in {"snapshot", "idle"} /\ entry' = None
<1> DEFINE all == Grown(Memory, entry)
<1>1. up = "running" /\ up' = up /\ Fresh(Memory, entry) /\ mutations' \in Nat
  BY DEF KeptInv, Working, Written
<1>2. Fit(Memory) /\ Memory.entries = entries /\ Memory.horizon = horizon
  BY <1>1, MemoryIs
<1>3. /\ Fit(After(Memory, entry))
      /\ Len(all) > MaxPosts =>
           /\ Len(After(Memory, entry).entries) = MaxPosts
           /\ all[1] \in Entries
           /\ Larger(Memory.horizon, all[2].ts) = all[2].ts
           /\ \A d \in ToSet(After(Memory, entry).entries) : d.tth # all[1].tth
  BY <1>1, <1>2, AfterFit
<1>4. all = Append(Without(entries, entry.tth), entry)
  BY <1>2 DEF Grown
<1>5. PruneOr(all, horizon, Then(mutations'))
  BY <1>4 DEF Written
<1>6. After(Memory, entry) = IF Len(all) > MaxPosts THEN [entries |-> Tail(all), horizon |-> all[2].ts]
                             ELSE [entries |-> all, horizon |-> horizon]
  BY <1>2 DEF After
<1> HIDE DEF all
<1>7. CASE Len(all) > MaxPosts
  <2>1. entries' = Tail(all) /\ horizon' = all[2].ts /\ entry' = all[1] /\ step' = "prune"
    BY <1>2, <1>3, <1>5, <1>7 DEF PruneOr
  <2>2. Memory' = After(Memory, entry) /\ entries' = After(Memory, entry).entries
    BY <1>6, <1>7, <2>1 DEF Memory
  <2>3. Len(entries') = MaxPosts /\ \A e \in ToSet(entries') : e.tth # entry'.tth
    BY <1>3, <1>7, <2>1, <2>2
  <2> QED
    BY <1>1, <1>3, <1>7, <2>1, <2>2, <2>3
<1>8. CASE ~(Len(all) > MaxPosts)
  <2>1. entries' = all /\ horizon' = horizon /\ entry' = None /\ step' = Then(mutations')
    BY <1>5, <1>8 DEF PruneOr
  <2>2. Memory' = After(Memory, entry)
    BY <1>6, <1>8, <2>1 DEF Memory
  <2> QED
    BY <1>1, <2>1, <2>2, ThenIs
<1> QED
  BY <1>7, <1>8

LEMMA WrittenStep ==
  ASSUME KeptInv, Written
  PROVE  KeptInv' /\ (Store!Post \/ Store!Withdraw)
<1>1. /\ step = "append" /\ up = "running" /\ Fresh(Memory, entry)
      /\ IF entry.removed THEN \E i \in Indexed(entry.tth) : ~entries[i].removed
         ELSE Indexed(entry.tth) = {}
      /\ index' = Appended(PostLine(entry)) /\ UNCHANGED <<clock, up, bak, tmp>>
  BY DEF KeptInv, Working, Written
<1>2. /\ up' = "running" /\ Memory' = After(Memory, entry) /\ mutations' \in Nat
      /\ \/ step' = "prune" /\ entry' \in Entries /\ Len(entries') = MaxPosts
            /\ \A e \in ToSet(entries') : e.tth # entry'.tth
         \/ step' \in {"snapshot", "idle"} /\ entry' = None
  BY WrittenMemory
<1>3. entry \in Entries /\ PostLine(entry) \in Records
  <2>1. 0 \in Horizons
    BY HorizonTypes
  <2> QED
    BY <1>1, <2>1, AreRecords DEF Fresh
<1>4. /\ index' \in Journals /\ index' # None /\ Found' = index'
      /\ Content(index') = Apply(Content(Found), PostLine(entry))
  BY <1>1, <1>3, AppendedFound
<1>5. Fit(Memory) /\ Carries(Content(Found), Memory) /\ Served = Memory
      /\ Memory.entries = entries /\ Memory.horizon = horizon
  BY <1>1, MemoryIs
<1>6. Served' = Memory'
  BY <1>2 DEF Served, Memory
<1>7. Kept'
  <2>1. Carries(Apply(Content(Found), PostLine(entry)), After(Memory, entry))
    BY <1>1, <1>5, CarriesPost
  <2>2. Fit(After(Memory, entry))
    BY <1>1, <1>5, AfterFit
  <2>3. Carries(Content(Found'), Served') /\ Fit(Served')
    BY <1>2, <1>4, <1>6, <2>1, <2>2
  <2> QED
    BY <2>3 DEF Kept
<1>8. Files'
  <2>1. step' \in {"prune", "snapshot", "idle"}
    BY <1>2
  <2> QED
    BY <1>1, <1>4, <2>1 DEF KeptInv, Files
<1>9. Working'
  BY <1>1, <1>2 DEF KeptInv, Working
<1>10. Served' = Store!With(Served, entry)
  BY <1>1, <1>2, <1>5, <1>6, StoreWith
<1>11. Store!Latest(Served) <= entry.ts /\ entry.ts \in Times /\ Store!Latest(Served) \in Int
  <2>1. Store!Latest(Memory) <= entry.ts
    BY <1>1, <1>5, LatestIs
  <2>2. Store!Latest(Memory) \in Int
    BY <1>5, LatestInt
  <2> QED
    BY <1>3, <1>5, <2>1, <2>2 DEF Entries
<1>12. entry.ts >= Store!Latest(Served)
  BY <1>11, HorizonTypes
<1>13. Store!Indexed(entry.tth, Served) = Indexed(entry.tth) /\ Served.entries = entries
  BY <1>5 DEF Store!Indexed, Indexed
<1>14. CASE entry.removed
  <2>1. entry \in [tth : Posts, ts : Times, removed : {TRUE}]
    BY <1>3, <1>14 DEF Entries
  <2>2. entry \in Store!Withdrawn(Served)
    BY <1>1, <1>12, <1>13, <1>14, <2>1 DEF Store!Withdrawn
  <2> QED
    BY <1>7, <1>8, <1>9, <1>10, <2>2 DEF KeptInv, Store!Withdraw
<1>15. CASE ~entry.removed
  <2>1. entry \in [tth : Posts, ts : Times, removed : {FALSE}]
    BY <1>3, <1>15 DEF Entries
  <2>2. entry \in Store!Posted(Served)
    BY <1>1, <1>12, <1>13, <1>15, <2>1 DEF Store!Posted
  <2> QED
    BY <1>7, <1>8, <1>9, <1>10, <2>2 DEF KeptInv, Store!Post
<1> QED
  BY <1>14, <1>15

LEMMA NotWrittenStep ==
  ASSUME Whole, KeptInv, NotWritten
  PROVE  KeptInv' /\ Served' = Served
<1>1. /\ step = "append" /\ up = "running" /\ index' = index /\ step' = "idle" /\ entry' = None
      /\ UNCHANGED <<clock, up, board, bak, tmp>>
  BY DEF NotWritten, Left, Whole, KeptInv, Working
<1>2. Kept' /\ Served' = Served
  <2>1. Found' = Found
    BY <1>1 DEF Found
  <2>2. StaysRunning
    BY <1>1 DEF StaysRunning, board
  <2> QED
    BY <2>1, <2>2, StaysKept
<1>3. Files'
  BY <1>1 DEF KeptInv, Files
<1>4. Working'
  BY <1>1 DEF KeptInv, Working, board
<1> QED
  BY <1>2, <1>3, <1>4 DEF KeptInv

LEMMA PruneStep ==
  ASSUME Whole, KeptInv, Prune \/ PruneFails
  PROVE  KeptInv' /\ Served' = Served
<1>1. /\ step = "prune" /\ up = "running" /\ Len(entries) = MaxPosts /\ entry \in Entries
      /\ \A e \in ToSet(entries) : e.tth # entry.tth
      /\ index # None
  BY DEF Prune, PruneFails, PruneWritten, KeptInv, Working, Files
<1>2. /\ mutations' = mutations + 1
      /\ PruneOr(entries, horizon, Then(mutations'))
      /\ UNCHANGED <<clock, up, bak, tmp>>
  BY DEF Prune, PruneFails, PruneWritten
<1>3. ~(Len(entries) > MaxPosts)
  BY <1>1, Sizes
<1>4. /\ entries' = entries /\ horizon' = horizon /\ entry' = None
      /\ step' \in {"snapshot", "idle"}
  BY <1>2, <1>3, ThenIs DEF PruneOr
<1>5. Fit(Memory) /\ Carries(Content(Found), Memory) /\ Served = Memory
      /\ Memory.entries = entries /\ Memory.horizon = horizon /\ horizon \in Horizons
  BY <1>1, MemoryIs
<1>6. Served' = Served
  BY <1>1, <1>2, <1>4 DEF Served
<1>7. /\ index' \in Journals \union {None} /\ index' # None
      /\ Carries(Content(Found'), Memory)
  <2>1. CASE Prune
    <3>1. index' = Appended(DeleteLine(entry, horizon))
      BY <2>1 DEF Prune, PruneWritten
    <3>2. DeleteLine(entry, horizon) \in Records
      BY <1>1, <1>5, AreRecords
    <3>3. /\ index' \in Journals /\ index' # None /\ Found' = index'
          /\ Content(index') = Apply(Content(Found), DeleteLine(entry, horizon))
      BY <1>1, <3>1, <3>2, AppendedFound
    <3>4. Carries(Apply(Content(Found), DeleteLine(entry, Memory.horizon)), Memory)
      BY <1>1, <1>5, CarriesDelete
    <3> QED
      BY <1>5, <3>3, <3>4
  <2>2. CASE PruneFails
    <3>1. index' = index
      BY <2>2 DEF PruneFails, PruneWritten, Left, Whole
    <3>2. Found' = Found
      BY <1>2, <3>1 DEF Found
    <3> QED
      BY <1>1, <1>5, <3>1, <3>2 DEF KeptInv, Files
  <2> QED
    BY <2>1, <2>2
<1>8. Kept'
  <2>1. Carries(Content(Found'), Served') /\ Fit(Served')
    BY <1>5, <1>6, <1>7
  <2> QED
    BY <2>1 DEF Kept
<1>9. Files'
  BY <1>2, <1>4, <1>7 DEF KeptInv, Files
<1>10. Working'
  <2>1. mutations' \in Nat
    <3>1. mutations \in Nat
      BY DEF KeptInv, Working
    <3> QED
      BY <1>2, <3>1
  <2> QED
    BY <1>1, <1>2, <1>4, <2>1 DEF KeptInv, Working
<1> QED
  BY <1>6, <1>8, <1>9, <1>10 DEF KeptInv

(* A step of a compaction: memory and what is kept stay, and one of the      *)
(* files that hold it does.                                                  *)
LEMMA CompactStep ==
  ASSUME KeptInv,
         \/ CompactWrite \/ CompactWriteFails \/ CompactDropBackup \/ CompactFinish
         \/ \E ok \in BOOLEAN : CompactBackUp(ok) \/ CompactReplace(ok)
  PROVE  KeptInv' /\ Served' = Served
<1>1. /\ up = "running" /\ entry = None
      /\ step \in {"snapshot", "drop backup", "back up", "replace", "finish"}
      /\ UNCHANGED <<clock, up, entries, horizon, entry>>
  BY DEF KeptInv, Working, CompactWrite, CompactWriteFails, CompactDropBackup, CompactFinish,
         CompactBackUp, CompactReplace, Goto
<1>2. Snapshot' = Snapshot /\ Memory' = Memory
  BY <1>1 DEF Snapshot, Memory
<1>3. Snapshot \in Journals /\ Content(Snapshot) = Memory
  BY <1>1, MemoryIs, SnapshotIs DEF Memory
<1>4. StaysRunning
  BY <1>1 DEF StaysRunning
<1>5. /\ index \in Journals \union {None} /\ bak \in Journals \union {None} /\ tmp \in Journals \union {None}
      /\ step \in {"snapshot", "drop backup", "back up", "finish"} => index # None
      /\ step = "replace" => index = None /\ bak # None
      /\ step = "back up" => bak = None
      /\ step \in {"drop backup", "back up", "replace"} => tmp = Snapshot
  BY DEF KeptInv, Files
<1>6. SUFFICES Files' /\ Working' /\ (Content(Found') = Content(Found) \/ Content(Found') = Memory)
  BY <1>4, StaysKept DEF KeptInv
<1>7. SUFFICES /\ Files' /\ (Content(Found') = Content(Found) \/ Content(Found') = Memory)
               /\ mutations' \in Nat /\ step' \notin {"append", "prune"}
               /\ step' \in {"idle", "drop backup", "back up", "replace", "finish"}
  BY <1>1 DEF KeptInv, Working
<1>8. mutations \in Nat
  BY DEF KeptInv, Working
<1>9. CASE CompactWrite
  <2>1. /\ step = "snapshot" /\ step' = "drop backup" /\ tmp' = Snapshot
        /\ index' = index /\ bak' = bak /\ mutations' = mutations
    BY <1>9 DEF CompactWrite, Goto
  <2>2. Found' = Found
    BY <2>1 DEF Found
  <2>3. Files'
    BY <1>2, <1>3, <1>5, <2>1 DEF Files
  <2> QED
    BY <1>8, <2>1, <2>2, <2>3
<1>10. CASE CompactWriteFails
  <2>1. step = "snapshot" /\ step' = "idle" /\ UNCHANGED <<disk, mutations>>
    BY <1>10 DEF CompactWriteFails, Goto
  <2>2. Found' = Found
    BY <2>1 DEF Found, disk
  <2>3. Files'
    BY <1>5, <2>1 DEF Files, disk
  <2> QED
    BY <1>8, <2>1, <2>2, <2>3
<1>11. CASE CompactDropBackup
  <2>1. /\ step = "drop backup" /\ step' = "back up" /\ bak' = None
        /\ index' = index /\ tmp' = tmp /\ mutations' = mutations
    BY <1>11 DEF CompactDropBackup, Goto
  <2>2. Found' = Found
    BY <1>5, <2>1 DEF Found
  <2>3. Files'
    BY <1>2, <1>5, <2>1 DEF Files
  <2> QED
    BY <1>8, <2>1, <2>2, <2>3
<1>12. CASE CompactFinish
  <2>1. /\ step = "finish" /\ step' = "idle" /\ bak' = None /\ mutations' = 0
        /\ index' = index /\ tmp' = tmp
    BY <1>12 DEF CompactFinish, Goto
  <2>2. Found' = Found
    BY <1>5, <2>1 DEF Found
  <2>3. Files'
    BY <1>5, <2>1 DEF Files
  <2> QED
    BY <2>1, <2>2, <2>3
<1>13. CASE CompactBackUp(TRUE)
  <2>1. /\ step = "back up" /\ step' = "replace" /\ bak' = index /\ index' = None /\ tmp' = tmp
        /\ mutations' = mutations
    BY <1>13 DEF CompactBackUp, Goto
  <2>2. Found' = Found
    BY <1>5, <2>1 DEF Found
  <2>3. Files'
    BY <1>2, <1>5, <2>1 DEF Files
  <2> QED
    BY <1>8, <2>1, <2>2, <2>3
<1>14. CASE CompactBackUp(FALSE)
  <2>1. /\ step = "back up" /\ step' = "idle" /\ bak' = bak /\ index' = index /\ tmp' = None
        /\ mutations' = mutations
    BY <1>14 DEF CompactBackUp, Goto
  <2>2. Found' = Found
    BY <2>1 DEF Found
  <2>3. Files'
    BY <1>5, <2>1 DEF Files
  <2> QED
    BY <1>8, <2>1, <2>2, <2>3
<1>15. CASE CompactReplace(TRUE)
  <2>1. /\ step = "replace" /\ step' = "finish" /\ index' = tmp /\ tmp' = None /\ bak' = bak
        /\ mutations' = mutations
    BY <1>15 DEF CompactReplace, Goto
  <2>2. index' = Snapshot /\ index' # None
    BY <1>3, <1>5, <2>1, JournalLines
  <2>3. Found' = Snapshot
    BY <2>2 DEF Found
  <2>4. Files'
    BY <1>3, <1>5, <2>1, <2>2 DEF Files
  <2> QED
    BY <1>3, <1>8, <2>1, <2>3, <2>4
<1>16. CASE CompactReplace(FALSE)
  <2>1. /\ step = "replace" /\ step' = "idle" /\ index' = bak /\ bak' = None /\ tmp' = None
        /\ mutations' = mutations
    BY <1>16 DEF CompactReplace, Goto
  <2>2. Found' = Found
    BY <1>5, <2>1 DEF Found
  <2>3. Files'
    BY <1>5, <2>1 DEF Files
  <2> QED
    BY <1>8, <2>1, <2>2, <2>3
<1> QED
  BY <1>9, <1>10, <1>11, <1>12, <1>13, <1>14, <1>15, <1>16

(* A crash leaves the files; what a start would make of them is what was     *)
(* served, or the same entries with a horizon that claims less.              *)
LEMMA CrashStep ==
  ASSUME Whole, KeptInv, Crash
  PROVE  KeptInv' /\ (Store!Reopen \/ Served' = Served)
<1>1. /\ up = "running" /\ up' = "down" /\ step' = "idle" /\ entry' = None
      /\ entries' = <<>> /\ horizon' = 0 /\ mutations' = 0
      /\ index' = index /\ bak' = bak /\ tmp' = None /\ clock' = clock
  BY DEF Crash, Left, Whole
<1>2. Found' = Found
  BY <1>1 DEF Found
<1>3. Fit(Served) /\ Carries(Content(Found), Served) /\ Found \in Journals \union {None}
  BY FoundType DEF KeptInv, Kept
<1>4. Served' = Start(Found)
  <2>1. Recovered' = Start(Found')
    BY RecoveredIsStart DEF Recovered, Start
  <2>2. Served' = Recovered'
    BY <1>1 DEF Served
  <2> QED
    BY <1>2, <2>1, <2>2
<1>5. Served' = Pruned(Content(Found))
  BY <1>3, <1>4, StartIs
<1>6. /\ Carries(Content(Found), Served') /\ Fit(Served')
      /\ \/ Served' = Served
         \/ /\ Len(Served.entries) = MaxPosts
            /\ Served.entries[1].ts > Served.horizon
            /\ Served' = [Served EXCEPT !.horizon = Served.entries[1].ts]
  BY <1>3, <1>5, CarriesPruned
<1>7. Kept'
  BY <1>2, <1>6 DEF Kept
<1>8. Files'
  BY <1>1 DEF KeptInv, Files
<1>9. Working'
  BY <1>1 DEF KeptInv, Working
<1>10. Store!Reopen \/ Served' = Served
  BY <1>6 DEF Store!Reopen
<1> QED
  BY <1>7, <1>8, <1>9, <1>10 DEF KeptInv

LEMMA RestartStep ==
  ASSUME KeptInv, Restart
  PROVE  KeptInv' /\ Served' = Served
<1>1. /\ up = "down" /\ step = "idle" /\ entry = None
      /\ index' = Found /\ bak' = (IF index = None THEN None ELSE bak)
      /\ UNCHANGED <<clock, mutations, tmp, step, entry>>
  BY DEF Restart, KeptInv, Working
<1>2. Found' = Found
  BY <1>1 DEF Found
<1>3. Fit(Served) /\ Carries(Content(Found), Served) /\ Found \in Journals \union {None}
  BY FoundType DEF KeptInv, Kept
<1>4. Recovers
  BY <1>3, StartIs, RecoveredIsStart
<1>5. up' = "running" /\ entries' = Recovered.entries /\ horizon' = Recovered.horizon
  BY <1>4 DEF Restart
<1>6. Served = Recovered /\ Served \in Boards
  BY <1>1, <1>3 DEF Served, Fit
<1>7. Served' = Served
  <2>1. Served' = [entries |-> Served.entries, horizon |-> Served.horizon]
    BY <1>5, <1>6 DEF Served
  <2> HIDE DEF Served
  <2> QED
    BY <1>6, <2>1 DEF Boards
<1>8. Kept'
  BY <1>2, <1>3, <1>7 DEF Kept
<1>9. Files'
  <2>1. index' = None => bak' = None
    BY <1>1 DEF Found
  <2>2. index' \in Journals \union {None} /\ bak' \in Journals \union {None} /\ tmp' \in Journals \union {None}
    BY <1>1, <1>3 DEF KeptInv, Files
  <2> QED
    BY <1>1, <2>1, <2>2 DEF Files
<1>10. Working'
  BY <1>1, <1>5 DEF KeptInv, Working
<1> QED
  BY <1>7, <1>8, <1>9, <1>10 DEF KeptInv

LEMMA SetClockStep ==
  ASSUME KeptInv, NEW t \in 1..MaxTime, SetClock(t)
  PROVE  KeptInv' /\ Served' = Served
<1>1. step = "idle" /\ clock' = t /\ UNCHANGED <<up, board, disk, step, entry>>
  BY DEF SetClock
<1>2. UNCHANGED <<up, entries, horizon, mutations, index, bak, tmp, step, entry>>
  BY <1>1 DEF board, disk
<1>3. Found' = Found /\ Served' = Served
  BY <1>2 DEF Found, Served, Recovered
<1>4. Kept' /\ Files'
  BY <1>1, <1>2, <1>3 DEF KeptInv, Kept, Files
<1>5. Working'
  BY <1>1, <1>2 DEF KeptInv, Working, Times
<1> QED
  BY <1>3, <1>4, <1>5 DEF KeptInv

-------------------------------------------------------------------------------
(* The theorems.                                                             *)

(* A step of the program is one of the board or leaves what is served.       *)
BoardStep == Store!Next \/ Served' = Served

LEMMA KeptInit == Init => KeptInv /\ Served = Store!Empty
<1> SUFFICES ASSUME Init PROVE KeptInv /\ Served = Store!Empty
  OBVIOUS
<1>1. Served = EmptyBoard /\ Found = None
  BY DEF Init, Served, EmptyBoard, Found
<1>2. Kept
  BY <1>1, EmptyType, CarriesSelf DEF Kept, Content
<1>3. 1 \in Times
  BY BBSAssumption DEF Times
<1>4. Working /\ Files
  BY <1>3 DEF Init, Working, Files
<1> QED
  BY <1>1, <1>2, <1>4 DEF KeptInv, EmptyBoard, Store!Empty

LEMMA KeptNext == Whole /\ KeptInv /\ [Next]_vars => KeptInv' /\ BoardStep
<1> SUFFICES ASSUME Whole, KeptInv, [Next]_vars PROVE KeptInv' /\ BoardStep
  OBVIOUS
<1> USE DEF BoardStep
<1>1. ASSUME NEW p \in Posts, Post(p) \/ Withdraw(p) PROVE KeptInv' /\ BoardStep
  BY <1>1, BeginStep
<1>2. CASE Written
  BY <1>2, WrittenStep DEF Store!Next
<1>3. CASE NotWritten
  BY <1>3, NotWrittenStep
<1>4. CASE Prune \/ PruneFails
  BY <1>4, PruneStep
<1>5. CASE \/ CompactWrite \/ CompactWriteFails \/ CompactDropBackup \/ CompactFinish
           \/ \E ok \in BOOLEAN : CompactBackUp(ok) \/ CompactReplace(ok)
  BY <1>5, CompactStep
<1>6. CASE Crash
  BY <1>6, CrashStep DEF Store!Next
<1>7. CASE Restart
  BY <1>7, RestartStep
<1>8. ASSUME NEW t \in 1..MaxTime, SetClock(t) PROVE KeptInv' /\ BoardStep
  BY <1>8, SetClockStep
<1>9. CASE UNCHANGED vars
  <2>1. UNCHANGED <<clock, up, entries, horizon, mutations, index, bak, tmp, step, entry>>
    BY <1>9 DEF vars, board, disk
  <2>2. Found' = Found /\ Served' = Served
    BY <2>1 DEF Found, Served, Recovered
  <2>3. Kept' /\ Files'
    BY <2>1, <2>2 DEF KeptInv, Kept, Files, Snapshot
  <2>4. Memory' = Memory /\ \A p : Indexed(p)' = Indexed(p)
    BY <2>1 DEF Memory, Indexed
  <2>5. Working'
    BY <2>1, <2>4 DEF KeptInv, Working, Indexed
  <2> QED
    BY <2>2, <2>3, <2>5 DEF KeptInv
<1> QED
  BY <1>1, <1>2, <1>3, <1>4, <1>5, <1>6, <1>7, <1>8, <1>9 DEF Next

(* The invariant the rest follows from: the file that a start would find     *)
(* holds the records of what is served, whatever step a handler stopped at.  *)
THEOREM JournalKeepsTheBoard == Whole => (Spec => []KeptInv)
<1> SUFFICES ASSUME Whole PROVE Spec => []KeptInv
  OBVIOUS
<1>1. Init => KeptInv
  BY KeptInit
<1>2. KeptInv /\ [Next]_vars => KeptInv'
  BY KeptNext
<1> QED
  BY <1>1, <1>2, PTL DEF Spec

(* Durable: whenever the hub stops, in the middle of a compaction or after a *)
(* removal that could not be written, loadIndex accepts the files that are   *)
(* left and makes of them the entries that are in memory.                    *)
THEOREM NothingIsLost == Whole => (Spec => []Durable)
<1> SUFFICES ASSUME Whole PROVE Spec => []Durable
  OBVIOUS
<1>1. KeptInv => Durable
  <2> SUFFICES ASSUME KeptInv, up = "running"
               PROVE  Recovers /\ Recovered.entries = entries /\ Recovered.horizon >= horizon
    BY DEF Durable
  <2>1. /\ Fit(Memory) /\ Carries(Content(Found), Memory) /\ Memory \in Boards
        /\ Memory.entries = entries /\ Memory.horizon = horizon /\ horizon \in Horizons
    BY MemoryIs
  <2>2. Found \in Journals \union {None}
    BY FoundType DEF KeptInv
  <2>3. Recovers /\ Recovered = Pruned(Content(Found))
    BY <2>1, <2>2, StartIs, RecoveredIsStart
  <2>4. \/ Recovered = Memory
        \/ /\ Memory.entries[1].ts > Memory.horizon
           /\ Recovered = [Memory EXCEPT !.horizon = Memory.entries[1].ts]
    BY <2>1, <2>3, CarriesPruned
  <2>5. horizon \in Int
    BY <2>1, HorizonTypes
  <2>6. CASE Recovered = Memory
    BY <2>1, <2>3, <2>5, <2>6
  <2>7. CASE /\ Memory.entries[1].ts > Memory.horizon
             /\ Recovered = [Memory EXCEPT !.horizon = Memory.entries[1].ts]
    <3>1. Recovered.entries = Memory.entries /\ Recovered.horizon = Memory.entries[1].ts
      BY <2>1, <2>7 DEF Boards
    <3>2. Recovered.horizon \in Horizons
      BY <2>1, <2>3, CarriesPruned DEF Fit, Boards
    <3>3. Recovered.horizon \in Int
      BY <3>2, HorizonTypes
    <3> QED
      BY <2>1, <2>3, <2>5, <2>7, <3>1, <3>3
  <2> QED
    BY <2>4, <2>6, <2>7
<1> QED
  BY <1>1, JournalKeepsTheBoard, PTL

(* StoreSpec: the index implements BulletinBoard.  A post or a withdrawal    *)
(* takes effect, with the removal of the oldest entry, in the one step that  *)
(* writes its record; a failed write, a compaction and a restart change      *)
(* nothing, and a crash no more than the horizon of a full board.            *)
THEOREM IndexIsBoard == Whole => (Spec => StoreSpec)
<1> SUFFICES ASSUME Whole PROVE Spec => StoreSpec
  OBVIOUS
<1>1. Init => Served = Store!Empty
  BY KeptInit
<1>2. KeptInv /\ [Next]_vars => [Store!Next]_Served
  BY KeptNext DEF BoardStep
<1>3. Whole => (Spec => []KeptInv)
  BY JournalKeepsTheBoard
<1> QED
  BY <1>1, <1>2, <1>3, PTL DEF Spec, StoreSpec, Store!Spec

(* What a step of the board does to the time that clients resume from.       *)
LEMMA BoardTime ==
  ASSUME NEW b, Fit(b), NEW c, Fit(c),
         \/ \E e : Fresh(b, e) /\ c = Store!With(b, e)
         \/ c.entries = b.entries /\ b.entries # <<>>
         \/ c = b
  PROVE  Store!Latest(c) >= Store!Latest(b)
<1>1. Store!Latest(b) \in Int /\ Store!Latest(c) \in Int
  BY LatestInt
<1>2. CASE c.entries = b.entries /\ b.entries # <<>>
  <2>1. Store!Latest(c) = Store!Latest(b)
    BY <1>2, LatestIs
  <2> QED
    BY <1>1, <2>1
<1>3. CASE c = b
  BY <1>1, <1>3
<1>4. CASE \E e : Fresh(b, e) /\ c = Store!With(b, e)
  <2>1. PICK e : Fresh(b, e) /\ c = Store!With(b, e)
    BY <1>4
  <2> DEFINE all == Grown(b, e)
  <2>2. c = After(b, e)
    BY <2>1, StoreWith
  <2>3. /\ all \in Seq(Entries) /\ all # <<>> /\ all[Len(all)] = e
        /\ Len(all) > MaxPosts => Len(all) = MaxPosts + 1
    BY <2>1, GrownIs
  <2>4. c.entries # <<>> /\ c.entries[Len(c.entries)] = e
    <3>1. CASE Len(all) > MaxPosts
      <4>1. c.entries = Tail(all)
        BY <2>2, <3>1 DEF After
      <4> HIDE DEF all
      <4>2. Len(all) >= 2 /\ Len(all) \in Nat
        BY <2>3, <3>1, Sizes
      <4>3. Len(Tail(all)) = Len(all) - 1 /\ Tail(all) \in Seq(Entries)
            /\ \A i \in 1..(Len(all) - 1) : Tail(all)[i] = all[i + 1]
        BY <2>3
      <4>4. Len(all) - 1 \in 1..(Len(all) - 1) /\ (Len(all) - 1) + 1 = Len(all)
        BY <4>2
      <4>5. Tail(all)[Len(Tail(all))] = e /\ Len(Tail(all)) # 0
        BY <2>3, <4>2, <4>3, <4>4
      <4>6. Tail(all) # <<>>
        <5>1. Len(<<>>) = 0
          OBVIOUS
        <5> QED
          BY <4>5, <5>1
      <4> QED
        BY <4>1, <4>5, <4>6
    <3>2. CASE ~(Len(all) > MaxPosts)
      <4>1. c.entries = all
        BY <2>2, <3>2 DEF After
      <4> QED
        BY <2>3, <4>1
    <3> QED
      BY <3>1, <3>2
  <2>5. Store!Latest(c) = e.ts
    BY <2>4, LatestIs
  <2>6. Store!Latest(b) <= e.ts
    BY <2>1, LatestIs
  <2> QED
    BY <1>1, <2>5, <2>6
<1> QED
  BY <1>2, <1>3, <1>4

LEMMA FreshIsLatest ==
  ASSUME NEW b, Fit(b), NEW e \in Entries, e.ts >= Store!Latest(b)
  PROVE  Fresh(b, e)
<1>1. b.entries \in Seq(Entries) /\ b.horizon \in Horizons /\ Neat(b.entries)
      /\ \A d \in ToSet(b.entries) : b.horizon <= d.ts
  BY DEF Fit, Boards
<1>2. e.ts \in Horizons /\ Store!Latest(b) \in Int
  BY LatestInt, HorizonTypes DEF Entries
<1>3. Store!Latest(b) <= e.ts
  BY <1>2, HorizonTypes
<1>4. CASE b.entries = <<>>
  <2>1. b.horizon <= e.ts
    BY <1>3, <1>4, LatestIs
  <2>2. ToSet(<<>>) = {}
    BY DEF ToSet
  <2> QED
    BY <1>4, <2>1, <2>2 DEF Fresh
<1>5. CASE b.entries # <<>>
  <2> DEFINE l == b.entries[Len(b.entries)]
  <2>1. l.ts <= e.ts
    BY <1>3, <1>5, LatestIs
  <2>2. l \in ToSet(b.entries) /\ \A d \in ToSet(b.entries) : d.ts <= l.ts
    BY <1>1, <1>5, NeatEnds
  <2>3. ToSet(b.entries) \subseteq Entries
    BY <1>1 DEF ToSet
  <2> HIDE DEF l
  <2>4. \A d \in ToSet(b.entries) : d.ts \in Horizons
    BY <2>3, HorizonTypes DEF Entries
  <2>5. \A d \in ToSet(b.entries) : d.ts <= e.ts
    BY <1>2, <2>1, <2>2, <2>4, HorizonOrder
  <2>6. b.horizon <= e.ts
    BY <1>1, <1>2, <2>1, <2>2, <2>4, HorizonOrder
  <2> QED
    BY <2>5, <2>6 DEF Fresh
<1> QED
  BY <1>4, <1>5

(* TimeGoesOn: the timestamp that a client resumes from never goes back,     *)
(* however the clock is set, whatever is removed, and over every restart.    *)
THEOREM TimeAlwaysGoesOn == Whole => (Spec => TimeGoesOn)
<1> SUFFICES ASSUME Whole PROVE Spec => TimeGoesOn
  OBVIOUS
<1> DEFINE Later == \A b \in {Served}, c \in {Served'} : Store!Latest(c) >= Store!Latest(b)
<1>1. KeptInv /\ KeptInv' /\ [Next]_vars => [Later]_vars
  <2> SUFFICES ASSUME KeptInv, KeptInv', [Next]_vars
               PROVE  \A b, c : b = Served /\ c = Served' => Store!Latest(c) >= Store!Latest(b)
    OBVIOUS
  <2> TAKE b, c
  <2> HAVE b = Served /\ c = Served'
  <2>1. Fit(b) /\ Fit(c)
    BY DEF KeptInv, Kept
  <2>2. Store!Next \/ c = b
    BY KeptNext DEF BoardStep
  <2>3. CASE Store!Post \/ Store!Withdraw
    <3>1. PICK e \in Store!Posted(b) \union Store!Withdrawn(b) : c = Store!With(b, e)
      BY <2>3 DEF Store!Post, Store!Withdraw
    <3>2. e \in Entries /\ e.ts >= Store!Latest(b)
      BY <3>1 DEF Store!Posted, Store!Withdrawn, Entries
    <3>3. Fresh(b, e)
      BY <2>1, <3>2, FreshIsLatest
    <3> QED
      BY <2>1, <3>1, <3>3, BoardTime
  <2>4. CASE Store!Reopen
    <3>1. Len(b.entries) = MaxPosts /\ c = [b EXCEPT !.horizon = b.entries[1].ts] /\ b \in Boards
      BY <2>1, <2>4 DEF Store!Reopen, Fit
    <3>2. c.entries = b.entries
      BY <3>1 DEF Boards
    <3>3. b.entries # <<>>
      <4>1. Len(<<>>) = 0
        OBVIOUS
      <4> QED
        BY <3>1, <4>1, Sizes
    <3> QED
      BY <2>1, <3>2, <3>3, BoardTime
  <2>5. CASE c = b
    BY <2>1, <2>5, BoardTime
  <2> QED
    BY <2>2, <2>3, <2>4, <2>5 DEF Store!Next
<1>2. Whole => (Spec => []KeptInv)
  BY JournalKeepsTheBoard
<1> QED
  BY <1>1, <1>2, PTL DEF Spec, TimeGoesOn

-------------------------------------------------------------------------------
(* The types, whatever an append may leave behind: these do not rest on      *)
(* Whole.                                                                    *)

(* A file after any history: no header inside it, and nothing cut short but  *)
(* at its end.                                                               *)
Whatever ==
  {f \in Seq(Lines) :
     \A i \in 2..Len(f) : f[i] \in Records \union {Garbage} \/ (f[i] = Torn /\ i = Len(f))}

BoardType == entries \in Seq(Entries) /\ Len(entries) <= MaxPosts /\ horizon \in Horizons

TypeInv ==
  /\ clock \in Times /\ up \in {"running", "down", "refused"}
  /\ BoardType /\ mutations \in Nat /\ entry \in Entries \union {None}
  /\ step \in {"idle", "append", "prune", "snapshot", "drop backup", "back up", "replace", "finish"}
  /\ index \in Whatever \union {None} /\ bak \in Whatever \union {None} /\ tmp \in Whatever \union {None}
  /\ step \in {"append", "prune"} => entry \in Entries

LEMMA ShortFiles ==
  /\ <<>> \in Whatever /\ <<Torn>> \in Whatever /\ <<Header>> \in Whatever
  /\ <<Header, Torn>> \in Whatever
  /\ \A l \in Records : <<Header, l>> \in Whatever
<1>1. Header \in Lines /\ Torn \in Lines /\ Records \subseteq Lines
  BY DEF Lines
<1>2. <<>> \in Seq(Lines) /\ <<Torn>> \in Seq(Lines) /\ <<Header>> \in Seq(Lines)
  BY <1>1
<1>3. \A l \in Lines : <<Header, l>> \in Seq(Lines) /\ Len(<<Header, l>>) = 2 /\ <<Header, l>>[2] = l
  BY <1>1
<1>4. \A i \in 2..2 : i = 2
  OBVIOUS
<1>5. Len(<<>>) = 0 /\ Len(<<Torn>>) = 1 /\ Len(<<Header>>) = 1 /\ 2..0 = {} /\ 2..1 = {}
  OBVIOUS
<1>6. <<>> \in Whatever /\ <<Torn>> \in Whatever /\ <<Header>> \in Whatever
  BY <1>2, <1>5 DEF Whatever
<1>7. <<Header, Torn>> \in Whatever
  BY <1>1, <1>3, <1>4 DEF Whatever
<1>8. \A l \in Records : <<Header, l>> \in Whatever
  BY <1>1, <1>3, <1>4 DEF Whatever
<1> QED
  BY <1>6, <1>7, <1>8

(* A line that is appended to a line that is whole.                          *)
LEMMA WhateverAppend ==
  ASSUME NEW f \in Whatever, f # <<>>, Last(f) # Torn, NEW l \in Records \union {Torn}
  PROVE  Append(f, l) \in Whatever
<1> DEFINE n == Len(f)
           g == Append(f, l)
<1>1. f \in Seq(Lines) /\ l \in Lines /\ f[n] # Torn
  BY DEF Whatever, Lines, Last
<1>2. /\ n \in Nat /\ g \in Seq(Lines) /\ Len(g) = n + 1 /\ g[n + 1] = l
      /\ \A i \in 1..n : g[i] = f[i]
  BY <1>1
<1>3. \A i \in 2..n : f[i] \in Records \union {Garbage}
  BY <1>1 DEF Whatever
<1> HIDE DEF g, n
<1>4. \A i \in 2..(n + 1) : i = n + 1 \/ (i \in 2..n /\ i \in 1..n)
  BY <1>2
<1>5. \A i \in 2..(n + 1) : g[i] \in Records \union {Garbage} \/ (g[i] = Torn /\ i = n + 1)
  BY <1>2, <1>3, <1>4
<1> QED
  BY <1>2, <1>5 DEF Whatever, g

LEMMA OnTornType ==
  ASSUME NEW f \in Whatever, f # <<>>, NEW l \in Records
  PROVE  OnTorn(f, l) \in Whatever
<1>1. f \in Seq(Lines)
  BY DEF Whatever
<1>2. CASE f[Len(f)] = Torn
  <2> DEFINE n == Len(f)
             g == [f EXCEPT ![Len(f)] = Garbage]
  <2>1. Garbage \in Lines
    BY DEF Lines
  <2>2. g \in Seq(Lines) /\ Len(g) = n /\ n \in Nat /\ DOMAIN f = 1..n
        /\ \A i \in 1..n : g[i] = IF i = n THEN Garbage ELSE f[i]
    BY <1>1, <2>1
  <2>3. \A i \in 2..n : f[i] \in Records \union {Garbage} \/ (f[i] = Torn /\ i = n)
    BY DEF Whatever
  <2>4. OnTorn(f, l) = g
    BY <1>2 DEF OnTorn
  <2> HIDE DEF g, n
  <2>5. \A i \in 2..n : i \in 1..n
    BY <2>2
  <2>6. \A i \in 2..n : g[i] \in Records \union {Garbage}
    BY <2>2, <2>3, <2>5
  <2> QED
    BY <2>2, <2>4, <2>6 DEF Whatever
<1>3. CASE f[Len(f)] # Torn
  <2>1. OnTorn(f, l) = Append(f, l)
    BY <1>3 DEF OnTorn
  <2> QED
    BY <1>3, <2>1, WhateverAppend DEF Last
<1> QED
  BY <1>2, <1>3

LEMMA AppendedType ==
  ASSUME index \in Whatever \union {None}, NEW l \in Records
  PROVE  Appended(l) \in Whatever
  BY ShortFiles, OnTornType DEF Appended

LEMMA LeftType ==
  ASSUME index \in Whatever \union {None}
  PROVE  Left \subseteq Whatever \union {None}
<1>1. CutShort \subseteq Whatever \union {None}
  <2>1. CASE index \in {None, <<>>}
    BY <2>1, ShortFiles DEF CutShort
  <2>2. CASE index \notin {None, <<>>}
    BY <2>2, WhateverAppend DEF CutShort
  <2> QED
    BY <2>1, <2>2
<1> QED
  BY <1>1 DEF Left

LEMMA SnapshotType ==
  ASSUME entries \in Seq(Entries), horizon \in Horizons
  PROVE  Snapshot \in Whatever
<1> DEFINE hs == IF horizon > 0 THEN <<HorizonLine(horizon)>> ELSE <<>>
           ps == PostLines(entries)
           f == (<<Header>> \o hs) \o ps
<1>1. HorizonLine(horizon) \in Records
  BY DEF HorizonLine, Records
<1>2. hs \in Seq(Records)
  <2>1. \A l \in Records : <<l>> \in Seq(Records)
    OBVIOUS
  <2> QED
    BY <1>1, <2>1
<1>3. ps \in Seq(Records)
  <2>1. CASE entries = <<>>
    <3>1. ps = <<>>
      BY <2>1 DEF PostLines
    <3> QED
      BY <3>1
  <2>2. CASE entries # <<>>
    <3>1. entries[1] \in Entries
      BY <2>2
    <3> QED
      BY <3>1, PostLinesAppend
  <2> QED
    BY <2>1, <2>2
<1>4. Snapshot = f
  BY DEF Snapshot, PostLines
<1> HIDE DEF hs, ps
<1> DEFINE m == Len(hs)
           n == Len(ps)
<1>5. /\ m \in Nat /\ n \in Nat /\ Len(f) = 1 + m + n
      /\ \A i \in 1..m : f[1 + i] = hs[i] /\ hs[i] \in Records
      /\ \A i \in 1..n : f[1 + m + i] = ps[i] /\ ps[i] \in Records
      /\ f[1] = Header
  BY <1>2, <1>3
<1> HIDE DEF f, m, n
<1>6. \A i \in 2..(1 + m + n) : \/ i - 1 \in 1..m /\ i = 1 + (i - 1)
                                \/ i - 1 - m \in 1..n /\ i = 1 + m + (i - 1 - m)
  BY <1>5
<1>7. \A i \in 2..(1 + m + n) : f[i] \in Records
  BY <1>5, <1>6
<1>8. f \in Seq(Lines)
  <2>1. Header \in Lines /\ Records \subseteq Lines
    BY DEF Lines
  <2>2. hs \in Seq(Lines) /\ ps \in Seq(Lines) /\ <<Header>> \in Seq(Lines)
    <3>1. \A s \in Seq(Records) : s \in Seq(Lines)
      <4> TAKE s \in Seq(Records)
      <4>1. \A i \in 1..Len(s) : s[i] \in Lines
        BY <2>1
      <4> QED
        BY <4>1
    <3> QED
      BY <1>2, <1>3, <2>1, <3>1
  <2> QED
    BY <2>2 DEF f
<1> QED
  BY <1>4, <1>5, <1>7, <1>8 DEF Whatever

(* What a file that loads makes, with the retention applied.                 *)
LEMMA LoadsType ==
  ASSUME NEW f \in Whatever, Loads(f)
  PROVE  Pruned(Replayed(f)) \in Boards /\ Len(Pruned(Replayed(f)).entries) <= MaxPosts
<1> DEFINE g == Complete(f)
           n == Len(g)
<1>1. g # <<>> /\ \A i \in DOMAIN f : f[i] # Garbage
  BY DEF Loads
<1>2. f \in Seq(Lines) /\ \A i \in 2..Len(f) : f[i] \in Records \union {Garbage} \/ (f[i] = Torn /\ i = Len(f))
  BY DEF Whatever
<1>3. g \in Seq(Lines) /\ n \in Nat /\ \A i \in 2..n : g[i] \in Records
  <2>1. \A i \in 2..Len(f) : i \in DOMAIN f
    BY <1>2
  <2>2. CASE f # <<>> /\ Last(f) = Torn
    <3>1. g = SubSeq(f, 1, Len(f) - 1)
      BY <2>2 DEF Complete, Front
    <3> DEFINE m == Len(f)
    <3>2. m \in Nat /\ m >= 1 /\ \A i \in 1..(m - 1) : f[i] \in Lines
      BY <1>2, <2>2
    <3>3. /\ g \in Seq(Lines) /\ n = m - 1
          /\ \A i \in 1..(m - 1) : g[i] = f[i]
      <4> HIDE DEF m
      <4>1. m - 1 \in Int /\ \A i \in 1..(m - 1) : 1 + i - 1 = i /\ i \in 1..((m - 1) - 1 + 1)
        BY <3>2
      <4>2. /\ SubSeq(f, 1, m - 1) \in Seq(Lines)
            /\ Len(SubSeq(f, 1, m - 1)) = IF 1 <= m - 1 THEN (m - 1) - 1 + 1 ELSE 0
            /\ \A i \in 1..((m - 1) - 1 + 1) : SubSeq(f, 1, m - 1)[i] = f[1 + i - 1]
        BY <3>2, <4>1, SubSeqProperties
      <4>3. (IF 1 <= m - 1 THEN (m - 1) - 1 + 1 ELSE 0) = m - 1
        BY <3>2
      <4> QED
        BY <3>1, <4>1, <4>2, <4>3 DEF m
    <3> HIDE DEF g, n
    <3>4. n \in Nat
      BY <3>2, <3>3
    <3>5. \A i \in 2..n : i \in 2..m /\ i # m /\ i \in 1..(m - 1)
      BY <3>2, <3>3
    <3>6. \A i \in 2..m : f[i] \in Records \/ i = m
      BY <1>1, <1>2, <2>1
    <3> HIDE DEF m
    <3>7. \A i \in 2..n : g[i] \in Records
      BY <3>3, <3>5, <3>6
    <3> QED
      BY <3>3, <3>4, <3>7 DEF g, n
  <2>3. CASE ~(f # <<>> /\ Last(f) = Torn)
    <3>1. g = f
      BY <2>3 DEF Complete
    <3>2. \A i \in 2..Len(f) : f[i] \in Records
      <4>1. f = <<>> \/ f[Len(f)] # Torn
        BY <2>3 DEF Last
      <4> QED
        BY <1>1, <1>2, <2>1, <4>1
    <3> QED
      BY <1>2, <3>1, <3>2
  <2> QED
    BY <2>2, <2>3
<1> HIDE DEF g
<1>4. Tail(g) \in Seq(Records)
  <2>1. Len(Tail(g)) = n - 1 /\ \A i \in 1..(n - 1) : Tail(g)[i] = g[i + 1] /\ i + 1 \in 2..n
    BY <1>1, <1>3
  <2>2. \A i \in 1..(n - 1) : Tail(g)[i] \in Records
    BY <1>3, <2>1
  <2>3. Tail(g) \in Seq(Lines)
    BY <1>1, <1>3
  <2> DEFINE t == Tail(g)
  <2>4. t \in Seq(Lines) /\ \A i \in 1..Len(t) : t[i] \in Records
    BY <2>1, <2>2, <2>3
  <2> HIDE DEF t
  <2>5. t \in Seq(Records)
    BY <2>4
  <2> QED
    BY <2>5 DEF t
<1> DEFINE r == Replayed(f)
           over == Len(r.entries) - MaxPosts
<1>5. r \in Boards
  BY <1>4, ReplayType DEF Replayed, g
<1>6. r.entries \in Seq(Entries) /\ r.horizon \in Horizons
  BY <1>5 DEF Boards
<1> HIDE DEF r
<1>7. CASE over <= 0
  <2>1. Pruned(r) = r
    BY <1>7 DEF Pruned
  <2>2. Len(r.entries) \in Nat /\ MaxPosts \in Nat
    BY <1>6, Sizes
  <2>3. Len(r.entries) <= MaxPosts
    BY <1>7, <2>2
  <2> QED
    BY <1>5, <2>1, <2>3 DEF r
<1>8. CASE ~(over <= 0)
  <2> DEFINE k == Len(r.entries)
             s == SubSeq(r.entries, over + 1, k)
  <2>1. k \in Nat /\ MaxPosts \in Nat /\ MaxPosts >= 1 /\ over = k - MaxPosts
    BY <1>6, Sizes
  <2>2. \A i \in 1..k : r.entries[i] \in Entries
    BY <1>6
  <2> HIDE DEF k, over
  <2>3. over \in Nat /\ over >= 1 /\ over + 1 \in 1..k /\ k - (over + 1) + 1 = MaxPosts
    BY <1>8, <2>1
  <2>4. \A i \in (over + 1)..k : i \in 1..k
    BY <2>1, <2>3
  <2>5. s \in Seq(Entries) /\ Len(s) = IF over + 1 <= k THEN k - (over + 1) + 1 ELSE 0
    BY <2>1, <2>2, <2>3, <2>4, SubSeqProperties
  <2>6. Len(s) <= MaxPosts
    BY <2>1, <2>3, <2>5
  <2>7. r.entries[over + 1] \in Entries
    BY <2>2, <2>3
  <2>8. r.entries[over + 1].ts \in Horizons
    BY <2>7, HorizonTypes DEF Entries
  <2>9. Larger(r.horizon, r.entries[over + 1].ts) \in Horizons
    BY <1>6, <2>8, HorizonTypes
  <2>10. Pruned(r) = [entries |-> s, horizon |-> Larger(r.horizon, r.entries[over + 1].ts)]
    BY <1>8 DEF Pruned, over, k
  <2> HIDE DEF s
  <2> QED
    BY <2>5, <2>6, <2>9, <2>10 DEF Boards, r
<1> QED
  BY <1>7, <1>8

LEMMA PruneOrType ==
  ASSUME NEW es \in Seq(Entries), Len(es) <= MaxPosts + 1, NEW h \in Horizons, NEW m,
         PruneOr(es, h, Then(m))
  PROVE  /\ entries' \in Seq(Entries) /\ Len(entries') <= MaxPosts /\ horizon' \in Horizons
         /\ step' \in {"prune", "snapshot", "idle"} /\ entry' \in Entries \union {None}
         /\ step' = "prune" => entry' \in Entries
<1>1. Len(es) \in Nat /\ MaxPosts \in Nat /\ MaxPosts >= 1
  BY Sizes
<1>2. CASE Len(es) > MaxPosts
  <2>1. entries' = Tail(es) /\ horizon' = Larger(h, es[2].ts) /\ entry' = es[1] /\ step' = "prune"
    BY <1>2 DEF PruneOr
  <2>2. Len(es) >= 2
    BY <1>1, <1>2
  <2>3. es[1] \in Entries /\ es[2] \in Entries /\ Tail(es) \in Seq(Entries) /\ Len(Tail(es)) = Len(es) - 1
    BY <2>2
  <2> DEFINE t == es[2].ts
  <2>4. t \in Horizons
    BY <2>3, HorizonTypes DEF Entries
  <2> HIDE DEF t
  <2>5. Larger(h, t) \in Horizons
    BY <2>4, HorizonTypes
  <2>6. Len(Tail(es)) <= MaxPosts
    BY <1>1, <2>3
  <2> QED
    BY <2>1, <2>3, <2>5, <2>6 DEF t
<1>3. CASE ~(Len(es) > MaxPosts)
  <2>1. entries' = es /\ horizon' = h /\ entry' = None /\ step' = Then(m)
    BY <1>3 DEF PruneOr
  <2>2. Len(es) <= MaxPosts
    BY <1>1, <1>3
  <2> QED
    BY <2>1, <2>2, ThenIs
<1> QED
  BY <1>2, <1>3

LEMMA NextTimestampType ==
  ASSUME clock \in Times, entries \in Seq(Entries), horizon \in Horizons
  PROVE  NextTimestamp \in Times
<1> DEFINE last == IF entries = <<>> THEN 0 ELSE entries[Len(entries)].ts
<1>1. last \in Horizons
  <2>1. CASE entries = <<>>
    BY <2>1, HorizonTypes
  <2>2. CASE entries # <<>>
    <3>1. Len(entries) \in 1..Len(entries)
      BY <2>2
    <3>2. entries[Len(entries)] \in Entries
      BY <3>1
    <3> QED
      BY <2>2, <3>2, HorizonTypes DEF Entries
  <2> QED
    BY <2>1, <2>2
<1>2. NextTimestamp = Larger(clock, Larger(horizon, last))
  BY DEF NextTimestamp
<1> HIDE DEF last
<1>3. Larger(horizon, last) \in Horizons
  BY <1>1, HorizonTypes
<1> QED
  BY <1>2, <1>3, HorizonTypes

LEMMA TypesInit == Init => TypeInv
<1>1. 1 \in Times
  BY BBSAssumption DEF Times
<1>2. Len(<<>>) = 0 /\ <<>> \in Seq(Entries) /\ 0 <= MaxPosts
  BY Sizes
<1> QED
  BY <1>1, <1>2, HorizonTypes DEF Init, TypeInv, BoardType

LEMMA TypesNext == TypeInv /\ [Next]_vars => TypeInv'
<1> SUFFICES ASSUME TypeInv, [Next]_vars PROVE TypeInv'
  OBVIOUS
<1> DEFINE Files3 == Whatever \union {None}
<1>1. /\ clock \in Times /\ up \in {"running", "down", "refused"}
      /\ entries \in Seq(Entries) /\ Len(entries) <= MaxPosts /\ horizon \in Horizons
      /\ mutations \in Nat /\ entry \in Entries \union {None}
      /\ step \in {"idle", "append", "prune", "snapshot", "drop backup", "back up", "replace", "finish"}
      /\ index \in Files3 /\ bak \in Files3 /\ tmp \in Files3
      /\ step \in {"append", "prune"} => entry \in Entries
  BY DEF TypeInv, BoardType
<1>2. Len(entries) \in Nat /\ MaxPosts \in Nat /\ Len(entries) <= MaxPosts
  <2>1. entries \in Seq(Entries) /\ Len(entries) <= MaxPosts
    BY <1>1
  <2>2. Len(entries) \in Nat
    BY <2>1
  <2> QED
    BY <2>1, <2>2, Sizes
<1>3. NextTimestamp \in Times
  BY <1>1, NextTimestampType
<1>4. ASSUME NEW p \in Posts, Post(p) \/ Withdraw(p) PROVE TypeInv'
  <2>1. \A r \in BOOLEAN : [tth |-> p, ts |-> NextTimestamp, removed |-> r] \in Entries
    BY <1>3 DEF Entries
  <2>2. entry' \in Entries
    BY <1>4, <2>1 DEF Post, Withdraw
  <2>3. step' = "append" /\ UNCHANGED <<clock, up, board, disk>>
    BY <1>4 DEF Post, Withdraw
  <2> QED
    BY <1>1, <2>2, <2>3 DEF TypeInv, BoardType, board, disk
<1>5. \A m \in Nat : m + 1 \in Nat
  OBVIOUS
<1>6. CASE Written
  <2> DEFINE all == Append(Without(entries, entry.tth), entry)
  <2>1. /\ step = "append" /\ index' = Appended(PostLine(entry)) /\ mutations' = mutations + 1
        /\ PruneOr(all, horizon, Then(mutations')) /\ UNCHANGED <<clock, up, bak, tmp>>
    BY <1>6 DEF Written
  <2>2. entry \in Entries
    BY <1>1, <2>1
  <2>3. PostLine(entry) \in Records
    BY <2>2, HorizonTypes, AreRecords
  <2>4. index' \in Files3
    BY <1>1, <2>1, <2>3, AppendedType
  <2>5. all \in Seq(Entries) /\ Len(all) <= MaxPosts + 1
    <3> DEFINE w == Without(entries, entry.tth)
    <3>1. w \in Seq(Entries) /\ w = Select(entries, Others(entry.tth))
      BY <1>1, WithoutIs
    <3>2. Len(w) <= Len(entries)
      BY <1>1, <3>1, SelectSound
    <3> HIDE DEF w
    <3>3. Append(w, entry) \in Seq(Entries) /\ Len(Append(w, entry)) = Len(w) + 1
      BY <2>2, <3>1
    <3>4. Len(w) \in Nat
      BY <3>1
    <3>5. Len(Append(w, entry)) <= MaxPosts + 1
      BY <1>2, <3>2, <3>3, <3>4
    <3> QED
      BY <3>3, <3>5 DEF w
  <2> HIDE DEF all
  <2>6. /\ BoardType' /\ step' \in {"prune", "snapshot", "idle"} /\ entry' \in Entries \union {None}
        /\ step' = "prune" => entry' \in Entries
    BY <1>1, <2>1, <2>5, PruneOrType DEF BoardType
  <2>7. mutations' \in Nat
    BY <1>1, <1>5, <2>1
  <2> QED
    BY <1>1, <2>1, <2>4, <2>6, <2>7 DEF TypeInv, BoardType
<1>7. CASE NotWritten
  <2>1. index' \in Files3
    BY <1>1, <1>7, LeftType DEF NotWritten
  <2>2. step' = "idle" /\ entry' = None /\ UNCHANGED <<clock, up, board, bak, tmp>>
    BY <1>7 DEF NotWritten
  <2> QED
    BY <1>1, <2>1, <2>2 DEF TypeInv, BoardType, board
<1>8. CASE Prune \/ PruneFails
  <2>1. /\ step = "prune" /\ mutations' = mutations + 1
        /\ PruneOr(entries, horizon, Then(mutations')) /\ UNCHANGED <<clock, up, bak, tmp>>
    BY <1>8 DEF Prune, PruneFails, PruneWritten
  <2>2. entry \in Entries
    BY <1>1, <2>1
  <2>3. index' \in Files3
    <3>1. DeleteLine(entry, horizon) \in Records
      BY <1>1, <2>2, AreRecords
    <3>2. Appended(DeleteLine(entry, horizon)) \in Files3 /\ Left \subseteq Files3
      BY <1>1, <3>1, AppendedType, LeftType
    <3> QED
      BY <1>8, <3>2 DEF Prune, PruneFails, PruneWritten
  <2>4. Len(entries) <= MaxPosts + 1
    BY <1>2
  <2>5. /\ BoardType' /\ step' \in {"prune", "snapshot", "idle"} /\ entry' \in Entries \union {None}
        /\ step' = "prune" => entry' \in Entries
    BY <1>1, <2>1, <2>4, PruneOrType DEF BoardType
  <2>6. mutations' \in Nat
    BY <1>1, <1>5, <2>1
  <2> QED
    BY <1>1, <2>1, <2>3, <2>5, <2>6 DEF TypeInv, BoardType
<1>9. CASE \/ CompactWrite \/ CompactWriteFails \/ CompactDropBackup \/ CompactFinish
           \/ \E ok \in BOOLEAN : CompactBackUp(ok) \/ CompactReplace(ok)
  <2>1. UNCHANGED <<clock, up, entries, horizon, entry>>
    BY <1>9 DEF CompactWrite, CompactWriteFails, CompactDropBackup, CompactFinish, CompactBackUp,
                CompactReplace, Goto
  <2>2. Snapshot \in Files3
    BY <1>1, SnapshotType
  <2> HIDE DEF Files3
  <2>3. index' \in Files3 /\ bak' \in Files3 /\ tmp' \in Files3 /\ mutations' \in Nat
    <3>1. None \in Files3 /\ 0 \in Nat
      BY DEF Files3
    <3>2. CASE CompactWrite \/ CompactWriteFails
      BY <1>1, <2>2, <3>2 DEF CompactWrite, CompactWriteFails, disk
    <3>3. CASE CompactDropBackup \/ CompactFinish
      BY <1>1, <3>1, <3>3 DEF CompactDropBackup, CompactFinish
    <3>4. CASE \E ok \in BOOLEAN : CompactBackUp(ok)
      BY <1>1, <3>1, <3>4 DEF CompactBackUp
    <3>5. CASE \E ok \in BOOLEAN : CompactReplace(ok)
      BY <1>1, <3>1, <3>5 DEF CompactReplace
    <3> QED
      BY <1>9, <3>2, <3>3, <3>4, <3>5
  <2>4. step' \in {"idle", "drop backup", "back up", "replace", "finish"}
    BY <1>9 DEF CompactWrite, CompactWriteFails, CompactDropBackup, CompactFinish, CompactBackUp,
                CompactReplace, Goto
  <2> QED
    BY <1>1, <2>1, <2>3, <2>4 DEF TypeInv, BoardType, Files3
<1>10. CASE Crash
  <2>1. /\ up' = "down" /\ step' = "idle" /\ entry' = None /\ tmp' = None
        /\ entries' = <<>> /\ horizon' = 0 /\ mutations' = 0 /\ UNCHANGED <<clock, bak>>
    BY <1>10 DEF Crash
  <2>2. index' \in Files3
    BY <1>1, <1>10, LeftType DEF Crash
  <2>3. BoardType'
    <3>1. Len(<<>>) = 0 /\ <<>> \in Seq(Entries) /\ 0 <= MaxPosts
      BY Sizes
    <3> QED
      BY <2>1, <3>1, HorizonTypes DEF BoardType
  <2> QED
    BY <1>1, <2>1, <2>2, <2>3 DEF TypeInv, BoardType
<1>11. CASE Restart
  <2>1. /\ index' = Found /\ bak' \in {None, bak} /\ up' \in {"running", "refused"}
        /\ UNCHANGED <<clock, mutations, tmp, step, entry>>
    BY <1>11 DEF Restart
  <2>2. Found \in Files3
    BY <1>1 DEF Found
  <2>3. Recovers => Recovered \in Boards /\ Len(Recovered.entries) <= MaxPosts
    <3>1. CASE Found = None
      <4>1. Recovered = EmptyBoard
        BY <3>1 DEF Recovered
      <4> QED
        BY <4>1, EmptyType DEF Fit
    <3>2. CASE Found # None
      <4>1. Recovers => Loads(Found)
        BY <3>2 DEF Recovers
      <4>2. Recovered = Pruned(Replayed(Found)) /\ Found \in Whatever
        BY <2>2, <3>2 DEF Recovered
      <4> QED
        BY <4>1, <4>2, LoadsType
    <3> QED
      BY <3>1, <3>2
  <2>4. BoardType'
    BY <1>1, <1>11, <2>3 DEF Restart, Boards, BoardType
  <2> QED
    BY <1>1, <2>1, <2>2, <2>4 DEF TypeInv, BoardType
<1>12. ASSUME NEW t \in 1..MaxTime, SetClock(t) PROVE TypeInv'
  BY <1>1, <1>12 DEF TypeInv, BoardType, SetClock, Times, board, disk
<1>13. CASE UNCHANGED vars
  BY <1>1, <1>13 DEF TypeInv, BoardType, vars, board, disk
<1> QED
  BY <1>4, <1>6, <1>7, <1>8, <1>9, <1>10, <1>11, <1>12, <1>13 DEF Next

(* TypeOK, whatever a crash leaves of a write: the board in memory never     *)
(* holds more than MaxPosts entries once a handler gets to its next step,    *)
(* however many the file that was loaded had.                                *)
THEOREM IndexTypeCorrect == Spec => []TypeOK
<1>1. TypeInv => TypeOK
  BY DEF TypeInv, TypeOK, BoardType, Whatever
<1> QED
  BY <1>1, TypesInit, TypesNext, PTL DEF Spec
===============================================================================
