-------------------------- MODULE BBS0SessionsProofs --------------------------
(***************************************************************************)
(* What BBS0Sessions promises for any clients, posts, permissions, limits  *)
(* and times: who follows a board and resumes from the time stamp it saw   *)
(* last misses nothing.                                                    *)
(***************************************************************************)
EXTENDS BBS0Sessions, SelectionProofs

(* What is assumed of the bounds.                                            *)
LEMMA Bounds == MaxTime \in Nat \ {0} /\ MaxPosts \in Nat \ {0} /\ ReplayTime \in Nat
  BY SessionsAssumption

(* The time of an entry.                                                     *)
LEMMA EntryTime ==
  /\ Never \in Nat
  /\ \A e \in Entries : e.ts \in Nat /\ e.ts \in 0..MaxTime /\ e.ts < Never
<1>1. \A e \in Entries : e.ts \in 1..MaxTime
  BY DEF Entries, Times
<1> QED
  BY <1>1, Bounds DEF Never

(* Both names of Select are the same function.                               *)
LEMMA SameSelect == \A s, S : Index!Select(s, S) = Select(s, S)
  BY DEF Index!Select, Select

Boards == [entries : Seq(Entries), horizon : 0..MaxTime]

(* What With makes of a board: the entry is the last, every other one was    *)
(* there before, and the horizon is the old one or the time of an entry.     *)
Shaped(w, b, e) ==
  /\ w \in Boards /\ Len(w.entries) <= MaxPosts
  /\ w.entries # <<>> /\ w.entries[Len(w.entries)] = e
  /\ ToSet(w.entries) \subseteq ToSet(b.entries) \union {e}
  /\ w.horizon = b.horizon \/ \E d \in ToSet(w.entries) : w.horizon = d.ts

LEMMA WithShape ==
  ASSUME NEW b \in Boards, NEW e \in Entries
  PROVE  Shaped(Index!With(b, e), b, e)
<1> DEFINE S == Index!Besides(e.tth, b)
           all == Append(Select(b.entries, S), e)
           n == Len(all)
           over == n - MaxPosts
           w == Index!With(b, e)
<1>1. /\ Select(b.entries, S) \in Seq(Entries)
      /\ ToSet(Select(b.entries, S)) \subseteq ToSet(b.entries)
  BY SelectSound DEF Boards
<1>2. all \in Seq(Entries) /\ n \in Nat \ {0} /\ all[n] = e
  BY <1>1
<1>3. ToSet(all) \subseteq ToSet(b.entries) \union {e}
  BY <1>1, ElementsAppend
<1>4. w = IF over <= 0 THEN [b EXCEPT !.entries = all]
          ELSE [entries |-> SubSeq(all, over + 1, n), horizon |-> all[over + 1].ts]
  BY SameSelect DEF Index!With
<1>5. MaxPosts \in Nat \ {0}
  BY Bounds
<1> HIDE DEF all, w
<1>6. CASE over <= 0
  <2>1. w.entries = all /\ w.horizon = b.horizon /\ w \in Boards
    BY <1>2, <1>4, <1>6 DEF Boards
  <2>2. n <= MaxPosts /\ all # <<>>
    BY <1>2, <1>5, <1>6
  <2> QED
    BY <1>2, <1>3, <2>1, <2>2 DEF w, Shaped
<1>7. CASE ~(over <= 0)
  <2> DEFINE q == SubSeq(all, over + 1, n)
  <2>1. w = [entries |-> q, horizon |-> all[over + 1].ts]
    BY <1>4, <1>7
  <2>2. over \in Nat /\ over + 1 \in 1..n /\ n - over = MaxPosts
    BY <1>2, <1>5, <1>7
  <2>3. q \in Seq(Entries) /\ Len(q) = MaxPosts /\ \A i \in 1..MaxPosts : q[i] = all[over + i] /\ over + i \in 1..n
    BY <1>2, <1>5, <2>2
  <2> HIDE DEF q
  <2>4. DOMAIN q = 1..MaxPosts /\ 1 \in 1..MaxPosts /\ MaxPosts \in 1..MaxPosts /\ DOMAIN all = 1..n
    BY <1>2, <1>5, <2>3
  <2>5. ToSet(q) \subseteq ToSet(all)
    BY <2>3, <2>4 DEF ToSet
  <2>6. q[MaxPosts] = e /\ q[1] = all[over + 1] /\ q[1] \in ToSet(q) /\ q[1] \in Entries /\ q # <<>>
    BY <1>2, <1>5, <2>2, <2>3, <2>4, SMTT(40) DEF ToSet
  <2>7. all[over + 1].ts \in 0..MaxTime
    BY <2>6 DEF Entries, Times
  <2> QED
    BY <1>3, <2>1, <2>3, <2>5, <2>6, <2>7 DEF Boards, w, Shaped
<1> QED
  BY <1>6, <1>7

(* The time that no later entry may precede, of such a board.                *)
LEMMA LatestBounds ==
  ASSUME NEW b \in Boards
  PROVE  /\ Index!Latest(b) \in 0..MaxTime /\ b.horizon <= Index!Latest(b)
         /\ b.entries # <<>> => b.entries[Len(b.entries)].ts <= Index!Latest(b)
         /\ Index!Latest(b) = b.horizon \/ (b.entries # <<>> /\ Index!Latest(b) = b.entries[Len(b.entries)].ts)
<1>1. b.horizon \in 0..MaxTime /\ b.entries \in Seq(Entries)
  BY DEF Boards
<1>2. b.entries # <<>> => b.entries[Len(b.entries)] \in Entries
  BY <1>1
<1>3. b.entries # <<>> => b.entries[Len(b.entries)].ts \in Times
  BY <1>2 DEF Entries
<1>4. MaxTime \in Nat
  BY Bounds
<1> QED
  BY <1>1, <1>3, <1>4 DEF Index!Latest, Times

(* The latest of a time and those of some entries.                           *)
LEMMA LatestOfBounds ==
  ASSUME NEW S \in SUBSET Entries, NEW t \in 0..MaxTime
  PROVE  /\ LatestOf(S, t) = t \/ \E e \in S : LatestOf(S, t) = e.ts
         /\ LatestOf(S, t) \in 0..MaxTime /\ t <= LatestOf(S, t)
<1> DEFINE N == {t} \union {e.ts : e \in S}
<1>1. MaxTime \in Nat
  BY Bounds
<1>2. \A e \in S : e.ts \in 1..MaxTime
  BY DEF Entries, Times
<1>3. N \in SUBSET (0..MaxTime) /\ N # {}
  BY <1>1, <1>2
<1>4. \E n \in N : \A m \in N : m <= n
  BY <1>1, <1>3, Largest
<1>5. LatestOf(S, t) = CHOOSE n \in N : \A m \in N : n >= m
  BY DEF LatestOf, Max
<1>6. LatestOf(S, t) \in N /\ \A m \in N : LatestOf(S, t) >= m
  <2> HIDE DEF N
  <2>1. \E n \in N : \A m \in N : n >= m
    BY <1>3, <1>4, <1>1
  <2> QED
    BY <1>5, <2>1
<1> QED
  BY <1>3, <1>6

Descriptors == [PE : Masks, TS : 0..MaxTime, NP : 0..MaxPosts]

(* What a client is told of such a board.                                    *)
LEMMA DescriptorType ==
  ASSUME NEW b \in Boards, Len(b.entries) <= MaxPosts, NEW level \in Credentials
  PROVE  Descriptor(b, level) \in Descriptors
<1>1. MaxTime \in Nat /\ MaxPosts \in Nat
  BY Bounds
<1>2. Len(Select(b.entries, Live(b))) \in 0..MaxPosts
  <2>1. Select(b.entries, Live(b)) \in Seq(Entries) /\ Len(Select(b.entries, Live(b))) <= Len(b.entries)
    BY SelectSound DEF Boards
  <2> QED
    BY <1>1, <2>1 DEF Boards
<1>3. (IF b.entries = <<>> THEN 0 ELSE b.entries[Len(b.entries)].ts) \in 0..MaxTime
  <2>1. b.entries # <<>> => b.entries[Len(b.entries)] \in Entries
    BY DEF Boards
  <2> QED
    BY <1>1, <2>1 DEF Entries, Times
<1>4. Mask(level) \in Masks
  BY DEF Masks
<1> QED
  BY <1>2, <1>3, <1>4 DEF Descriptor, Descriptors

(* The type invariant, a variable at a time.                                 *)
Types ==
  /\ clock \in Times /\ board \in Boards /\ Len(board.entries) <= MaxPosts
  /\ normal \in [Clients -> BOOLEAN] /\ supports \in [Clients -> BOOLEAN]
  /\ subscribed \in [Clients -> BOOLEAN] /\ follows \in [Clients -> BOOLEAN]
  /\ credential \in [Clients -> Credentials]
  /\ permissionCache \in [Clients -> Masks \union {None}]
  /\ told \in [Clients -> Descriptors \union {None}]
  /\ holds \in [Clients -> SUBSET ToSet(board.entries)]
  /\ lastPost \in [Clients -> 0..MaxTime] /\ latest \in [Clients -> 0..MaxTime]
  /\ owed \in [Clients -> 0..Never]

(* What is accepted is an entry, of a time that no entry of the board is     *)
(* later than; publishing it leaves everything of its type.                  *)
Accepted(s, e) ==
  /\ e \in Entries /\ e.ts >= Index!Latest(board)
  /\ (Author[e.tth] = s \/ (e.removed /\ (s \in Clients => May(credential[s], "withdraw any"))))
  /\ Accept(s, e)

LEMMA TypesAccept ==
  ASSUME Types, NEW s, NEW e, Accepted(s, e),
         lastPost' \in [Clients -> 0..MaxTime]
  PROVE  Types'
<1> USE DEF Types, Accepted, Accept, entity
<1>1. Shaped(board', board, e)
  BY WithShape
<1>2. board' \in Boards /\ Len(board'.entries) <= MaxPosts
  BY <1>1 DEF Shaped
<1>3. \A c \in Clients : Descriptor(board', credential[c]) \in Descriptors
  BY <1>2, DescriptorType
<1>4. \A c \in Clients : Mask(credential[c]) \in Masks
  BY DEF Masks
<1>5. MaxTime \in Nat /\ e.ts \in 0..MaxTime
  <2>1. e \in Entries
    OBVIOUS
  <2>2. e.ts \in Times
    BY <2>1 DEF Entries
  <2>3. MaxTime \in Nat \ {0}
    BY Bounds
  <2> HIDE DEF Types, Accepted, Accept, entity
  <2> QED
    BY <2>2, <2>3 DEF Times
<1>6. /\ holds' \in [Clients -> SUBSET ToSet(board'.entries)]
      /\ latest' \in [Clients -> 0..MaxTime]
  BY <1>5 DEF PublishEntry, Larger
<1>7. /\ told' \in [Clients -> Descriptors \union {None}]
      /\ permissionCache' \in [Clients -> Masks \union {None}]
  BY <1>3, <1>4 DEF PublishEntry
<1> QED
  BY <1>2, <1>6, <1>7

(* A post and a withdrawal are accepted entries.                             *)
LEMMA PostAccepted ==
  ASSUME Types, NEW s, NEW p, Post(s, p)
  PROVE  \E e : Accepted(s, e) /\ ~e.removed
<1>1. PICK e \in Index!Posted(board) : e.tth = p /\ Accept(s, e)
  BY DEF Post
<1> QED
  BY <1>1 DEF Index!Posted, Entries, Accepted, Post

LEMMA WithdrawAccepted ==
  ASSUME Types, NEW s, NEW p, Withdraw(s, p)
  PROVE  \E e : Accepted(s, e) /\ e.removed
<1>1. PICK e \in Index!Withdrawn(board) : e.tth = p /\ Accept(s, e)
  BY DEF Withdraw
<1> QED
  BY <1>1 DEF Index!Withdrawn, Entries, Accepted, Withdraw

LEMMA TypesInit == Init => Types
<1> SUFFICES ASSUME Init PROVE Types
  OBVIOUS
<1>1. /\ clock \in Times /\ board \in Boards /\ Len(board.entries) <= MaxPosts
      /\ lastPost \in [Clients -> 0..MaxTime] /\ owed \in [Clients -> 0..Never]
  BY Bounds DEF Init, Times, Never, Boards, Index!Empty
<1>2. /\ normal \in [Clients -> BOOLEAN] /\ supports \in [Clients -> BOOLEAN]
      /\ subscribed \in [Clients -> BOOLEAN] /\ follows \in [Clients -> BOOLEAN]
      /\ credential \in [Clients -> Credentials]
      /\ permissionCache \in [Clients -> Masks \union {None}]
      /\ told \in [Clients -> Descriptors \union {None}]
      /\ holds \in [Clients -> SUBSET ToSet(board.entries)]
  BY DEF Init
<1>3. latest \in [Clients -> 0..MaxTime]
  BY <1>1 DEF Init
<1> QED
  BY <1>1, <1>2, <1>3 DEF Types

(* The time from which on a subscription starts.                             *)
LEMMA FromType ==
  ASSUME Types, NEW ts \in 0..MaxTime
  PROVE  Larger(ts, OldestReplay) \in 0..MaxTime
<1>1. clock \in 1..MaxTime /\ board.horizon \in 0..MaxTime
  BY DEF Types, Times, Boards
<1> QED
  BY <1>1, Bounds DEF Larger, OldestReplay

(* What a restart makes of the board: nothing, or it moves the horizon to    *)
(* the first entry's time, which was later.                                  *)
LEMMA ReopenShape ==
  ASSUME Types, Index!Reopen
  PROVE  /\ board' \in Boards /\ board'.entries = board.entries
         /\ board.entries # <<>> /\ board'.horizon = board.entries[1].ts
         /\ board'.horizon > board.horizon
<1>1. Len(board.entries) > 0 /\ board \in Boards
  BY Bounds DEF Index!Reopen, Types
<1>2. board.entries # <<>> /\ board.entries[1] \in Entries
  BY <1>1 DEF Boards
<1>3. board.entries[1].ts \in 0..MaxTime
  BY <1>2, Bounds DEF Entries, Times
<1> QED
  BY <1>1, <1>2, <1>3 DEF Index!Reopen, Boards

LEMMA TypesNext == Types /\ [Next]_vars => Types'
<1> SUFFICES ASSUME Types, [Next]_vars PROVE Types'
  OBVIOUS
<1>1. ASSUME NEW c \in Clients, NEW announced \in BOOLEAN, Enter(c, announced) PROVE Types'
  <2>1. Mask(credential[c]) \in Masks /\ Descriptor(board, credential[c]) \in Descriptors
    BY DescriptorType DEF Types, Masks
  <2> QED
    BY <1>1, <2>1 DEF Types, Enter, SendBoardDescriptors
<1>2. ASSUME NEW c \in Clients, Disconnect(c) PROVE Types'
  BY <1>2, Bounds DEF Types, Disconnect, Forget
<1>3. ASSUME NEW c \in Clients, AddSupport(c) PROVE Types'
  <2>1. Mask(credential[c]) \in Masks /\ Descriptor(board, credential[c]) \in Descriptors
    BY DescriptorType DEF Types, Masks
  <2> QED
    BY <1>3, <2>1 DEF Types, AddSupport, SendBoardDescriptors
<1>4. ASSUME NEW c \in Clients, RemoveSupport(c) PROVE Types'
  BY <1>4 DEF Types, RemoveSupport
<1>5. ASSUME NEW c \in Clients, NEW level \in Credentials, SetCredential(c, level) PROVE Types'
  <2>1. Never \in 0..Never
    BY Bounds DEF Never
  <2> QED
    BY <1>5, <2>1 DEF Types, SetCredential, session
<1>6. ASSUME NEW c \in Clients, Unsubscribe(c) PROVE Types'
  BY <1>6 DEF Types, Unsubscribe, entity
<1>7. ASSUME NEW c \in Clients, NEW ts \in {0, latest[c]}, Subscribe(c, ts) PROVE Types'
  <2> DEFINE from == Larger(ts, OldestReplay)
  <2>1. ts \in 0..MaxTime /\ latest[c] \in 0..MaxTime
    BY Bounds DEF Types
  <2>2. from \in 0..MaxTime
    BY <2>1, FromType
  <2>3. Replayed(from) \subseteq ToSet(board.entries) /\ ToSet(board.entries) \subseteq Entries
    BY DEF Replayed, Types, Boards, ToSet
  <2>4. LatestOf(Replayed(from), latest[c]) \in 0..MaxTime
    BY <2>1, <2>3, LatestOfBounds
  <2>5. (IF from <= latest[c] THEN Smaller(owed[c], from) ELSE from) \in 0..Never
    <3>1. owed[c] \in 0..Never
      BY DEF Types
    <3> HIDE DEF from
    <3> QED
      BY <2>2, <3>1, Bounds DEF Smaller, Never
  <2> HIDE DEF from
  <2>6. /\ holds' = [holds EXCEPT ![c] = @ \union Replayed(from)]
        /\ latest' = [latest EXCEPT ![c] = LatestOf(Replayed(from), @)]
        /\ owed' = [owed EXCEPT ![c] = IF from <= latest[c] THEN Smaller(@, from) ELSE from]
        /\ subscribed' = [subscribed EXCEPT ![c] = TRUE] /\ follows' = [follows EXCEPT ![c] = TRUE]
        /\ UNCHANGED <<clock, board, normal, supports, credential, permissionCache, lastPost, told>>
    BY <1>7 DEF Subscribe, entity, from
  <2> QED
    BY <2>3, <2>4, <2>5, <2>6 DEF Types
<1>8. ASSUME NEW c \in Clients, NEW p \in Posts, Fetch(c, p) PROVE Types'
  BY <1>8 DEF Types, Fetch, entity, session
<1>9. ASSUME NEW s, NEW p, Post(s, p) PROVE Types'
  <2>1. lastPost' \in [Clients -> 0..MaxTime]
    BY <1>9, Bounds DEF Post, Types, Times
  <2> QED
    BY <1>9, <2>1, PostAccepted, TypesAccept
<1>10. ASSUME NEW s, NEW p, Withdraw(s, p) PROVE Types'
  <2>1. lastPost' \in [Clients -> 0..MaxTime]
    BY <1>10 DEF Withdraw, Types
  <2> QED
    BY <1>10, <2>1, WithdrawAccepted, TypesAccept
<1>11. CASE RefreshPermissions
  <2>1. \A c \in Clients : Mask(credential[c]) \in Masks /\ Descriptor(board, credential[c]) \in Descriptors
    BY DescriptorType DEF Types, Masks
  <2> QED
    BY <1>11, <2>1 DEF Types, RefreshPermissions, entity
<1>12. CASE Restart
  <2>1. board' \in Boards /\ board'.entries = board.entries
    BY <1>12, ReopenShape DEF Restart, Types
  <2> QED
    BY <1>12, <2>1, Bounds DEF Types, Restart, Forget
<1>13. ASSUME NEW t \in Times, SetClock(t) PROVE Types'
  BY <1>13 DEF Types, SetClock, entity, session, client
<1>14. CASE UNCHANGED vars
  BY <1>14 DEF Types, vars, entity, session, client
<1> QED
  BY <1>1, <1>2, <1>3, <1>4, <1>5, <1>6, <1>7, <1>8, <1>9, <1>10, <1>11, <1>12, <1>13, <1>14 DEF Next

-------------------------------------------------------------------------------
(* A client that follows is in the hub and announced BBS0.                   *)
Listening == \A c \in Clients : follows[c] => Listens(c)

(* No client has seen a later time than the board's, and no entry has one.   *)
Recent ==
  /\ \A c \in Clients : latest[c] <= Index!Latest(board)
  /\ \A e \in ToSet(board.entries) : e.ts <= Index!Latest(board)

(* A client holds every entry from where it started on: up to the time it    *)
(* saw last when it is away, and all of them while it follows.               *)
Stretch ==
  \A c \in Clients : \A e \in ToSet(board.entries) :
    owed[c] <= e.ts /\ (follows[c] \/ e.ts < latest[c]) => e \in holds[c]

(* Whoever was found to have the permission was told of the board.           *)
Told ==
  \A c \in Clients :
    permissionCache[c] # None /\ "subscribe" \in permissionCache[c] => told[c] # None

IInv == Types /\ Listening /\ SubscriptionKept /\ Recent /\ Stretch /\ Told

(* None is told apart from what a client may be told and from a mask.        *)
LEMMA NoneIsNeither == None \notin Descriptors /\ None \notin Masks
<1> DEFINE D == [PE : SUBSET DOMAIN Required, TS : 0..MaxTime, NP : 0..MaxPosts]
<1>1. Masks \subseteq SUBSET DOMAIN Required
  BY DEF Masks, Mask
<1>2. Descriptors \subseteq D
  BY <1>1 DEF Descriptors
<1>3. (\A d \in D : d # None) /\ \A m \in SUBSET DOMAIN Required : m # None
  BY ONLY SessionsAssumption
<1> HIDE DEF D
<1> QED
  BY <1>1, <1>2, <1>3

LEMMA ListeningNext == Types /\ Listening /\ [Next]_vars => Listening'
<1> SUFFICES ASSUME Types, Listening, [Next]_vars, NEW c \in Clients, follows'[c] PROVE Listens(c)'
  BY DEF Listening
<1> USE DEF Listens, Listening, Types
<1>1. ASSUME NEW d \in Clients, NEW announced \in BOOLEAN, Enter(d, announced) PROVE Listens(c)'
  BY <1>1 DEF Enter
<1>2. ASSUME NEW d \in Clients, Disconnect(d) PROVE Listens(c)'
  BY <1>2 DEF Disconnect, Forget
<1>3. ASSUME NEW d \in Clients, AddSupport(d) \/ RemoveSupport(d) PROVE Listens(c)'
  BY <1>3 DEF AddSupport, RemoveSupport
<1>4. ASSUME NEW d \in Clients, NEW level \in Credentials, SetCredential(d, level) PROVE Listens(c)'
  BY <1>4 DEF SetCredential
<1>5. ASSUME NEW d \in Clients, NEW ts, Subscribe(d, ts) PROVE Listens(c)'
  BY <1>5 DEF Subscribe, entity
<1>6. ASSUME NEW d \in Clients, NEW p, Unsubscribe(d) \/ Fetch(d, p) PROVE Listens(c)'
  BY <1>6 DEF Unsubscribe, Fetch, entity
<1>7. ASSUME NEW s, NEW p, Post(s, p) \/ Withdraw(s, p) PROVE Listens(c)'
  BY <1>7 DEF Post, Withdraw, Accept, entity
<1>8. CASE RefreshPermissions
  BY <1>8 DEF RefreshPermissions, entity
<1>9. CASE Restart
  BY <1>9 DEF Restart, Forget
<1>10. CASE (\E t \in Times : SetClock(t)) \/ UNCHANGED vars
  BY <1>10 DEF SetClock, vars, entity, client
<1> QED
  BY <1>1, <1>2, <1>3, <1>4, <1>5, <1>6, <1>7, <1>8, <1>9, <1>10 DEF Next

LEMMA KeptNext == Types /\ SubscriptionKept /\ [Next]_vars => SubscriptionKept'
<1> SUFFICES ASSUME Types, SubscriptionKept, [Next]_vars, NEW c \in Clients, follows'[c], owed'[c] # Never
             PROVE  subscribed'[c] /\ May(credential'[c], "subscribe")
  BY DEF SubscriptionKept, Never
<1> DEFINE Kept == subscribed'[c] /\ May(credential'[c], "subscribe")
<1> USE DEF SubscriptionKept, Types
<1>1. ASSUME NEW d \in Clients, NEW announced \in BOOLEAN, Enter(d, announced) PROVE Kept
  BY <1>1 DEF Enter
<1>2. ASSUME NEW d \in Clients, Disconnect(d) PROVE Kept
  BY <1>2 DEF Disconnect, Forget
<1>3. ASSUME NEW d \in Clients, AddSupport(d) \/ RemoveSupport(d) PROVE Kept
  BY <1>3 DEF AddSupport, RemoveSupport
<1>4. ASSUME NEW d \in Clients, NEW level \in Credentials, SetCredential(d, level) PROVE Kept
  BY <1>4 DEF SetCredential, session
<1>5. ASSUME NEW d \in Clients, NEW ts, Subscribe(d, ts) PROVE Kept
  BY <1>5 DEF Subscribe, entity
<1>6. ASSUME NEW d \in Clients, NEW p, Unsubscribe(d) \/ Fetch(d, p) PROVE Kept
  BY <1>6 DEF Unsubscribe, Fetch, entity, session
<1>7. ASSUME NEW s, NEW p, Post(s, p) \/ Withdraw(s, p) PROVE Kept
  BY <1>7 DEF Post, Withdraw, Accept, entity
<1>8. CASE RefreshPermissions
  BY <1>8 DEF RefreshPermissions, Lost, entity
<1>9. CASE Restart
  BY <1>9 DEF Restart, Forget
<1>10. CASE (\E t \in Times : SetClock(t)) \/ UNCHANGED vars
  BY <1>10 DEF SetClock, vars, entity, client, session
<1> QED
  BY <1>1, <1>2, <1>3, <1>4, <1>5, <1>6, <1>7, <1>8, <1>9, <1>10 DEF Next

LEMMA ToldNext == Types /\ Told /\ [Next]_vars => Told'
<1> SUFFICES ASSUME Types, Told, [Next]_vars, NEW c \in Clients,
                    permissionCache'[c] # None, "subscribe" \in permissionCache'[c]
             PROVE  told'[c] # None
  BY DEF Told
<1> USE DEF Told, Types
<1>1. \A level \in Credentials : "subscribe" \in Mask(level) => May(level, "subscribe")
  BY DEF Mask
<1>2. None \notin Descriptors
  BY NoneIsNeither
<1>3. \A level \in Credentials : Descriptor(board, level) # None
  BY <1>2, DescriptorType
<1>4. ASSUME NEW d \in Clients, SendBoardDescriptors(d, credential[d]) PROVE told'[c] # None
  BY <1>1, <1>3, <1>4 DEF SendBoardDescriptors
<1>5. ASSUME NEW d \in Clients, NEW announced \in BOOLEAN, Enter(d, announced) PROVE told'[c] # None
  BY <1>4, <1>5 DEF Enter
<1>6. ASSUME NEW d \in Clients, AddSupport(d) PROVE told'[c] # None
  BY <1>4, <1>6 DEF AddSupport
<1>7. ASSUME NEW d \in Clients, Disconnect(d) \/ RemoveSupport(d) PROVE told'[c] # None
  BY <1>7 DEF Disconnect, Forget, RemoveSupport
<1>8. ASSUME NEW d \in Clients, NEW level, SetCredential(d, level) PROVE told'[c] # None
  BY <1>8 DEF SetCredential, session
<1>9. ASSUME NEW d \in Clients, NEW ts, Unsubscribe(d) \/ Subscribe(d, ts) PROVE told'[c] # None
  BY <1>9 DEF Unsubscribe, Subscribe
<1>10. ASSUME NEW d \in Clients, NEW p, Fetch(d, p) PROVE told'[c] # None
  BY <1>10 DEF Fetch, session
<1>11. ASSUME NEW s, NEW p, Post(s, p) \/ Withdraw(s, p) PROVE told'[c] # None
  <2>1. PICK e : Accepted(s, e)
    BY <1>11, PostAccepted, WithdrawAccepted
  <2>2. board' \in Boards /\ Len(board'.entries) <= MaxPosts
    BY <2>1, WithShape DEF Accepted, Accept, Shaped
  <2>3. Descriptor(board', credential[c]) # None
    BY <1>2, <2>2, DescriptorType
  <2> QED
    BY <2>1, <2>3 DEF Accepted, Accept, PublishEntry, DescribedTo
<1>12. CASE RefreshPermissions
  BY <1>1, <1>3, <1>12 DEF RefreshPermissions, Lost, Changed
<1>13. CASE Restart
  BY <1>13 DEF Restart, Forget
<1>14. CASE (\E t \in Times : SetClock(t)) \/ UNCHANGED vars
  BY <1>14 DEF SetClock, vars, entity, client, session
<1> QED
  BY <1>5, <1>6, <1>7, <1>8, <1>9, <1>10, <1>11, <1>12, <1>13, <1>14 DEF Next

(* With an accepted entry the time that no later entry may precede is at     *)
(* least the time of that entry, and of every other one.                     *)
LEMMA AcceptAdvances ==
  ASSUME Types, Recent, NEW s, NEW e, Accepted(s, e)
  PROVE  /\ Index!Latest(board) <= e.ts /\ e.ts <= Index!Latest(board')
         /\ \A d \in ToSet(board'.entries) : d.ts <= Index!Latest(board')
         /\ Index!Latest(board) \in Nat /\ Index!Latest(board') \in Nat
<1>1. Shaped(board', board, e) /\ board \in Boards
  BY WithShape DEF Types, Accepted, Accept
<1>2. /\ board' \in Boards /\ board'.entries # <<>> /\ board'.entries[Len(board'.entries)] = e
      /\ ToSet(board'.entries) \subseteq ToSet(board.entries) \union {e}
  BY <1>1 DEF Shaped
<1>3. e.ts >= Index!Latest(board) /\ e \in Entries
  BY DEF Accepted
<1>4. e.ts \in Nat
  BY <1>3, Bounds DEF Entries, Times
<1>5. Index!Latest(board) \in Nat /\ Index!Latest(board') \in Nat /\ e.ts <= Index!Latest(board')
  BY <1>1, <1>2, LatestBounds, Bounds
<1>6. ASSUME NEW d \in ToSet(board'.entries) PROVE d.ts <= Index!Latest(board')
  <2>1. CASE d = e
    BY <1>5, <2>1
  <2>2. CASE d \in ToSet(board.entries)
    <3>1. d \in Entries /\ d.ts <= Index!Latest(board)
      BY <1>1, <2>2 DEF Recent, Boards, ToSet
    <3>2. d.ts \in Nat
      BY <3>1, Bounds DEF Entries, Times
    <3> QED
      BY <1>3, <1>4, <1>5, <3>1, <3>2
  <2> QED
    BY <1>2, <2>1, <2>2
<1> QED
  BY <1>3, <1>4, <1>5, <1>6

LEMMA RecentNext == Types /\ Recent /\ [Next]_vars => Recent'
<1> SUFFICES ASSUME Types, Recent, [Next]_vars PROVE Recent'
  OBVIOUS
<1>1. ASSUME UNCHANGED <<board, latest>> PROVE Recent'
  BY <1>1 DEF Recent
<1>2. ASSUME NEW c \in Clients, NEW ts, Subscribe(c, ts) PROVE Recent'
  <2> DEFINE S == Replayed(Larger(ts, OldestReplay))
             t == LatestOf(S, latest[c])
  <2>1. S \subseteq ToSet(board.entries) /\ S \subseteq Entries /\ latest[c] \in 0..MaxTime
    BY DEF Replayed, Types, Boards, ToSet
  <2>2. latest' = [latest EXCEPT ![c] = t] /\ board' = board
    BY <1>2 DEF Subscribe
  <2> HIDE DEF S
  <2>3. t = latest[c] \/ \E e \in S : t = e.ts
    BY <2>1, LatestOfBounds
  <2>4. t <= Index!Latest(board)
    BY <2>1, <2>3 DEF Recent
  <2> HIDE DEF t
  <2> QED
    BY <2>2, <2>4 DEF Recent, Types
<1>3. ASSUME NEW s, NEW p, Post(s, p) \/ Withdraw(s, p) PROVE Recent'
  <2>1. PICK e : Accepted(s, e)
    BY <1>3, PostAccepted, WithdrawAccepted
  <2> DEFINE old == Index!Latest(board)
             new == Index!Latest(board')
  <2>2. /\ old <= e.ts /\ e.ts <= new /\ old \in Nat /\ new \in Nat
        /\ \A d \in ToSet(board'.entries) : d.ts <= new
    BY <2>1, AcceptAdvances
  <2>3. e.ts \in Nat
    BY <2>1, EntryTime DEF Accepted
  <2>4. \A c \in Clients : latest'[c] \in {latest[c], e.ts}
    BY <2>1 DEF Accepted, Accept, PublishEntry, Larger
  <2>5. \A c \in Clients : latest[c] \in Nat /\ latest[c] <= old
    BY Bounds DEF Types, Recent
  <2> HIDE DEF old, new
  <2>6. \A c \in Clients : latest'[c] <= new
    BY <2>2, <2>3, <2>4, <2>5
  <2> QED
    BY <2>2, <2>6 DEF Recent, new
<1>4. CASE Restart
  <2>1. CASE board' = board
    BY <1>1, <1>4, <2>1 DEF Restart
  <2>2. CASE Index!Reopen
    <3> DEFINE old == Index!Latest(board)
               new == Index!Latest(board')
    <3>1. /\ board \in Boards /\ board' \in Boards /\ board'.entries = board.entries
          /\ board.entries # <<>> /\ board'.horizon > board.horizon
      BY <2>2, ReopenShape DEF Types
    <3>2. old \in Nat /\ new \in Nat /\ board'.horizon <= new /\ board'.entries[Len(board'.entries)].ts <= new
      BY <3>1, LatestBounds, Bounds
    <3>3. old = board.horizon \/ old = board'.entries[Len(board'.entries)].ts
      BY <3>1, LatestBounds
    <3>4. board.horizon \in Nat /\ board'.horizon \in Nat
      BY <3>1, Bounds DEF Boards
    <3> HIDE DEF old, new
    <3>5. old <= new
      BY <3>1, <3>2, <3>3, <3>4
    <3>6. \A c \in Clients : latest'[c] = latest[c] /\ latest[c] \in Nat /\ latest[c] <= old
      BY <1>4, Bounds DEF Restart, Types, Recent, old
    <3>7. \A e \in ToSet(board.entries) : e.ts \in Nat /\ e.ts <= old
      BY <3>1, EntryTime DEF Boards, ToSet, Recent, old
    <3>8. (\A c \in Clients : latest'[c] <= new) /\ \A e \in ToSet(board'.entries) : e.ts <= new
      BY <3>1, <3>2, <3>5, <3>6, <3>7
    <3> QED
      BY <3>8 DEF Recent, new
  <2> QED
    BY <1>4, <2>1, <2>2 DEF Restart
<1>5. CASE RefreshPermissions \/ (\E t \in Times : SetClock(t)) \/ UNCHANGED vars
  BY <1>1, <1>5 DEF RefreshPermissions, SetClock, vars, entity, client, session
<1>6. ASSUME NEW c \in Clients, NEW announced, NEW level, NEW p,
             \/ Enter(c, announced) \/ Disconnect(c) \/ AddSupport(c) \/ RemoveSupport(c)
             \/ SetCredential(c, level) \/ Unsubscribe(c) \/ Fetch(c, p)
      PROVE  Recent'
  BY <1>1, <1>6 DEF Enter, Disconnect, AddSupport, RemoveSupport, SetCredential, Unsubscribe, Fetch
<1> QED
  BY <1>2, <1>3, <1>4, <1>5, <1>6 DEF Next

LEMMA StretchNext == IInv /\ [Next]_vars => Stretch'
<1> SUFFICES ASSUME IInv, [Next]_vars, NEW c \in Clients, NEW e \in ToSet(board'.entries),
                    owed'[c] <= e.ts, follows'[c] \/ e.ts < latest'[c]
             PROVE  e \in holds'[c]
  BY DEF Stretch
<1> USE DEF IInv
<1> DEFINE Held == e \in holds'[c]
<1>1. Types'
  BY TypesNext
<1>2. e \in Entries /\ e.ts \in Nat /\ e.ts < Never /\ latest[c] \in Nat /\ owed[c] \in Nat
  <2>1. e \in Entries /\ latest[c] \in 0..MaxTime /\ owed[c] \in 0..Never
    BY <1>1 DEF Types, Boards, ToSet
  <2> QED
    BY <2>1, Bounds DEF Entries, Times, Never
<1>3. ASSUME board' = board, holds' = holds, latest' = latest,
             owed'[c] = owed[c] \/ owed'[c] = Never, follows'[c] => follows[c]
      PROVE  Held
  <2>1. owed'[c] = owed[c]
    BY <1>2, <1>3, EntryTime
  <2> QED
    BY <1>3, <2>1 DEF Stretch
<1>4. ASSUME NEW d \in Clients, NEW announced, Enter(d, announced) \/ AddSupport(d) PROVE Held
  BY <1>3, <1>4 DEF Enter, AddSupport
<1>5. ASSUME NEW d \in Clients, Disconnect(d) \/ RemoveSupport(d) \/ Unsubscribe(d) PROVE Held
  BY <1>3, <1>5 DEF Disconnect, Forget, RemoveSupport, Unsubscribe, Types
<1>6. ASSUME NEW d \in Clients, NEW level, SetCredential(d, level) PROVE Held
  BY <1>3, <1>6 DEF SetCredential, Types
<1>7. ASSUME NEW d \in Clients, NEW ts \in {0, latest[d]}, Subscribe(d, ts) PROVE Held
  <2> DEFINE from == Larger(ts, OldestReplay)
  <2>1. from \in Nat
    <3>1. ts \in 0..MaxTime
      BY Bounds DEF Types
    <3> QED
      BY <3>1, FromType, Bounds
  <2>2. CASE d # c
    BY <1>7, <2>2 DEF Subscribe, Stretch, Types
  <2>3. CASE d = c
    <3> HIDE DEF from
    <3>1. /\ holds'[c] = holds[c] \union Replayed(from) /\ board' = board
          /\ owed'[c] = IF from <= latest[c] THEN Smaller(owed[c], from) ELSE from
      BY <1>7, <2>3 DEF Subscribe, Types, from
    <3>2. CASE e.ts >= from
      BY <3>1, <3>2 DEF Replayed
    <3>3. CASE e.ts < from
      <4>1. owed[c] <= e.ts /\ e.ts < latest[c]
        BY <1>2, <2>1, <3>1, <3>3 DEF Smaller
      <4> QED
        BY <3>1, <4>1 DEF Stretch
    <3> QED
      BY <1>2, <2>1, <3>2, <3>3
  <2> QED
    BY <2>2, <2>3
<1>8. ASSUME NEW d \in Clients, NEW p, Fetch(d, p) PROVE Held
  BY <1>8 DEF Fetch, Stretch, Types
<1>9. ASSUME NEW s, NEW p, Post(s, p) \/ Withdraw(s, p) PROVE Held
  <2>1. PICK x : Accepted(s, x)
    BY <1>9, PostAccepted, WithdrawAccepted
  <2> DEFINE sent == c \in Receivers \union {s}
  <2>2. /\ holds'[c] = (IF sent THEN holds[c] \union {x} ELSE holds[c]) \intersect ToSet(board'.entries)
        /\ latest'[c] = (IF sent /\ follows[c] THEN Larger(latest[c], x.ts) ELSE latest[c])
        /\ owed'[c] = owed[c] /\ follows'[c] = follows[c]
    BY <2>1 DEF Accepted, Accept, PublishEntry
  <2> HIDE DEF sent
  <2>6. ToSet(board'.entries) \subseteq ToSet(board.entries) \union {x}
    <3>1. Shaped(board', board, x)
      BY <2>1, WithShape DEF Accepted, Accept, Types
    <3> QED
      BY <3>1 DEF Shaped
  <2>3. latest[c] <= Index!Latest(board) /\ Index!Latest(board) <= x.ts /\ Index!Latest(board) \in Nat
    BY <2>1, AcceptAdvances DEF Recent
  <2>4. x.ts \in Nat
    BY <2>1, EntryTime DEF Accepted
  <2>5. CASE follows[c]
    <3>1. owed[c] # Never
      BY <1>2, <2>2, Bounds DEF Never
    <3>2. Listens(c) /\ subscribed[c] /\ May(credential[c], "subscribe")
      BY <2>5, <3>1 DEF Listening, SubscriptionKept
    <3>3. sent
      BY <3>2 DEF Receivers, sent
    <3>4. e = x \/ e \in ToSet(board.entries)
      BY <2>6
    <3> QED
      BY <2>2, <2>5, <3>3, <3>4 DEF Stretch
  <2>7. CASE ~follows[c]
    <3>1. e.ts < latest[c]
      BY <2>2, <2>7
    <3>2. e # x
      BY <1>2, <2>3, <2>4, <3>1
    <3>3. e \in ToSet(board.entries)
      BY <2>6, <3>2
    <3> QED
      BY <2>2, <3>1, <3>3 DEF Stretch
  <2> QED
    BY <2>5, <2>7
<1>10. CASE RefreshPermissions \/ (\E t \in Times : SetClock(t)) \/ UNCHANGED vars
  BY <1>3, <1>10 DEF RefreshPermissions, SetClock, vars, entity, client, session
<1>11. CASE Restart
  <2>1. board'.entries = board.entries
    BY <1>11, ReopenShape DEF Restart
  <2> QED
    BY <1>11, <2>1 DEF Restart, Forget, Stretch
<1> QED
  BY <1>4, <1>5, <1>6, <1>7, <1>8, <1>9, <1>10, <1>11 DEF Next

LEMMA IInvInit == Init => IInv
<1> SUFFICES ASSUME Init PROVE IInv
  OBVIOUS
<1>1. Types
  BY TypesInit
<1>2. ToSet(board.entries) = {}
  BY DEF Init, Index!Empty, ToSet
<1>3. Recent
  <2>1. board \in Boards
    BY <1>1 DEF Types
  <2>2. \A c \in Clients : latest[c] = 0
    BY DEF Init
  <2> QED
    BY <1>2, <2>1, <2>2, LatestBounds, Bounds DEF Recent
<1>4. Listening /\ SubscriptionKept
  BY DEF Init, Listening, SubscriptionKept
<1>5. Stretch /\ Told
  BY <1>2 DEF Init, Stretch, Told
<1> QED
  BY <1>1, <1>3, <1>4, <1>5 DEF IInv

(* The inductive invariant holds in every state.                             *)
LEMMA IInvAlways == Spec => []IInv
<1>1. IInv /\ [Next]_vars => IInv'
  BY TypesNext, ListeningNext, KeptNext, RecentNext, StretchNext, ToldNext DEF IInv
<1> QED
  BY <1>1, IInvInit, PTL DEF Spec

-------------------------------------------------------------------------------
(* Sessions, permissions, descriptors and what clients hold are of their     *)
(* types, and a board is never longer than maxPostsPerBoard.                 *)
THEOREM TypeCorrect == Spec => []TypeOK
<1>1. Types => TypeOK
  BY DEF Types, TypeOK, Boards, Descriptors
<1> QED
  BY <1>1, IInvAlways, PTL DEF IInv

(* handleBBL and publishEntry: a client that follows a board and resumes     *)
(* from the time stamp it saw last holds every entry from where it started.  *)
THEOREM NothingEverMissed == Spec => []NothingMissed
<1>1. Stretch => NothingMissed
  <2> SUFFICES ASSUME Stretch, NEW c \in Clients, follows[c],
                      NEW e \in ToSet(board.entries), e.ts >= owed[c]
               PROVE  e \in holds[c]
    BY DEF NothingMissed
  <2> QED
    BY DEF Stretch
<1> QED
  BY <1>1, IInvAlways, PTL DEF IInv

(* refreshPermissions and set_level: while something is owed, the hub keeps  *)
(* the subscription and the client its permission.                           *)
THEOREM SubscriptionAlwaysKept == Spec => []SubscriptionKept
  BY IInvAlways, PTL DEF IInv

(* refreshPermissions: a client that may subscribe and was not told of the   *)
(* board has a change that the timer will see.                               *)
THEOREM NobodyEverOverlooked == Spec => []NobodyIsOverlooked
<1>1. IInv => NobodyIsOverlooked
  <2> SUFFICES ASSUME IInv, NEW c \in Clients, Listens(c), May(credential[c], "subscribe"), told[c] = None
               PROVE  Changed(c)
    BY DEF NobodyIsOverlooked
  <2>1. "subscribe" \in DOMAIN Required
    BY SessionsAssumption
  <2>2. "subscribe" \in Mask(credential[c])
    BY <2>1 DEF Mask
  <2>3. Mask(credential[c]) # None
    BY NoneIsNeither DEF Masks, IInv, Types
  <2>4. permissionCache[c] = None \/ "subscribe" \notin permissionCache[c]
    BY DEF IInv, Told
  <2> QED
    BY <2>2, <2>3, <2>4 DEF Changed, Listens
<1> QED
  BY <1>1, IInvAlways, PTL

(* publishEntry, handleBBL: whatever a client comes to hold, it may          *)
(* subscribe, wrote itself, or was allowed to withdraw.                      *)
THEOREM OnlyEverPermitted == Spec => OnlyPermitted
<1> DEFINE Allowed(c, e) == \/ May(credential[c], "subscribe") \/ Author[e.tth] = c
                            \/ e.removed /\ May(credential[c], "withdraw any")
           Step == \A c \in Clients : \A e \in holds'[c] \ holds[c] : Allowed(c, e)
<1>1. IInv /\ [Next]_vars => [Step]_vars
  <2> SUFFICES ASSUME IInv, [Next]_vars, NEW c \in Clients, NEW e \in holds'[c] \ holds[c]
               PROVE  Allowed(c, e)
    OBVIOUS
  <2>1. ASSUME NEW d \in Clients, NEW ts, Subscribe(d, ts) PROVE Allowed(c, e)
    BY <2>1 DEF Subscribe, IInv, Types
  <2>2. ASSUME NEW d \in Clients, NEW p, Fetch(d, p) PROVE Allowed(c, e)
    BY <2>2 DEF Fetch, IInv, Types
  <2>3. ASSUME NEW s, NEW p, Post(s, p) \/ Withdraw(s, p) PROVE Allowed(c, e)
    <3>1. PICK x : Accepted(s, x)
      BY <2>3, PostAccepted, WithdrawAccepted DEF IInv
    <3>2. c \in Receivers \union {s} /\ e = x
      BY <3>1 DEF Accepted, Accept, PublishEntry
    <3>3. CASE c \in Receivers
      BY <3>3 DEF Receivers
    <3>4. CASE c = s
      BY <3>1, <3>2, <3>4 DEF Accepted
    <3> QED
      BY <3>2, <3>3, <3>4
  <2>4. ASSUME NEW d \in Clients, NEW announced, NEW level,
               \/ Enter(d, announced) \/ Disconnect(d) \/ AddSupport(d) \/ RemoveSupport(d)
               \/ SetCredential(d, level) \/ Unsubscribe(d)
        PROVE  Allowed(c, e)
    BY <2>4 DEF Enter, Disconnect, AddSupport, RemoveSupport, SetCredential, Unsubscribe
  <2>5. CASE RefreshPermissions \/ Restart \/ (\E t \in Times : SetClock(t)) \/ UNCHANGED vars
    BY <2>5 DEF RefreshPermissions, Restart, SetClock, vars, client
  <2> QED
    BY <2>1, <2>2, <2>3, <2>4, <2>5 DEF Next
<1>2. Spec => [][Step]_vars
  BY <1>1, IInvAlways, PTL DEF Spec
<1> QED
  BY <1>2 DEF OnlyPermitted
===============================================================================
