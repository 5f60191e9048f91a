---------------------------- MODULE BBS0Sessions ----------------------------
(***************************************************************************)
(* The BBS0 plugin and its clients: who is told of a board, who is         *)
(* subscribed, and what a client holds that comes and goes and resumes     *)
(* from the time stamp it has seen last.  The index is BulletinBoard, which*)
(* BBS0Journal implements.  One board stands for all.                      *)
(***************************************************************************)
EXTENDS Integers, Sequences, FiniteSetsExt, SequencesExt, Selection

CONSTANTS
  Clients,
  Others,        \* clients of whom only the commands are followed
  Posts,         \* hashes of posts
  Author,        \* Author[p]: the client whose CID post p has
  Required,      \* Required[a]: the credential that permission a takes
  Credentials,   \* those that a client may have
  Operator,      \* the lowest of the operators
  MaxPosts,      \* maxPostsPerBoard
  ReplayTime,    \* replayDays, 0 for no limit
  PostInterval,  \* postInterval, 0 for no limit
  MaxTime,       \* bound: the clock shows 1..MaxTime
  None

ASSUME SessionsAssumption ==
  /\ Author \in [Posts -> Clients \union Others] /\ Clients \intersect Others = {}
  /\ DOMAIN Required = {"subscribe", "post", "withdraw own", "withdraw any"}
  /\ Credentials \subseteq Nat /\ Required \in [DOMAIN Required -> Nat]
  /\ Operator \in Nat /\ MaxPosts \in Nat \ {0} /\ MaxTime \in Nat \ {0} /\ ReplayTime \in Nat /\ PostInterval \in Nat
  /\ \A m \in SUBSET DOMAIN Required : m # None
  /\ \A d \in [PE : SUBSET DOMAIN Required, TS : 0..MaxTime, NP : 0..MaxPosts] : d # None

VARIABLES
  clock,
  board,        \* the index: entries, horizon
  \* the entity: is it NORMAL, did it announce BBS0, its credential
  normal, supports, credential,
  \* the Session
  subscribed, permissionCache, lastPost,
  \* the client: the last descriptor it was sent, the entries of the board that
  \* it holds, the latest time stamp that its subscriptions brought
  told, holds, latest,
  \* does it follow the board, and from which time on is every entry owed to it
  follows, owed

entity == <<normal, supports, credential>>
session == <<subscribed, permissionCache, lastPost>>
client == <<told, holds, latest, follows, owed>>
vars == <<clock, board, entity, session, client>>

Times == 1..MaxTime
Never == MaxTime + 1

Index == INSTANCE BulletinBoard

Init ==
  /\ clock = 1 /\ board = Index!Empty
  /\ normal = [c \in Clients |-> FALSE] /\ supports = normal
  /\ credential \in [Clients -> Credentials]
  /\ subscribed = normal /\ permissionCache = [c \in Clients |-> None]
  /\ lastPost = [c \in Clients |-> 0]
  /\ told = [c \in Clients |-> None] /\ holds = [c \in Clients |-> {}] /\ latest = lastPost
  /\ follows = normal /\ owed = [c \in Clients |-> Never]

-------------------------------------------------------------------------------
(* hasPermission, permissionMask: of a client with this credential.          *)
May(level, a) == level >= Required[a]

Mask(level) == {a \in DOMAIN Required : May(level, a)}

Larger(a, b) == IF a > b THEN a ELSE b
Smaller(a, b) == IF a < b THEN a ELSE b

OldestReplay ==
  Larger(board.horizon, IF ReplayTime > 0 THEN clock - ReplayTime ELSE 0)

Live(b) == {e \in ToSet(b.entries) : ~e.removed}

\* Mutant: the entry that goes is counted.
CountsPruned(b, level) ==
  [PE |-> Mask(level),
   TS |-> IF b.entries = <<>> THEN 0 ELSE b.entries[Len(b.entries)].ts,
   NP |-> Len(Select(b.entries, Live(b))) + (IF b.horizon > 0 THEN 1 ELSE 0)]

Descriptor(b, level) ==
  [PE |-> Mask(level),
   TS |-> IF b.entries = <<>> THEN 0 ELSE b.entries[Len(b.entries)].ts,
   NP |-> Len(Select(b.entries, Live(b)))]

-------------------------------------------------------------------------------
(* sendBoardDescriptors, to a client that announced BBS0.                    *)
SendBoardDescriptors(c, level) ==
  /\ permissionCache' = [permissionCache EXCEPT ![c] = Mask(level)]
  /\ told' = IF May(level, "subscribe") THEN [told EXCEPT ![c] = Descriptor(board, level)] ELSE told

(* A client enters NORMAL: onState.                                          *)
Enter(c, announced) ==
  /\ ~normal[c]
  /\ normal' = [normal EXCEPT ![c] = TRUE] /\ supports' = [supports EXCEPT ![c] = announced]
  /\ IF announced THEN SendBoardDescriptors(c, credential[c]) ELSE UNCHANGED <<permissionCache, told>>
  /\ UNCHANGED <<clock, board, credential, subscribed, lastPost, holds, latest, follows, owed>>

(* The session is erased; the client keeps what it holds.                    *)
Forget(cs) ==
  /\ subscribed' = [c \in Clients |-> subscribed[c] /\ c \notin cs]
  /\ follows' = [c \in Clients |-> follows[c] /\ c \notin cs]
  /\ permissionCache' = [c \in Clients |-> IF c \in cs THEN None ELSE permissionCache[c]]
  /\ lastPost' = [c \in Clients |-> IF c \in cs THEN 0 ELSE lastPost[c]]
  /\ told' = [c \in Clients |-> IF c \in cs THEN None ELSE told[c]]

Disconnect(c) ==
  /\ normal[c]
  /\ normal' = [normal EXCEPT ![c] = FALSE] /\ supports' = [supports EXCEPT ![c] = FALSE]
  /\ Forget({c})
  /\ UNCHANGED <<clock, board, credential, holds, latest, owed>>

(* The hub restarts; BulletinBoard says what the index may look like then.   *)
Restart ==
  /\ \E c \in Clients : normal[c]
  /\ board' = board \/ Index!Reopen
  /\ normal' = [c \in Clients |-> FALSE] /\ supports' = normal'
  /\ Forget(Clients)
  /\ UNCHANGED <<clock, credential, holds, latest, owed>>

(* handleSUP, with ADBBS0 and with RMBBS0, in NORMAL.                        *)
AddSupport(c) ==
  /\ normal[c]
  /\ supports' = [supports EXCEPT ![c] = TRUE]
  /\ SendBoardDescriptors(c, credential[c])
  /\ UNCHANGED <<clock, board, normal, credential, subscribed, lastPost, holds, latest, follows, owed>>

RemoveSupport(c) ==
  /\ normal[c]
  /\ supports' = [supports EXCEPT ![c] = FALSE]
  /\ subscribed' = [subscribed EXCEPT ![c] = FALSE] /\ follows' = [follows EXCEPT ![c] = FALSE]
  /\ permissionCache' = [permissionCache EXCEPT ![c] = None] /\ told' = [told EXCEPT ![c] = None]
  /\ UNCHANGED <<clock, board, normal, credential, lastPost, holds, latest, owed>>

(* A script gives the user another credential.  When it takes away what a    *)
(* subscription needs, nothing more is owed.                                 *)
SetCredential(c, level) ==
  /\ credential' = [credential EXCEPT ![c] = level]
  /\ owed' = [owed EXCEPT ![c] = IF follows[c] /\ ~May(level, "subscribe") THEN Never ELSE @]
  /\ UNCHANGED <<clock, board, normal, supports, session, told, holds, latest, follows>>

-------------------------------------------------------------------------------
(* refreshPermissions: the timer's look at every session.                    *)
Changed(c) == normal[c] /\ supports[c] /\ permissionCache[c] # Mask(credential[c])

Lost(c) == Changed(c) /\ ~May(credential[c], "subscribe")

\* Mutant: the subscription goes with every change.
RefreshDrops ==
  /\ \E c \in Clients : Changed(c)
  /\ permissionCache' = [c \in Clients |-> IF Changed(c) THEN Mask(credential[c]) ELSE permissionCache[c]]
  /\ told' = [c \in Clients |->
                IF Changed(c) /\ ~Lost(c) THEN Descriptor(board, credential[c]) ELSE told[c]]
  /\ subscribed' = [c \in Clients |-> subscribed[c] /\ ~Changed(c)]
  /\ UNCHANGED <<clock, board, entity, lastPost, holds, latest, follows, owed>>

\* Mutant: only those who subscribed are told.
RefreshSubscribers ==
  /\ \E c \in Clients : Changed(c)
  /\ permissionCache' = [c \in Clients |-> IF Changed(c) THEN Mask(credential[c]) ELSE permissionCache[c]]
  /\ told' = [c \in Clients |->
                IF Changed(c) /\ subscribed[c] /\ ~Lost(c) THEN Descriptor(board, credential[c]) ELSE told[c]]
  /\ subscribed' = [c \in Clients |-> subscribed[c] /\ ~Lost(c)]
  /\ UNCHANGED <<clock, board, entity, lastPost, holds, latest, follows, owed>>

RefreshPermissions ==
  /\ \E c \in Clients : Changed(c)
  /\ permissionCache' = [c \in Clients |-> IF Changed(c) THEN Mask(credential[c]) ELSE permissionCache[c]]
  /\ told' = [c \in Clients |->
                IF Changed(c) /\ ~Lost(c) THEN Descriptor(board, credential[c]) ELSE told[c]]
  /\ subscribed' = [c \in Clients |-> subscribed[c] /\ ~Lost(c)]
  /\ UNCHANGED <<clock, board, entity, lastPost, holds, latest, follows, owed>>

-------------------------------------------------------------------------------
(* handleBBL.  A command that is refused changes nothing.                    *)

Listens(c) == normal[c] /\ supports[c]

Unsubscribe(c) ==
  /\ Listens(c)
  /\ subscribed' = [subscribed EXCEPT ![c] = FALSE] /\ follows' = [follows EXCEPT ![c] = FALSE]
  /\ UNCHANGED <<clock, board, entity, permissionCache, lastPost, told, holds, latest, owed>>

(* The entries that a subscription from this time on starts with.            *)
Replayed(from) == {e \in ToSet(board.entries) : e.ts >= from}

LatestOf(S, t) == Max({t} \union {e.ts : e \in S})

\* Mutant: what has the very time stamp is taken to be known.
SubscribeAfter(c, ts) ==
  /\ Listens(c) /\ May(credential[c], "subscribe")
  /\ LET from == Larger(ts, OldestReplay)
         sent == {e \in Replayed(from) : e.ts > ts}
     IN /\ holds' = [holds EXCEPT ![c] = @ \union sent]
        /\ latest' = [latest EXCEPT ![c] = LatestOf(sent, @)]
        /\ owed' = [owed EXCEPT ![c] = IF from <= latest[c] THEN Smaller(@, from) ELSE from]
  /\ subscribed' = [subscribed EXCEPT ![c] = TRUE] /\ follows' = [follows EXCEPT ![c] = TRUE]
  /\ UNCHANGED <<clock, board, entity, permissionCache, lastPost, told>>

(* The client asks for what came at ts or later.  When that reaches back to  *)
(* what it has seen, it has an unbroken stretch from where that started.     *)
Subscribe(c, ts) ==
  /\ Listens(c) /\ May(credential[c], "subscribe")
  /\ LET from == Larger(ts, OldestReplay) IN
     /\ holds' = [holds EXCEPT ![c] = @ \union Replayed(from)]
     /\ latest' = [latest EXCEPT ![c] = LatestOf(Replayed(from), @)]
     /\ owed' = [owed EXCEPT ![c] = IF from <= latest[c] THEN Smaller(@, from) ELSE from]
  /\ subscribed' = [subscribed EXCEPT ![c] = TRUE] /\ follows' = [follows EXCEPT ![c] = TRUE]
  /\ UNCHANGED <<clock, board, entity, permissionCache, lastPost, told>>

(* A single entry is asked for by its hash.                                  *)
Fetch(c, p) ==
  /\ Listens(c) /\ May(credential[c], "subscribe")
  /\ \E e \in ToSet(board.entries) : e.tth = p /\ holds' = [holds EXCEPT ![c] = @ \union {e}]
  /\ UNCHANGED <<clock, board, entity, session, told, latest, follows, owed>>

-------------------------------------------------------------------------------
(* publishEntry *)

\* Mutant: a subscription is enough.
Subscribers == {c \in Clients : Listens(c) /\ subscribed[c]}

Receivers == {c \in Clients : Listens(c) /\ May(credential[c], "subscribe") /\ subscribed[c]}

DescribedTo(s, c) == Listens(c) /\ May(credential[c], "subscribe")

PublishEntry(s, e) ==
  LET sent(c) == c \in Receivers \union {s}
      described(c) == DescribedTo(s, c)
  IN /\ holds' = [c \in Clients |->
                    (IF sent(c) THEN holds[c] \union {e} ELSE holds[c]) \intersect ToSet(board'.entries)]
     /\ latest' = [c \in Clients |-> IF sent(c) /\ follows[c] THEN Larger(latest[c], e.ts) ELSE latest[c]]
     /\ told' = [c \in Clients |-> IF described(c) THEN Descriptor(board', credential[c]) ELSE told[c]]
     /\ permissionCache' =
          [c \in Clients |-> IF described(c) THEN Mask(credential[c]) ELSE permissionCache[c]]

NextTimestamp == Larger(clock, Index!Latest(board))

(* handleBBP.  An operator is not held to the interval.                      *)
Exempt(c) == credential[c] >= Operator

Elapsed(c) == Larger(clock - lastPost[c], 0)

Paced(c) == Exempt(c) \/ PostInterval = 0 \/ lastPost[c] = 0 \/ Elapsed(c) >= PostInterval

Accept(s, e) ==
  /\ board' = Index!With(board, e)
  /\ PublishEntry(s, e)
  /\ UNCHANGED <<clock, entity, subscribed, follows, owed>>

Post(s, p) ==
  /\ Author[p] = s
  /\ s \in Clients => Listens(s) /\ May(credential[s], "post") /\ Paced(s)
  /\ \E e \in Index!Posted(board) :
       e.tth = p /\ e.ts = NextTimestamp /\ Accept(s, e)
  /\ lastPost' = [c \in Clients |-> IF c = s THEN clock ELSE lastPost[c]]

Withdraw(s, p) ==
  /\ s \in Clients =>
       /\ Listens(s)
       /\ May(credential[s], "withdraw any") \/ (Author[p] = s /\ May(credential[s], "withdraw own"))
  /\ \E e \in Index!Withdrawn(board) :
       e.tth = p /\ e.ts = NextTimestamp /\ Accept(s, e)
  /\ UNCHANGED lastPost

SetClock(t) == clock' = t /\ UNCHANGED <<board, entity, session, client>>

-------------------------------------------------------------------------------
Next ==
  \/ \E c \in Clients :
       \/ \E announced \in BOOLEAN : Enter(c, announced)
       \/ Disconnect(c) \/ AddSupport(c) \/ RemoveSupport(c)
       \/ \E level \in Credentials : SetCredential(c, level)
       \/ Unsubscribe(c)
       \/ \E ts \in {0, latest[c]} : Subscribe(c, ts)
       \/ \E p \in Posts : Fetch(c, p)
  \/ \E s \in Clients \union Others, p \in Posts : Post(s, p) \/ Withdraw(s, p)
  \/ RefreshPermissions \/ Restart
  \/ \E t \in Times : SetClock(t)

Spec == Init /\ [][Next]_vars

-------------------------------------------------------------------------------
(* Properties.                                                               *)

Entries == [tth : Posts, ts : Times, removed : BOOLEAN]
Masks == {Mask(level) : level \in Credentials}

TypeOK ==
  /\ clock \in Times
  /\ board \in [entries : Seq(Entries), horizon : 0..MaxTime] /\ Len(board.entries) <= MaxPosts
  /\ \A f \in {normal, supports, subscribed, follows} : f \in [Clients -> BOOLEAN]
  /\ credential \in [Clients -> Credentials]
  /\ permissionCache \in [Clients -> Masks \union {None}]
  /\ told \in [Clients -> [PE : Masks, TS : 0..MaxTime, NP : 0..MaxPosts] \union {None}]
  /\ holds \in [Clients -> SUBSET ToSet(board.entries)]
  /\ lastPost \in [Clients -> 0..MaxTime] /\ latest \in [Clients -> 0..MaxTime]
  /\ owed \in [Clients -> 0..Never]

(* A client that follows a board, and resumes from the time stamp that it    *)
(* saw last, holds every entry from where it started on, withdrawals and     *)
(* those of the same second too: it may leave and come back, the hub may     *)
(* restart, forget old entries and change other permissions of the client.   *)
NothingMissed ==
  \A c \in Clients :
    follows[c] => \A e \in ToSet(board.entries) : e.ts >= owed[c] => e \in holds[c]

(* While something is owed, the hub keeps the subscription.                  *)
SubscriptionKept ==
  \A c \in Clients : follows[c] /\ owed[c] # Never => subscribed[c] /\ May(credential[c], "subscribe")

(* Nobody is sent another's entry without the permission to subscribe, also  *)
(* between its loss and the refresh that ends the subscription, but for the  *)
(* echo of the withdrawal that a client was allowed to make itself.          *)
OnlyPermitted ==
  [][\A c \in Clients : \A e \in holds'[c] \ holds[c] :
       \/ May(credential[c], "subscribe") \/ Author[e.tth] = c
       \/ e.removed /\ May(credential[c], "withdraw any")]_vars

(* A client that may subscribe and was not told that there is a board has a  *)
(* change that the timer will see: whichever way it came to the permission,  *)
(* at the login, by a SUP or from a script.                                  *)
NobodyIsOverlooked ==
  \A c \in Clients :
    Listens(c) /\ May(credential[c], "subscribe") /\ told[c] = None => Changed(c)
===============================================================================
