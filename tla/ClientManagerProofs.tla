-------------------------- MODULE ClientManagerProofs --------------------------
(***************************************************************************)
(* Proofs about ClientManager for every set of clients, bots, SIDs, nicks  *)
(* and CIDs, whatever INFs the clients send.                               *)
(*                                                                         *)
(* IInv says that the maps of entities and of CIDs hold no dangling        *)
(* pointer.  The two need each other: a takeover removes the entity that   *)
(* the CID index names, so that the new owner must not be named by it      *)
(* already; and it is not because a client that has not identified itself  *)
(* has no CID.  KInv adds the rest of what every reachable state keeps:    *)
(* the order in which an entity is removed, what a free address holds, and *)
(* who is in the list of logins.                                           *)
(*                                                                         *)
(* Both hold whatever SIDs collide.  That the map of entities is complete, *)
(* and that clients are told what is in it, needs draws that do not        *)
(* collide, and the index of nicks needs nicks that are given once.        *)
(***************************************************************************)
EXTENDS ClientManager, SelectionProofs

(* The variables the argument is about are maps of the right kind.           *)
IType ==
  /\ live \subseteq Entities /\ ghost \subseteq live
  /\ state \in [Entities -> {"PROTOCOL", "IDENTIFY", "VERIFY", "NORMAL"}]
  /\ sid \in [Entities -> Sids \union {None}]
  /\ cid \in [Entities -> Cids \union {None}]
  /\ entities \in [Sids -> Entities \union {None}]
  /\ cids \in [Cids -> Entities \union {None}]

(* An address that is free, or a client that has not identified itself and   *)
(* is not being disconnected for trying to, has no CID.                      *)
Fresh ==
  \A e \in Entities :
    e \notin live \/ (e \notin closing /\ state[e] \in {"PROTOCOL", "IDENTIFY"}) => cid[e] = None

(* Bots have the CIDs generated for them, and no client has one of those.    *)
OwnCids ==
  /\ \A b \in Bots : cid[b] \in {None, BotCid[b]}
  /\ \A c \in Clients, b \in Bots : cid[c] # BotCid[b]

IInv == IType /\ Fresh /\ OwnCids /\ EntitiesLive /\ CidIndexExact

USE DEF Entities, InfTypes, Present

LEMMA IInvInit == HubAssumption /\ Init => IInv
  BY DEF HubAssumption, Init, IInv, IType, Fresh, OwnCids, EntitiesLive, CidIndexExact

(* `delete this' after removeEntity leaves no pointer to the entity.         *)
LEMMA DeleteInv ==
  ASSUME HubAssumption, IInv, NEW e \in Entities, Delete(e)
  PROVE  IInv'
<1> DEFINE removed == {e} \ ghost
<1>1. /\ live' = live \ {e} /\ ghost' = ghost \ {e} /\ closing' = closing \ {e}
      /\ entities' = EntitiesWithout(removed) /\ cids' = CidsWithout(removed)
      /\ state' = [state EXCEPT ![e] = "PROTOCOL"]
      /\ sid' = [sid EXCEPT ![e] = None]
      /\ cid' = [cid EXCEPT ![e] = None]
  BY DEF Delete
<1>2. IType'
  BY <1>1 DEF IInv, IType, EntitiesWithout, CidsWithout
<1>3. Fresh' /\ OwnCids'
  BY <1>1 DEF IInv, IType, Fresh, OwnCids, HubAssumption
<1>4. EntitiesLive'
  BY <1>1 DEF IInv, IType, EntitiesLive, EntitiesWithout, HubAssumption
<1>5. CidIndexExact'
  <2> SUFFICES ASSUME NEW x \in Cids, NEW d \in Entities
               PROVE  cids'[x] = d <=> d \in live' \ ghost' /\ cid'[d] = x
    BY DEF CidIndexExact
  <2>1. /\ cids[x] = d <=> d \in live \ ghost /\ cid[d] = x
        /\ cids[x] = e <=> e \in live \ ghost /\ cid[e] = x
    BY DEF IInv, CidIndexExact
  <2>2. x # None /\ d # None /\ (cid[e] = x => e \in live)
    BY DEF HubAssumption, IInv, Fresh
  <2>3. cids'[x] = IF e \notin ghost /\ cid[e] = x THEN None ELSE cids[x]
    BY <1>1 DEF CidsWithout
  <2>4. cid'[d] = IF d = e THEN None ELSE cid[d]
    BY <1>1 DEF IInv, IType
  <2> QED
    BY <1>1, <2>1, <2>2, <2>3, <2>4
<1> QED
  BY <1>2, <1>3, <1>4, <1>5 DEF IInv

(* Taking over a CID: the one who claims it is not among the victims, and    *)
(* the index is exact again once it names the claimant.                      *)
LEMMA TakeOver ==
  ASSUME HubAssumption, BotCidAssumption, IInv, NEW c \in Clients,
         NEW m \in FirstInfs \union LaterInfs, NEW E, NEW newNicks,
         Verifies(c, m), Verify(c, m, E, newNicks)
  PROVE  /\ c \in live /\ c \notin ghost'
         /\ ghost' \subseteq live /\ ghost \subseteq ghost'
         /\ cid' \in [Entities -> Cids \union {None}]
         /\ cids' \in [Cids -> Entities \union {None}]
         /\ \A e \in Entities \ {c} : cid'[e] = cid[e]
         /\ state[c] # "IDENTIFY" => Victims(m) = {} /\ cid' = cid
         /\ OwnCids' /\ CidIndexExact'
<1>1. /\ c \in live /\ c \notin ghost /\ c \notin closing /\ c \in Entities
      /\ m.cid # None => state[c] = "IDENTIFY"
      /\ m.cid \in Cids \union {None} /\ None \notin Entities \union Cids
  BY DEF Verifies, Hears, RefusedAtOnce, HubAssumption
<1>2. /\ ghost' = ghost \union Victims(m) /\ live' = live
      /\ cid' = IF m.cid = None THEN cid ELSE [cid EXCEPT ![c] = m.cid]
      /\ cids' = CidsClaimed(c, m)
  BY DEF Verify
<1>3. CASE m.cid = None
  BY <1>1, <1>2, <1>3 DEF Victims, CidsClaimed, IInv, IType, OwnCids, CidIndexExact
<1>4. CASE m.cid # None
  <2> DEFINE x == m.cid
  <2>1. x \in Cids /\ state[c] = "IDENTIFY" /\ cid[c] = None
    BY <1>1, <1>4 DEF IInv, Fresh
  <2>2. cid' \in [Entities -> Cids \union {None}] /\ cid'[c] = x
        /\ \A e \in Entities \ {c} : cid'[e] = cid[e]
    BY <1>1, <1>2, <1>4, <2>1 DEF IInv, IType
  <2>3. Victims(m) = IF cids[x] = None THEN {} ELSE {cids[x]}
    BY <1>4 DEF Victims
  <2>4. /\ cids' \in [Cids -> Entities \union {None}]
        /\ cids'[x] = c
        /\ \A y \in Cids \ {x} :
             cids'[y] = IF cids[x] # None /\ cid[cids[x]] = y THEN None ELSE cids[y]
    BY <1>1, <1>2, <1>4, <2>1, <2>3 DEF CidsClaimed, CidsWithout, IInv, IType
  <2>5. \A e \in Entities : cids[x] = e <=> e \in live \ ghost /\ cid[e] = x
    BY <2>1 DEF IInv, CidIndexExact
  <2>6. cids[x] # c /\ cids[x] \in Entities \union {None}
    BY <1>1, <2>1, <2>5 DEF IInv, IType
  <2>7. c \notin ghost' /\ ghost' \subseteq live
    BY <1>1, <1>2, <2>3, <2>5, <2>6 DEF IInv, IType
  <2>8. OwnCids'
    <3>1. \A b \in Bots : x # BotCid[b]
      BY DEF BotCidAssumption
    <3> QED
      BY <1>1, <2>2, <3>1 DEF HubAssumption, IInv, OwnCids
  <2>9. CidIndexExact'
    <3> SUFFICES ASSUME NEW y \in Cids, NEW d \in Entities
                 PROVE  cids'[y] = d <=> d \in live \ ghost' /\ cid'[d] = y
      BY <1>2 DEF CidIndexExact
    <3>1. /\ cids[y] = d <=> d \in live \ ghost /\ cid[d] = y
      BY DEF IInv, CidIndexExact
    <3>2. CASE y = x
      BY <1>1, <1>2, <2>1, <2>2, <2>3, <2>4, <2>5, <2>7, <3>1, <3>2
    <3>3. CASE y # x
      BY <1>1, <1>2, <2>1, <2>2, <2>3, <2>4, <2>5, <2>6, <2>7, <3>1, <3>3
    <3> QED
      BY <3>2, <3>3
  <2> QED
    BY <1>1, <1>2, <2>1, <2>2, <2>4, <2>7, <2>8, <2>9
<1> QED
  BY <1>3, <1>4

(* Its victims are filed nowhere any more.                                   *)
LEMMA VictimsLeave ==
  ASSUME HubAssumption, IInv, NEW m \in InfTypes,
         ghost' = ghost \union Victims(m), live' = live
  PROVE  LET left == EntitiesWithout(Victims(m)) IN
         /\ left \in [Sids -> Entities \union {None}]
         /\ \A s \in Sids : left[s] # None =>
              /\ left[s] \in live' \ ghost'
              /\ state[left[s]] = "NORMAL" /\ sid[left[s]] = s
  BY DEF EntitiesWithout, IInv, IType, EntitiesLive, HubAssumption

(* What a handler that only disconnects leaves alone.                        *)
LEMMA DropInv ==
  ASSUME IInv, closing \subseteq closing',
         UNCHANGED <<live, state, ghost, sid, cid, entities, cids>>
  PROVE  IInv'
<1>1. IType' /\ OwnCids' /\ EntitiesLive' /\ CidIndexExact'
  BY DEF IInv, IType, OwnCids, EntitiesLive, CidIndexExact
<1>2. Fresh'
  BY DEF IInv, Fresh
<1> QED
  BY <1>1, <1>2 DEF IInv

(* An INF that gets the client disconnected: its CID is claimed all the same.*)
LEMMA RefusedInv ==
  ASSUME HubAssumption, BotCidAssumption, IInv, NEW c \in Clients,
         NEW m \in FirstInfs \union LaterInfs, NEW newNicks,
         Verifies(c, m), Verify(c, m, Victims(m) \union {c}, newNicks),
         entities' = EntitiesWithout(Victims(m)), state' = state
  PROVE  IInv'
<1>1. m \in InfTypes
  BY DEF HubAssumption
<1>2. /\ live' = live /\ sid' = sid /\ ghost' = ghost \union Victims(m)
      /\ c \in closing' /\ closing \subseteq closing'
  BY DEF Verify, Drop
<1>3. IType' /\ EntitiesLive'
  BY <1>1, <1>2, TakeOver, VictimsLeave DEF IInv, IType, EntitiesLive
<1>4. Fresh'
  BY <1>2, TakeOver DEF IInv, Fresh
<1> QED
  BY <1>3, <1>4, TakeOver DEF IInv

LEMMA IInvNext == HubAssumption /\ BotCidAssumption /\ IInv /\ [Next]_vars => IInv'
<1> SUFFICES ASSUME HubAssumption, BotCidAssumption, IInv, [Next]_vars PROVE IInv'
  OBVIOUS
<1>1. ASSUME NEW c \in Clients, NEW s \in Sids, NEW k \in 0..Len(logins), Accept(c, s, k)
      PROVE  IInv'
  <2>1. /\ c \in Entities \ live /\ c \notin ghost /\ live' = live \union {c}
        /\ sid' = [sid EXCEPT ![c] = s] /\ closing \subseteq closing'
        /\ UNCHANGED <<state, ghost, cid, entities, cids>>
    BY <1>1 DEF Accept, Drop, IInv, IType
  <2>2. IType' /\ Fresh' /\ OwnCids'
    BY <2>1 DEF IInv, IType, Fresh, OwnCids
  <2>3. EntitiesLive'
    BY <2>1 DEF IInv, IType, EntitiesLive, HubAssumption
  <2>4. CidIndexExact'
    <3>1. cid[c] = None /\ None \notin Cids
      BY <2>1 DEF IInv, Fresh, HubAssumption
    <3> QED
      BY <2>1, <3>1 DEF IInv, CidIndexExact
  <2> QED
    BY <2>2, <2>3, <2>4 DEF IInv
<1>2. ASSUME NEW c \in Clients, NEW ok \in BOOLEAN, Sup(c, ok) PROVE IInv'
  <2>1. CASE Refuse(c)
    BY <2>1, DropInv DEF Refuse, Drop
  <2>2. CASE ~Refuse(c)
    <3>1. /\ state' = [state EXCEPT ![c] = IF @ = "PROTOCOL" THEN "IDENTIFY" ELSE @]
          /\ c \in live \ closing /\ state[c] \in {"PROTOCOL", "NORMAL"}
          /\ UNCHANGED <<live, ghost, closing, sid, cid, entities, cids>>
      BY <1>2, <2>2 DEF Sup, Hears
    <3> QED
      BY <3>1 DEF IInv, IType, Fresh, OwnCids, EntitiesLive, CidIndexExact, HubAssumption
  <2> QED
    BY <2>1, <2>2
<1>3. ASSUME NEW c \in Clients, BadCommand(c) PROVE IInv'
  BY <1>3, DropInv DEF BadCommand, Refuse, Drop
<1>4. ASSUME NEW c \in Clients, PeerGone(c) PROVE IInv'
  BY <1>4, DeleteInv DEF PeerGone
<1>5. ASSUME NEW c \in Clients, SocketGivesUp(c) PROVE IInv'
  BY <1>5, DropInv DEF SocketGivesUp
<1>6. ASSUME NEW c \in Clients, Pas(c) PROVE IInv'
  <2>1. /\ c \in live \ ghost /\ state[c] = "VERIFY"
        /\ entities' = Enter(c, entities) /\ state' = [state EXCEPT ![c] = "NORMAL"]
        /\ UNCHANGED <<live, ghost, closing, sid, cid, cids>>
    BY <1>6 DEF Pas, Hears, EnterNormal
  <2>2. IType' /\ Fresh' /\ OwnCids' /\ CidIndexExact'
    BY <2>1 DEF IInv, IType, Fresh, OwnCids, CidIndexExact, Enter
  <2>3. EntitiesLive'
    BY <2>1 DEF IInv, IType, EntitiesLive, Enter, HubAssumption
  <2> QED
    BY <2>2, <2>3 DEF IInv
<1>7. ASSUME NEW b \in Bots, NEW s \in Sids, NEW n \in BotNicks, RegBot(b, s, n) PROVE IInv'
  <2>1. /\ b \in Entities \ live /\ b \notin ghost /\ cid[b] = None
        /\ live' = live \union {b}
        /\ sid' = [sid EXCEPT ![b] = s] /\ cid' = [cid EXCEPT ![b] = BotCid[b]]
        /\ state' = [state EXCEPT ![b] = "NORMAL"]
        /\ entities' = [entities EXCEPT ![s] = b]
        /\ UNCHANGED <<ghost, closing>>
    BY <1>7 DEF RegBot, IInv, IType, Fresh
  <2>2. BotCid[b] \in Cids /\ None \notin Cids \union Entities
    BY DEF HubAssumption
  <2>3. cids[BotCid[b]] = None
    <3>1. \A e \in Entities : cid[e] # BotCid[b]
      BY <2>1, <2>2 DEF IInv, OwnCids, BotCidAssumption
    <3> QED
      BY <2>2, <3>1 DEF IInv, IType, CidIndexExact
  <2>4. cids' = [cids EXCEPT ![BotCid[b]] = b]
    BY <1>7, <2>3 DEF RegBot
  <2>5. IType' /\ Fresh'
    BY <2>1, <2>2, <2>4 DEF IInv, IType, Fresh
  <2>6. OwnCids'
    BY <2>1 DEF IInv, IType, OwnCids, HubAssumption
  <2>7. EntitiesLive'
    BY <2>1, <2>2 DEF IInv, IType, EntitiesLive
  <2>8. CidIndexExact'
    BY <2>1, <2>2, <2>3, <2>4 DEF IInv, IType, CidIndexExact
  <2> QED
    BY <2>5, <2>6, <2>7, <2>8 DEF IInv
<1>8. ASSUME NEW e \in Entities, RunFailJob(e) PROVE IInv'
  BY <1>8, DeleteInv DEF RunFailJob
<1>9. ASSUME NEW e \in Entities, Kick(e) PROVE IInv'
  BY <1>9, DropInv DEF Kick, Drop
<1>10. ASSUME NEW c \in Clients, NEW m \in InfsOf(c), Inf(c, m) PROVE IInv'
  <2>1. m \in FirstInfs \union LaterInfs /\ m \in InfTypes /\ c \in Entities
    BY DEF InfsOf, HubAssumption
  <2>2. CASE InfRefused(c, m)
    BY <2>2, DropInv DEF InfRefused, Refuse, Drop
  <2>3. CASE InfNickRefused(c, m)
    BY <2>1, <2>3, RefusedInv DEF InfNickRefused
  <2>4. CASE InfDescriptionRefused(c, m)
    BY <2>1, <2>4, RefusedInv DEF InfDescriptionRefused
  <2>5. CASE InfHubBusy(c, m)
    BY <2>1, <2>5, RefusedInv DEF InfHubBusy, Verified
  <2>6. CASE InfLogin(c, m)
    <3>1. /\ Verifies(c, m) /\ Verify(c, m, Victims(m), NicksClaimed(c, m))
          /\ entities' = Enter(c, EntitiesWithout(Victims(m)))
          /\ state' = [state EXCEPT ![c] = "NORMAL"]
      BY <2>6 DEF InfLogin, Verified, EnterNormal
    <3>2. live' = live /\ sid' = sid /\ ghost' = ghost \union Victims(m)
          /\ closing \subseteq closing'
      BY <3>1 DEF Verify, Drop
    <3>3. IType' /\ OwnCids' /\ CidIndexExact'
      BY <2>1, <3>1, <3>2, TakeOver, VictimsLeave DEF IInv, IType, Enter
    <3>4. Fresh'
      BY <2>1, <3>1, <3>2, TakeOver DEF IInv, IType, Fresh
    <3>5. EntitiesLive'
      <4>1. c \in live' \ ghost' /\ c # None /\ c \notin Victims(m)
        BY <2>1, <3>1, <3>2, TakeOver DEF HubAssumption
      <4> QED
        BY <2>1, <3>1, <3>2, <4>1, VictimsLeave DEF IInv, IType, EntitiesLive, Enter
    <3> QED
      BY <3>3, <3>4, <3>5 DEF IInv
  <2>7. CASE \E to \in SUBSET Occupied : InfUpdate(c, m, to)
    <3>1. /\ Verifies(c, m) /\ Verify(c, m, {}, NicksClaimed(c, m)) /\ state[c] = "NORMAL"
          /\ UNCHANGED <<state, entities>>
      BY <2>7 DEF InfUpdate, Verified
    <3>2. /\ Victims(m) = {} /\ cid' = cid /\ IType' /\ OwnCids' /\ CidIndexExact'
          /\ live' = live /\ ghost' = ghost /\ sid' = sid /\ closing' = closing
      BY <2>1, <3>1, TakeOver, ZenonT(60) DEF Verify, Drop, IInv, IType
    <3>3. Fresh' /\ EntitiesLive'
      BY <3>1, <3>2 DEF IInv, Fresh, EntitiesLive
    <3> QED
      BY <3>2, <3>3 DEF IInv
  <2>8. CASE InfRegistered(c, m)
    <3>1. /\ Verifies(c, m) /\ Verify(c, m, Victims(m), NicksClaimed(c, m))
          /\ entities' = EntitiesWithout(Victims(m))
          /\ state[c] # "NORMAL" /\ state' = [state EXCEPT ![c] = "VERIFY"]
      BY <2>8 DEF InfRegistered, Verified
    <3>2. live' = live /\ sid' = sid /\ ghost' = ghost \union Victims(m)
          /\ closing \subseteq closing'
      BY <3>1 DEF Verify, Drop
    <3>3. IType' /\ OwnCids' /\ CidIndexExact'
      BY <2>1, <3>1, <3>2, TakeOver, VictimsLeave DEF IInv, IType
    <3>4. Fresh'
      BY <2>1, <3>1, <3>2, TakeOver DEF IInv, IType, Fresh
    <3>5. EntitiesLive'
      BY <2>1, <3>1, <3>2, VictimsLeave DEF IInv, IType, EntitiesLive, HubAssumption
    <3> QED
      BY <3>3, <3>4, <3>5 DEF IInv
  <2> QED
    BY <1>10, <2>2, <2>3, <2>4, <2>5, <2>6, <2>7, <2>8 DEF Inf
<1>11. CASE UNCHANGED vars
  BY <1>11, DropInv DEF vars
<1> QED
  BY <1>1, <1>2, <1>3, <1>4, <1>5, <1>6, <1>7, <1>8, <1>9, <1>10, <1>11 DEF Next

(* The invariant holds of every behaviour of the hub.                        *)
THEOREM IInvAlways == Spec => []IInv
<1>1. HubAssumption /\ BotCidAssumption
  BY HubAssumption, BotCidAssumption
<1> QED
  BY <1>1, IInvInit, IInvNext, PTL DEF Spec

(* No entry of the map of entities is a dangling pointer or names an entity  *)
(* that is not logged in, whatever SIDs makeSID draws twice.                 *)
THEOREM EntitiesAlwaysLive == Spec => []EntitiesLive
<1>1. IInv => EntitiesLive
  BY DEF IInv
<1> QED
  BY <1>1, IInvAlways, PTL

(* The CID index names exactly those who have identified themselves, through *)
(* every takeover, refusal, registration and removal.                        *)
THEOREM CidIndexAlwaysExact == Spec => []CidIndexExact
<1>1. IInv => CidIndexExact
  BY DEF IInv
<1> QED
  BY <1>1, IInvAlways, PTL

-------------------------------------------------------------------------------
(* The rest of what the hub keeps: the flags of an entity, the nicks, the    *)
(* list of logins and what clients have been told.                           *)

(* Who ought to be in the list of logins.                                    *)
Waiting == {c \in Present \intersect Clients : state[c] # "NORMAL"}

(* l lists, once, clients that wait, and all of them that are not in C.      *)
Lists(l, W, C) ==
  /\ l \in Seq(Clients)
  /\ Distinct(l)
  /\ ToSet(l) \subseteq W
  /\ W \ C \subseteq ToSet(l)

(* Removal goes one way: a ghost is being disconnected, what disconnects has *)
(* a job that deletes it, and only what exists has one.                      *)
Flags == ghost \subseteq closing /\ closing \subseteq failing /\ failing \subseteq live

(* An address that is free holds nothing of its last user, and an entity has *)
(* one of the SIDs that are drawn for it.                                    *)
Objects ==
  \A e \in Entities : IF e \in live THEN sid[e] \in Draws[e]
                      ELSE state[e] = "PROTOCOL" /\ nick[e] = NoNick

Told == [Clients -> [Sids -> AnyNick \union {None}]]

NickTypes ==
  /\ nick \in [Entities -> AnyNick]
  /\ nicks \in [AnyNick -> Entities \union {None}]
  /\ view \in Told

KInv == Flags /\ Objects /\ NickTypes /\ Lists(logins, Waiting, closing)

LEMMA KInvInit == HubAssumption /\ Init => KInv
<1> SUFFICES ASSUME HubAssumption, Init PROVE KInv
  OBVIOUS
<1>1. Flags /\ Objects /\ NickTypes
  BY DEF HubAssumption, Init, Flags, Objects, NickTypes, Told, Offline, AnyNick
<1>2. Lists(logins, Waiting, closing)
  <2>1. <<>> \in Seq(Clients) /\ ToSet(<<>>) = {} /\ Distinct(<<>>)
    BY DEF ToSet, Distinct
  <2> QED
    BY <2>1 DEF Init, Waiting, Lists
<1> QED
  BY <1>1, <1>2 DEF KInv

(* Those who leave the list are those who wait no longer.                    *)
LEMMA ListsWithout ==
  ASSUME NEW W, NEW C, NEW E, NEW l, Lists(l, W, C)
  PROVE  Lists(Select(l, Clients \ E), W \ E, C)
<1> DEFINE q == Select(l, Clients \ E)
<1>1. l \in Seq(Clients)
  BY DEF Lists
<1>2. q \in Seq(Clients) /\ ToSet(q) = ToSet(l) \intersect (Clients \ E)
  BY <1>1, SelectSound
<1>3. Distinct(q)
  BY <1>1, SelectDistinct DEF Lists
<1>4. ToSet(l) \subseteq Clients
  BY <1>1 DEF ToSet
<1> HIDE DEF q
<1>5. Lists(q, W \ E, C)
  BY <1>2, <1>3, <1>4 DEF Lists
<1> QED
  BY <1>5 DEF q

LEMMA ListsMore ==
  ASSUME NEW W, NEW C, NEW D, NEW l, Lists(l, W, C), W \intersect C \subseteq D
  PROVE  Lists(l, W, D)
  BY DEF Lists

(* The k oldest are timed out, and the new client is the youngest.           *)
LEMMA ListsAccept ==
  ASSUME NEW W, NEW C, NEW l, Lists(l, W, C), NEW k \in 0..Len(l), NEW c \in Clients \ W
  PROVE  Lists(Append(SubSeq(l, k + 1, Len(l)), c), W \union {c}, C \union {l[i] : i \in 1..k})
<1> DEFINE q == SubSeq(l, k + 1, Len(l))
           n == Len(l)
<1>1. l \in Seq(Clients)
  BY DEF Lists
<1>2. n \in Nat /\ DOMAIN l = 1..n /\ k \in Nat /\ k <= n
  BY <1>1
<1>3. q \in Seq(Clients) /\ Len(q) = n - k
  <2>1. k + 1 \in Int /\ n \in Int /\ \A i \in (k + 1)..n : l[i] \in Clients
    BY <1>1, <1>2
  <2>2. q \in Seq(Clients) /\ Len(q) = IF k + 1 <= n THEN n - (k + 1) + 1 ELSE 0
    BY <2>1, SubSeqProperties
  <2> HIDE DEF q, n
  <2> QED
    BY <1>2, <2>2
<1>4. \A i \in 1..(n - k) : q[i] = l[i + k]
  BY <1>1, <1>2
<1>5. q \in Seq(Clients)
  BY <1>3
<1> HIDE DEF q
<1>6. DOMAIN q = 1..(n - k)
  BY <1>3
<1> HIDE DEF n
<1>7. \A i \in 1..(n - k) : i + k \in 1..n
  BY <1>2
<1>8. \A i \in 1..n : i \in 1..k \/ (i - k \in 1..(n - k) /\ (i - k) + k = i)
  BY <1>2
<1>9. ToSet(q) \subseteq ToSet(l) /\ ToSet(l) \subseteq ToSet(q) \union {l[i] : i \in 1..k}
  <2>1. ToSet(q) = {q[i] : i \in 1..(n - k)} /\ ToSet(l) = {l[i] : i \in 1..n}
    BY <1>2, <1>6 DEF ToSet
  <2>2. \A x : x \in ToSet(q) => x \in ToSet(l)
    BY <1>4, <1>7, <2>1
  <2>3. ASSUME NEW i \in 1..n PROVE l[i] \in ToSet(q) \union {l[j] : j \in 1..k}
    <3>1. CASE i \in 1..k
      BY <3>1
    <3>2. CASE i - k \in 1..(n - k) /\ (i - k) + k = i
      <4>1. q[i - k] = l[(i - k) + k]
        BY <1>4, <3>2
      <4> QED
        BY <2>1, <3>2, <4>1
    <3> QED
      BY <1>8, <3>1, <3>2
  <2> QED
    BY <2>1, <2>2, <2>3
<1>10. Distinct(q)
  <2>1. \A i, j \in 1..(n - k) : i + k = j + k => i = j
    BY <1>2
  <2>2. \A i, j \in 1..n : l[i] = l[j] => i = j
    BY DEF n, Lists, Distinct
  <2> QED
    BY <1>3, <1>4, <1>7, <2>1, <2>2 DEF Distinct
<1>11. /\ Append(q, c) \in Seq(Clients) /\ ToSet(Append(q, c)) = ToSet(q) \union {c}
       /\ Distinct(Append(q, c)) = (Distinct(q) /\ c \notin ToSet(q))
  BY <1>5, ElementsAppend, AppendDistinct
<1>12. Lists(Append(q, c), W \union {c}, C \union {l[i] : i \in 1..k})
  BY <1>9, <1>10, <1>11 DEF Lists
<1> QED
  BY <1>12 DEF q, n

(* What a broadcast leaves is still a nick or nothing for each SID.          *)
LEMMA TellType ==
  ASSUME NEW to, NEW quits, NEW s, NEW n \in AnyNick \union {None}, view \in Told,
         Tell(to, quits, s, n)
  PROVE  view' \in Told
<1>1. Offline \in [Sids -> AnyNick \union {None}]
  BY DEF Offline
<1>2. \A c \in Clients :
        [t \in Sids |-> IF t = s THEN n ELSE IF t \in quits THEN None ELSE view[c][t]]
          \in [Sids -> AnyNick \union {None}]
  BY DEF Told
<1> QED
  BY <1>1, <1>2 DEF Tell, Told

LEMMA EnterType ==
  ASSUME NEW c \in Clients, NEW to \in [Sids -> Entities \union {None}], NEW quits, NEW n \in AnyNick,
         nick \in [Entities -> AnyNick], view \in Told, EnterNormal(c, to, quits, n)
  PROVE  view' \in Told
<1> DEFINE List == [t \in Sids |-> IF t = sid[c] THEN n ELSE IF to[t] = None THEN None ELSE nick[to[t]]]
           Heard(d) == [t \in Sids |-> IF t = sid[c] THEN n ELSE IF t \in quits THEN None ELSE view[d][t]]
<1>1. Offline \in [Sids -> AnyNick \union {None}]
  BY DEF Offline
<1>2. List \in [Sids -> AnyNick \union {None}]
  OBVIOUS
<1>3. \A d \in Clients : Heard(d) \in [Sids -> AnyNick \union {None}] /\ view[d] \in [Sids -> AnyNick \union {None}]
  BY DEF Told
<1>4. view' = [d \in Clients |->
        IF d \notin live' \/ d \in failing' THEN Offline
        ELSE IF d = c THEN List ELSE IF \E t \in Sids : to[t] = d THEN Heard(d) ELSE view[d]]
  BY DEF EnterNormal
<1> HIDE DEF List, Heard
<1> QED
  BY <1>1, <1>2, <1>3, <1>4 DEF Told

(* A handler that only disconnects.                                          *)
LEMMA DropK ==
  ASSUME KInv, closing \subseteq closing', closing' \subseteq failing', failing' \subseteq live,
         view' \in Told, UNCHANGED <<live, state, ghost, sid, nick, nicks, logins>>
  PROVE  KInv'
<1>1. Waiting' = Waiting
  BY DEF Waiting
<1>2. Lists(logins, Waiting, closing')
  BY ListsMore DEF KInv
<1>3. Lists(logins, Waiting, closing)'
  BY <1>1, <1>2 DEF Lists, Distinct
<1> QED
  BY <1>3 DEF KInv, Flags, Objects, NickTypes

LEMMA RefuseK ==
  ASSUME KInv, NEW c \in live \intersect Clients, Refuse(c)
  PROVE  KInv'
<1>1. /\ closing' = closing \union {c} /\ failing' = failing \union {c}
      /\ view' = [view EXCEPT ![c] = Offline]
      /\ UNCHANGED <<live, state, ghost, sid, nick, nicks, logins>>
  BY DEF Refuse, Drop
<1>2. view' \in Told
  BY <1>1 DEF KInv, NickTypes, Told, Offline
<1> QED
  BY <1>1, <1>2, DropK DEF KInv, Flags

(* The entity is gone, from the list too unless it left that as a ghost.     *)
LEMMA DeleteK ==
  ASSUME HubAssumption, IInv, KInv, NEW e \in live, Delete(e)
  PROVE  KInv'
<1> DEFINE removed == {e} \ ghost
<1>0. e \in Entities
  BY DEF IInv, IType
<1>1. /\ live' = live \ {e} /\ ghost' = ghost \ {e}
      /\ closing' = closing \ {e} /\ failing' = failing \ {e}
      /\ nicks' = NicksWithout(removed) /\ logins' = LoginsWithout(removed)
      /\ state' = [state EXCEPT ![e] = "PROTOCOL"]
      /\ sid' = [sid EXCEPT ![e] = None]
      /\ nick' = [nick EXCEPT ![e] = NoNick]
      /\ Tell(entities', Quits(removed), None, None)
  BY DEF Delete
<1>2. Flags'
  BY <1>1 DEF KInv, Flags
<1>3. Objects'
  BY <1>0, <1>1 DEF KInv, Objects, IInv, IType, NickTypes
<1>4. NickTypes'
  <2>1. view' \in Told
    BY <1>1, TellType DEF KInv, NickTypes
  <2>2. nick' \in [Entities -> AnyNick] /\ nicks' \in [AnyNick -> Entities \union {None}]
    BY <1>1 DEF KInv, NickTypes, AnyNick, NicksWithout
  <2> QED
    BY <2>1, <2>2 DEF NickTypes
<1>5. Waiting' = Waiting \ removed
  BY <1>0, <1>1 DEF Waiting, IInv, IType
<1>6. Lists(Select(logins, Clients \ removed), Waiting \ removed, closing)
  BY ListsWithout DEF KInv
<1>7. (Waiting \ removed) \intersect closing \subseteq closing'
  BY <1>1, <1>5 DEF Waiting
<1>8. Lists(Select(logins, Clients \ removed), Waiting \ removed, closing')
  BY <1>6, <1>7, ListsMore
<1>9. Lists(logins, Waiting, closing)'
  BY <1>1, <1>5, <1>8 DEF LoginsWithout, Lists, Distinct
<1> QED
  BY <1>2, <1>3, <1>4, <1>9 DEF KInv

LEMMA AcceptK ==
  ASSUME HubAssumption, IInv, KInv,
         NEW c \in Clients, NEW s \in Sids, NEW k \in 0..Len(logins), Accept(c, s, k)
  PROVE  KInv'
<1> DEFINE late == {logins[i] : i \in 1..k}
<1>1. /\ c \notin live /\ s \in Draws[c] /\ live' = live \union {c}
      /\ sid' = [sid EXCEPT ![c] = s]
      /\ closing' = closing \union late /\ failing' = failing \union late
      /\ logins' = Append(SubSeq(logins, k + 1, Len(logins)), c)
      /\ UNCHANGED <<state, ghost, nick, nicks, view>>
  BY DEF Accept, Drop, FreeSids
<1>2. state[c] = "PROTOCOL" /\ c \in Entities /\ c \notin ghost
  BY <1>1 DEF KInv, Objects, IInv, IType
<1>3. late \subseteq live
  <2>1. logins \in Seq(Clients) /\ ToSet(logins) \subseteq live
    BY DEF KInv, Lists, Waiting
  <2>2. \A i \in 1..k : i \in DOMAIN logins
    BY <2>1
  <2> QED
    BY <2>1, <2>2 DEF ToSet
<1>4. Flags' /\ Objects' /\ NickTypes'
  BY <1>1, <1>2, <1>3 DEF KInv, Flags, Objects, NickTypes, IInv, IType
<1>5. Waiting' = Waiting \union {c} /\ c \notin Waiting
  BY <1>1, <1>2 DEF Waiting
<1>6. Lists(Append(SubSeq(logins, k + 1, Len(logins)), c), Waiting \union {c}, closing \union late)
  BY <1>5, ListsAccept DEF KInv
<1>7. Lists(logins, Waiting, closing)'
  BY <1>1, <1>5, <1>6 DEF Lists, Distinct
<1> QED
  BY <1>4, <1>7 DEF KInv

(* Those who lose their CID to the claimant are there, and are others.       *)
LEMMA VictimsThere ==
  ASSUME HubAssumption, BotCidAssumption, IInv, NEW c \in Clients,
         NEW m \in FirstInfs \union LaterInfs, NEW E, NEW newNicks,
         Verifies(c, m), Verify(c, m, E, newNicks)
  PROVE  /\ Victims(m) \subseteq Present \intersect Entities
         /\ c \in Present /\ c \notin Victims(m) /\ c \in Entities
         /\ ghost' = ghost \union Victims(m) /\ live' = live /\ sid' = sid
         /\ state[c] # "IDENTIFY" => Victims(m) = {}
         /\ m \in InfTypes
<1>1. /\ c \in live \ ghost /\ c \in Entities /\ m \in InfTypes
      /\ ghost' = ghost \union Victims(m) /\ live' = live /\ sid' = sid
  BY DEF Verifies, Hears, Verify, HubAssumption
<1>2. c \notin ghost' /\ (state[c] # "IDENTIFY" => Victims(m) = {})
  BY TakeOver
<1>3. Victims(m) \subseteq Present \intersect Entities
  <2>1. CASE m.cid = None
    BY <2>1 DEF Victims
  <2>2. CASE m.cid # None
    <3>1. m.cid \in Cids
      BY <1>1, <2>2
    <3>2. cids[m.cid] \in Entities \union {None}
      BY <3>1 DEF IInv, IType
    <3>3. ASSUME NEW v \in Victims(m) PROVE v \in Present \intersect Entities
      <4>1. v \in Entities /\ cids[m.cid] = v
        BY <2>2, <3>2, <3>3 DEF Victims
      <4> QED
        BY <3>1, <4>1 DEF IInv, CidIndexExact
    <3> QED
      BY <3>3
  <2> QED
    BY <2>1, <2>2
<1> QED
  BY <1>1, <1>2, <1>3

(* What an INF that is verified does to the rest of the state, when those    *)
(* who leave the list of logins are those who wait no longer.                *)
LEMMA InfK ==
  ASSUME HubAssumption, BotCidAssumption, IInv, KInv, NEW c \in Clients,
         NEW m \in FirstInfs \union LaterInfs, NEW E, NEW newNicks, NEW L,
         Verifies(c, m), Verify(c, m, E, newNicks),
         Victims(m) \subseteq E, E \subseteq Victims(m) \union {c},
         newNicks \in {NicksFreed(c, m), NicksClaimed(c, m)},
         nick' \in {nick, [nick EXCEPT ![c] = NickOf(c, m)]},
         \A e \in Entities \ {c} : state'[e] = state[e],
         view' \in Told,
         logins' = Select(logins, Clients \ L), Waiting' = Waiting \ L
  PROVE  KInv'
<1>1. /\ Victims(m) \subseteq live /\ c \in live /\ c \in Entities /\ m \in InfTypes
      /\ ghost' = ghost \union Victims(m) /\ live' = live /\ sid' = sid
  BY VictimsThere
<1>2. /\ closing' = closing \union E /\ failing' = failing \union E /\ nicks' = newNicks
  BY DEF Verify, Drop
<1>3. Flags'
  BY <1>1, <1>2 DEF KInv, Flags
<1>4. NickOf(c, m) \in AnyNick
  BY <1>1 DEF NickOf, KInv, NickTypes
<1>5. nick' \in [Entities -> AnyNick] /\ \A e \in Entities \ {c} : nick'[e] = nick[e]
  BY <1>1, <1>4 DEF KInv, NickTypes
<1>6. nicks' \in [AnyNick -> Entities \union {None}]
  <2>1. NicksFreed(c, m) \in [AnyNick -> Entities \union {None}]
    BY DEF NicksFreed, NicksWithout, KInv, NickTypes
  <2>2. NicksClaimed(c, m) \in [AnyNick -> Entities \union {None}]
    BY <1>1, <2>1 DEF NicksClaimed
  <2> QED
    BY <1>2, <2>1, <2>2
<1>7. Objects'
  BY <1>1, <1>5 DEF KInv, Objects
<1>8. Lists(Select(logins, Clients \ L), Waiting \ L, closing)
  BY ListsWithout DEF KInv
<1>9. Lists(Select(logins, Clients \ L), Waiting \ L, closing')
  BY <1>2, <1>8, ListsMore
<1>10. Lists(logins, Waiting, closing)'
  BY <1>9 DEF Lists, Distinct
<1> QED
  BY <1>3, <1>5, <1>6, <1>7, <1>10 DEF KInv, NickTypes

(* Who waits after the victims have gone.                                    *)
LEMMA WaitingLeft ==
  ASSUME HubAssumption, IInv, NEW c \in Clients, NEW V, ghost' = ghost \union V, live' = live
  PROVE  /\ state' = state => Waiting' = Waiting \ V
         /\ state' = [state EXCEPT ![c] = "VERIFY"] /\ state[c] # "NORMAL" => Waiting' = Waiting \ V
         /\ state' = [state EXCEPT ![c] = "NORMAL"] => Waiting' = Waiting \ (V \union {c})
<1>1. c \in Entities /\ \A d \in Clients : d \in Entities
  OBVIOUS
<1>2. state' = state => Waiting' = Waiting \ V
  BY DEF Waiting
<1>3. ASSUME NEW v \in {"VERIFY", "NORMAL"}, state' = [state EXCEPT ![c] = v]
      PROVE  state'[c] = v /\ \A d \in Clients \ {c} : state'[d] = state[d]
  BY <1>1, <1>3 DEF IInv, IType
<1>4. state' = [state EXCEPT ![c] = "VERIFY"] /\ state[c] # "NORMAL" => Waiting' = Waiting \ V
  BY <1>3 DEF Waiting
<1>5. state' = [state EXCEPT ![c] = "NORMAL"] => Waiting' = Waiting \ (V \union {c})
  BY <1>3 DEF Waiting
<1> QED
  BY <1>2, <1>4, <1>5

LEMMA InfNextK ==
  ASSUME HubAssumption, BotCidAssumption, IInv, KInv, NEW c \in Clients,
         NEW m \in FirstInfs \union LaterInfs, Inf(c, m)
  PROVE  KInv'
<1> USE DEF LoginsWithout
<1>1. CASE InfRefused(c, m)
  BY <1>1, RefuseK DEF InfRefused, Hears
<1>2. CASE InfNickRefused(c, m)
  <2>1. /\ Verifies(c, m) /\ Verify(c, m, Victims(m) \union {c}, NicksFreed(c, m))
        /\ logins' = Select(logins, Clients \ Victims(m)) /\ state' = state /\ nick' = nick
        /\ Tell(entities', Quits(Victims(m)), None, None)
    BY <1>2 DEF InfNickRefused
  <2>2. view' \in Told
    BY <2>1, TellType DEF KInv, NickTypes
  <2>3. Waiting' = Waiting \ Victims(m)
    BY <2>1, VictimsThere, WaitingLeft
  <2>4. nick' \in {nick, [nick EXCEPT ![c] = NickOf(c, m)]} /\ \A e \in Entities \ {c} : state'[e] = state[e]
    BY <2>1
  <2>5. Verifies(c, m) /\ Verify(c, m, Victims(m) \union {c}, NicksFreed(c, m))
    BY <2>1
  <2>6. logins' = Select(logins, Clients \ Victims(m))
    BY <2>1
  <2>7. NicksFreed(c, m) \in {NicksFreed(c, m), NicksClaimed(c, m)}
    OBVIOUS
  <2>8. Victims(m) \subseteq Victims(m) \union {c} /\ Victims(m) \union {c} \subseteq Victims(m) \union {c}
    OBVIOUS
  <2> QED
    BY <2>2, <2>3, <2>4, <2>5, <2>6, <2>7, <2>8, InfK
<1>3. CASE InfDescriptionRefused(c, m)
  <2>1. /\ Verifies(c, m) /\ Verify(c, m, Victims(m) \union {c}, NicksClaimed(c, m))
        /\ logins' = Select(logins, Clients \ Victims(m)) /\ state' = state /\ nick' = nick
        /\ Tell(entities', Quits(Victims(m)), None, None)
    BY <1>3 DEF InfDescriptionRefused
  <2>2. view' \in Told
    BY <2>1, TellType DEF KInv, NickTypes
  <2>3. Waiting' = Waiting \ Victims(m)
    BY <2>1, VictimsThere, WaitingLeft
  <2>4. nick' \in {nick, [nick EXCEPT ![c] = NickOf(c, m)]} /\ \A e \in Entities \ {c} : state'[e] = state[e]
    BY <2>1
  <2>5. Verifies(c, m) /\ Verify(c, m, Victims(m) \union {c}, NicksClaimed(c, m))
    BY <2>1
  <2>6. logins' = Select(logins, Clients \ Victims(m))
    BY <2>1
  <2>7. NicksClaimed(c, m) \in {NicksFreed(c, m), NicksClaimed(c, m)}
    OBVIOUS
  <2>8. Victims(m) \subseteq Victims(m) \union {c} /\ Victims(m) \union {c} \subseteq Victims(m) \union {c}
    OBVIOUS
  <2> QED
    BY <2>2, <2>3, <2>4, <2>5, <2>6, <2>7, <2>8, InfK
<1>4. CASE InfHubBusy(c, m)
  <2>1. /\ Verifies(c, m) /\ Verify(c, m, Victims(m) \union {c}, NicksClaimed(c, m))
        /\ logins' = Select(logins, Clients \ Victims(m)) /\ state' = state
        /\ nick' = [nick EXCEPT ![c] = NickOf(c, m)]
        /\ Tell(entities', Quits(Victims(m)), None, None)
    BY <1>4 DEF InfHubBusy, Verified
  <2>2. view' \in Told
    BY <2>1, TellType DEF KInv, NickTypes
  <2>3. Waiting' = Waiting \ Victims(m)
    BY <2>1, VictimsThere, WaitingLeft
  <2>4. nick' \in {nick, [nick EXCEPT ![c] = NickOf(c, m)]} /\ \A e \in Entities \ {c} : state'[e] = state[e]
    BY <2>1
  <2>5. Verifies(c, m) /\ Verify(c, m, Victims(m) \union {c}, NicksClaimed(c, m))
    BY <2>1
  <2>6. logins' = Select(logins, Clients \ Victims(m))
    BY <2>1
  <2>7. NicksClaimed(c, m) \in {NicksFreed(c, m), NicksClaimed(c, m)}
    OBVIOUS
  <2>8. Victims(m) \subseteq Victims(m) \union {c} /\ Victims(m) \union {c} \subseteq Victims(m) \union {c}
    OBVIOUS
  <2> QED
    BY <2>2, <2>3, <2>4, <2>5, <2>6, <2>7, <2>8, InfK
<1>5. CASE InfLogin(c, m)
  <2> DEFINE V == Victims(m)
             L == V \union {c}
  <2>1. /\ Verifies(c, m) /\ Verify(c, m, V, NicksClaimed(c, m))
        /\ logins' = Select(logins, Clients \ L)
        /\ nick' = [nick EXCEPT ![c] = NickOf(c, m)]
        /\ state' = [state EXCEPT ![c] = "NORMAL"]
        /\ EnterNormal(c, EntitiesWithout(V), Quits(V), nick'[c])
    BY <1>5 DEF InfLogin, Verified, EnterNormal
  <2>2. /\ c \in Entities /\ m \in InfTypes
        /\ ghost' = ghost \union V /\ live' = live
    BY <2>1, VictimsThere
  <2>3. nick'[c] \in AnyNick
    BY <2>1, <2>2 DEF NickOf, KInv, NickTypes
  <2>4. EntitiesWithout(V) \in [Sids -> Entities \union {None}]
    BY DEF EntitiesWithout, IInv, IType
  <2>5. view' \in Told
    BY <2>1, <2>3, <2>4, EnterType DEF KInv, NickTypes
  <2>6. Waiting' = Waiting \ L
    BY <2>1, <2>2, WaitingLeft
  <2>7. \A e \in Entities \ {c} : state'[e] = state[e]
    BY <2>1 DEF IInv, IType
  <2> HIDE DEF L
  <2> QED
    BY <2>1, <2>5, <2>6, <2>7, InfK
<1>6. CASE \E to \in SUBSET Occupied : InfUpdate(c, m, to)
  <2>1. /\ Verifies(c, m) /\ Verify(c, m, {}, NicksClaimed(c, m))
        /\ logins' = logins /\ state' = state /\ state[c] = "NORMAL"
        /\ nick' = [nick EXCEPT ![c] = NickOf(c, m)]
        /\ \E to : Tell(to, {}, IF m.nick = None THEN None ELSE sid[c], nick'[c])
    BY <1>6 DEF InfUpdate, Verified
  <2>2. /\ Victims(m) = {} /\ c \in Entities /\ m \in InfTypes
        /\ ghost' = ghost \union Victims(m) /\ live' = live
    BY <2>1, VictimsThere
  <2>3. nick'[c] \in AnyNick
    BY <2>1, <2>2 DEF NickOf, KInv, NickTypes
  <2>4. view' \in Told
    BY <2>1, <2>3, TellType DEF KInv, NickTypes
  <2>5. Waiting' = Waiting \ {}
    BY <2>1, <2>2, WaitingLeft
  <2>6. logins \in Seq(Clients) /\ ToSet(logins) \subseteq Clients \ {}
    BY DEF KInv, Lists, Waiting
  <2>7. logins' = Select(logins, Clients \ {})
    BY <2>1, <2>6, SelectAllOrNone
  <2> QED
    BY <2>1, <2>2, <2>4, <2>5, <2>7, InfK
<1>7. CASE InfRegistered(c, m)
  <2>1. /\ Verifies(c, m) /\ Verify(c, m, Victims(m), NicksClaimed(c, m))
        /\ logins' = Select(logins, Clients \ Victims(m))
        /\ state' = [state EXCEPT ![c] = "VERIFY"] /\ state[c] # "NORMAL"
        /\ nick' = [nick EXCEPT ![c] = NickOf(c, m)]
        /\ Tell(entities', Quits(Victims(m)), None, None)
    BY <1>7 DEF InfRegistered, Verified
  <2>2. view' \in Told
    BY <2>1, TellType DEF KInv, NickTypes
  <2>3. Waiting' = Waiting \ Victims(m)
    BY <2>1, VictimsThere, WaitingLeft
  <2>4. \A e \in Entities \ {c} : state'[e] = state[e]
    BY <2>1 DEF IInv, IType
  <2> QED
    BY <2>1, <2>2, <2>3, <2>4, InfK
<1> QED
  BY <1>1, <1>2, <1>3, <1>4, <1>5, <1>6, <1>7 DEF Inf

LEMMA KInvNext == HubAssumption /\ BotCidAssumption /\ IInv /\ KInv /\ [Next]_vars => KInv'
<1> SUFFICES ASSUME HubAssumption, BotCidAssumption, IInv, KInv, [Next]_vars PROVE KInv'
  OBVIOUS
<1>1. ASSUME NEW c \in Clients, NEW s \in Sids, NEW k \in 0..Len(logins), Accept(c, s, k)
      PROVE  KInv'
  BY <1>1, AcceptK
<1>2. ASSUME NEW c \in Clients, NEW ok \in BOOLEAN, Sup(c, ok) PROVE KInv'
  <2>1. CASE Refuse(c)
    BY <1>2, <2>1, RefuseK DEF Sup, Hears
  <2>2. CASE ~Refuse(c)
    <3>1. /\ state' = [state EXCEPT ![c] = IF @ = "PROTOCOL" THEN "IDENTIFY" ELSE @]
          /\ c \in live
          /\ UNCHANGED <<live, ghost, closing, failing, sid, nick, nicks, logins, view>>
      BY <1>2, <2>2 DEF Sup, Hears
    <3>2. \A d \in Entities : (state'[d] = "NORMAL" <=> state[d] = "NORMAL") /\ (d # c => state'[d] = state[d])
      BY <3>1 DEF IInv, IType
    <3>3. Waiting' = Waiting
      BY <3>1, <3>2 DEF Waiting
    <3>4. Objects'
      BY <3>1, <3>2 DEF KInv, Objects
    <3>5. Lists(logins, Waiting, closing)'
      BY <3>1, <3>3 DEF KInv, Lists, Distinct
    <3> QED
      BY <3>1, <3>4, <3>5 DEF KInv, Flags, NickTypes
  <2> QED
    BY <2>1, <2>2
<1>3. ASSUME NEW c \in Clients, BadCommand(c) PROVE KInv'
  BY <1>3, RefuseK DEF BadCommand, Hears
<1>4. ASSUME NEW c \in Clients, PeerGone(c) PROVE KInv'
  BY <1>4, DeleteK DEF PeerGone
<1>5. ASSUME NEW c \in Clients, SocketGivesUp(c) PROVE KInv'
  <2>1. view' \in Told
    BY <1>5 DEF SocketGivesUp, KInv, NickTypes, Told, Offline
  <2> QED
    BY <1>5, <2>1, DropK DEF SocketGivesUp, KInv, Flags
<1>6. ASSUME NEW c \in Clients, Pas(c) PROVE KInv'
  <2>1. /\ c \in live /\ state' = [state EXCEPT ![c] = "NORMAL"]
        /\ logins' = Select(logins, Clients \ {c})
        /\ EnterNormal(c, entities, {}, nick[c])
        /\ UNCHANGED <<live, ghost, closing, failing, sid, nick, nicks>>
    BY <1>6 DEF Pas, Hears, EnterNormal, LoginsWithout
  <2>2. view' \in Told
    BY <2>1, EnterType DEF IInv, IType, KInv, NickTypes
  <2>3. Waiting' = Waiting \ {c}
    <3>1. state'[c] = "NORMAL" /\ \A d \in Clients \ {c} : state'[d] = state[d]
      BY <2>1 DEF IInv, IType
    <3> QED
      BY <2>1, <3>1 DEF Waiting
  <2>4. Lists(Select(logins, Clients \ {c}), Waiting \ {c}, closing)
    BY ListsWithout DEF KInv
  <2>5. Lists(logins, Waiting, closing)'
    BY <2>1, <2>3, <2>4 DEF Lists, Distinct
  <2>6. Objects'
    BY <2>1 DEF KInv, Objects, IInv, IType
  <2> QED
    BY <2>1, <2>2, <2>5, <2>6 DEF KInv, Flags, NickTypes
<1>7. ASSUME NEW b \in Bots, NEW s \in Sids, NEW n \in BotNicks, RegBot(b, s, n) PROVE KInv'
  <2>1. /\ b \notin live /\ s \in Draws[b] /\ live' = live \union {b}
        /\ sid' = [sid EXCEPT ![b] = s] /\ nick' = [nick EXCEPT ![b] = n]
        /\ state' = [state EXCEPT ![b] = "NORMAL"]
        /\ nicks' = IF nicks[n] = None THEN [nicks EXCEPT ![n] = b] ELSE nicks
        /\ UNCHANGED <<ghost, closing, failing, logins>>
        /\ Tell(entities, {}, s, n)
    BY <1>7 DEF RegBot, FreeSids
  <2>2. n \in AnyNick /\ b \in Entities
    BY DEF HubAssumption
  <2>3. NickTypes'
    <3>1. view' \in Told
      BY <2>1, <2>2, TellType DEF KInv, NickTypes
    <3> QED
      BY <2>1, <2>2, <3>1 DEF KInv, NickTypes
  <2>4. Flags' /\ Objects'
    BY <2>1, <2>2 DEF KInv, Flags, Objects, IInv, IType, NickTypes
  <2>5. Waiting' = Waiting
    BY <2>1, <2>2 DEF Waiting, HubAssumption, IInv, IType
  <2>6. Lists(logins, Waiting, closing)'
    BY <2>1, <2>5 DEF KInv, Lists, Distinct
  <2> QED
    BY <2>3, <2>4, <2>6 DEF KInv
<1>8. ASSUME NEW e \in Entities, RunFailJob(e) PROVE KInv'
  BY <1>8, DeleteK DEF RunFailJob, KInv, Flags
<1>9. ASSUME NEW e \in Entities, Kick(e) PROVE KInv'
  <2>1. view' \in Told
    BY <1>9 DEF Kick, KInv, NickTypes, Told, Offline
  <2> QED
    BY <1>9, <2>1, DropK DEF Kick, Drop, KInv, Flags
<1>10. ASSUME NEW c \in Clients, NEW m \in InfsOf(c), Inf(c, m) PROVE KInv'
  BY <1>10, InfNextK DEF InfsOf
<1>11. CASE UNCHANGED vars
  BY <1>11, DropK DEF vars, KInv, Flags, NickTypes
<1> QED
  BY <1>1, <1>2, <1>3, <1>4, <1>5, <1>6, <1>7, <1>8, <1>9, <1>10, <1>11 DEF Next

LEMMA KInvAlways == Spec => []KInv
<1>1. HubAssumption /\ BotCidAssumption
  BY HubAssumption, BotCidAssumption
<1>2. Init => KInv
  BY <1>1, KInvInit
<1>3. IInv /\ KInv /\ [Next]_vars => KInv'
  BY <1>1, KInvNext
<1> QED
  BY <1>2, <1>3, IInvAlways, PTL DEF Spec

(* Only what exists has an unannounced nick.                                 *)
LEMMA UnannouncedLive == Spec => [](unannounced \subseteq live)
<1>1. Init => unannounced \subseteq live
  BY DEF Init
<1>2. unannounced \subseteq live /\ [Next]_vars => (unannounced \subseteq live)'
  <2> SUFFICES ASSUME unannounced \subseteq live, [Next]_vars PROVE unannounced' \subseteq live'
    OBVIOUS
  <2>1. ASSUME NEW e \in Entities, Delete(e) PROVE unannounced' \subseteq live'
    BY <2>1 DEF Delete
  <2>2. ASSUME NEW c \in Clients, NEW m \in InfsOf(c), Inf(c, m) PROVE unannounced' \subseteq live'
    <3>1. CASE \E to \in SUBSET Occupied : InfUpdate(c, m, to)
      BY <3>1 DEF InfUpdate, Verified, Verifies, Hears, Verify
    <3>2. CASE ~\E to \in SUBSET Occupied : InfUpdate(c, m, to)
      BY <2>2, <3>2 DEF Inf, InfRefused, Refuse, InfNickRefused, InfDescriptionRefused, InfHubBusy,
                        InfLogin, InfRegistered, Verify
    <3> QED
      BY <3>1, <3>2
  <2>3. ASSUME NEW c \in Clients, NEW s \in Sids, NEW k \in 0..Len(logins), Accept(c, s, k)
        PROVE  unannounced' \subseteq live'
    BY <2>3 DEF Accept
  <2>4. ASSUME NEW c \in Clients, NEW ok \in BOOLEAN,
               Sup(c, ok) \/ Pas(c) \/ BadCommand(c) \/ SocketGivesUp(c)
        PROVE  unannounced' \subseteq live'
    BY <2>4 DEF Sup, Pas, BadCommand, SocketGivesUp, Refuse
  <2>5. ASSUME NEW b \in Bots, NEW s \in Sids, NEW n \in BotNicks, RegBot(b, s, n)
        PROVE  unannounced' \subseteq live'
    BY <2>5 DEF RegBot
  <2>6. ASSUME NEW e \in Entities, RunFailJob(e) \/ Kick(e) PROVE unannounced' \subseteq live'
    BY <2>1, <2>6 DEF RunFailJob, Kick
  <2>7. ASSUME NEW c \in Clients, PeerGone(c) PROVE unannounced' \subseteq live'
    BY <2>1, <2>7 DEF PeerGone
  <2>8. CASE UNCHANGED vars
    BY <2>8 DEF vars
  <2> QED
    BY <2>2, <2>3, <2>4, <2>5, <2>6, <2>7, <2>8 DEF Next
<1> QED
  BY <1>1, <1>2, PTL DEF Spec

(* Every variable of the hub stays in its type, and what is being removed    *)
(* goes its way in order: a ghost is disconnecting, whoever disconnects has  *)
(* a job that deletes it, and only what exists has one.                      *)
THEOREM TypeCorrect == Spec => []TypeOK
<1>1. IInv /\ KInv /\ unannounced \subseteq live => TypeOK
  BY DEF IInv, KInv, IType, Flags, NickTypes, Lists, TypeOK, Told
<1> QED
  BY <1>1, IInvAlways, KInvAlways, UnannouncedLive, PTL

(* The list of the login timeout holds every client that has not logged in,  *)
(* once, and nobody else.                                                    *)
THEOREM LoginsAlwaysExact == Spec => []LoginsExact
<1>1. KInv => LoginsExact
  <2> SUFFICES ASSUME KInv PROVE LoginsExact
    OBVIOUS
  <2>1. Range(logins) = ToSet(logins)
    BY DEF Range, ToSet
  <2> QED
    BY <2>1 DEF KInv, Lists, LoginsExact, Waiting, Distinct
<1> QED
  BY <1>1, KInvAlways, PTL

-------------------------------------------------------------------------------
(* What holds when no two entities draw the same SID.                        *)
DrawsApart == \A d, e \in Entities : d # e => Draws[d] \intersect Draws[e] = {}

LEMMA OwnSid ==
  ASSUME HubAssumption, DrawsApart, IInv, KInv
  PROVE  \A d, e \in live : /\ d \in Entities /\ sid[d] \in Sids
                            /\ sid[d] = sid[e] => d = e
<1>1. live \subseteq Entities /\ \A e \in live : sid[e] \in Draws[e]
  BY DEF IInv, IType, KInv, Objects
<1> QED
  BY <1>1 DEF DrawsApart, HubAssumption

(* Taking others out of the map leaves an entity in its place.               *)
LEMMA StillFiled ==
  ASSUME HubAssumption, DrawsApart, IInv, KInv, EntitiesExact, NEW V \in SUBSET live,
         NEW d \in Present \ V, state[d] = "NORMAL"
  PROVE  sid[d] \in Sids /\ EntitiesWithout(V)[sid[d]] = d
<1>1. sid[d] \in Sids /\ entities[sid[d]] = d /\ \A v \in V : sid[v] # sid[d]
  BY OwnSid DEF EntitiesExact
<1> QED
  BY <1>1 DEF EntitiesWithout

(* The place of a client that logs in is free.                               *)
LEMMA PlaceFree ==
  ASSUME HubAssumption, DrawsApart, IInv, KInv, NEW V \in SUBSET live,
         NEW c \in live, state[c] # "NORMAL"
  PROVE  /\ sid[c] \in Sids /\ EntitiesWithout(V)[sid[c]] = None
         /\ Enter(c, EntitiesWithout(V)) = [EntitiesWithout(V) EXCEPT ![sid[c]] = c]
<1>1. sid[c] \in Sids
  BY OwnSid
<1>2. entities[sid[c]] = None
  <2> SUFFICES ASSUME entities[sid[c]] # None PROVE FALSE
    OBVIOUS
  <2> DEFINE d == entities[sid[c]]
  <2>1. d \in live /\ state[d] = "NORMAL" /\ sid[d] = sid[c]
    BY <1>1 DEF IInv, EntitiesLive
  <2> QED
    BY <2>1, OwnSid
<1>3. EntitiesWithout(V)[sid[c]] = None
  BY <1>1, <1>2 DEF EntitiesWithout
<1> QED
  BY <1>1, <1>3 DEF Enter

LEMMA ExactLeave ==
  ASSUME HubAssumption, DrawsApart, IInv, KInv, EntitiesExact, NEW V \in SUBSET live,
         Present' \subseteq Present \ V, entities' = EntitiesWithout(V),
         \A d \in Present' : sid'[d] = sid[d] /\ (state'[d] = "NORMAL" => state[d] = "NORMAL")
  PROVE  EntitiesExact'
<1>1. ASSUME NEW d \in Present', state'[d] = "NORMAL" PROVE entities'[sid'[d]] = d
  BY <1>1, StillFiled
<1> QED
  BY <1>1 DEF EntitiesExact

LEMMA ExactEnter ==
  ASSUME HubAssumption, DrawsApart, IInv, KInv, EntitiesExact, NEW V \in SUBSET live, NEW c \in live,
         Present' \subseteq Present \ V, entities' = Enter(c, EntitiesWithout(V)),
         state[c] # "NORMAL", state' = [state EXCEPT ![c] = "NORMAL"], sid' = sid
  PROVE  EntitiesExact'
<1>1. ASSUME NEW d \in Present', state'[d] = "NORMAL" PROVE entities'[sid'[d]] = d
  <2>1. entities' = [EntitiesWithout(V) EXCEPT ![sid[c]] = c] /\ sid[c] \in Sids
    BY PlaceFree
  <2>2. EntitiesWithout(V) = [s \in Sids |-> EntitiesWithout(V)[s]]
    BY DEF EntitiesWithout
  <2>3. CASE d = c
    BY <2>1, <2>2, <2>3
  <2>4. CASE d # c
    <3>1. d \in Present \ V /\ state[d] = "NORMAL"
      BY <1>1, <2>4 DEF IInv, IType
    <3>2. sid[d] \in Sids /\ EntitiesWithout(V)[sid[d]] = d
      BY <3>1, StillFiled
    <3>3. sid[d] # sid[c]
      BY <2>4, <3>1, OwnSid
    <3> QED
      BY <2>1, <2>2, <3>2, <3>3
  <2> QED
    BY <2>3, <2>4
<1> QED
  BY <1>1 DEF EntitiesExact

(* Nothing that the map of entities depends on changes.                      *)
LEMMA ExactSame ==
  ASSUME EntitiesExact, Present' \subseteq Present, UNCHANGED <<sid, entities>>,
         \A d \in Present' : state'[d] = "NORMAL" => state[d] = "NORMAL"
  PROVE  EntitiesExact'
  BY DEF EntitiesExact

LEMMA NothingLeaves == ASSUME IInv PROVE EntitiesWithout({}) = entities
  BY DEF IInv, IType, EntitiesWithout

LEMMA ExactNext ==
  HubAssumption /\ BotCidAssumption /\ DrawsApart /\ IInv /\ KInv /\ EntitiesExact /\ [Next]_vars
    => EntitiesExact'
<1> SUFFICES ASSUME HubAssumption, BotCidAssumption, DrawsApart, IInv, KInv, EntitiesExact, [Next]_vars
             PROVE  EntitiesExact'
  OBVIOUS
<1>0. ASSUME NEW c \in Clients, Refuse(c) PROVE EntitiesExact'
  BY <1>0, ExactSame DEF Refuse
<1>1. ASSUME NEW c \in Clients, NEW s \in Sids, NEW k \in 0..Len(logins), Accept(c, s, k)
      PROVE  EntitiesExact'
  <2>1. /\ c \notin live /\ live' = live \union {c} /\ sid' = [sid EXCEPT ![c] = s]
        /\ UNCHANGED <<state, ghost, entities>>
    BY <1>1 DEF Accept
  <2>2. state[c] = "PROTOCOL" /\ \A d \in live : d # c /\ sid'[d] = sid[d]
    BY <2>1 DEF KInv, Objects, IInv, IType
  <2> QED
    BY <2>1, <2>2 DEF EntitiesExact
<1>2. ASSUME NEW c \in Clients, NEW ok \in BOOLEAN, Sup(c, ok) PROVE EntitiesExact'
  <2>1. CASE ~Refuse(c)
    <3>1. /\ state' = [state EXCEPT ![c] = IF @ = "PROTOCOL" THEN "IDENTIFY" ELSE @]
          /\ UNCHANGED <<live, ghost, sid, entities>>
      BY <1>2, <2>1 DEF Sup
    <3>2. \A d \in live : state'[d] = "NORMAL" => state[d] = "NORMAL"
      BY <3>1 DEF IInv, IType
    <3> QED
      BY <3>1, <3>2, ExactSame
  <2> QED
    BY <1>0, <2>1
<1>3. ASSUME NEW c \in Clients, BadCommand(c) PROVE EntitiesExact'
  BY <1>0, <1>3 DEF BadCommand
<1>4. ASSUME NEW e \in live, Delete(e) PROVE EntitiesExact'
  <2> DEFINE V == {e} \ ghost
  <2>1. /\ live' = live \ {e} /\ ghost' = ghost \ {e} /\ entities' = EntitiesWithout(V)
        /\ state' = [state EXCEPT ![e] = "PROTOCOL"] /\ sid' = [sid EXCEPT ![e] = None]
    BY <1>4 DEF Delete
  <2>2. V \in SUBSET live /\ Present' \subseteq Present \ V
    BY <2>1
  <2>3. \A d \in Present' : sid'[d] = sid[d] /\ state'[d] = state[d]
    BY <2>1 DEF IInv, IType
  <2> HIDE DEF V
  <2> QED
    BY <2>1, <2>2, <2>3, ExactLeave
<1>5. ASSUME NEW c \in Clients, SocketGivesUp(c) PROVE EntitiesExact'
  BY <1>5, ExactSame DEF SocketGivesUp
<1>6. ASSUME NEW c \in Clients, Pas(c) PROVE EntitiesExact'
  <2>1. /\ c \in live /\ state[c] # "NORMAL" /\ entities' = Enter(c, EntitiesWithout({}))
        /\ state' = [state EXCEPT ![c] = "NORMAL"]
        /\ UNCHANGED <<live, ghost, sid>>
    BY <1>6, NothingLeaves DEF Pas, Hears, EnterNormal
  <2>2. {} \in SUBSET live /\ Present' \subseteq Present \ {}
    BY <2>1
  <2> QED
    BY <2>1, <2>2, ExactEnter
<1>7. ASSUME NEW b \in Bots, NEW s \in Sids, NEW n \in BotNicks, RegBot(b, s, n) PROVE EntitiesExact'
  <2>1. /\ b \notin live /\ s \in Draws[b] /\ live' = live \union {b}
        /\ sid' = [sid EXCEPT ![b] = s] /\ state' = [state EXCEPT ![b] = "NORMAL"]
        /\ entities' = [entities EXCEPT ![s] = b] /\ ghost' = ghost
    BY <1>7 DEF RegBot, FreeSids
  <2>2. sid'[b] = s /\ entities'[s] = b
    BY <2>1 DEF IInv, IType
  <2>3. ASSUME NEW d \in Present, state'[d] = "NORMAL" PROVE entities'[sid'[d]] = d
    <3>1. d # b /\ d \in Entities /\ sid'[d] = sid[d] /\ state'[d] = state[d]
      BY <2>1 DEF IInv, IType
    <3>2. entities[sid[d]] = d /\ sid[d] \in Sids
      BY <2>3, <3>1, OwnSid DEF EntitiesExact
    <3>3. sid[d] # s
      BY <2>1, <3>1 DEF DrawsApart, KInv, Objects
    <3> QED
      BY <2>1, <3>1, <3>2, <3>3 DEF IInv, IType
  <2> QED
    BY <2>1, <2>2, <2>3 DEF EntitiesExact
<1>8. ASSUME NEW e \in Entities, Kick(e) PROVE EntitiesExact'
  BY <1>8, ExactSame DEF Kick
<1>9. ASSUME NEW c \in Clients, NEW m \in InfsOf(c), Inf(c, m) PROVE EntitiesExact'
  <2>0. m \in FirstInfs \union LaterInfs
    BY DEF InfsOf
  <2>1. ASSUME NEW E, NEW newNicks, Verifies(c, m), Verify(c, m, E, newNicks)
        PROVE  /\ Victims(m) \in SUBSET live /\ Present' \subseteq Present \ Victims(m)
               /\ c \in live /\ sid' = sid /\ (state[c] # "IDENTIFY" => Victims(m) = {})
    BY <2>0, <2>1, VictimsThere
  <2>2. CASE InfRefused(c, m)
    BY <1>0, <2>2 DEF InfRefused
  <2>3. CASE InfNickRefused(c, m) \/ InfDescriptionRefused(c, m) \/ InfHubBusy(c, m)
    <3>1. \E newNicks : Verifies(c, m) /\ Verify(c, m, Victims(m) \union {c}, newNicks)
      BY <2>3 DEF InfNickRefused, InfDescriptionRefused, InfHubBusy, Verified
    <3>2. state' = state /\ entities' = EntitiesWithout(Victims(m))
      BY <2>3 DEF InfNickRefused, InfDescriptionRefused, InfHubBusy
    <3> QED
      BY <2>1, <3>1, <3>2, ExactLeave
  <2>4. CASE InfLogin(c, m)
    <3>1. /\ Verifies(c, m) /\ Verify(c, m, Victims(m), NicksClaimed(c, m))
          /\ state[c] # "NORMAL" /\ state' = [state EXCEPT ![c] = "NORMAL"]
          /\ entities' = Enter(c, EntitiesWithout(Victims(m)))
      BY <2>4 DEF InfLogin, Verified, EnterNormal
    <3> QED
      BY <2>1, <3>1, ExactEnter
  <2>5. CASE \E to \in SUBSET Occupied : InfUpdate(c, m, to)
    <3>1. /\ Verifies(c, m) /\ Verify(c, m, {}, NicksClaimed(c, m))
          /\ state' = state /\ entities' = entities
      BY <2>5 DEF InfUpdate, Verified
    <3>2. sid' = sid /\ Present' \subseteq Present
      BY <2>1, <3>1
    <3> QED
      BY <3>1, <3>2, ExactSame
  <2>6. CASE InfRegistered(c, m)
    <3>1. /\ Verifies(c, m) /\ Verify(c, m, Victims(m), NicksClaimed(c, m))
          /\ state' = [state EXCEPT ![c] = "VERIFY"]
          /\ entities' = EntitiesWithout(Victims(m))
      BY <2>6 DEF InfRegistered, Verified
    <3>2. \A d \in live : state'[d] = "NORMAL" => state[d] = "NORMAL"
      BY <3>1 DEF IInv, IType
    <3> QED
      BY <2>1, <3>1, <3>2, ExactLeave
  <2> QED
    BY <1>9, <2>2, <2>3, <2>4, <2>5, <2>6 DEF Inf
<1>10. CASE UNCHANGED vars
  BY <1>10, ExactSame DEF vars
<1> QED
  <2>1. ASSUME NEW c \in Clients, PeerGone(c) PROVE EntitiesExact'
    BY <1>4, <2>1 DEF PeerGone
  <2>2. ASSUME NEW e \in Entities, RunFailJob(e) PROVE EntitiesExact'
    BY <1>4, <2>2 DEF RunFailJob, KInv, Flags
  <2> QED
    BY <1>1, <1>2, <1>3, <1>5, <1>6, <1>7, <1>8, <1>9, <1>10, <2>1, <2>2 DEF Next

-------------------------------------------------------------------------------
(* Whose view has to agree.                                                  *)
Watches(d) == d \in Present \ failing /\ state[d] = "NORMAL"

LEMMA ViewsAre ==
  ViewsAgree <=> \A d \in Clients : Watches(d) => \A s \in Sids : view[d][s] \in Shown(s)
  BY DEF ViewsAgree, Shown, Watches

(* Nobody begins to watch, and what is shown stays.                          *)
LEMMA AgreeSame ==
  ASSUME ViewsAgree,
         \A d \in Clients : Watches(d)' => Watches(d) /\ view'[d] = view[d],
         \A s \in Sids : Shown(s)' = Shown(s)
  PROVE  ViewsAgree'
<1>1. \A d \in Clients : Watches(d) => \A s \in Sids : view[d][s] \in Shown(s)
  BY ViewsAre
<1>2. ASSUME NEW d \in Clients, Watches(d)', NEW s \in Sids PROVE view'[d][s] \in Shown(s)'
  BY <1>1, <1>2
<1>3. ViewsAgree' <=> \A d \in Clients : Watches(d)' => \A s \in Sids : view'[d][s] \in Shown(s)'
  BY DEF ViewsAgree, Shown, Watches
<1> QED
  BY <1>2, <1>3

(* The nick that the hub has may always be shown.                            *)
LEMMA NickShown ==
  ASSUME IInv, KInv, NEW s \in Sids
  PROVE  /\ entities[s] = None => Shown(s) = {None}
         /\ entities[s] # None => nick[entities[s]] \in Shown(s) /\ Shown(s) \subseteq AnyNick
  BY DEF Shown, IInv, IType, KInv, NickTypes

(* Everyone who watches hears a broadcast that says what has changed.        *)
LEMMA AgreeTell ==
  ASSUME ViewsAgree, NEW to, NEW quits, NEW s, NEW n, Tell(to, quits, s, n),
         \A d \in Clients : Watches(d)' => Watches(d) /\ \E t \in Sids : to[t] = d,
         \A t \in Sids : IF t = s THEN n \in Shown(t)'
                         ELSE IF t \in quits THEN None \in Shown(t)' ELSE Shown(t) \subseteq Shown(t)'
  PROVE  ViewsAgree'
<1>1. \A d \in Clients : Watches(d) => \A t \in Sids : view[d][t] \in Shown(t)
  BY ViewsAre
<1>2. ASSUME NEW d \in Clients, Watches(d)', NEW t \in Sids PROVE view'[d][t] \in Shown(t)'
  <2>1. d \in live' /\ d \notin failing'
    BY <1>2 DEF Watches
  <2>2. view'[d] = [u \in Sids |-> IF u = s THEN n ELSE IF u \in quits THEN None ELSE view[d][u]]
    BY <1>2, <2>1 DEF Tell
  <2>3. view[d][t] \in Shown(t)
    BY <1>1, <1>2
  <2> QED
    BY <2>2, <2>3
<1>3. ViewsAgree' <=> \A d \in Clients : Watches(d)' => \A t \in Sids : view'[d][t] \in Shown(t)'
  BY DEF ViewsAgree, Shown, Watches
<1> QED
  BY <1>2, <1>3

(* What some hear and others do not may be shown, and so may what was before.*)
LEMMA AgreeTellSome ==
  ASSUME ViewsAgree, NEW to, NEW s, NEW n, Tell(to, {}, s, n),
         \A d \in Clients : Watches(d)' => Watches(d),
         \A t \in Sids : Shown(t) \subseteq Shown(t)' /\ (t = s => n \in Shown(t)')
  PROVE  ViewsAgree'
<1>1. \A d \in Clients : Watches(d) => \A t \in Sids : view[d][t] \in Shown(t)
  BY ViewsAre
<1>2. ASSUME NEW d \in Clients, Watches(d)', NEW t \in Sids PROVE view'[d][t] \in Shown(t)'
  <2>1. d \in live' /\ d \notin failing'
    BY <1>2 DEF Watches
  <2>2. \/ view'[d] = view[d]
        \/ view'[d] = [u \in Sids |-> IF u = s THEN n ELSE IF u \in {} THEN None ELSE view[d][u]]
    BY <2>1 DEF Tell
  <2>3. view[d][t] \in Shown(t)
    BY <1>1, <1>2
  <2> QED
    BY <2>2, <2>3
<1>3. ViewsAgree' <=> \A d \in Clients : Watches(d)' => \A t \in Sids : view'[d][t] \in Shown(t)'
  BY DEF ViewsAgree, Shown, Watches
<1> QED
  BY <1>2, <1>3

(* The same for the broadcast of a login, which gives c the whole list.      *)
LEMMA AgreeEnter ==
  ASSUME IInv, KInv, ViewsAgree, NEW c \in Clients, NEW to, NEW quits, NEW n, EnterNormal(c, to, quits, n),
         \A d \in Clients : Watches(d)' /\ d # c => Watches(d) /\ \E t \in Sids : to[t] = d,
         \A t \in Sids : to[t] = IF t \in quits THEN None ELSE entities[t],
         \A t \in Sids : IF t = sid[c] THEN n \in Shown(t)'
                         ELSE IF t \in quits THEN None \in Shown(t)' ELSE Shown(t) \subseteq Shown(t)'
  PROVE  ViewsAgree'
<1>1. \A d \in Clients : Watches(d) => \A t \in Sids : view[d][t] \in Shown(t)
  BY ViewsAre
<1>2. ASSUME NEW d \in Clients, Watches(d)', NEW t \in Sids PROVE view'[d][t] \in Shown(t)'
  <2>1. d \in live' /\ d \notin failing'
    BY <1>2 DEF Watches
  <2>2. CASE d = c
    <3>1. view'[c] = [u \in Sids |-> IF u = sid[c] THEN n
                                     ELSE IF to[u] = None THEN None ELSE nick[to[u]]]
      BY <2>1, <2>2 DEF EnterNormal
    <3>2. IF t \in quits THEN to[t] = None ELSE to[t] = entities[t]
      OBVIOUS
    <3>3. IF entities[t] = None THEN None \in Shown(t) ELSE nick[entities[t]] \in Shown(t)
      BY NickShown
    <3> QED
      BY <2>2, <3>1, <3>2, <3>3
  <2>3. CASE d # c
    <3>1. view'[d] = [u \in Sids |-> IF u = sid[c] THEN n ELSE IF u \in quits THEN None ELSE view[d][u]]
      BY <1>2, <2>1, <2>3 DEF EnterNormal
    <3>2. view[d][t] \in Shown(t)
      BY <1>1, <1>2, <2>3
    <3> QED
      BY <3>1, <3>2
  <2> QED
    BY <2>2, <2>3
<1>3. ViewsAgree' <=> \A d \in Clients : Watches(d)' => \A t \in Sids : view'[d][t] \in Shown(t)'
  BY DEF ViewsAgree, Shown, Watches
<1> QED
  BY <1>2, <1>3

(* Those who watch are in the map.                                           *)
LEMMA WatchersFiled ==
  ASSUME HubAssumption, DrawsApart, IInv, KInv, EntitiesExact, NEW d \in Clients, Watches(d)
  PROVE  sid[d] \in Sids /\ entities[sid[d]] = d
  BY OwnSid DEF EntitiesExact, Watches

(* The SIDs of those who are taken out of the map are those that quit.       *)
LEMMA QuitsAre ==
  ASSUME NEW V
  PROVE  \A s \in Sids : EntitiesWithout(V)[s] = IF s \in Quits(V) THEN None ELSE entities[s]
  BY DEF EntitiesWithout, Quits

(* A broadcast of departures: whoever is still in the map has its old nick.  *)
LEMMA AgreeLeave ==
  ASSUME HubAssumption, DrawsApart, IInv, KInv, EntitiesExact, ViewsAgree,
         NEW V \in SUBSET live,
         entities' = EntitiesWithout(V), Tell(entities', Quits(V), None, None),
         \A d \in Clients : Watches(d)' => Watches(d) /\ d \notin V,
         \A e \in Present : entities[sid[e]] = e /\ e \notin V =>
           nick'[e] = nick[e] /\ (e \in unannounced => e \in unannounced')
  PROVE  ViewsAgree'
<1>1. \A d \in Clients : Watches(d)' => Watches(d) /\ \E t \in Sids : entities'[t] = d
  <2> SUFFICES ASSUME NEW d \in Clients, Watches(d)' PROVE Watches(d) /\ \E t \in Sids : entities'[t] = d
    OBVIOUS
  <2>1. Watches(d) /\ d \in Present \ V /\ state[d] = "NORMAL"
    BY DEF Watches
  <2>2. sid[d] \in Sids /\ EntitiesWithout(V)[sid[d]] = d
    BY <2>1, StillFiled
  <2> QED
    BY <2>1, <2>2
<1>2. \A t \in Sids : IF t = None THEN None \in Shown(t)'
                      ELSE IF t \in Quits(V) THEN None \in Shown(t)' ELSE Shown(t) \subseteq Shown(t)'
  <2> SUFFICES ASSUME NEW t \in Sids
               PROVE  IF t \in Quits(V) THEN None \in Shown(t)' ELSE Shown(t) \subseteq Shown(t)'
    BY DEF HubAssumption
  <2>1. entities'[t] = IF t \in Quits(V) THEN None ELSE entities[t]
    BY QuitsAre
  <2>2. CASE t \in Quits(V) \/ entities[t] = None
    BY <2>1, <2>2 DEF Shown
  <2>3. CASE t \notin Quits(V) /\ entities[t] # None
    <3> DEFINE e == entities[t]
    <3>1. e \in Present /\ state[e] = "NORMAL" /\ sid[e] = t
      BY <2>3 DEF IInv, EntitiesLive
    <3>2. e \notin V
      BY <2>3, <3>1 DEF Quits
    <3>3. nick'[e] = nick[e] /\ (e \in unannounced => e \in unannounced')
      BY <3>1, <3>2
    <3>4. nick[e] \in AnyNick
      BY <3>1 DEF IInv, IType, KInv, NickTypes
    <3> QED
      BY <2>1, <2>3, <3>3, <3>4 DEF Shown
  <2> QED
    BY <2>2, <2>3
<1> QED
  BY <1>1, <1>2, AgreeTell

LEMMA AgreeInf ==
  ASSUME HubAssumption, BotCidAssumption, DrawsApart, IInv, KInv, EntitiesExact, ViewsAgree,
         NEW c \in Clients, NEW m \in FirstInfs \union LaterInfs, Inf(c, m), ~InfRefused(c, m)
  PROVE  ViewsAgree'
<1>0. ASSUME NEW E, NEW newNicks, Verifies(c, m), Verify(c, m, E, newNicks)
      PROVE  /\ Victims(m) \in SUBSET live /\ Present' \subseteq Present \ Victims(m)
             /\ c \in Present /\ c \in Entities /\ sid' = sid /\ failing \subseteq failing'
             /\ (state[c] # "IDENTIFY" => Victims(m) = {})
  BY <1>0, VictimsThere DEF Verify, Drop
<1>1. CASE InfNickRefused(c, m) \/ InfDescriptionRefused(c, m) \/ InfHubBusy(c, m) \/ InfRegistered(c, m)
  <2>1. \E E, newNicks : Verifies(c, m) /\ Verify(c, m, E, newNicks)
    BY <1>1 DEF InfNickRefused, InfDescriptionRefused, InfHubBusy, InfRegistered, Verified
  <2>2. /\ Victims(m) \in SUBSET live /\ Present' \subseteq Present \ Victims(m)
        /\ c \in Present /\ c \in Entities /\ sid' = sid /\ failing \subseteq failing'
    BY <1>0, <2>1
  <2>3. /\ entities' = EntitiesWithout(Victims(m))
        /\ Tell(entities', Quits(Victims(m)), None, None)
        /\ state' \in {state, [state EXCEPT ![c] = "VERIFY"]}
        /\ nick' = nick \/ (nick' = [nick EXCEPT ![c] = NickOf(c, m)] /\ state[c] # "NORMAL")
        /\ unannounced' = unannounced
    BY <1>1 DEF InfNickRefused, InfDescriptionRefused, InfHubBusy, InfRegistered
  <2>4. \A d \in Clients : Watches(d)' => Watches(d) /\ d \notin Victims(m)
    <3>1. \A d \in live : state'[d] = "NORMAL" => state[d] = "NORMAL"
      BY <2>3 DEF IInv, IType
    <3> QED
      BY <2>2, <3>1 DEF Watches
  <2>5. \A e \in Present : entities[sid[e]] = e /\ e \notin Victims(m) =>
          nick'[e] = nick[e] /\ (e \in unannounced => e \in unannounced')
    <3>1. entities[sid[c]] = c => state[c] = "NORMAL"
      <4>1. sid[c] \in Sids /\ c # None
        BY <2>2, OwnSid DEF HubAssumption
      <4> QED
        BY <4>1 DEF IInv, EntitiesLive
    <3>2. \A e \in Present : e \in Entities
      BY DEF IInv, IType
    <3> QED
      BY <2>3, <3>1, <3>2 DEF KInv, NickTypes
  <2> QED
    BY <2>2, <2>3, <2>4, <2>5, AgreeLeave
<1>2. CASE InfLogin(c, m)
  <2> DEFINE V == Victims(m)
  <2>1. /\ Verifies(c, m) /\ Verify(c, m, V, NicksClaimed(c, m))
        /\ state[c] = "IDENTIFY" /\ state' = [state EXCEPT ![c] = "NORMAL"]
        /\ nick' = [nick EXCEPT ![c] = NickOf(c, m)]
        /\ entities' = Enter(c, EntitiesWithout(V))
        /\ EnterNormal(c, EntitiesWithout(V), Quits(V), nick'[c]) /\ unannounced' = unannounced
    BY <1>2 DEF InfLogin, Verified, EnterNormal
  <2>2. /\ V \in SUBSET live /\ Present' \subseteq Present \ V
        /\ c \in Present /\ c \in Entities /\ sid' = sid /\ failing \subseteq failing'
    BY <1>0, <2>1
  <2>3. \A d \in Clients : Watches(d)' /\ d # c => Watches(d) /\ \E t \in Sids : EntitiesWithout(V)[t] = d
    <3> SUFFICES ASSUME NEW d \in Clients, Watches(d)', d # c
                 PROVE  Watches(d) /\ \E t \in Sids : EntitiesWithout(V)[t] = d
      OBVIOUS
    <3>1. d \in Present \ V /\ state[d] = "NORMAL" /\ Watches(d)
      BY <2>1, <2>2 DEF Watches, IInv, IType
    <3> QED
      BY <2>2, <3>1, StillFiled
  <2>4. \A t \in Sids : EntitiesWithout(V)[t] = IF t \in Quits(V) THEN None ELSE entities[t]
    BY QuitsAre
  <2>6. nick'[c] \in AnyNick
    <3>1. m \in InfTypes
      BY DEF HubAssumption
    <3> QED
      BY <2>1, <2>2, <3>1 DEF NickOf, KInv, NickTypes
  <2>5. \A t \in Sids : IF t = sid[c] THEN nick'[c] \in Shown(t)'
                        ELSE IF t \in Quits(V) THEN None \in Shown(t)' ELSE Shown(t) \subseteq Shown(t)'
    <3> SUFFICES ASSUME NEW t \in Sids
                 PROVE  IF t = sid[c] THEN nick'[c] \in Shown(t)'
                        ELSE IF t \in Quits(V) THEN None \in Shown(t)' ELSE Shown(t) \subseteq Shown(t)'
      OBVIOUS
    <3>1. sid[c] \in Sids /\ entities' = [EntitiesWithout(V) EXCEPT ![sid[c]] = c]
      BY <2>1, <2>2, PlaceFree
    <3>2. EntitiesWithout(V) = [u \in Sids |-> EntitiesWithout(V)[u]]
      BY DEF EntitiesWithout
    <3>3. CASE t = sid[c]
      <4>1. entities'[t] = c /\ c # None
        BY <2>2, <3>1, <3>2, <3>3 DEF HubAssumption
      <4> QED
        BY <2>6, <3>3, <4>1 DEF Shown
    <3>4. CASE t # sid[c]
      <4>1. entities'[t] = IF t \in Quits(V) THEN None ELSE entities[t]
        BY <2>4, <3>1, <3>2, <3>4
      <4>2. entities[t] # None => entities[t] # c /\ entities[t] \in Entities
        BY <3>4 DEF IInv, IType, EntitiesLive
      <4>3. entities[t] # None => nick'[entities[t]] = nick[entities[t]]
        BY <2>1, <4>2 DEF KInv, NickTypes
      <4> QED
        BY <2>1, <3>4, <4>1, <4>3 DEF Shown
    <3> QED
      BY <3>3, <3>4
  <2> HIDE DEF V
  <2> QED
    BY <2>1, <2>3, <2>4, <2>5, AgreeEnter
<1>3. CASE \E to \in SUBSET Occupied : InfUpdate(c, m, to)
  <2> DEFINE told == IF m.nick = None THEN None ELSE sid[c]
  <2>0. PICK to \in SUBSET Occupied : InfUpdate(c, m, to)
    BY <1>3
  <2>1. /\ Verifies(c, m) /\ Verify(c, m, {}, NicksClaimed(c, m))
        /\ state[c] = "NORMAL" /\ UNCHANGED <<state, entities>>
        /\ nick' = [nick EXCEPT ![c] = NickOf(c, m)]
        /\ Tell(Addressed(to), {}, told, nick'[c])
        /\ unannounced' = IF to = Occupied /\ m.nick # None THEN unannounced \ {c}
                          ELSE IF nick'[c] # nick[c] THEN unannounced \union {c}
                          ELSE unannounced
    BY <2>0 DEF InfUpdate, Verified
  <2>2. /\ Present' \subseteq Present /\ c \in Present /\ c \in Entities
        /\ sid' = sid /\ failing \subseteq failing'
    BY <1>0, <2>1
  <2>3. \A d \in Clients : Watches(d)' => Watches(d)
    BY <2>1, <2>2 DEF Watches
  <2>4. /\ nick'[c] = NickOf(c, m) /\ \A e \in Entities \ {c} : nick'[e] = nick[e]
        /\ nick'[c] \in AnyNick
    <3>1. m \in InfTypes
      BY DEF HubAssumption
    <3> QED
      BY <2>1, <2>2, <3>1 DEF NickOf, KInv, NickTypes
  <2>5. sid[c] \in Sids /\ entities[sid[c]] = c /\ c # None /\ None \notin Sids
    BY <2>1, <2>2, OwnSid DEF EntitiesExact, HubAssumption
  <2>6. \A t \in Sids \ {sid[c]} : Shown(t) \subseteq Shown(t)'
    <3> SUFFICES ASSUME NEW t \in Sids \ {sid[c]} PROVE Shown(t) \subseteq Shown(t)'
      OBVIOUS
    <3>1. entities[t] # None => entities[t] \in Entities \ {c}
      BY DEF IInv, IType, EntitiesLive
    <3>2. entities[t] # None => nick'[entities[t]] = nick[entities[t]]
                                /\ (entities[t] \in unannounced <=> entities[t] \in unannounced')
      BY <2>1, <2>4, <3>1
    <3> QED
      BY <2>1, <3>2 DEF Shown
  <2>7. \A t \in Sids : t = sid[c] => nick'[c] \in Shown(t)'
    BY <2>1, <2>2, <2>4, <2>5 DEF Shown
  <2>8. CASE to = Occupied /\ m.nick # None
    <3>1. Addressed(to) = entities
      BY <2>8 DEF Addressed, Occupied, IInv, IType
    <3>2. \A d \in Clients : Watches(d)' => Watches(d) /\ \E t \in Sids : entities[t] = d
      BY <2>3, WatchersFiled
    <3>3. Tell(entities, {}, sid[c], nick'[c])
      BY <2>1, <2>8, <3>1
    <3>4. \A t \in Sids : IF t = sid[c] THEN nick'[c] \in Shown(t)'
                          ELSE IF t \in {} THEN None \in Shown(t)' ELSE Shown(t) \subseteq Shown(t)'
      BY <2>6, <2>7
    <3> QED
      BY <3>2, <3>3, <3>4, AgreeTell
  <2>9. CASE ~(to = Occupied /\ m.nick # None)
    <3>1. \A t \in Sids : t = sid[c] => Shown(t) \subseteq Shown(t)'
      <4>1. \A t \in Sids : t = sid[c] => Shown(t) \subseteq AnyNick
        BY <2>5, NickShown
      <4>2. CASE nick'[c] # nick[c]
        BY <2>1, <2>2, <2>5, <2>9, <4>1, <4>2 DEF Shown
      <4>3. CASE nick'[c] = nick[c]
        BY <2>1, <2>2, <2>5, <2>9, <4>3 DEF Shown
      <4> QED
        BY <4>2, <4>3
    <3>2. \A t \in Sids : Shown(t) \subseteq Shown(t)' /\ (t = told => nick'[c] \in Shown(t)')
      BY <2>5, <2>6, <2>7, <3>1
    <3> HIDE DEF told
    <3> QED
      BY <2>1, <2>3, <3>2, AgreeTellSome
  <2> QED
    BY <2>8, <2>9
<1> QED
  BY <1>1, <1>2, <1>3 DEF Inf

LEMMA AgreeNext ==
  HubAssumption /\ BotCidAssumption /\ DrawsApart /\ IInv /\ KInv /\ EntitiesExact /\ ViewsAgree /\ [Next]_vars
    => ViewsAgree'
<1> SUFFICES ASSUME HubAssumption, BotCidAssumption, DrawsApart, IInv, KInv, EntitiesExact, ViewsAgree, [Next]_vars
             PROVE  ViewsAgree'
  OBVIOUS
<1>0. ASSUME NEW c \in Clients, Refuse(c) PROVE ViewsAgree'
  <2>1. \A d \in Clients : Watches(d)' => Watches(d) /\ view'[d] = view[d]
    BY <1>0 DEF Refuse, Drop, Watches, KInv, NickTypes, Told
  <2>2. \A s \in Sids : Shown(s)' = Shown(s)
    BY <1>0 DEF Refuse, Shown
  <2> QED
    BY <2>1, <2>2, AgreeSame
<1>1. ASSUME NEW c \in Clients, NEW s \in Sids, NEW k \in 0..Len(logins), Accept(c, s, k)
      PROVE  ViewsAgree'
  <2>1. /\ c \notin live /\ live' = live \union {c} /\ failing \subseteq failing'
        /\ UNCHANGED <<state, ghost, entities, nick, view, unannounced>>
    BY <1>1 DEF Accept, Drop
  <2>2. state[c] = "PROTOCOL"
    BY <2>1 DEF KInv, Objects
  <2>3. \A d \in Clients : Watches(d)' => Watches(d) /\ view'[d] = view[d]
    BY <2>1, <2>2 DEF Watches
  <2>4. \A t \in Sids : Shown(t)' = Shown(t)
    BY <2>1 DEF Shown
  <2> QED
    BY <2>3, <2>4, AgreeSame
<1>2. ASSUME NEW c \in Clients, NEW ok \in BOOLEAN, Sup(c, ok) PROVE ViewsAgree'
  <2>1. CASE ~Refuse(c)
    <3>1. /\ state' = [state EXCEPT ![c] = IF @ = "PROTOCOL" THEN "IDENTIFY" ELSE @]
          /\ UNCHANGED <<live, ghost, failing, entities, nick, view, unannounced>>
      BY <1>2, <2>1 DEF Sup
    <3>2. \A d \in live : state'[d] = "NORMAL" => state[d] = "NORMAL"
      BY <3>1 DEF IInv, IType
    <3>3. \A d \in Clients : Watches(d)' => Watches(d) /\ view'[d] = view[d]
      BY <3>1, <3>2 DEF Watches
    <3>4. \A t \in Sids : Shown(t)' = Shown(t)
      BY <3>1 DEF Shown
    <3> QED
      BY <3>3, <3>4, AgreeSame
  <2> QED
    BY <1>0, <2>1
<1>3. ASSUME NEW c \in Clients, BadCommand(c) PROVE ViewsAgree'
  BY <1>0, <1>3 DEF BadCommand
<1>4. ASSUME NEW e \in live, Delete(e) PROVE ViewsAgree'
  <2> DEFINE V == {e} \ ghost
  <2>1. /\ live' = live \ {e} /\ ghost' = ghost \ {e} /\ failing' = failing \ {e}
        /\ entities' = EntitiesWithout(V) /\ Tell(entities', Quits(V), None, None)
        /\ state' = [state EXCEPT ![e] = "PROTOCOL"] /\ nick' = [nick EXCEPT ![e] = NoNick]
        /\ unannounced' = unannounced \ {e}
    BY <1>4 DEF Delete
  <2>2. V \in SUBSET live
    OBVIOUS
  <2>3. \A d \in Clients : Watches(d)' => Watches(d) /\ d \notin V
    BY <2>1 DEF Watches, IInv, IType
  <2>4. \A d \in Present : entities[sid[d]] = d /\ d \notin V =>
          nick'[d] = nick[d] /\ (d \in unannounced => d \in unannounced')
    BY <2>1 DEF KInv, NickTypes, IInv, IType
  <2> HIDE DEF V
  <2> QED
    BY <2>1, <2>2, <2>3, <2>4, AgreeLeave
<1>5. ASSUME NEW c \in Clients, SocketGivesUp(c) PROVE ViewsAgree'
  <2>1. \A d \in Clients : Watches(d)' => Watches(d) /\ view'[d] = view[d]
    BY <1>5 DEF SocketGivesUp, Watches, KInv, NickTypes, Told
  <2>2. \A s \in Sids : Shown(s)' = Shown(s)
    BY <1>5 DEF SocketGivesUp, Shown
  <2> QED
    BY <2>1, <2>2, AgreeSame
<1>6. ASSUME NEW c \in Clients, Pas(c) PROVE ViewsAgree'
  <2>1. /\ c \in live /\ c \in Entities /\ state[c] # "NORMAL" /\ entities' = Enter(c, EntitiesWithout({}))
        /\ state' = [state EXCEPT ![c] = "NORMAL"] /\ EnterNormal(c, entities, {}, nick[c])
        /\ UNCHANGED <<live, ghost, failing, sid, nick, unannounced>>
    BY <1>6, NothingLeaves DEF Pas, Hears, EnterNormal
  <2>2. \A d \in Clients : Watches(d)' /\ d # c => Watches(d) /\ \E t \in Sids : entities[t] = d
    <3>1. \A d \in Clients : Watches(d)' /\ d # c => Watches(d)
      BY <2>1 DEF Watches, IInv, IType
    <3> QED
      BY <3>1, WatchersFiled
  <2>3. sid[c] \in Sids /\ entities' = [entities EXCEPT ![sid[c]] = c]
    <3>1. {} \in SUBSET live
      OBVIOUS
    <3> QED
      BY <2>1, <3>1, PlaceFree, NothingLeaves
  <2>4. \A t \in Sids : entities[t] = IF t \in {} THEN None ELSE entities[t]
    OBVIOUS
  <2>5. \A t \in Sids : IF t = sid[c] THEN nick[c] \in Shown(t)'
                        ELSE IF t \in {} THEN None \in Shown(t)' ELSE Shown(t) \subseteq Shown(t)'
    BY <2>1, <2>3 DEF Shown, IInv, IType, HubAssumption, KInv, NickTypes
  <2> QED
    BY <2>1, <2>2, <2>4, <2>5, AgreeEnter
<1>7. ASSUME NEW b \in Bots, NEW s \in Sids, NEW n \in BotNicks, RegBot(b, s, n) PROVE ViewsAgree'
  <2>1. /\ b \notin live /\ live' = live \union {b}
        /\ nick' = [nick EXCEPT ![b] = n] /\ state' = [state EXCEPT ![b] = "NORMAL"]
        /\ entities' = [entities EXCEPT ![s] = b] /\ UNCHANGED <<ghost, failing, unannounced>>
        /\ Tell(entities, {}, s, n)
    BY <1>7 DEF RegBot
  <2>2. b \in Entities /\ b \notin Clients /\ b # None /\ n \in AnyNick
    BY DEF HubAssumption
  <2>3. \A d \in Clients : Watches(d)' => Watches(d) /\ \E t \in Sids : entities[t] = d
    <3>1. \A d \in Clients : Watches(d)' => Watches(d)
      BY <2>1, <2>2 DEF Watches, IInv, IType
    <3> QED
      BY <3>1, WatchersFiled
  <2>4. \A t \in Sids : IF t = s THEN n \in Shown(t)'
                        ELSE IF t \in {} THEN None \in Shown(t)' ELSE Shown(t) \subseteq Shown(t)'
    <3>1. nick'[b] = n /\ \A d \in Entities \ {b} : nick'[d] = nick[d]
      BY <2>1, <2>2 DEF KInv, NickTypes
    <3>2. \A t \in Sids : entities'[t] = IF t = s THEN b ELSE entities[t]
      BY <2>1 DEF IInv, IType
    <3>3. \A t \in Sids : entities[t] # None => entities[t] \in Entities \ {b}
      BY <2>1 DEF IInv, IType, EntitiesLive
    <3> QED
      BY <2>1, <2>2, <3>1, <3>2, <3>3 DEF Shown
  <2> QED
    BY <2>1, <2>3, <2>4, AgreeTell
<1>8. ASSUME NEW e \in Entities, Kick(e) PROVE ViewsAgree'
  <2>1. \A d \in Clients : Watches(d)' => Watches(d) /\ view'[d] = view[d]
    BY <1>8 DEF Kick, Drop, Watches
  <2>2. \A s \in Sids : Shown(s)' = Shown(s)
    BY <1>8 DEF Kick, Shown
  <2> QED
    BY <2>1, <2>2, AgreeSame
<1>9. ASSUME NEW c \in Clients, NEW m \in InfsOf(c), Inf(c, m) PROVE ViewsAgree'
  <2>0. m \in FirstInfs \union LaterInfs
    BY DEF InfsOf
  <2>1. CASE InfRefused(c, m)
    BY <1>0, <2>1 DEF InfRefused
  <2> QED
    BY <1>9, <2>0, <2>1, AgreeInf
<1>10. CASE UNCHANGED vars
  <2>1. \A d \in Clients : Watches(d)' => Watches(d) /\ view'[d] = view[d]
    BY <1>10 DEF vars, Watches
  <2>2. \A s \in Sids : Shown(s)' = Shown(s)
    BY <1>10 DEF vars, Shown
  <2> QED
    BY <2>1, <2>2, AgreeSame
<1> QED
  <2>1. ASSUME NEW c \in Clients, PeerGone(c) PROVE ViewsAgree'
    BY <1>4, <2>1 DEF PeerGone
  <2>2. ASSUME NEW e \in Entities, RunFailJob(e) PROVE ViewsAgree'
    BY <1>4, <2>2 DEF RunFailJob, KInv, Flags
  <2> QED
    BY <1>1, <1>2, <1>3, <1>5, <1>6, <1>7, <1>8, <1>9, <1>10, <2>1, <2>2 DEF Next

LEMMA ExactAndAgree == DrawsApart /\ Spec => [](EntitiesExact /\ ViewsAgree)
<1> SUFFICES ASSUME DrawsApart PROVE Spec => [](EntitiesExact /\ ViewsAgree)
  OBVIOUS
<1>1. HubAssumption /\ BotCidAssumption
  BY HubAssumption, BotCidAssumption
<1>2. Init => EntitiesExact /\ ViewsAgree
  BY DEF Init, EntitiesExact, ViewsAgree
<1>3. IInv /\ KInv /\ (EntitiesExact /\ ViewsAgree) /\ [Next]_vars => (EntitiesExact /\ ViewsAgree)'
  BY <1>1, ExactNext, AgreeNext
<1> QED
  BY <1>2, <1>3, IInvAlways, KInvAlways, PTL DEF Spec

(* When no two entities draw the same SID, everyone who is logged in is in   *)
(* the map of entities, through every takeover, refusal and removal.         *)
THEOREM EntitiesAlwaysExact == DrawsApart => (Spec => []EntitiesExact)
<1> SUFFICES ASSUME DrawsApart PROVE Spec => []EntitiesExact
  OBVIOUS
<1>1. DrawsApart
  OBVIOUS
<1> QED
  BY <1>1, ExactAndAgree, PTL

(* And what clients have been told then agrees with the hub: the list that   *)
(* enterNormal sends, the INFs of any type and the QUIs that follow add up   *)
(* to who is there, under the nicks of those whose last one everyone heard.  *)
THEOREM ViewsAlwaysAgree == DrawsApart => (Spec => []ViewsAgree)
<1> SUFFICES ASSUME DrawsApart PROVE Spec => []ViewsAgree
  OBVIOUS
<1>1. DrawsApart
  OBVIOUS
<1> QED
  BY <1>1, ExactAndAgree, PTL

-------------------------------------------------------------------------------
(* What holds when a client gives its nick once and has no fault found in    *)
(* its INF after the nick was taken, and bots have no nicks: without this    *)
(* the index does lose entries, and two clients get the same nick.           *)
NicksGivenOnce ==
  /\ \A m \in LaterInfs : m.nick = None
  /\ \A m \in FirstInfs : m.nick = None \/ m.fault # "desc"
  /\ BotNicks \subseteq {NoNick}

LEMMA NicksInit == HubAssumption /\ Init => NickIndexExact
  BY DEF HubAssumption, Init, NickIndexExact, AnyNick

(* Taking others out of the index, and with them their nicks.                *)
LEMMA NicksLeave ==
  ASSUME HubAssumption, IInv, KInv, NickIndexExact, NEW V \in SUBSET Present,
         NEW n \in Nicks, NEW e \in Entities
  PROVE  NicksWithout(V)[n] = e <=> e \in Present \ V /\ nick[e] = n
<1>1. nicks[n] = e <=> e \in Present /\ nick[e] = n
  BY DEF NickIndexExact
<1>2. \A d \in Entities : nicks[n] = d <=> d \in Present /\ nick[d] = n
  BY DEF NickIndexExact
<1>3. n \in AnyNick /\ e # None /\ nicks[n] \in Entities \union {None}
  BY DEF AnyNick, HubAssumption, KInv, NickTypes
<1>4. NicksWithout(V)[n] = IF \E v \in V : nick[v] = n THEN None ELSE nicks[n]
  BY <1>3 DEF NicksWithout
<1>5. ASSUME NEW v \in V, nick[v] = n, v \in Entities PROVE nicks[n] = v
  BY <1>2, <1>5
<1> QED
  BY <1>1, <1>3, <1>4, <1>5 DEF IInv, IType

LEMMA NicksSame ==
  ASSUME NickIndexExact, UNCHANGED <<live, ghost, nick, nicks>>
  PROVE  NickIndexExact'
  BY DEF NickIndexExact

(* An INF that says nothing of the nick, or is refused.                      *)
LEMMA NicksKept ==
  ASSUME HubAssumption, IInv, KInv, NickIndexExact, NEW V \in SUBSET Present,
         nicks' = NicksWithout(V), nick' = nick, ghost' = ghost \union V, live' = live
  PROVE  NickIndexExact'
<1>1. ASSUME NEW n \in Nicks, NEW e \in Entities PROVE nicks'[n] = e <=> e \in Present' /\ nick'[e] = n
  <2>1. NicksWithout(V)[n] = e <=> e \in Present \ V /\ nick[e] = n
    BY NicksLeave
  <2> QED
    BY <2>1
<1> QED
  BY <1>1 DEF NickIndexExact

(* An INF with a nick that nobody has, of a client that has none.            *)
LEMMA NicksTaken ==
  ASSUME HubAssumption, IInv, KInv, NickIndexExact, NEW V \in SUBSET Present,
         NEW c \in Present \ V, c \in Entities, nick[c] = NoNick, NEW n \in AnyNick, NicksWithout(V)[n] = None,
         nicks' = [NicksWithout(V) EXCEPT ![n] = c], nick' = [nick EXCEPT ![c] = n],
         ghost' = ghost \union V, live' = live
  PROVE  NickIndexExact'
<1>1. ASSUME NEW x \in Nicks, NEW e \in Entities PROVE nicks'[x] = e <=> e \in Present' /\ nick'[e] = x
  <2>1. NicksWithout(V)[x] = e <=> e \in Present \ V /\ nick[e] = x
    BY NicksLeave
  <2>2. NicksWithout(V) = [y \in AnyNick |-> NicksWithout(V)[y]] /\ x \in AnyNick
    BY DEF NicksWithout, AnyNick
  <2>3. nicks'[x] = IF x = n THEN c ELSE NicksWithout(V)[x]
    BY <2>2
  <2>4. nick'[e] = IF e = c THEN n ELSE nick[e]
    BY DEF KInv, NickTypes
  <2>5. e # None /\ x # NoNick /\ (e \in Present' <=> e \in Present \ V)
    BY DEF HubAssumption
  <2> QED
    BY <2>1, <2>3, <2>4, <2>5
<1> QED
  BY <1>1 DEF NickIndexExact

LEMMA NicksInf ==
  ASSUME HubAssumption, BotCidAssumption, NicksGivenOnce, IInv, KInv, NickIndexExact,
         NEW c \in Clients, NEW m \in InfsOf(c), Inf(c, m)
  PROVE  NickIndexExact'
<1> DEFINE V == Victims(m)
<1>1. /\ m \in FirstInfs \union LaterInfs
      /\ m.nick = None \/ (nick[c] = NoNick /\ m.fault # "desc")
  BY DEF InfsOf, NicksGivenOnce
<1>2. ASSUME NEW E, NEW newNicks, Verifies(c, m), Verify(c, m, E, newNicks)
      PROVE  /\ V \in SUBSET Present /\ c \in Present \ V /\ c \in Entities /\ m \in InfTypes
             /\ ghost' = ghost \union V /\ live' = live /\ nicks' = newNicks
  BY <1>1, <1>2, VictimsThere DEF Verify
<1>3. NicksFreed(c, m) = NicksWithout(V)
  BY <1>1 DEF NicksFreed
<1>4. m.nick = None => NicksClaimed(c, m) = NicksWithout(V)
  BY <1>3 DEF NicksClaimed
<1>5. CASE InfRefused(c, m)
  BY <1>5, NicksSame DEF InfRefused, Refuse
<1>6. CASE InfNickRefused(c, m)
  <2>1. Verifies(c, m) /\ Verify(c, m, V \union {c}, NicksFreed(c, m)) /\ nick' = nick
    BY <1>6 DEF InfNickRefused
  <2> QED
    BY <1>2, <1>3, <2>1, NicksKept
<1>7. CASE InfDescriptionRefused(c, m)
  <2>1. /\ Verifies(c, m) /\ Verify(c, m, V \union {c}, NicksClaimed(c, m)) /\ nick' = nick
        /\ m.nick = None
    BY <1>1, <1>7 DEF InfDescriptionRefused
  <2> QED
    BY <1>2, <1>4, <2>1, NicksKept
<1>8. CASE \/ InfHubBusy(c, m) \/ InfLogin(c, m) \/ InfRegistered(c, m)
           \/ \E to \in SUBSET Occupied : InfUpdate(c, m, to)
  <2>1. \E E : Verifies(c, m) /\ Verify(c, m, E, NicksClaimed(c, m))
    BY <1>8 DEF InfHubBusy, InfLogin, InfUpdate, InfRegistered, Verified
  <2>2. nick' = [nick EXCEPT ![c] = NickOf(c, m)] /\ ~NickRefused(c, m)
    BY <1>8 DEF InfHubBusy, InfLogin, InfUpdate, InfRegistered, Verified
  <2>3. /\ V \in SUBSET Present /\ c \in Present \ V /\ c \in Entities /\ m \in InfTypes
        /\ ghost' = ghost \union V /\ live' = live /\ nicks' = NicksClaimed(c, m)
    BY <1>2, <2>1
  <2>4. CASE m.nick = None
    <3>1. nick' = nick
      BY <2>2, <2>3, <2>4 DEF NickOf, KInv, NickTypes
    <3> QED
      BY <1>4, <2>3, <2>4, <3>1, NicksKept
  <2>5. CASE m.nick # None
    <3>1. /\ nick[c] = NoNick /\ m.nick \in AnyNick /\ NicksWithout(V)[m.nick] = None
          /\ nicks' = [NicksWithout(V) EXCEPT ![m.nick] = c]
          /\ nick' = [nick EXCEPT ![c] = m.nick]
      BY <1>1, <1>3, <2>2, <2>3, <2>5 DEF NickRefused, NicksClaimed, NickOf
    <3> HIDE DEF V
    <3> QED
      BY <2>3, <3>1, NicksTaken
  <2> QED
    BY <2>4, <2>5
<1> QED
  BY <1>5, <1>6, <1>7, <1>8 DEF Inf

LEMMA NicksNext ==
  HubAssumption /\ BotCidAssumption /\ NicksGivenOnce /\ IInv /\ KInv /\ NickIndexExact /\ [Next]_vars
    => NickIndexExact'
<1> SUFFICES ASSUME HubAssumption, BotCidAssumption, NicksGivenOnce, IInv, KInv, NickIndexExact, [Next]_vars
             PROVE  NickIndexExact'
  OBVIOUS
<1>1. ASSUME NEW c \in Clients, NEW s \in Sids, NEW k \in 0..Len(logins), Accept(c, s, k)
      PROVE  NickIndexExact'
  <2>1. /\ c \notin live /\ live' = live \union {c} /\ UNCHANGED <<ghost, nick, nicks>>
    BY <1>1 DEF Accept
  <2>2. nick[c] = NoNick /\ NoNick \notin Nicks
    BY <2>1 DEF KInv, Objects, HubAssumption
  <2> QED
    BY <2>1, <2>2 DEF NickIndexExact
<1>2. ASSUME NEW e \in live, Delete(e) PROVE NickIndexExact'
  <2> DEFINE V == {e} \ ghost
  <2>1. /\ live' = live \ {e} /\ ghost' = ghost \ {e} /\ nicks' = NicksWithout(V)
        /\ nick' = [nick EXCEPT ![e] = NoNick]
    BY <1>2 DEF Delete
  <2>2. V \in SUBSET Present
    OBVIOUS
  <2>3. ASSUME NEW x \in Nicks, NEW d \in Entities PROVE nicks'[x] = d <=> d \in Present' /\ nick'[d] = x
    <3>1. NicksWithout(V)[x] = d <=> d \in Present \ V /\ nick[d] = x
      BY <2>2, NicksLeave
    <3>2. nick'[d] = IF d = e THEN NoNick ELSE nick[d]
      BY <2>1 DEF KInv, NickTypes
    <3>3. d \in Present' <=> d \in Present /\ d # e
      BY <2>1
    <3> QED
      BY <2>1, <3>1, <3>2, <3>3
  <2> QED
    BY <2>3 DEF NickIndexExact
<1>3. ASSUME NEW b \in Bots, NEW s \in Sids, NEW n \in BotNicks, RegBot(b, s, n) PROVE NickIndexExact'
  <2>1. /\ b \notin live /\ live' = live \union {b} /\ ghost' = ghost
        /\ nick' = [nick EXCEPT ![b] = n]
        /\ nicks' = IF nicks[n] = None THEN [nicks EXCEPT ![n] = b] ELSE nicks
    BY <1>3 DEF RegBot
  <2>2. n = NoNick /\ NoNick \notin Nicks
    BY DEF NicksGivenOnce, HubAssumption
  <2>3. nick[b] = NoNick /\ b \in Entities
    BY <2>1 DEF KInv, Objects
  <2>4. nick' = nick /\ \A x \in Nicks : nicks'[x] = nicks[x]
    BY <2>1, <2>2, <2>3 DEF KInv, NickTypes
  <2> QED
    BY <2>1, <2>2, <2>3, <2>4 DEF NickIndexExact
<1>4. ASSUME NEW c \in Clients, NEW ok \in BOOLEAN,
             Sup(c, ok) \/ BadCommand(c) \/ SocketGivesUp(c) \/ Pas(c)
      PROVE  NickIndexExact'
  <2>1. UNCHANGED <<live, ghost, nick, nicks>>
    BY <1>4 DEF Sup, BadCommand, Refuse, SocketGivesUp, Pas
  <2> QED
    BY <2>1, NicksSame
<1>5. ASSUME NEW e \in Entities, Kick(e) PROVE NickIndexExact'
  BY <1>5, NicksSame DEF Kick
<1>6. CASE UNCHANGED vars
  BY <1>6, NicksSame DEF vars
<1> QED
  <2>1. ASSUME NEW c \in Clients, PeerGone(c) PROVE NickIndexExact'
    BY <1>2, <2>1 DEF PeerGone
  <2>2. ASSUME NEW e \in Entities, RunFailJob(e) PROVE NickIndexExact'
    BY <1>2, <2>2 DEF RunFailJob, KInv, Flags
  <2> QED
    BY <1>1, <1>3, <1>4, <1>5, <1>6, <2>1, <2>2, NicksInf DEF Next

(* The nick index names exactly the entities that have the nick, when the    *)
(* nick of a client is given once and nothing is found wrong after it.       *)
THEOREM NickIndexAlwaysExact == NicksGivenOnce => (Spec => []NickIndexExact)
<1> SUFFICES ASSUME NicksGivenOnce PROVE Spec => []NickIndexExact
  OBVIOUS
<1>1. HubAssumption /\ BotCidAssumption /\ NicksGivenOnce
  BY HubAssumption, BotCidAssumption
<1>2. Init => NickIndexExact
  BY <1>1, NicksInit
<1>3. IInv /\ KInv /\ NickIndexExact /\ [Next]_vars => NickIndexExact'
  BY <1>1, NicksNext
<1> QED
  BY <1>2, <1>3, IInvAlways, KInvAlways, PTL DEF Spec
===============================================================================
