---------------------------- MODULE ClientManager ----------------------------
(***************************************************************************)
(* The hub: ClientManager with the Clients and Bots whose life it manages, *)
(* and the login by password that the access script adds to it.  All of it *)
(* runs on the io_service thread, so an action is a whole handler: a       *)
(* command received from a client, a failure reported by its socket, a job *)
(* posted by a disconnect, or a connection accepted.                       *)
(*                                                                         *)
(* An entity is a C++ object: it is "live" from its construction to        *)
(* `delete this', after which the same address may be used again.  The     *)
(* maps hold pointers, so an entry that names an entity that is not live   *)
(* is a dangling pointer.                                                  *)
(***************************************************************************)
EXTENDS Functions, Selection

CONSTANTS
  Clients, Bots,   \* addresses of Client and Bot objects
  Sids, Nicks, Cids,
  Draws,           \* the SIDs makeSID may draw for an entity
  BotCid,          \* the CID generated for a bot
  BotNicks,        \* nicks that scripts give to bots
  Registered,      \* nicks with a password in the access script
  FirstInfs,       \* the INF commands a client sends while it has no nick,
  LaterInfs,       \* and once it has one: see InfTypes
  None

NoNick == "no nick"    \* the NI field is absent, or sent empty

AnyNick == Nicks \union {NoNick}
Entities == Clients \union Bots

(* nick: the NI parameter, None without one; cid: the ID parameter; fault:   *)
(* the verification that fails, if any: of the address, the PID, the         *)
(* characters of the nick, the description.                                  *)
InfTypes == [nick : AnyNick \union {None}, cid : Cids \union {None},
             fault : {"none", "ip", "pid", "nick", "desc"}]

ASSUME HubAssumption ==
  /\ Clients \intersect Bots = {}
  /\ None \notin Entities \union AnyNick \union Cids \union Sids
  /\ NoNick \notin Nicks
  /\ Draws \in [Entities -> SUBSET Sids]
  /\ BotCid \in [Bots -> Cids]
  /\ BotNicks \subseteq AnyNick /\ Registered \subseteq Nicks
  /\ FirstInfs \union LaterInfs \subseteq InfTypes

(* A bot's CID is 192 random bits and a client's the hash of its PID.        *)
ASSUME BotCidAssumption ==
  /\ \A b, d \in Bots : BotCid[b] = BotCid[d] => b = d
  /\ \A b \in Bots, m \in FirstInfs \union LaterInfs : m.cid # BotCid[b]

VARIABLES
  live,       \* the entities that exist
  state,      \* Entity::state
  ghost,      \* FLAG_GHOST
  closing,    \* Client::disconnecting, Bot::disconnecting
  failing,    \* a Reporter or BotRemover job for the entity is queued
  sid, nick, cid,
  entities,   \* SID to entity
  nicks,      \* nick to entity
  cids,       \* CID to entity
  logins,     \* clients that have not logged in, oldest first
  view,       \* what a client has been told: the nick shown for each SID
  unannounced \* history: those whose nick last changed without everyone being told

vars == <<live, state, ghost, closing, failing, sid, nick, cid,
          entities, nicks, cids, logins, view, unannounced>>

Offline == [s \in Sids |-> None]

Init ==
  /\ live = {} /\ ghost = {} /\ closing = {} /\ failing = {} /\ unannounced = {}
  /\ state = [e \in Entities |-> "PROTOCOL"]
  /\ sid = [e \in Entities |-> None]
  /\ nick = [e \in Entities |-> NoNick]
  /\ cid = [e \in Entities |-> None]
  /\ entities = [s \in Sids |-> None]
  /\ nicks = [n \in AnyNick |-> None]
  /\ cids = [x \in Cids |-> None]
  /\ logins = <<>>
  /\ view = [c \in Clients |-> Offline]

TypeOK ==
  /\ ghost \subseteq closing /\ closing \subseteq failing
  /\ failing \subseteq live /\ live \subseteq Entities /\ unannounced \subseteq live
  /\ state \in [Entities -> {"PROTOCOL", "IDENTIFY", "VERIFY", "NORMAL"}]
  /\ sid \in [Entities -> Sids \union {None}]
  /\ nick \in [Entities -> AnyNick]
  /\ cid \in [Entities -> Cids \union {None}]
  /\ entities \in [Sids -> Entities \union {None}]
  /\ nicks \in [AnyNick -> Entities \union {None}]
  /\ cids \in [Cids -> Entities \union {None}]
  /\ logins \in Seq(Clients)
  /\ view \in [Clients -> [Sids -> AnyNick \union {None}]]

-------------------------------------------------------------------------------
(* removeEntity, for a set with the entity removed, or with none.            *)

\* Mutants: a map is not looked after.
KeepEntities(E) == entities
KeepNicks(E) == nicks
KeepCids(E) == cids
KeepLogins(E) == logins

EntitiesWithout(E) ==
  [s \in Sids |-> IF \E e \in E : state[e] = "NORMAL" /\ sid[e] = s THEN None ELSE entities[s]]

NicksWithout(E) == [n \in AnyNick |-> IF \E e \in E : nick[e] = n THEN None ELSE nicks[n]]

CidsWithout(E) == [x \in Cids |-> IF \E e \in E : cid[e] = x THEN None ELSE cids[x]]

LoginsWithout(E) == Select(logins, Clients \ E)

\* Mutant: nobody is told.
NoQuits(E) == {}

Quits(E) == {sid[e] : e \in {d \in E : state[d] = "NORMAL"}}

(* sendToAll: everyone in the map `to' hears of the SIDs that quit and, when *)
(* s is one, of the INF of s.  A socket that is disconnecting takes nothing. *)
Tell(to, quits, s, n) ==
  view' = [c \in Clients |->
    IF c \notin live' \/ c \in failing' THEN Offline
    ELSE IF \E t \in Sids : to[t] = c
    THEN [t \in Sids |-> IF t = s THEN n ELSE IF t \in quits THEN None ELSE view[c][t]]
    ELSE view[c]]

(* ClientManager::disconnect and Entity::disconnect: the entity hears no     *)
(* more, and a job is queued that will remove it.                            *)

\* Mutant: the failure is left to the peer.
DropSilently(E) == closing' = closing \union E /\ failing' = failing

Drop(E) ==
  /\ closing' = closing \union E
  /\ failing' = failing \union E

Refuse(c) ==
  /\ Drop({c})
  /\ view' = [view EXCEPT ![c] = Offline]
  /\ UNCHANGED <<live, state, ghost, sid, nick, cid, entities, nicks, cids, logins,
                 unannounced>>

(* removeEntity followed by `delete this'.                                   *)
Delete(e) ==
  LET removed == {e} \ ghost IN
  /\ live' = live \ {e} /\ ghost' = ghost \ {e}
  /\ closing' = closing \ {e} /\ failing' = failing \ {e}
  /\ unannounced' = unannounced \ {e}
  /\ entities' = EntitiesWithout(removed)
  /\ nicks' = NicksWithout(removed)
  /\ cids' = CidsWithout(removed)
  /\ logins' = LoginsWithout(removed)
  /\ state' = [state EXCEPT ![e] = "PROTOCOL"]
  /\ sid' = [sid EXCEPT ![e] = None]
  /\ nick' = [nick EXCEPT ![e] = NoNick]
  /\ cid' = [cid EXCEPT ![e] = None]
  /\ Tell(entities', Quits(removed), None, None)

\* makeSID looks for the SID among the entities only.
FreeSids(e) == {s \in Draws[e] : entities[s] = None}

-------------------------------------------------------------------------------
(* Connections.                                                              *)

(* handleIncoming and onConnected: those that passed the login timeout, the  *)
(* k oldest, are disconnected first.                                         *)
Accept(c, s, k) ==
  /\ c \in Clients \ live
  /\ s \in FreeSids(c)
  /\ k \in 0..Len(logins)
  /\ live' = live \union {c}
  /\ sid' = [sid EXCEPT ![c] = s]
  /\ Drop({logins[i] : i \in 1..k})
  /\ logins' = Append(SubSeq(logins, k + 1, Len(logins)), c)
  /\ UNCHANGED <<state, ghost, nick, cid, entities, nicks, cids, view, unannounced>>

(* A peer that goes away: the socket fails without having disconnected.      *)
PeerGone(c) ==
  /\ c \in Clients \intersect live
  /\ Delete(c)

(* The Reporter or BotRemover job.                                           *)
RunFailJob(e) ==
  /\ e \in failing
  /\ Delete(e)

(* ManagedSocket::write disconnects a socket that overflows or is stuck: the *)
(* Client is not told before the job runs.                                   *)
SocketGivesUp(c) ==
  /\ c \in (Clients \intersect live) \ failing
  /\ failing' = failing \union {c}
  /\ view' = [view EXCEPT ![c] = Offline]
  /\ UNCHANGED <<live, state, ghost, closing, sid, nick, cid, entities, nicks, cids, logins,
                 unannounced>>

-------------------------------------------------------------------------------
(* Commands of a client.  Client::onData stops at a client that is           *)
(* disconnecting, and onReceive at a ghost.                                  *)

Hears(c) == c \in (Clients \intersect live) \ (closing \union ghost)

Sup(c, ok) ==
  /\ Hears(c)
  /\ IF ~ok \/ state[c] \notin {"PROTOCOL", "NORMAL"} THEN Refuse(c)
     ELSE /\ state' = [state EXCEPT ![c] = IF @ = "PROTOCOL" THEN "IDENTIFY" ELSE @]
          /\ UNCHANGED <<live, ghost, closing, failing, sid, nick, cid,
                         entities, nicks, cids, logins, view, unannounced>>

(* A command that a client is disconnected for, whatever its state: another's *)
(* SID, a bad type, too long a line, a field that the access script refuses; *)
(* and any command but SUP and INF outside the NORMAL state, in which it is  *)
(* only passed on.                                                           *)
BadCommand(c) == Hears(c) /\ Refuse(c)

(* verify_info of the access script, which is there when nicks have a        *)
(* password: neither the INF nor the fields have a CID, or a nick.           *)
Unidentified(c, m) ==
  /\ Registered # {}
  /\ \/ m.cid = None /\ cid[c] = None
     \/ m.nick \in {None, NoNick} /\ nick[c] = NoNick

(* verify_info, verifyIp, and verifyCID up to the look at cids.              *)
RefusedAtOnce(c, m) ==
  \/ Unidentified(c, m)
  \/ m.fault \in {"ip", "pid"}
  \/ m.cid # None /\ state[c] # "IDENTIFY"

(* verifyCID: the entity that has the CID is disconnected and removed now.   *)
Victims(m) == IF m.cid = None THEN {} ELSE {cids[m.cid]} \ {None}

CidsClaimed(c, m) ==
  IF m.cid = None THEN cids ELSE [CidsWithout(Victims(m)) EXCEPT ![m.cid] = c]

(* verifyNick: the old nick is given up, then the new one looked for.        *)
NicksFreed(c, m) ==
  LET left == NicksWithout(Victims(m))
  IN IF m.nick = None \/ m.fault = "nick" \/ nick[c] = NoNick THEN left
     ELSE [left EXCEPT ![nick[c]] = None]

\* Mutant: the new nick is not looked for.
NickNeverRefused(c, m) == m.nick # None /\ m.fault = "nick"

NickRefused(c, m) ==
  m.nick # None /\ (m.fault = "nick" \/ NicksFreed(c, m)[m.nick] # None)

NicksClaimed(c, m) ==
  IF m.nick = None THEN NicksFreed(c, m) ELSE [NicksFreed(c, m) EXCEPT ![m.nick] = c]

(* updateFields *)
NickOf(c, m) == IF m.nick = None THEN nick[c] ELSE m.nick

(* Everything verifyINF does short of the fields: E are disconnected, c with *)
(* them when it is refused.                                                  *)
Verify(c, m, E, newNicks) ==
  /\ Drop(E)
  /\ ghost' = ghost \union Victims(m)
  /\ cid' = IF m.cid = None THEN cid ELSE [cid EXCEPT ![c] = m.cid]
  /\ cids' = CidsClaimed(c, m)
  /\ nicks' = newNicks
  /\ UNCHANGED <<live, sid>>

(* The hub takes an INF in IDENTIFY and NORMAL; the script takes one more    *)
(* with a registered nick while it waits for the password.                   *)
Expects(c, m) ==
  state[c] \in {"IDENTIFY", "NORMAL"} \/ (state[c] = "VERIFY" /\ m.nick \in Registered)

InfRefused(c, m) ==
  /\ Hears(c)
  /\ RefusedAtOnce(c, m) \/ ~Expects(c, m)
  /\ Refuse(c)

Verifies(c, m) == Hears(c) /\ ~RefusedAtOnce(c, m) /\ Expects(c, m)

InfNickRefused(c, m) ==
  /\ Verifies(c, m) /\ NickRefused(c, m)
  /\ Verify(c, m, Victims(m) \union {c}, NicksFreed(c, m))
  /\ entities' = EntitiesWithout(Victims(m))
  /\ logins' = LoginsWithout(Victims(m))
  /\ Tell(entities', Quits(Victims(m)), None, None)
  /\ UNCHANGED <<state, nick, unannounced>>

InfDescriptionRefused(c, m) ==
  /\ Verifies(c, m) /\ ~NickRefused(c, m) /\ m.fault = "desc"
  /\ Verify(c, m, Victims(m) \union {c}, NicksClaimed(c, m))
  /\ entities' = EntitiesWithout(Victims(m))
  /\ logins' = LoginsWithout(Victims(m))
  /\ Tell(entities', Quits(Victims(m)), None, None)
  /\ UNCHANGED <<state, nick, unannounced>>

Verified(c, m) == Verifies(c, m) /\ ~NickRefused(c, m) /\ m.fault = "none"

(* verifyOverflow finds too many sockets overflowing.                        *)
InfHubBusy(c, m) ==
  /\ Verified(c, m) /\ state[c] = "IDENTIFY" /\ m.nick \notin Registered
  /\ Verify(c, m, Victims(m) \union {c}, NicksClaimed(c, m))
  /\ nick' = [nick EXCEPT ![c] = NickOf(c, m)]
  /\ entities' = EntitiesWithout(Victims(m))
  /\ logins' = LoginsWithout(Victims(m))
  /\ Tell(entities', Quits(Victims(m)), None, None)
  /\ UNCHANGED <<state, unannounced>>

\* Mutant: the state is set and the entity forgotten.
DoNotEnter(c, to) == to

Enter(c, to) == IF to[sid[c]] = None THEN [to EXCEPT ![sid[c]] = c] ELSE to

(* enterNormal: the list of the entities in `to', then the own INF to all.   *)
EnterNormal(c, to, quits, n) ==
  /\ entities' = Enter(c, to)
  /\ state' = [state EXCEPT ![c] = "NORMAL"]
  /\ view' = [d \in Clients |->
       IF d \notin live' \/ d \in failing' THEN Offline
       ELSE IF d = c THEN [t \in Sids |-> IF t = sid[c] THEN n
                                          ELSE IF to[t] = None THEN None ELSE nick[to[t]]]
       ELSE IF \E t \in Sids : to[t] = d
       THEN [t \in Sids |-> IF t = sid[c] THEN n ELSE IF t \in quits THEN None ELSE view[d][t]]
       ELSE view[d]]

InfLogin(c, m) ==
  /\ Verified(c, m) /\ state[c] = "IDENTIFY" /\ m.nick \notin Registered
  /\ Verify(c, m, Victims(m), NicksClaimed(c, m))
  /\ nick' = [nick EXCEPT ![c] = NickOf(c, m)]
  /\ logins' = LoginsWithout(Victims(m) \union {c})
  /\ EnterNormal(c, EntitiesWithout(Victims(m)), Quits(Victims(m)), nick'[c])
  /\ UNCHANGED unannounced

(* In the NORMAL state an INF of any type changes the fields, and send gives *)
(* it to those it is for: type B to everyone, the sender too, F to those     *)
(* with the features, D to one, E to one and the sender, H to nobody.        *)
Occupied == {s \in Sids : entities[s] # None}

Addressed(to) == [s \in Sids |-> IF s \in to THEN entities[s] ELSE None]

InfUpdate(c, m, to) ==
  /\ Verified(c, m) /\ state[c] = "NORMAL"
  /\ Verify(c, m, {}, NicksClaimed(c, m))
  /\ nick' = [nick EXCEPT ![c] = NickOf(c, m)]
  /\ Tell(Addressed(to), {}, IF m.nick = None THEN None ELSE sid[c], nick'[c])
  /\ unannounced' = IF to = Occupied /\ m.nick # None THEN unannounced \ {c}
                    ELSE IF nick'[c] # nick[c] THEN unannounced \union {c}
                    ELSE unannounced
  /\ UNCHANGED <<state, entities, logins>>

(* onINF of the access script, for a nick with a password.                   *)
InfRegistered(c, m) ==
  /\ Verified(c, m) /\ state[c] # "NORMAL" /\ m.nick \in Registered
  /\ UNCHANGED unannounced
  /\ Verify(c, m, Victims(m), NicksClaimed(c, m))
  /\ nick' = [nick EXCEPT ![c] = NickOf(c, m)]
  /\ state' = [state EXCEPT ![c] = "VERIFY"]
  /\ entities' = EntitiesWithout(Victims(m))
  /\ logins' = LoginsWithout(Victims(m))
  /\ Tell(entities', Quits(Victims(m)), None, None)

(* onPAS of the access script; a bad password is a BadCommand.               *)
Pas(c) ==
  /\ Hears(c) /\ state[c] = "VERIFY"
  /\ logins' = LoginsWithout({c})
  /\ UNCHANGED <<live, ghost, closing, failing, sid, nick, cid, nicks, cids, unannounced>>
  /\ EnterNormal(c, entities, {}, nick[c])

-------------------------------------------------------------------------------
(* Scripts: a bot is created, named and registered in one call; anything     *)
(* that is connected may be disconnected.                                    *)

RegBot(b, s, n) ==
  /\ b \in Bots \ live
  /\ s \in FreeSids(b)
  /\ live' = live \union {b}
  /\ sid' = [sid EXCEPT ![b] = s]
  /\ nick' = [nick EXCEPT ![b] = n]
  /\ cid' = [cid EXCEPT ![b] = BotCid[b]]
  /\ state' = [state EXCEPT ![b] = "NORMAL"]
  /\ entities' = [entities EXCEPT ![s] = b]
  /\ cids' = IF cids[BotCid[b]] = None THEN [cids EXCEPT ![BotCid[b]] = b] ELSE cids
  /\ nicks' = IF nicks[n] = None THEN [nicks EXCEPT ![n] = b] ELSE nicks
  /\ UNCHANGED <<ghost, closing, failing, logins, unannounced>>
  /\ Tell(entities, {}, s, n)

Kick(e) ==
  /\ e \in live \ closing
  /\ Drop({e})
  /\ view' = [c \in Clients |-> IF c = e THEN Offline ELSE view[c]]
  /\ UNCHANGED <<live, state, ghost, sid, nick, cid, entities, nicks, cids, logins,
                 unannounced>>

-------------------------------------------------------------------------------
Inf(c, m) ==
  \/ InfRefused(c, m) \/ InfNickRefused(c, m) \/ InfDescriptionRefused(c, m)
  \/ InfHubBusy(c, m) \/ InfLogin(c, m) \/ InfRegistered(c, m)
  \/ \E to \in SUBSET Occupied : InfUpdate(c, m, to)

InfsOf(c) == IF nick[c] = NoNick THEN FirstInfs ELSE LaterInfs

Next ==
  \/ \E c \in Clients :
       \/ \E s \in Sids, k \in 0..Len(logins) : Accept(c, s, k)
       \/ \E ok \in BOOLEAN : Sup(c, ok)
       \/ \E m \in InfsOf(c) : Inf(c, m)
       \/ Pas(c) \/ BadCommand(c) \/ PeerGone(c) \/ SocketGivesUp(c)
  \/ \E b \in Bots, s \in Sids, n \in BotNicks : RegBot(b, s, n)
  \/ \E e \in Entities : RunFailJob(e) \/ Kick(e)

Spec == Init /\ [][Next]_vars

(* The io_service runs every job it was given.                               *)
Fairness == \A e \in Entities : WF_vars(RunFailJob(e))

FairSpec == Spec /\ Fairness

-------------------------------------------------------------------------------
(* Properties.                                                               *)

Present == live \ ghost

(* The map of entities names only objects that exist, are logged in and have *)
(* the SID they are filed under, whatever was deleted in between: send,      *)
(* sendToAll and getEntity follow its pointers without a check.              *)
EntitiesLive ==
  \A s \in Sids : entities[s] # None =>
    /\ entities[s] \in Present
    /\ state[entities[s]] = "NORMAL" /\ sid[entities[s]] = s

(* When no two draws of makeSID collide, everyone logged in is in the map,   *)
(* so that broadcasts and searches reach them.                               *)
EntitiesExact ==
  \A e \in Present : state[e] = "NORMAL" => entities[sid[e]] = e

(* The CID index names exactly the entities that have identified themselves: *)
(* taking a CID over, refusals after the CID was taken and removals by job   *)
(* leave neither a dangling entry nor one lost to another's removal.         *)
CidIndexExact ==
  \A x \in Cids, e \in Entities : cids[x] = e <=> e \in Present /\ cid[e] = x

(* The list that the login timeout works on holds every client that has not  *)
(* logged in and is not being disconnected, once, and nobody else: no one    *)
(* who is logged in is timed out, and the list has no deleted client.        *)
LoginsExact ==
  LET waiting == {c \in Present \intersect Clients : state[c] # "NORMAL"} IN
  /\ Range(logins) \subseteq waiting
  /\ waiting \ closing \subseteq Range(logins)
  /\ \A i, j \in 1..Len(logins) : logins[i] = logins[j] => i = j

(* What a SID may be shown as.                                               *)
Shown(s) ==
  IF entities[s] = None THEN {None}
  ELSE IF entities[s] \in unannounced THEN AnyNick ELSE {nick[entities[s]]}

(* What a logged-in client has been told agrees with the hub: the list sent  *)
(* by enterNormal, the INFs that went to it later and the QUIs of everyone   *)
(* who was removed add up to who is there, under the nick the hub has for    *)
(* them.  Only of those whose last change of nick did not go to everyone may *)
(* another nick be shown, and they are shown all the same.                   *)
ViewsAgree ==
  \A c \in Clients : c \in Present \ failing /\ state[c] = "NORMAL" =>
    \A s \in Sids : view[c][s] \in Shown(s)

(* The nick index is exact, as the CID index is.                             *)
NickIndexExact ==
  \A n \in Nicks, e \in Entities : nicks[n] = e <=> e \in Present /\ nick[e] = n

(* verifyNick checks "that its not a dupe": no two clients that are logged   *)
(* in have the same nick.                                                    *)
NicksUnique ==
  \A c, d \in (Present \ failing) \intersect Clients :
    state[c] = "NORMAL" /\ state[d] = "NORMAL" /\ nick[c] = nick[d] /\ nick[c] \in Nicks => c = d

(* A client that is taken over, refused or kicked is deleted in the end.     *)
DroppedAreDeleted == \A e \in Entities : e \in closing ~> e \notin live
===============================================================================
