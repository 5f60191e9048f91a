--------------------------------- MODULE HBRI ---------------------------------
(***************************************************************************)
(* The HBRI plugin: a client that is connected over one IP family proves   *)
(* its address of the other by a second connection that presents a token.  *)
(* A command reaches the plugin first, then the access script and the hub: *)
(* the plugin connects its slots when it is loaded, the scripts run in a   *)
(* job later on.  The script takes the INF of a client with a password to  *)
(* itself until the client is logged in.  The hub around the plugin is     *)
(* reduced to the states of its clients.                                   *)
(*                                                                         *)
(* An address stands for the connection it was observed on: the published  *)
(* address of a client is that of a client, or one that was only claimed.  *)
(***************************************************************************)
EXTENDS Naturals

CONSTANTS
  Clients,     \* Client objects
  Registered,  \* those that log in with a password
  Infs,        \* the INF commands that clients send: see InfTypes
  Tokens,      \* the tokens drawn, each at most once: a bound on challenges
  None, Claimed, Invalid

Addresses == Clients \union {Claimed, Invalid}

(* addr, udp: the parameters of the secondary family; primary: the address   *)
(* of the client's own family is given, and is right.                        *)
InfTypes == [addr : Addresses \union {None}, primary : BOOLEAN,
             udp : {"absent", "empty", "invalid", "port"}]

ASSUME HBRIAssumption ==
  /\ Registered \subseteq Clients /\ Infs \subseteq InfTypes
  /\ None \notin Addresses \union Tokens

VARIABLES
  state, closing, family, hbri,  \* of a client; hbri: those that support HBRI
  addr, udp,                     \* the secondary I and U fields of a client
  sessions, wants, port, token,  \* the sessions map and its records
  pending, expired,              \* token to client; those past their time
  drawn,                         \* the tokens drawn so far
  asked                          \* history: the tokens sent to a client

hubVars == <<state, closing, family, hbri>>
fieldVars == <<addr, udp>>
sessionVars == <<sessions, wants, port, token, pending, expired, drawn, asked>>
vars == <<hubVars, fieldVars, sessionVars>>

States == {"off", "PROTOCOL", "IDENTIFY", "VERIFY", "NORMAL"}

Init ==
  /\ state = [e \in Clients |-> "off"] /\ closing = {} /\ hbri = {}
  /\ family = [e \in Clients |-> 4]
  /\ addr = [e \in Clients |-> None] /\ udp = [e \in Clients |-> "empty"]
  /\ sessions = {} /\ wants = {} /\ drawn = {} /\ expired = {}
  /\ port = [e \in Clients |-> "empty"] /\ token = [e \in Clients |-> None]
  /\ pending = [t \in Tokens |-> None]
  /\ asked = [e \in Clients |-> {}]

TypeOK ==
  /\ state \in [Clients -> States] /\ family \in [Clients -> {4, 6}]
  /\ closing \subseteq Clients /\ hbri \subseteq Clients
  /\ wants \subseteq sessions /\ sessions \subseteq {e \in Clients : state[e] # "off"}
  /\ addr \in [Clients -> Addresses \union {None}]
  /\ udp \in [Clients -> {"empty", "invalid", "port"}]
  /\ port \in [Clients -> {"empty", "port"}]
  /\ token \in [Clients -> Tokens \union {None}]
  /\ pending \in [Tokens -> Clients \union {None}]
  /\ expired \subseteq {t \in Tokens : pending[t] # None}
  /\ drawn \subseteq Tokens
  /\ asked \in [Clients -> SUBSET drawn]

-------------------------------------------------------------------------------
\* Mutant: the session forgets its token and the token stays valid.
NotCancelled(e) == pending

(* cancelPending.                                                            *)
Cancelled(e) == [t \in Tokens |-> IF t = token[e] THEN None ELSE pending[t]]

Cancel(e) ==
  /\ pending' = Cancelled(e)
  /\ expired' = expired \ {token[e]}
  /\ token' = [token EXCEPT ![e] = None]
  /\ wants' = wants \ {e}
  /\ UNCHANGED <<drawn, asked>>

(* sendChallenge to a client in the NORMAL state that has no token, or an    *)
(* expired one.  Without a random token there is no challenge.               *)
Ask(e) ==
  /\ wants' = wants \union {e}
  /\ expired' = expired \ {token[e]}
  /\ \/ \E t \in Tokens \ drawn :
          /\ pending' = [Cancelled(e) EXCEPT ![t] = e]
          /\ token' = [token EXCEPT ![e] = t]
          /\ drawn' = drawn \union {t}
          /\ asked' = [asked EXCEPT ![e] = @ \union {t}]
     \/ /\ drawn = Tokens
        /\ pending' = Cancelled(e)
        /\ token' = [token EXCEPT ![e] = None]
        /\ UNCHANGED <<drawn, asked>>

Hears(e) == state[e] # "off" /\ e \notin closing

Refuse(e) == closing' = closing \union {e} /\ UNCHANGED <<state, family, hbri>>

-------------------------------------------------------------------------------
(* The hub's clients.                                                        *)

Connect(e, f) ==
  /\ state[e] = "off"
  /\ state' = [state EXCEPT ![e] = "PROTOCOL"]
  /\ family' = [family EXCEPT ![e] = f]
  /\ UNCHANGED <<closing, hbri, fieldVars, sessionVars>>

(* onDisconnected, on the removal of the entity.                             *)
Leave(e) ==
  /\ state[e] # "off"
  /\ state' = [state EXCEPT ![e] = "off"]
  /\ closing' = closing \ {e} /\ hbri' = hbri \ {e}
  /\ addr' = [addr EXCEPT ![e] = None] /\ udp' = [udp EXCEPT ![e] = "empty"]
  /\ sessions' = sessions \ {e}
  /\ wants' = wants \ {e}
  /\ port' = [port EXCEPT ![e] = "empty"]
  /\ token' = [token EXCEPT ![e] = None]
  /\ pending' = Cancelled(e)
  /\ expired' = expired \ {token[e]}
  /\ asked' = [asked EXCEPT ![e] = {}]
  /\ UNCHANGED <<family, drawn>>

(* handleSUP, then verifySUP and the SUP handler of the hub.                 *)
Sup(e, how, ok) ==
  /\ Hears(e)
  /\ hbri' = CASE how = "add" -> hbri \union {e}
               [] how = "remove" -> hbri \ {e}
               [] how = "same" -> hbri
  /\ IF how = "remove" /\ e \in sessions
     THEN Cancel(e)
     ELSE UNCHANGED <<wants, token, pending, expired, drawn, asked>>
  /\ IF ok /\ state[e] \in {"PROTOCOL", "NORMAL"}
     THEN /\ state' = [state EXCEPT ![e] = IF @ = "PROTOCOL" THEN "IDENTIFY" ELSE @]
          /\ closing' = closing
     ELSE closing' = closing \union {e} /\ state' = state
  /\ UNCHANGED <<family, fieldVars, sessions, port>>

(* handleINF: what the session remembers, and what of the INF is left for    *)
(* the hub.  The claimed address is not.                                     *)

\* Mutant: the port is not checked.
PortAsGiven(e, m) == IF m.udp = "absent" THEN port[e] ELSE m.udp

PortAfter(e, m) ==
  IF m.udp = "absent" /\ state[e] = "NORMAL" THEN port[e]
  ELSE IF m.udp = "port" THEN "port" ELSE "empty"

\* Mutant: the port passes as long as it is one.
PassesIfPort(e, m) == m.udp \in {"empty", "port"}

UdpPasses(e, m) == m.udp \in {"empty", "port"} /\ addr[e] # None /\ e \in hbri

Remember(e, m) ==
  /\ sessions' = sessions \union {e}
  /\ port' = [port EXCEPT ![e] = PortAfter(e, m)]

Publish(e, m) ==
  /\ addr' = addr
  /\ udp' = IF UdpPasses(e, m) THEN [udp EXCEPT ![e] = m.udp] ELSE udp

Intends(e, m) == e \in hbri /\ m.addr \notin {None, Invalid}

(* In the IDENTIFY state the intent is noted, whatever the script and the    *)
(* hub make of the INF.                                                      *)
NoteIntent(e, m) ==
  /\ Remember(e, m)
  /\ wants' = IF Intends(e, m) THEN wants \union {e} ELSE wants

(* The script or the hub refuses.                                            *)
InfRefused(e, m) ==
  /\ Hears(e) /\ state[e] # "NORMAL"
  /\ Refuse(e)
  /\ IF state[e] = "IDENTIFY" THEN NoteIntent(e, m) ELSE UNCHANGED <<sessions, port, wants>>
  /\ UNCHANGED <<fieldVars, token, pending, expired, drawn, asked>>

(* The script asks for the password, after the plugin has seen the INF.      *)
InfRegistered(e, m) ==
  /\ Hears(e) /\ e \in Registered /\ state[e] = "IDENTIFY"
  /\ state' = [state EXCEPT ![e] = "VERIFY"]
  /\ NoteIntent(e, m)
  /\ Publish(e, m)
  /\ UNCHANGED <<closing, family, hbri, token, pending, expired, drawn, asked>>

(* Another INF with the nick, before the password: the plugin passes it by,  *)
(* the script stores its fields and asks once more.  verifyIp deletes the    *)
(* secondary address of an INF that does not give the primary one.           *)
InfAgain(e, m) ==
  /\ Hears(e) /\ e \in Registered /\ state[e] = "VERIFY"
  /\ addr' = IF m.addr # None /\ m.primary THEN [addr EXCEPT ![e] = m.addr] ELSE addr
  /\ udp' = IF m.udp # "absent" THEN [udp EXCEPT ![e] = m.udp] ELSE udp
  /\ UNCHANGED <<hubVars, sessionVars>>

(* The login, and onState when the NORMAL state is entered.                  *)
InfLogin(e, m) ==
  /\ Hears(e) /\ state[e] = "IDENTIFY" /\ e \notin Registered
  /\ state' = [state EXCEPT ![e] = "NORMAL"]
  /\ Remember(e, m)
  /\ Publish(e, m)
  /\ IF Intends(e, m) THEN Ask(e)
     ELSE UNCHANGED <<wants, token, pending, expired, drawn, asked>>
  /\ UNCHANGED <<closing, family, hbri>>

(* expirePending, and the question when no answer is outstanding.            *)
Due(e, m) == m.addr # addr[e] /\ (token[e] = None \/ token[e] \in expired)

InfUpdate(e, m, ok) ==
  /\ Hears(e) /\ state[e] = "NORMAL"
  /\ Remember(e, m)
  /\ IF Intends(e, m) /\ Due(e, m) THEN Ask(e)
     ELSE IF Intends(e, m) /\ token[e] \in expired THEN Cancel(e)
     ELSE UNCHANGED <<wants, token, pending, expired, drawn, asked>>
  /\ IF ok THEN Publish(e, m) /\ UNCHANGED hubVars
     ELSE Refuse(e) /\ UNCHANGED fieldVars

\* Mutant: the question is asked of those who log in by an INF only.
PasUnasked(e) ==
  /\ Hears(e) /\ state[e] = "VERIFY"
  /\ state' = [state EXCEPT ![e] = "NORMAL"]
  /\ UNCHANGED <<closing, family, hbri, fieldVars, sessionVars>>

(* onPAS; onState asks a client that has a session.                          *)
Pas(e) ==
  /\ Hears(e) /\ state[e] = "VERIFY"
  /\ state' = [state EXCEPT ![e] = "NORMAL"]
  /\ IF e \in wants \intersect hbri THEN Ask(e)
     ELSE UNCHANGED <<wants, token, pending, expired, drawn, asked>>
  /\ UNCHANGED <<closing, family, hbri, fieldVars, sessions, port>>

(* A kick, or a command that the hub disconnects a client for.               *)
Disconnect(e) ==
  /\ Hears(e)
  /\ Refuse(e)
  /\ UNCHANGED <<fieldVars, sessionVars>>

-------------------------------------------------------------------------------
(* handleValidation: the connection d presents the token t, None when it is  *)
(* malformed, and is disconnected whatever comes of it.                      *)

TcpInvalid(d, t) ==
  /\ Hears(d)
  /\ state[d] # "PROTOCOL" \/ t = None \/ (t \in Tokens /\ pending[t] = None)
  /\ Refuse(d)
  /\ UNCHANGED <<fieldVars, sessionVars>>

InTime(t) == t \notin expired /\ state[pending[t]] = "NORMAL" /\ token[pending[t]] = t

\* Mutant: any second connection proves an address.
AnyFamily(d, e) == TRUE

OtherFamily(d, e) == family[d] # family[e]

TcpRefused(d, t) ==
  /\ Hears(d) /\ state[d] = "PROTOCOL" /\ t \in Tokens /\ pending[t] # None
  /\ ~(InTime(t) /\ OtherFamily(d, pending[t]))
  /\ Cancel(pending[t])
  /\ Refuse(d)
  /\ UNCHANGED <<fieldVars, sessions, port>>

TcpProves(d, t, u) ==
  /\ Hears(d) /\ state[d] = "PROTOCOL" /\ t \in Tokens /\ pending[t] # None
  /\ InTime(t) /\ OtherFamily(d, pending[t])
  /\ LET e == pending[t] IN
     /\ Cancel(e)
     /\ port' = IF u = "port" THEN [port EXCEPT ![e] = u] ELSE port
     /\ addr' = [addr EXCEPT ![e] = d]
     /\ udp' = [udp EXCEPT ![e] = port'[e]]
  /\ Refuse(d)
  /\ UNCHANGED sessions

(* The ten seconds are over.                                                 *)
Expire(t) ==
  /\ pending[t] # None /\ t \notin expired
  /\ expired' = expired \union {t}
  /\ UNCHANGED <<hubVars, fieldVars, sessions, wants, port, token, pending, drawn, asked>>

Next ==
  \/ \E e \in Clients :
       \/ \E f \in {4, 6} : Connect(e, f)
       \/ \E how \in {"add", "remove", "same"}, ok \in BOOLEAN : Sup(e, how, ok)
       \/ \E m \in Infs :
            InfRegistered(e, m) \/ InfAgain(e, m) \/ InfRefused(e, m) \/ InfLogin(e, m)
       \/ \E m \in Infs, ok \in BOOLEAN : InfUpdate(e, m, ok)
       \/ \E t \in Tokens \union {None} : TcpInvalid(e, t) \/ TcpRefused(e, t)
       \/ \E t \in Tokens, u \in {"invalid", "port"} : TcpProves(e, t, u)
       \/ Pas(e) \/ Disconnect(e) \/ Leave(e)
  \/ \E t \in Tokens : Expire(t)

Spec == Init /\ [][Next]_vars

-------------------------------------------------------------------------------
(* Properties.                                                               *)

(* The two maps agree: a token is pending for a client exactly if it is the  *)
(* token of its session, through expiry, renewal, withdrawal, proof and the  *)
(* removal of either connection.  No pending entry outlives its client.      *)
PendingExact ==
  \A t \in Tokens, e \in Clients :
    pending[t] = e <=> e \in sessions /\ token[e] = t

(* A challenge is outstanding only while the client supports HBRI: RMHBRI    *)
(* withdraws it.                                                             *)
WithdrawalCancels == \A t \in Tokens : pending[t] # None => pending[t] \in hbri

(* A logged-in client whose intent was taken up has been asked, unless the   *)
(* random source failed: no session waits for a question that never comes,   *)
(* whether the login was by the INF that showed the intent or by a password  *)
(* long after it.                                                            *)
WantedIsAsked ==
  \A e \in wants : state[e] = "NORMAL" => token[e] # None \/ drawn = Tokens

(* Of a client without a password the secondary UDP port is public only with *)
(* the address it belongs to.                                                *)
UdpWithAddress == \A e \in Clients \ Registered : udp[e] # "empty" => addr[e] # None

(* The address of e becomes one that was observed on a connection over the   *)
(* other family, using up an unexpired token sent to e.                      *)
IsEarned(e) ==
  /\ addr'[e] \in Clients /\ family[addr'[e]] # family[e]
  /\ \E t \in asked[e] \ expired : pending[t] = e /\ pending'[t] = None

(* Whoever is not waiting for its password to come gets a secondary address  *)
(* only by a proof: the one claimed in an INF is stripped, before the login  *)
(* and after it, with a password and without.                                *)
EarnedUnlessVerifying ==
  [][\A e \in Clients :
       addr'[e] \notin {addr[e], None} /\ state[e] # "VERIFY" => IsEarned(e)]_vars

(* The secondary address that everyone is shown.                             *)
public == [e \in Clients |-> IF state[e] = "NORMAL" THEN addr[e] ELSE None]

(* "Only the address observed on that connection is then published".         *)
Earned == [][\A e \in Clients : public'[e] \notin {public[e], None} => IsEarned(e)]_vars
===============================================================================
