------------------------------ MODULE HBRIProofs ------------------------------
(***************************************************************************)
(* Proofs about HBRI for every set of clients, tokens and INFs.  The two   *)
(* maps are inverse to each other on the sessions that have a token; that  *)
(* needs the tokens to be drawn once, and the session to give up its token *)
(* wherever the other map does.                                            *)
(***************************************************************************)
EXTENDS HBRI, TLAPS

IType ==
  /\ sessions \subseteq Clients /\ wants \subseteq sessions
  /\ hbri \in SUBSET Clients
  /\ addr \in [Clients -> Addresses \union {None}]
  /\ token \in [Clients -> Tokens \union {None}]
  /\ pending \in [Tokens -> Clients \union {None}]
  /\ asked \in [Clients -> SUBSET Tokens]

(* A token is pending for the client whose session has it, which was sent it *)
(* and supports HBRI.                                                        *)
Mirrored ==
  /\ \A t \in Tokens, e \in Clients : pending[t] = e <=> token[e] = t
  /\ \A e \in Clients : token[e] # None => e \in sessions /\ e \in hbri /\ token[e] \in asked[e]
  /\ \A t \in Tokens : pending[t] # None => t \in drawn

IInv == IType /\ Mirrored

USE DEF Addresses

LEMMA IInvInit == HBRIAssumption /\ Init => IInv
  BY DEF HBRIAssumption, Init, IInv, IType, Mirrored

(* The session of e gives up its token, and keeps or loses the rest.         *)
LEMMA CancelInv ==
  ASSUME HBRIAssumption, IInv, NEW e \in Clients, Cancel(e),
         hbri' \in SUBSET Clients, \A d \in Clients \ {e} : d \in hbri => d \in hbri',
         sessions \subseteq sessions', sessions' \subseteq Clients,
         addr' \in [Clients -> Addresses \union {None}]
  PROVE  IInv'
<1>1. /\ pending' = Cancelled(e) /\ token' = [token EXCEPT ![e] = None]
      /\ wants' = wants \ {e} /\ drawn' = drawn /\ asked' = asked
  BY DEF Cancel
<1>2. IType'
  BY <1>1 DEF IInv, IType, Cancelled
<1>3. \A t \in Tokens, d \in Clients : pending'[t] = d <=> token'[d] = t
  <2> SUFFICES ASSUME NEW t \in Tokens, NEW d \in Clients
               PROVE  pending'[t] = d <=> token'[d] = t
    OBVIOUS
  <2>1. pending[t] = d <=> token[d] = t
    BY DEF IInv, Mirrored
  <2>2. pending[t] = e <=> token[e] = t
    BY DEF IInv, Mirrored
  <2>3. pending'[t] = (IF t = token[e] THEN None ELSE pending[t])
    BY <1>1 DEF Cancelled
  <2>4. token'[d] = (IF d = e THEN None ELSE token[d])
    BY <1>1 DEF IInv, IType
  <2> QED
    BY <2>1, <2>2, <2>3, <2>4 DEF HBRIAssumption
<1>4. \A d \in Clients : token'[d] # None => d \in sessions' /\ d \in hbri' /\ token'[d] \in asked'[d]
  BY <1>1 DEF IInv, IType, Mirrored
<1>5. \A t \in Tokens : pending'[t] # None => t \in drawn'
  BY <1>1 DEF IInv, Mirrored, Cancelled
<1> QED
  BY <1>2, <1>3, <1>4, <1>5 DEF IInv, Mirrored

(* The session of e gets a token that nobody had, or none.                   *)
LEMMA AskInv ==
  ASSUME HBRIAssumption, IInv, NEW e \in Clients, Ask(e), e \in hbri, hbri' = hbri,
         sessions' = sessions \union {e},
         addr' \in [Clients -> Addresses \union {None}]
  PROVE  IInv'
<1>1. CASE drawn = Tokens /\ pending' = Cancelled(e) /\ token' = [token EXCEPT ![e] = None]
           /\ UNCHANGED <<drawn, asked>>
  <2>1. wants' = wants \union {e}
    BY DEF Ask
  <2>2. IType'
    BY <1>1, <2>1 DEF IInv, IType, Cancelled
  <2>3. Mirrored'
    BY <1>1 DEF IInv, IType, Mirrored, Cancelled, HBRIAssumption
  <2> QED
    BY <2>2, <2>3 DEF IInv
<1>2. CASE \E t \in Tokens \ drawn :
             /\ pending' = [Cancelled(e) EXCEPT ![t] = e]
             /\ token' = [token EXCEPT ![e] = t]
             /\ drawn' = drawn \union {t}
             /\ asked' = [asked EXCEPT ![e] = @ \union {t}]
  <2>1. PICK t \in Tokens \ drawn :
             /\ pending' = [Cancelled(e) EXCEPT ![t] = e]
             /\ token' = [token EXCEPT ![e] = t]
             /\ drawn' = drawn \union {t}
             /\ asked' = [asked EXCEPT ![e] = @ \union {t}]
    BY <1>2
  <2>2. wants' = wants \union {e}
    BY DEF Ask
  <2>3. IType'
    BY <2>1, <2>2 DEF IInv, IType, Cancelled
  <2>4. pending[t] = None /\ \A d \in Clients : token[d] # t
    BY <2>1 DEF IInv, IType, Mirrored, HBRIAssumption
  <2>5. \A u \in Tokens, d \in Clients : pending'[u] = d <=> token'[d] = u
    <3> SUFFICES ASSUME NEW u \in Tokens, NEW d \in Clients
                 PROVE  pending'[u] = d <=> token'[d] = u
      OBVIOUS
    <3>1. /\ pending[u] = d <=> token[d] = u
          /\ pending[u] = e <=> token[e] = u
      BY DEF IInv, Mirrored
    <3>2. pending'[u] = (IF u = t THEN e ELSE IF u = token[e] THEN None ELSE pending[u])
      BY <2>1 DEF Cancelled
    <3>3. token'[d] = (IF d = e THEN t ELSE token[d])
      BY <2>1 DEF IInv, IType
    <3> QED
      BY <2>4, <3>1, <3>2, <3>3 DEF HBRIAssumption
  <2>6. \A d \in Clients : token'[d] # None => d \in sessions' /\ d \in hbri' /\ token'[d] \in asked'[d]
    BY <2>1 DEF IInv, IType, Mirrored
  <2>7. \A u \in Tokens : pending'[u] # None => u \in drawn'
    BY <2>1 DEF IInv, Mirrored, Cancelled
  <2> QED
    BY <2>3, <2>5, <2>6, <2>7 DEF IInv, Mirrored
<1> QED
  BY <1>1, <1>2 DEF Ask

(* A step that touches no token.                                             *)
LEMMA KeepInv ==
  ASSUME IInv, UNCHANGED <<token, pending, drawn, asked>>,
         hbri' \in SUBSET Clients, \A e \in Clients : e \in hbri => e \in hbri' \/ token[e] = None,
         sessions \subseteq sessions', sessions' \subseteq Clients, wants' \subseteq sessions',
         addr' \in [Clients -> Addresses \union {None}]
  PROVE  IInv'
  BY DEF IInv, IType, Mirrored

LEMMA IInvNext == HBRIAssumption /\ IInv /\ [Next]_vars => IInv'
<1> SUFFICES ASSUME HBRIAssumption, IInv, [Next]_vars PROVE IInv'
  OBVIOUS
<1> USE DEF hubVars, fieldVars, sessionVars
<1>t. /\ hbri \in SUBSET Clients /\ sessions \subseteq Clients /\ wants \subseteq sessions
      /\ addr \in [Clients -> Addresses \union {None}]
  BY DEF IInv, IType
<1>1. ASSUME NEW e \in Clients, NEW f \in {4, 6}, Connect(e, f) PROVE IInv'
  BY <1>1, <1>t, KeepInv DEF Connect
<1>2. ASSUME NEW e \in Clients, NEW how \in {"add", "remove", "same"}, NEW ok \in BOOLEAN,
             Sup(e, how, ok)
      PROVE  IInv'
  <2>1. /\ addr' = addr /\ sessions' = sessions
        /\ hbri' \in SUBSET Clients /\ \A d \in Clients \ {e} : d \in hbri => d \in hbri'
        /\ how # "remove" => hbri \subseteq hbri'
    BY <1>2, <1>t DEF Sup
  <2>2. CASE how = "remove" /\ e \in sessions
    <3>1. Cancel(e)
      BY <1>2, <2>2 DEF Sup
    <3> QED
      BY <2>1, <3>1, <1>t, CancelInv
  <2>3. CASE ~(how = "remove" /\ e \in sessions)
    <3>1. UNCHANGED <<wants, token, pending, drawn, asked>>
      BY <1>2, <2>3 DEF Sup
    <3>2. \A d \in Clients : d \in hbri => d \in hbri' \/ token[d] = None
      BY <2>1, <2>3 DEF IInv, Mirrored
    <3> QED
      BY <2>1, <3>1, <3>2, <1>t, KeepInv
  <2> QED
    BY <2>2, <2>3
<1>3. ASSUME NEW e \in Clients, NEW m \in Infs, InfRegistered(e, m) PROVE IInv'
  <2>1. /\ sessions \subseteq sessions' /\ sessions' \subseteq Clients /\ wants' \subseteq sessions'
        /\ addr' = addr /\ hbri' = hbri /\ UNCHANGED <<token, pending, drawn, asked>>
    BY <1>3, <1>t DEF InfRegistered, NoteIntent, Remember, Publish
  <2> QED
    BY <2>1, <1>t, KeepInv
<1>15. ASSUME NEW e \in Clients, NEW m \in Infs, InfAgain(e, m) PROVE IInv'
  <2>1. m.addr \in Addresses \union {None}
    BY DEF HBRIAssumption, InfTypes
  <2> QED
    BY <1>15, <2>1, <1>t, KeepInv DEF InfAgain
<1>4. ASSUME NEW e \in Clients, NEW m \in Infs, InfRefused(e, m) PROVE IInv'
  <2>1. /\ sessions \subseteq sessions' /\ sessions' \subseteq Clients /\ wants' \subseteq sessions'
        /\ addr' = addr /\ hbri' = hbri /\ UNCHANGED <<token, pending, drawn, asked>>
    BY <1>4, <1>t DEF InfRefused, NoteIntent, Remember, Refuse
  <2> QED
    BY <2>1, <1>t, KeepInv
<1>5. ASSUME NEW e \in Clients, NEW m \in Infs, InfLogin(e, m) PROVE IInv'
  <2>1. addr' = addr /\ hbri' = hbri /\ sessions' = sessions \union {e}
    BY <1>5 DEF InfLogin, Remember, Publish
  <2>2. CASE Intends(e, m)
    BY <1>5, <2>1, <2>2, <1>t, AskInv DEF InfLogin, Intends
  <2>3. CASE ~Intends(e, m)
    BY <1>5, <2>1, <2>3, <1>t, KeepInv DEF InfLogin
  <2> QED
    BY <2>2, <2>3
<1>6. ASSUME NEW e \in Clients, NEW m \in Infs, NEW ok \in BOOLEAN, InfUpdate(e, m, ok) PROVE IInv'
  <2>1. addr' = addr /\ hbri' = hbri /\ sessions' = sessions \union {e}
    BY <1>6 DEF InfUpdate, Remember, Publish, Refuse
  <2>2. CASE Intends(e, m) /\ Due(e, m)
    BY <1>6, <2>1, <2>2, <1>t, AskInv DEF InfUpdate, Intends
  <2>3. CASE ~(Intends(e, m) /\ Due(e, m)) /\ Intends(e, m) /\ token[e] \in expired
    BY <1>6, <2>1, <2>3, <1>t, CancelInv DEF InfUpdate
  <2>4. CASE ~(Intends(e, m) /\ Due(e, m)) /\ ~(Intends(e, m) /\ token[e] \in expired)
    BY <1>6, <2>1, <2>4, <1>t, KeepInv DEF InfUpdate
  <2> QED
    BY <2>2, <2>3, <2>4
<1>7. ASSUME NEW e \in Clients, Pas(e) PROVE IInv'
  <2>1. addr' = addr /\ hbri' = hbri /\ sessions' = sessions
    BY <1>7 DEF Pas
  <2>2. CASE e \in wants /\ e \in hbri
    <3>1. Ask(e) /\ sessions' = sessions \union {e}
      BY <1>7, <2>1, <2>2, <1>t DEF Pas
    <3> QED
      BY <2>1, <2>2, <3>1, <1>t, AskInv
  <2>3. CASE ~(e \in wants /\ e \in hbri)
    BY <1>7, <2>1, <2>3, <1>t, KeepInv DEF Pas
  <2> QED
    BY <2>2, <2>3
<1>8. ASSUME NEW e \in Clients, Disconnect(e) PROVE IInv'
  BY <1>8, <1>t, KeepInv DEF Disconnect, Refuse
<1>9. ASSUME NEW e \in Clients, Leave(e) PROVE IInv'
  <2>1. /\ pending' = Cancelled(e) /\ token' = [token EXCEPT ![e] = None]
        /\ wants' = wants \ {e} /\ sessions' = sessions \ {e} /\ hbri' = hbri \ {e}
        /\ asked' = [asked EXCEPT ![e] = {}] /\ drawn' = drawn
        /\ addr' = [addr EXCEPT ![e] = None]
    BY <1>9 DEF Leave
  <2>2. IType'
    BY <2>1 DEF IInv, IType, Cancelled
  <2>3. Mirrored'
    BY <2>1 DEF IInv, IType, Mirrored, Cancelled, HBRIAssumption
  <2> QED
    BY <2>2, <2>3 DEF IInv
<1>10. ASSUME NEW d \in Clients, NEW t \in Tokens \union {None}, TcpInvalid(d, t) PROVE IInv'
  BY <1>10, <1>t, KeepInv DEF TcpInvalid, Refuse
<1>11. ASSUME NEW d \in Clients, NEW t \in Tokens \union {None}, TcpRefused(d, t) PROVE IInv'
  <2>1. pending[t] \in Clients /\ Cancel(pending[t]) /\ UNCHANGED <<hbri, sessions, addr>>
    BY <1>11 DEF TcpRefused, Refuse, IInv, IType
  <2> QED
    BY <2>1, <1>t, CancelInv
<1>12. ASSUME NEW d \in Clients, NEW t \in Tokens, NEW u \in {"invalid", "port"}, TcpProves(d, t, u)
       PROVE  IInv'
  <2>1. /\ pending[t] \in Clients /\ Cancel(pending[t]) /\ UNCHANGED <<hbri, sessions>>
        /\ addr' = [addr EXCEPT ![pending[t]] = d]
    BY <1>12 DEF TcpProves, Refuse, IInv, IType
  <2> QED
    BY <2>1, <1>t, CancelInv
<1>13. ASSUME NEW t \in Tokens, Expire(t) PROVE IInv'
  BY <1>13, <1>t, KeepInv DEF Expire
<1>14. CASE UNCHANGED vars
  BY <1>14, <1>t, KeepInv DEF vars
<1> QED
  BY <1>1, <1>2, <1>3, <1>4, <1>5, <1>6, <1>7, <1>8, <1>9, <1>10, <1>11, <1>12, <1>13, <1>14, <1>15
     DEF Next

(* The invariant holds of every behaviour of the plugin.                     *)
THEOREM IInvAlways == Spec => []IInv
<1>1. HBRIAssumption
  BY HBRIAssumption
<1> QED
  BY <1>1, IInvInit, IInvNext, PTL DEF Spec

(* The sessions and the pending validations never disagree, whatever is      *)
(* withdrawn, expires, is proved or disconnects in between.                  *)
THEOREM PendingAlwaysExact == Spec => []PendingExact
<1>1. HBRIAssumption /\ IInv => PendingExact
  <2> SUFFICES ASSUME HBRIAssumption, IInv, NEW t \in Tokens, NEW e \in Clients
               PROVE  pending[t] = e <=> e \in sessions /\ token[e] = t
    BY DEF PendingExact
  <2>1. /\ pending[t] = e <=> token[e] = t
        /\ token[e] # None => e \in sessions
    BY DEF IInv, Mirrored
  <2>2. t # None
    BY DEF HBRIAssumption
  <2> QED
    BY <2>1, <2>2
<1>2. HBRIAssumption
  BY HBRIAssumption
<1> QED
  BY <1>1, <1>2, IInvAlways, PTL

(* A client that withdraws its support has no challenge outstanding.         *)
THEOREM WithdrawalAlwaysCancels == Spec => []WithdrawalCancels
<1>1. HBRIAssumption /\ IInv => WithdrawalCancels
  BY DEF HBRIAssumption, IInv, IType, Mirrored, WithdrawalCancels
<1>2. HBRIAssumption
  BY HBRIAssumption
<1> QED
  BY <1>1, <1>2, IInvAlways, PTL

(* Before the login and after it the plugin sees every INF, and an address   *)
(* gets into the fields only as the one observed on a connection over the    *)
(* other family that uses up an unexpired token the client was sent; the     *)
(* wait for a password is the one gap.                                       *)
THEOREM AddressesEarned == Spec => EarnedUnlessVerifying
<1> DEFINE Step == \A e \in Clients :
                     addr'[e] \notin {addr[e], None} /\ state[e] # "VERIFY" => IsEarned(e)
<1>1. HBRIAssumption /\ IInv /\ [Next]_vars => [Step]_vars
  <2> SUFFICES ASSUME HBRIAssumption, IInv, Next PROVE Step
    OBVIOUS
  <2> USE DEF fieldVars, hubVars, IsEarned
  <2>1. ASSUME addr' = addr PROVE Step
    BY <2>1
  <2>2. ASSUME NEW e \in Clients, Leave(e) PROVE Step
    BY <2>2 DEF Leave, IInv, IType
  <2>3. ASSUME NEW d \in Clients, NEW t \in Tokens, NEW u \in {"invalid", "port"},
               TcpProves(d, t, u)
        PROVE  Step
    <3>1. PICK e \in Clients : e = pending[t]
      BY <2>3 DEF TcpProves, IInv, IType
    <3>2. /\ addr' = [addr EXCEPT ![e] = d] /\ family[d] # family[e]
          /\ t \notin expired /\ token[e] = t /\ pending' = Cancelled(e)
      BY <2>3, <3>1 DEF TcpProves, InTime, OtherFamily, Cancel
    <3>3. t \in asked[e] /\ pending'[t] = None
      BY <3>1, <3>2 DEF IInv, Mirrored, Cancelled, HBRIAssumption
    <3>4. \A c \in Clients \ {e} : addr'[c] = addr[c]
      BY <3>2 DEF IInv, IType
    <3>5. addr'[e] = d
      BY <3>2 DEF IInv, IType
    <3> QED
      BY <3>1, <3>2, <3>3, <3>4, <3>5
  <2>4. ASSUME NEW e \in Clients, NEW m \in Infs, InfAgain(e, m)
        PROVE  Step
    <3>1. state[e] = "VERIFY" /\ \A c \in Clients \ {e} : addr'[c] = addr[c]
      BY <2>4 DEF InfAgain, IInv, IType
    <3> QED
      BY <3>1
  <2>10. ASSUME NEW e \in Clients, NEW m \in Infs,
                InfRegistered(e, m) \/ InfRefused(e, m) \/ InfLogin(e, m)
         PROVE  Step
    BY <2>1, <2>10 DEF InfRegistered, InfRefused, InfLogin, Publish
  <2>5. ASSUME NEW e \in Clients, NEW m \in Infs, NEW ok \in BOOLEAN, InfUpdate(e, m, ok)
        PROVE  Step
    BY <2>1, <2>5 DEF InfUpdate, Publish
  <2>6. ASSUME NEW e \in Clients, NEW t \in Tokens \union {None},
               TcpInvalid(e, t) \/ TcpRefused(e, t)
        PROVE  Step
    BY <2>1, <2>6 DEF TcpInvalid, TcpRefused
  <2>7. ASSUME NEW e \in Clients, NEW f \in {4, 6}, NEW how \in {"add", "remove", "same"},
               NEW ok \in BOOLEAN,
               Connect(e, f) \/ Sup(e, how, ok) \/ Pas(e) \/ Disconnect(e)
        PROVE  Step
    BY <2>1, <2>7 DEF Connect, Sup, Pas, Disconnect
  <2>8. ASSUME NEW t \in Tokens, Expire(t) PROVE Step
    BY <2>1, <2>8 DEF Expire
  <2>9. 4 \in {4, 6} /\ TRUE \in BOOLEAN /\ "add" \in {"add", "remove", "same"}
    OBVIOUS
  <2> HIDE DEF Step
  <2> QED
    BY <2>2, <2>3, <2>4, <2>5, <2>6, <2>7, <2>8, <2>9, <2>10 DEF Next
<1>2. HBRIAssumption
  BY HBRIAssumption
<1> QED
  BY <1>1, <1>2, IInvAlways, PTL DEF Spec, EarnedUnlessVerifying

-------------------------------------------------------------------------------
(* The types, the questions that are owed and the ports that are public.     *)

(* What the maps and the history of tokens are.                              *)
TokenTypes ==
  /\ token \in [Clients -> Tokens \union {None}]
  /\ pending \in [Tokens -> Clients \union {None}]
  /\ expired \subseteq {t \in Tokens : pending[t] # None}
  /\ drawn \subseteq Tokens
  /\ asked \in [Clients -> SUBSET drawn]

(* A session that gives up its token leaves everything of its type.          *)
LEMMA CancelTypes ==
  ASSUME HBRIAssumption, TokenTypes, NEW e \in Clients, Cancel(e)
  PROVE  TokenTypes'
  BY DEF TokenTypes, Cancel, Cancelled

(* So does one that is sent a token, or cannot be.                           *)
LEMMA AskTypes ==
  ASSUME HBRIAssumption, TokenTypes, NEW e \in Clients, Ask(e)
  PROVE  TokenTypes' /\ drawn \subseteq drawn' /\ wants' = wants \union {e}
                     /\ (token'[e] # None \/ drawn' = Tokens)
<1>1. CASE drawn = Tokens /\ pending' = Cancelled(e) /\ token' = [token EXCEPT ![e] = None]
           /\ UNCHANGED <<drawn, asked>>
  BY <1>1 DEF Ask, TokenTypes, Cancelled
<1>2. CASE \E t \in Tokens \ drawn :
             /\ pending' = [Cancelled(e) EXCEPT ![t] = e]
             /\ token' = [token EXCEPT ![e] = t]
             /\ drawn' = drawn \union {t}
             /\ asked' = [asked EXCEPT ![e] = @ \union {t}]
  <2>1. PICK t \in Tokens \ drawn :
             /\ pending' = [Cancelled(e) EXCEPT ![t] = e]
             /\ token' = [token EXCEPT ![e] = t]
             /\ drawn' = drawn \union {t}
             /\ asked' = [asked EXCEPT ![e] = @ \union {t}]
    BY <1>2
  <2>2. wants' = wants \union {e} /\ expired' = expired \ {token[e]}
    BY DEF Ask
  <2>3. e # None /\ t # None
    BY DEF HBRIAssumption
  <2>4. \A u \in Tokens : pending'[u] = IF u = t THEN e ELSE IF u = token[e] THEN None ELSE pending[u]
    BY <2>1 DEF Cancelled
  <2>5. pending' \in [Tokens -> Clients \union {None}]
    BY <2>1 DEF TokenTypes, Cancelled
  <2>6. expired' \subseteq {u \in Tokens : pending'[u] # None}
    BY <2>2, <2>3, <2>4 DEF TokenTypes
  <2>7. /\ token' \in [Clients -> Tokens \union {None}] /\ token'[e] = t
        /\ drawn' \subseteq Tokens /\ drawn \subseteq drawn'
    BY <2>1 DEF TokenTypes
  <2>8. asked' \in [Clients -> SUBSET drawn']
    BY <2>1 DEF TokenTypes
  <2> QED
    BY <2>2, <2>3, <2>5, <2>6, <2>7, <2>8 DEF TokenTypes
<1> QED
  BY <1>1, <1>2 DEF Ask

(* What the hub around the plugin and the public fields are.                 *)
HubTypes ==
  /\ state \in [Clients -> States] /\ family \in [Clients -> {4, 6}]
  /\ closing \subseteq Clients /\ hbri \subseteq Clients
  /\ addr \in [Clients -> Addresses \union {None}]
  /\ udp \in [Clients -> {"empty", "invalid", "port"}]

(* An intent on record is that of a client that supports HBRI, and belongs   *)
(* to one that is logged in, waits for its password or is being              *)
(* disconnected: it is not forgotten between the INF and the login.          *)
Intents ==
  /\ wants \subseteq sessions /\ sessions \subseteq {e \in Clients : state[e] # "off"}
  /\ port \in [Clients -> {"empty", "port"}]
  /\ \A e \in wants : e \in hbri /\ (state[e] \in {"VERIFY", "NORMAL"} \/ e \in closing)
  /\ WantedIsAsked

Typed == TokenTypes /\ HubTypes /\ Intents /\ UdpWithAddress

LEMMA TypedInit == HBRIAssumption /\ Init => Typed
  BY DEF HBRIAssumption, Init, Typed, TokenTypes, HubTypes, Intents, UdpWithAddress,
         WantedIsAsked, States

LEMMA TypedNext == HBRIAssumption /\ Typed /\ [Next]_vars => Typed'
<1> SUFFICES ASSUME HBRIAssumption, Typed, [Next]_vars PROVE Typed'
  OBVIOUS
<1> USE DEF hubVars, fieldVars, sessionVars
<1>t. TokenTypes /\ HubTypes /\ Intents /\ UdpWithAddress
  BY DEF Typed
<1>a. ASSUME TokenTypes' /\ HubTypes' /\ Intents' /\ UdpWithAddress' PROVE Typed'
  BY <1>a DEF Typed
<1>b. ASSUME UNCHANGED <<token, pending, expired, drawn, asked>> PROVE TokenTypes'
  BY <1>b, <1>t DEF TokenTypes
<1>c. ASSUME UNCHANGED <<addr, udp>> PROVE UdpWithAddress'
  BY <1>c, <1>t DEF UdpWithAddress
<1>1. ASSUME NEW e \in Clients, NEW f \in {4, 6}, Connect(e, f) PROVE Typed'
  <2>1. HubTypes'
    BY <1>1, <1>t DEF Connect, HubTypes, States
  <2>2. Intents'
    BY <1>1, <1>t DEF Connect, HubTypes, Intents, WantedIsAsked
  <2> QED
    BY <1>1, <2>1, <2>2, <1>a, <1>b, <1>c DEF Connect
<1>2. ASSUME NEW e \in Clients, NEW how \in {"add", "remove", "same"}, NEW ok \in BOOLEAN,
             Sup(e, how, ok)
      PROVE  Typed'
  <2>1. HubTypes'
    BY <1>2, <1>t DEF Sup, HubTypes, States
  <2>2. /\ closing \subseteq closing'
        /\ \A c \in Clients : state'[c] = "NORMAL" <=> state[c] = "NORMAL"
        /\ \A c \in Clients : state[c] = "VERIFY" => state'[c] = "VERIFY"
        /\ \A c \in Clients \ {e} : c \in hbri => c \in hbri'
        /\ how # "remove" => hbri \subseteq hbri'
    BY <1>2, <1>t DEF Sup, HubTypes
  <2>3. \A c \in Clients : state[c] # "off" => state'[c] # "off"
    BY <1>2, <1>t DEF Sup, HubTypes
  <2>4. UNCHANGED <<addr, udp, sessions, port>>
    BY <1>2 DEF Sup
  <2>5. CASE how = "remove" /\ e \in sessions
    <3>1. Cancel(e)
      BY <1>2, <2>5 DEF Sup
    <3>2. TokenTypes'
      BY <3>1, <1>t, CancelTypes
    <3>3. Intents'
      BY <3>1, <2>2, <2>3, <2>4, <1>t DEF Cancel, Intents, WantedIsAsked, TokenTypes
    <3> QED
      BY <3>2, <3>3, <2>1, <2>4, <1>a, <1>c
  <2>6. CASE ~(how = "remove" /\ e \in sessions)
    <3>1. UNCHANGED <<wants, token, pending, expired, drawn, asked>>
      BY <1>2, <2>6 DEF Sup
    <3>2. \A c \in wants : c \in hbri'
      BY <2>2, <2>6, <1>t DEF Intents
    <3>3. Intents'
      BY <3>1, <3>2, <2>2, <2>3, <2>4, <1>t DEF Intents, WantedIsAsked
    <3> QED
      BY <3>1, <3>3, <2>1, <2>4, <1>a, <1>b, <1>c
  <2> QED
    BY <2>5, <2>6
<1>r. ASSUME NEW e \in Clients, NEW m \in Infs, Remember(e, m)
      PROVE  sessions' = sessions \union {e} /\ port' \in [Clients -> {"empty", "port"}]
  BY <1>r, <1>t DEF Remember, PortAfter, Intents
<1>p. ASSUME NEW e \in Clients, NEW m \in Infs, Publish(e, m)
      PROVE  addr' = addr /\ udp' \in [Clients -> {"empty", "invalid", "port"}] /\ UdpWithAddress'
  BY <1>p, <1>t DEF Publish, UdpPasses, HubTypes, UdpWithAddress
<1>n. ASSUME NEW e \in Clients, NEW m \in Infs, NoteIntent(e, m)
      PROVE  /\ sessions' = sessions \union {e} /\ port' \in [Clients -> {"empty", "port"}]
             /\ wants' \subseteq wants \union {e} /\ wants' \subseteq sessions'
             /\ e \in wants' => e \in wants \/ e \in hbri
  BY <1>n, <1>r, <1>t DEF NoteIntent, Intends, Intents
<1>3. ASSUME NEW e \in Clients, NEW m \in Infs, InfRegistered(e, m) PROVE Typed'
  <2>1. /\ Hears(e) /\ state[e] = "IDENTIFY" /\ state' = [state EXCEPT ![e] = "VERIFY"]
        /\ NoteIntent(e, m) /\ Publish(e, m)
        /\ UNCHANGED <<closing, family, hbri, token, pending, expired, drawn, asked>>
    BY <1>3 DEF InfRegistered
  <2>2. HubTypes' /\ UdpWithAddress'
    BY <2>1, <1>p, <1>t DEF HubTypes, States
  <2>3. Intents'
    BY <2>1, <1>n, <1>t DEF HubTypes, Intents, WantedIsAsked, Hears
  <2> QED
    BY <2>1, <2>2, <2>3, <1>a, <1>b
<1>15. ASSUME NEW e \in Clients, NEW m \in Infs, InfAgain(e, m) PROVE Typed'
  <2>1. /\ m.addr \in Addresses \union {None} /\ m.udp \in {"absent", "empty", "invalid", "port"}
    BY DEF HBRIAssumption, InfTypes
  <2>2. HubTypes' /\ UdpWithAddress'
    BY <1>15, <2>1, <1>t DEF InfAgain, HubTypes, UdpWithAddress
  <2>3. Intents'
    BY <1>15, <1>t DEF InfAgain, Intents, WantedIsAsked
  <2> QED
    BY <1>15, <2>2, <2>3, <1>a, <1>b DEF InfAgain
<1>4. ASSUME NEW e \in Clients, NEW m \in Infs, InfRefused(e, m) PROVE Typed'
  <2>1. UNCHANGED <<state, family, hbri, addr, udp>> /\ closing' = closing \union {e}
    BY <1>4 DEF InfRefused, Refuse
  <2>2. HubTypes'
    BY <2>1, <1>t DEF HubTypes
  <2>3. /\ sessions' \subseteq sessions \union {e} /\ wants' \subseteq wants \union {e}
        /\ wants' \subseteq sessions' /\ port' \in [Clients -> {"empty", "port"}]
        /\ e \in wants' => e \in hbri
    BY <1>4, <1>n, <1>t DEF InfRefused, Intents
  <2>4. Intents'
    BY <1>4, <2>1, <2>3, <1>t DEF InfRefused, Hears, Intents, WantedIsAsked, HubTypes
  <2> QED
    BY <1>4, <2>1, <2>2, <2>4, <1>a, <1>b, <1>c DEF InfRefused
<1>5. ASSUME NEW e \in Clients, NEW m \in Infs, InfLogin(e, m) PROVE Typed'
  <2>1. /\ Hears(e) /\ state' = [state EXCEPT ![e] = "NORMAL"] /\ UNCHANGED <<closing, family, hbri>>
        /\ state[e] = "IDENTIFY" /\ Remember(e, m) /\ Publish(e, m)
    BY <1>5 DEF InfLogin
  <2>2. HubTypes' /\ UdpWithAddress'
    BY <2>1, <1>p, <1>t DEF HubTypes, States
  <2>3. e \notin wants
    BY <2>1, <1>t DEF Hears, Intents
  <2>4. CASE Intends(e, m)
    <3>1. Ask(e)
      BY <1>5, <2>4 DEF InfLogin
    <3>2. /\ TokenTypes' /\ drawn \subseteq drawn' /\ wants' = wants \union {e}
          /\ token'[e] # None \/ drawn' = Tokens
      BY <3>1, <1>t, AskTypes
    <3>3. \A c \in Clients \ {e} : token'[c] = token[c]
      BY <3>1, <1>t DEF Ask, TokenTypes
    <3>4. drawn' \subseteq Tokens
      BY <3>2 DEF TokenTypes
    <3>5. Intents'
      BY <2>1, <2>4, <1>r, <3>2, <3>3, <3>4, <1>t, SMTT(40)
         DEF Intends, Intents, WantedIsAsked, HubTypes, Hears
    <3> QED
      BY <3>2, <3>5, <2>2, <1>a
  <2>5. CASE ~Intends(e, m)
    <3>1. UNCHANGED <<wants, token, pending, expired, drawn, asked>>
      BY <1>5, <2>5 DEF InfLogin
    <3>2. Intents'
      BY <2>1, <1>r, <2>3, <3>1, <1>t DEF Intents, WantedIsAsked, HubTypes, Hears
    <3> QED
      BY <3>1, <3>2, <2>2, <1>a, <1>b
  <2> QED
    BY <2>4, <2>5
<1>6. ASSUME NEW e \in Clients, NEW m \in Infs, NEW ok \in BOOLEAN, InfUpdate(e, m, ok) PROVE Typed'
  <2>1. /\ Hears(e) /\ state[e] = "NORMAL" /\ Remember(e, m) /\ UNCHANGED <<state, family, hbri>>
        /\ closing \subseteq closing' /\ closing' \subseteq Clients
    BY <1>6, <1>t DEF InfUpdate, Refuse, HubTypes
  <2>2. HubTypes' /\ UdpWithAddress'
    <3>1. CASE ok
      BY <1>6, <3>1, <1>p, <1>t DEF InfUpdate, HubTypes
    <3>2. CASE ~ok
      BY <1>6, <2>1, <3>2, <1>c, <1>t DEF InfUpdate, HubTypes
    <3> QED
      BY <3>1, <3>2
  <2>3. CASE Intends(e, m) /\ Due(e, m)
    <3>1. Ask(e)
      BY <1>6, <2>3 DEF InfUpdate
    <3>2. /\ TokenTypes' /\ drawn \subseteq drawn' /\ wants' = wants \union {e}
          /\ token'[e] # None \/ drawn' = Tokens
      BY <3>1, <1>t, AskTypes
    <3>3. \A c \in Clients \ {e} : token'[c] = token[c]
      BY <3>1, <1>t DEF Ask, TokenTypes
    <3>4. drawn' \subseteq Tokens
      BY <3>2 DEF TokenTypes
    <3>5. Intents'
      BY <2>1, <2>3, <1>r, <3>2, <3>3, <3>4, <1>t, SMTT(40)
         DEF Intends, Intents, WantedIsAsked, HubTypes, Hears
    <3> QED
      BY <3>2, <3>5, <2>2, <1>a
  <2>4. CASE ~(Intends(e, m) /\ Due(e, m)) /\ Intends(e, m) /\ token[e] \in expired
    <3>1. Cancel(e)
      BY <1>6, <2>4 DEF InfUpdate
    <3>2. TokenTypes'
      BY <3>1, <1>t, CancelTypes
    <3>3. Intents'
      BY <3>1, <2>1, <1>r, <1>t DEF Cancel, Intents, WantedIsAsked, TokenTypes, Hears
    <3> QED
      BY <3>2, <3>3, <2>2, <1>a
  <2>5. CASE ~(Intends(e, m) /\ Due(e, m)) /\ ~(Intends(e, m) /\ token[e] \in expired)
    <3>1. UNCHANGED <<wants, token, pending, expired, drawn, asked>>
      BY <1>6, <2>5 DEF InfUpdate
    <3>2. Intents'
      BY <2>1, <1>r, <3>1, <1>t DEF Intents, WantedIsAsked, Hears
    <3> QED
      BY <3>1, <3>2, <2>2, <1>a, <1>b
  <2> QED
    BY <2>3, <2>4, <2>5
<1>7. ASSUME NEW e \in Clients, Pas(e) PROVE Typed'
  <2>1. /\ Hears(e) /\ state[e] = "VERIFY" /\ state' = [state EXCEPT ![e] = "NORMAL"]
        /\ UNCHANGED <<closing, family, hbri, addr, udp, sessions, port>>
    BY <1>7 DEF Pas
  <2>2. HubTypes'
    BY <2>1, <1>t DEF HubTypes, States
  <2>3. CASE e \in wants
    <3>1. Ask(e)
      BY <1>7, <2>3, <1>t DEF Pas, Intents
    <3>2. /\ TokenTypes' /\ drawn \subseteq drawn' /\ wants' = wants \union {e}
          /\ token'[e] # None \/ drawn' = Tokens
      BY <3>1, <1>t, AskTypes
    <3>3. \A c \in Clients \ {e} : token'[c] = token[c]
      BY <3>1, <1>t DEF Ask, TokenTypes
    <3>4. drawn' \subseteq Tokens
      BY <3>2 DEF TokenTypes
    <3>5. Intents'
      BY <2>1, <2>3, <3>2, <3>3, <3>4, <1>t DEF Intents, WantedIsAsked, HubTypes
    <3> QED
      BY <3>2, <3>5, <2>1, <2>2, <1>a, <1>c
  <2>4. CASE e \notin wants
    <3>1. UNCHANGED <<wants, token, pending, expired, drawn, asked>>
      BY <1>7, <2>4 DEF Pas
    <3>2. Intents'
      BY <2>1, <2>4, <3>1, <1>t DEF Intents, WantedIsAsked, HubTypes
    <3> QED
      BY <3>1, <3>2, <2>1, <2>2, <1>a, <1>b, <1>c
  <2> QED
    BY <2>3, <2>4
<1>o. ASSUME NEW e \in Clients, Refuse(e), UNCHANGED <<fieldVars, sessionVars>> PROVE Typed'
  <2>1. HubTypes'
    BY <1>o, <1>t DEF Refuse, HubTypes
  <2>2. Intents'
    BY <1>o, <1>t DEF Refuse, Intents, WantedIsAsked
  <2> QED
    BY <1>o, <2>1, <2>2, <1>a, <1>b, <1>c
<1>8. ASSUME NEW e \in Clients, Disconnect(e) PROVE Typed'
  BY <1>8, <1>o DEF Disconnect
<1>9. ASSUME NEW e \in Clients, Leave(e) PROVE Typed'
  <2>1. TokenTypes'
    BY <1>9, <1>t DEF Leave, TokenTypes, Cancelled, HBRIAssumption
  <2>2. HubTypes'
    BY <1>9, <1>t DEF Leave, HubTypes, States
  <2>3. Intents'
    BY <1>9, <1>t DEF Leave, HubTypes, TokenTypes, Intents, WantedIsAsked
  <2>4. UdpWithAddress'
    BY <1>9, <1>t DEF Leave, HubTypes, UdpWithAddress
  <2> QED
    BY <2>1, <2>2, <2>3, <2>4, <1>a
<1>10. ASSUME NEW d \in Clients, NEW t \in Tokens \union {None}, TcpInvalid(d, t) PROVE Typed'
  BY <1>10, <1>o DEF TcpInvalid
<1>11. ASSUME NEW d \in Clients, NEW t \in Tokens \union {None}, TcpRefused(d, t) PROVE Typed'
  <2>1. pending[t] \in Clients /\ Cancel(pending[t]) /\ Refuse(d) /\ UNCHANGED <<addr, udp, sessions, port>>
    BY <1>11, <1>t DEF TcpRefused, TokenTypes
  <2>2. TokenTypes'
    BY <2>1, <1>t, CancelTypes
  <2>3. HubTypes'
    BY <2>1, <1>t DEF Refuse, HubTypes
  <2>4. Intents'
    BY <2>1, <1>t DEF Refuse, Cancel, Intents, WantedIsAsked, TokenTypes
  <2> QED
    BY <2>1, <2>2, <2>3, <2>4, <1>a, <1>c
<1>12. ASSUME NEW d \in Clients, NEW t \in Tokens, NEW u \in {"invalid", "port"}, TcpProves(d, t, u)
       PROVE  Typed'
  <2> DEFINE e == pending[t]
  <2>1. /\ e \in Clients /\ Cancel(e) /\ Refuse(d) /\ sessions' = sessions
        /\ addr' = [addr EXCEPT ![e] = d] /\ udp' = [udp EXCEPT ![e] = port'[e]]
        /\ port' = IF u = "port" THEN [port EXCEPT ![e] = u] ELSE port
    BY <1>12, <1>t DEF TcpProves, TokenTypes
  <2> HIDE DEF e
  <2>2. TokenTypes'
    BY <2>1, <1>t, CancelTypes
  <2>3. port' \in [Clients -> {"empty", "port"}]
    BY <2>1, <1>t DEF Intents
  <2>4. HubTypes'
    BY <2>1, <2>3, <1>t DEF Refuse, HubTypes
  <2>5. Intents'
    BY <2>1, <2>3, <1>t DEF Refuse, Cancel, Intents, WantedIsAsked, TokenTypes
  <2>6. UdpWithAddress'
    BY <2>1, <1>t DEF HubTypes, UdpWithAddress, HBRIAssumption
  <2> QED
    BY <2>2, <2>4, <2>5, <2>6, <1>a
<1>13. ASSUME NEW t \in Tokens, Expire(t) PROVE Typed'
  <2>1. TokenTypes'
    BY <1>13, <1>t DEF Expire, TokenTypes
  <2>2. HubTypes' /\ Intents'
    BY <1>13, <1>t DEF Expire, HubTypes, Intents, WantedIsAsked
  <2> QED
    BY <1>13, <2>1, <2>2, <1>a, <1>c DEF Expire
<1>14. CASE UNCHANGED vars
  BY <1>14 DEF vars, Typed, TokenTypes, HubTypes, Intents, WantedIsAsked, UdpWithAddress
<1> QED
  BY <1>1, <1>2, <1>3, <1>4, <1>5, <1>6, <1>7, <1>8, <1>9, <1>10, <1>11, <1>12, <1>13, <1>14, <1>15
     DEF Next

LEMMA TypedAlways == Spec => []Typed
<1>1. HBRIAssumption
  BY HBRIAssumption
<1> QED
  BY <1>1, TypedInit, TypedNext, PTL DEF Spec

(* Every variable of the plugin keeps its type: intents belong to sessions,  *)
(* sessions to connected clients, and only pending tokens are expired.       *)
THEOREM TypeCorrect == Spec => []TypeOK
<1>1. Typed => TypeOK
  BY DEF Typed, TokenTypes, HubTypes, Intents, TypeOK
<1> QED
  BY <1>1, TypedAlways, PTL

(* Whoever is logged in and has an intent on record was sent a question,     *)
(* unless no token could be drawn; a login by password does not lose the     *)
(* intent that the INF showed before it.                                     *)
THEOREM WantedAlwaysAsked == Spec => []WantedIsAsked
<1>1. Typed => WantedIsAsked
  BY DEF Typed, Intents
<1> QED
  BY <1>1, TypedAlways, PTL

(* The secondary port of a client without a password is public only next to  *)
(* an address.                                                               *)
THEOREM UdpAlwaysWithAddress == Spec => []UdpWithAddress
<1>1. Typed => UdpWithAddress
  BY DEF Typed
<1> QED
  BY <1>1, TypedAlways, PTL
===============================================================================
