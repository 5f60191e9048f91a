--------------------------- MODULE MCClientManager ---------------------------
(* Instances of ClientManager for TLC. *)
EXTENDS ClientManager, TLC

CONSTANTS c1, c2, c3, b1, n1, n2, x1, x2, xb

\* Each entity draws a SID of its own.
OwnDraws == [e \in Entities |-> {e}]

BotCids == [b \in Bots |-> xb]

ThisInf(n, x, f) == [nick |-> n, cid |-> x, fault |-> f]

Names == {ThisInf(n, x, "none") : n \in {n1, n2}, x \in {x1, x2}}
Faults == {ThisInf(n1, x1, f) : f \in {"pid", "nick", "desc"}}

\* A client logs in with any nick and CID, and anything is wrong with its INF.
AllInfs ==
  Names \union Faults
    \union {ThisInf(n, None, "none") : n \in {n1, n2, None}}

\* The description is found good, and the nick is not given a second time.
GoodInfs == Names \union {ThisInf(n1, x1, "nick"), ThisInf(None, x1, "none")}
QuietInfs == {ThisInf(None, None, "none"), ThisInf(None, None, "desc")}
===============================================================================
