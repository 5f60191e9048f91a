------------------------------- MODULE MCHBRI -------------------------------
(* Instances of HBRI for TLC. *)
EXTENDS HBRI

CONSTANTS c1, c2, c3

ThisInf(a, p, u) == [addr |-> a, primary |-> p, udp |-> u]

\* With and without a claim, that may be the address shown, and the port.
SomeInfs ==
  {ThisInf(a, TRUE, "absent") : a \in {None, Claimed, Invalid, c2}}
    \union {ThisInf(Claimed, FALSE, u) : u \in {"port", "invalid"}}
    \union {ThisInf(None, TRUE, u) : u \in {"port", "empty"}}
===============================================================================
