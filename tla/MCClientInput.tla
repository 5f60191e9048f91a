---------------------------- MODULE MCClientInput ----------------------------
(* Instances of ClientInput for TLC. *)
EXTENDS ClientInput, TLC

U(cmd, arg) == [cmd |-> cmd, arg |-> arg]

(* A filter of one unit for one file, and one of two for more.               *)
MCBytes == 1 :> 1 @@ 2 :> 2

MCBody ==
  {U("INF", 1), U("INF", 2), U("SS", 0), U("SND", 1), U("SND", 2),
   U("ALIEN", 0), U("MSGESC", 0), U("RICHESC", 0)}
==============================================================================
