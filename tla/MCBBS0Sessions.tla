--------------------------- MODULE MCBBS0Sessions ---------------------------
(* Instances of BBS0Sessions for TLC. *)
EXTENDS BBS0Sessions, TLC

CONSTANTS me, others, p1, p2, p3

(* Everybody may post and withdraw that; an operator subscribes, and         *)
(* withdraws what others posted.                                             *)
MCRequired == "subscribe" :> 1 @@ "post" :> 0 @@ "withdraw own" :> 0 @@ "withdraw any" :> 1

MCAuthor == [p \in Posts |-> IF p = p1 THEN me ELSE others]

(* Two posts of the same author are alike.                                   *)
MCSymmetry == Permutations({p2, p3})
==============================================================================
