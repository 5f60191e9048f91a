---------------------------- MODULE BulletinBoard ----------------------------
(***************************************************************************)
(* What the index of a board promises, whatever happens to the hub that    *)
(* keeps it: posts and withdrawals take effect completely or not at all,   *)
(* in an order that their timestamps respect, the newest are kept, and the *)
(* horizon says from which time on none is missing.                        *)
(***************************************************************************)
EXTENDS Integers, Sequences, Selection

CONSTANTS Posts, MaxPosts, Times

VARIABLE board   \* entries: oldest first; horizon

Empty == [entries |-> <<>>, horizon |-> 0]

(* The timestamp that no later entry may precede.                            *)
Latest(b) ==
  IF b.entries # <<>> /\ b.entries[Len(b.entries)].ts > b.horizon
  THEN b.entries[Len(b.entries)].ts ELSE b.horizon

Besides(p, b) == {b.entries[i] : i \in {j \in DOMAIN b.entries : b.entries[j].tth # p}}

With(b, e) ==
  LET all == Append(Select(b.entries, Besides(e.tth, b)), e)
      over == Len(all) - MaxPosts
  IN IF over <= 0 THEN [b EXCEPT !.entries = all]
     ELSE [entries |-> SubSeq(all, over + 1, Len(all)), horizon |-> all[over + 1].ts]

Indexed(p, b) == {i \in DOMAIN b.entries : b.entries[i].tth = p}

(* The entries that a post or a withdrawal may put on the board.             *)
Posted(b) ==
  {e \in [tth : Posts, ts : Times, removed : {FALSE}] :
     Indexed(e.tth, b) = {} /\ e.ts >= Latest(b)}

Withdrawn(b) ==
  {e \in [tth : Posts, ts : Times, removed : {TRUE}] :
     e.ts >= Latest(b) /\ \E i \in Indexed(e.tth, b) : ~b.entries[i].removed}

Post == \E e \in Posted(board) : board' = With(board, e)

Withdraw == \E e \in Withdrawn(board) : board' = With(board, e)

(* A restart may forget for how long the entries of a full board have been   *)
(* complete, and claim only what they show.                                  *)
Reopen ==
  /\ Len(board.entries) = MaxPosts
  /\ board.entries[1].ts > board.horizon
  /\ board' = [board EXCEPT !.horizon = board.entries[1].ts]

Next == Post \/ Withdraw \/ Reopen

Spec == board = Empty /\ [][Next]_board
===============================================================================
