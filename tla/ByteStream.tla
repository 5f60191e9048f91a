------------------------------ MODULE ByteStream ------------------------------
(***************************************************************************)
(* What a connected socket promises to the code that writes to it, with no *)
(* queue of buffers, no timer and no callback: the bytes that were         *)
(* accepted leave in order, each once; none is accepted after the socket   *)
(* was told to disconnect; the stream is finished (an orderly end, the     *)
(* peer reads everything) only when nothing is left to send, and otherwise *)
(* it is aborted.  ManagedSocket implements it.                            *)
(***************************************************************************)
EXTENDS Naturals, Sequences, SequencesExt

CONSTANT Bytes

VARIABLES
  accepting,   \* new bytes are still taken
  unsent,      \* accepted bytes that have not left yet
  delivered,   \* bytes that have left
  end          \* "open", "finished" (orderly) or "aborted"

absVars == <<accepting, unsent, delivered, end>>

TypeOK ==
  /\ accepting \in BOOLEAN
  /\ unsent \in Seq(Bytes) /\ delivered \in Seq(Bytes)
  /\ end \in {"open", "finished", "aborted"}

Init == accepting = TRUE /\ unsent = <<>> /\ delivered = <<>> /\ end = "open"

Stop == accepting' \in {accepting, FALSE}

\* A write is queued as a whole; the same call may find the peer stuck and stop.
Accept ==
  /\ accepting /\ end = "open"
  /\ Len(unsent') > Len(unsent)
  /\ IsPrefix(unsent, unsent')
  /\ Stop
  /\ UNCHANGED <<delivered, end>>

\* A prefix leaves; the last one may finish the stream, or find it broken.
Deliver ==
  /\ end # "finished"
  /\ \E n \in 1..Len(unsent) :
       /\ delivered' = delivered \o SubSeq(unsent, 1, n)
       /\ unsent' = SubSeq(unsent, n + 1, Len(unsent))
  /\ Stop
  /\ end' = end \/ (~accepting /\ unsent' = <<>> /\ end' \in {"finished", "aborted"})

Disconnect ==
  /\ accepting' = FALSE
  /\ UNCHANGED <<unsent, delivered>>
  /\ end' = end \/ (unsent = <<>> /\ end = "open" /\ end' = "finished")

Abort == end' = "aborted" /\ UNCHANGED <<unsent, delivered>> /\ Stop

Next == Accept \/ Deliver \/ Disconnect \/ Abort

Spec == Init /\ [][Next]_absVars
===============================================================================
