---------------------------- MODULE CommandStream ----------------------------
(***************************************************************************)
(* What a client may rely on when it talks to the hub: lines are taken     *)
(* whole and in order, a block of data is as long as the hub asked for and *)
(* begins right after the SND that announces it, and nothing counts after  *)
(* the end.  There are no chunks.                                          *)
(***************************************************************************)
EXTENDS Commands

VARIABLES
  stream,    \* what was sent and not taken yet
  open,
  block,     \* a block comes next
  asked,     \* the length of the filter that was asked for, or 0
  filter, share, handled

vars == <<stream, open, block, asked, filter, share, handled>>

Init ==
  /\ stream = <<>> /\ open = TRUE /\ block = FALSE /\ asked = 0
  /\ filter = <<>> /\ share = 0 /\ handled = "NONE"

Rest(n) == SubSeq(stream, n + 1, Len(stream))

IsLine(n) == stream[n] = NL /\ \A i \in 1..(n - 1) : stream[i] # NL

Send ==
  /\ open /\ open' = TRUE
  /\ Len(stream') > Len(stream) /\ SubSeq(stream', 1, Len(stream)) = stream
  /\ UNCHANGED <<block, asked, filter, share, handled>>

(* The hub ends the connection: because of a line that it does not want, or  *)
(* for any other reason.                                                     *)
Close ==
  /\ open /\ open' = FALSE /\ stream' = <<>>
  /\ UNCHANGED <<block, asked, filter, share, handled>>

(* What is left of the stream after its first n units, unless the hub ends   *)
(* the connection because of them.                                           *)
Take(n) ==
  /\ open' \in BOOLEAN
  /\ stream' = IF open' THEN Rest(n) ELSE <<>>

(* An SND has to announce the block that was asked for.                      *)
Announces(line) == asked > 0 /\ line[1].arg = asked

Snd(line) ==
  /\ IsSnd(line) /\ Announces(line)
  /\ block' = TRUE /\ UNCHANGED <<asked, filter, share>>

BadSnd(line) ==
  /\ IsSnd(line) /\ ~Announces(line)
  /\ open' = FALSE /\ asked' = 0 /\ UNCHANGED <<block, filter, share>>

Command(line) ==
  /\ ~IsSnd(line) /\ block' = FALSE
  /\ share' = ShareAfter(line, share)
  /\ LET files == Files(line, share) IN
     IF asked = 0 /\ files > 0 THEN asked' = Bytes[files] /\ filter' = <<>>
     ELSE UNCHANGED <<asked, filter>>

Line ==
  /\ open /\ ~block
  /\ \E n \in DOMAIN stream :
       /\ IsLine(n) /\ Take(n)
       /\ LET line == SubSeq(stream, 1, n - 1) IN
          \/ /\ ~Passed(line)
             /\ handled' = handled \/ (Injects(line) /\ handled' = Repaired(line)[1].cmd)
             /\ UNCHANGED <<block, asked, filter, share>>
          \/ /\ Passed(line) /\ handled' = line[1].cmd
             /\ Snd(line) \/ BadSnd(line) \/ Command(line)

Block ==
  /\ open /\ block /\ open' = TRUE
  /\ Len(stream) >= asked
  /\ filter' = SubSeq(stream, 1, asked) /\ stream' = Rest(asked)
  /\ block' = FALSE /\ asked' = 0
  /\ UNCHANGED <<share, handled>>

Next == Send \/ Line \/ Block \/ Close

Spec == Init /\ [][Next]_vars
===============================================================================
