------------------------------ MODULE Commands ------------------------------
(***************************************************************************)
(* What the hub makes of one line of a client that supports search         *)
(* filters: AdcCommand::parse, the repair of a rich text message by the    *)
(* RTF0 plugin, and which lines concern the filter.                        *)
(*                                                                         *)
(* A line is a sequence of units: the command with the part of it that     *)
(* matters, then parameters.  A unit stands for the bytes that make it up, *)
(* and counts as one.                                                      *)
(***************************************************************************)
EXTENDS Integers, Sequences

CONSTANTS
  Body,    \* the units that clients send, but for the line end
  Bytes    \* Bytes[n]: m / 8, the length of the filter of n shared files

ASSUME CommandsAssumption ==
  /\ Bytes \in [DOMAIN Bytes -> Nat \ {0}]
  /\ \A u \in Body : u.cmd # "NL" /\ (u.cmd = "INF" => u.arg \in {0} \union DOMAIN Bytes)

NL == [cmd |-> "NL", arg |-> 0]

Unit == Body \union {NL}

(* INF with the number of shared files, INF with their size only, SND of a   *)
(* number of bytes, MSG, MSG with the flag RT1, and a MSG that carries the   *)
(* SID of somebody else.                                                     *)
Words == {"INF", "SS", "SND", "MSG", "RICH", "ALIEN"}

(* The same with an escape that ADC does not define.                         *)
Escaped == [MSGESC |-> "MSG", RICHESC |-> "RICH", ALIENESC |-> "ALIEN"]

(* AdcCommand::parse: an undefined escape is an error.                       *)
Parses(line) == line # <<>> /\ \A i \in DOMAIN line : line[i].cmd \in Words

(* recoverUnknownEscapes *)
Repaired(line) ==
  [i \in DOMAIN line |->
     IF line[i].cmd \in DOMAIN Escaped THEN [line[i] EXCEPT !.cmd = Escaped[@]] ELSE line[i]]

(* onBadLine of the RTF0 plugin: does it inject the repaired line?           *)
Injects(line) ==
  /\ Repaired(line) # line /\ Parses(Repaired(line))
  /\ Repaired(line)[1].cmd \in {"MSG", "RICH"}
  /\ \E i \in DOMAIN line : Repaired(line)[i].cmd = "RICH"

-------------------------------------------------------------------------------
(* What a line amounts to.                                                   *)

Passed(line) == Parses(line) /\ line[1].cmd # "ALIEN"

(* An INF as a request for a filter: for how many files, 0 for none.         *)
Files(line, share) ==
  CASE line[1].cmd = "INF" -> line[1].arg
    [] line[1].cmd = "SS" -> share
    [] OTHER -> 0

(* The number of shared files after the line: updateFields.                  *)
ShareAfter(line, share) == IF line[1].cmd = "INF" THEN line[1].arg ELSE share

IsSnd(line) == line[1].cmd = "SND"
===============================================================================
