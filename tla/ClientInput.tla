----------------------------- MODULE ClientInput -----------------------------
(***************************************************************************)
(* Client::onData: lines and blocks of raw data are cut out of chunks      *)
(* whose borders the network chooses.  Composed with the plugins that turn *)
(* a line into a block (Bloom) and that repair a line (RTF0).              *)
(***************************************************************************)
EXTENDS Commands

CONSTANTS
  MaxCommandSize,   \* 0: no limit
  RTF0,             \* the RTF0 plugin is enabled
  MaxBacklog        \* bound: units of input that are held at a time

ASSUME ClientInputAssumption == MaxCommandSize \in Nat /\ RTF0 \in BOOLEAN /\ MaxBacklog \in Nat

VARIABLES
  chunk,            \* what the running onData has not looked at yet
  buffer,           \* the line so far
  dataBytes,        \* units left of a block
  disconnecting,
  pending,          \* PendingItem: size, and got so far
  filter,           \* the search filter of the client, <<>> when it has none
  share,            \* the field SF
  handled           \* what the hub was passed last: a command

bloom == <<pending, filter>>
vars == <<chunk, buffer, dataBytes, disconnecting, bloom, share, handled>>

NoRequest == [size |-> 0, got |-> <<>>]

Init ==
  /\ chunk = <<>> /\ buffer = <<>> /\ dataBytes = 0 /\ disconnecting = FALSE
  /\ pending = NoRequest /\ filter = <<>> /\ share = 0
  /\ handled = "NONE"

After(s, n) == SubSeq(s, n + 1, Len(s))

(* The first line of s is s up to n.                                         *)
LineEnd(s, n) == s[n] = NL /\ \A i \in 1..(n - 1) : s[i] # NL

NoLineEnd(s) == \A i \in DOMAIN s : s[i] # NL

-------------------------------------------------------------------------------
(* A chunk arrives.  One that comes after disconnect is not looked at.       *)
OnData(c) ==
  /\ chunk = <<>>
  /\ chunk' = IF disconnecting THEN <<>> ELSE c
  /\ UNCHANGED <<buffer, dataBytes, disconnecting, bloom, share, handled>>

Smaller(a, b) == IF a < b THEN a ELSE b

\* Mutant: the filter is complete with the first part of it.
FirstPart(part) ==
  filter' = pending.got \o part /\ pending' = NoRequest

(* BloomManager::onData *)
BloomData(part) ==
  LET got == pending.got \o part IN
  IF Len(got) = pending.size
  THEN filter' = got /\ pending' = NoRequest
  ELSE filter' = filter /\ pending' = [pending EXCEPT !.got = got]

\* Mutant: what follows the block in the chunk is dropped with it.
TakeChunk ==
  /\ chunk # <<>> /\ dataBytes > 0
  /\ LET n == Smaller(dataBytes, Len(chunk)) IN
     chunk' = <<>> /\ dataBytes' = dataBytes - n /\ BloomData(SubSeq(chunk, 1, n))
  /\ UNCHANGED <<buffer, disconnecting, share, handled>>

\* Mutant: the rest of the chunk is taken for data.
TakeTooMuch ==
  /\ chunk # <<>> /\ dataBytes > 0
  /\ chunk' = <<>> /\ dataBytes' = dataBytes - Len(chunk) /\ BloomData(chunk)
  /\ UNCHANGED <<buffer, disconnecting, share, handled>>

TakeData ==
  /\ chunk # <<>> /\ dataBytes > 0
  /\ LET n == Smaller(dataBytes, Len(chunk)) IN
     /\ chunk' = After(chunk, n) /\ dataBytes' = dataBytes - n
     /\ BloomData(SubSeq(chunk, 1, n))
  /\ UNCHANGED <<buffer, disconnecting, share, handled>>

TakePart ==
  /\ chunk # <<>> /\ dataBytes = 0 /\ NoLineEnd(chunk)
  /\ buffer' = buffer \o chunk /\ chunk' = <<>>
  /\ UNCHANGED <<dataBytes, disconnecting, bloom, share, handled>>

-------------------------------------------------------------------------------
(* A line is complete: what is done about it, and whether the loop goes on.  *)

TooLong(line) == MaxCommandSize > 0 /\ Len(line) + 1 > MaxCommandSize

GoOn(n) == chunk' = After(chunk, n) /\ buffer' = <<>> /\ UNCHANGED disconnecting

(* The loop ends at a disconnect, with the rest of the chunk unread.         *)
Leave == disconnecting' = TRUE /\ chunk' = <<>> /\ buffer' = <<>>

(* The hub, a plugin or a script may disconnect the client because of what   *)
(* it is passed: ClientManager::onReceive.                                   *)
Receive(n) == GoOn(n) \/ Leave

Refuse(line) ==
  /\ TooLong(line) \/ (Parses(line) /\ ~Passed(line))
  /\ disconnecting' = TRUE /\ chunk' = <<>> /\ buffer' = Append(line, NL)
  /\ UNCHANGED <<dataBytes, bloom, share, handled>>

Skip(line, n) ==
  /\ ~TooLong(line) /\ ~Parses(line) /\ ~(RTF0 /\ Injects(line))
  /\ GoOn(n)
  /\ UNCHANGED <<dataBytes, bloom, share, handled>>

Inject(line, n) ==
  /\ ~TooLong(line) /\ ~Parses(line) /\ RTF0 /\ Injects(line)
  /\ handled' = Repaired(line)[1].cmd
  /\ Receive(n)
  /\ UNCHANGED <<dataBytes, bloom, share>>

\* Mutant: the filter goes, and nothing comes in its place.
DropOnly(files) ==
  IF files > 0 /\ pending = NoRequest THEN filter' = <<>> /\ pending' = NoRequest
  ELSE UNCHANGED bloom

(* BloomManager::onReceive, for an INF: a new filter is asked for, unless    *)
(* one is on its way.                                                        *)
Ask(files) ==
  IF files > 0 /\ pending = NoRequest
  THEN pending' = [size |-> Bytes[files], got |-> <<>>] /\ filter' = <<>>
  ELSE UNCHANGED bloom

Command(line, n) ==
  /\ ~TooLong(line) /\ Passed(line) /\ ~IsSnd(line)
  /\ Ask(Files(line, share))
  /\ share' = ShareAfter(line, share)
  /\ handled' = line[1].cmd
  /\ Receive(n)
  /\ UNCHANGED dataBytes

(* BloomManager::onReceive, for an SND: the block of a filter follows.       *)
Announced(line) == pending # NoRequest /\ line[1].arg = pending.size

Snd(line, n) ==
  /\ ~TooLong(line) /\ Passed(line) /\ IsSnd(line) /\ Announced(line)
  /\ dataBytes' = line[1].arg
  /\ handled' = line[1].cmd
  /\ Receive(n)
  /\ UNCHANGED <<bloom, share>>

BadSnd(line) ==
  /\ ~TooLong(line) /\ Passed(line) /\ IsSnd(line) /\ ~Announced(line)
  /\ pending' = NoRequest
  /\ handled' = line[1].cmd
  /\ Leave
  /\ UNCHANGED <<dataBytes, filter, share>>

TakeLine ==
  /\ chunk # <<>> /\ dataBytes = 0
  /\ \E n \in DOMAIN chunk :
       /\ LineEnd(chunk, n)
       /\ LET line == buffer \o SubSeq(chunk, 1, n - 1) IN
          \/ Refuse(line) \/ Skip(line, n) \/ Inject(line, n)
          \/ Command(line, n) \/ Snd(line, n) \/ BadSnd(line)

-------------------------------------------------------------------------------
(* Somebody else disconnects the client, between two chunks.                 *)
Disconnect ==
  /\ chunk = <<>> /\ disconnecting' = TRUE
  /\ UNCHANGED <<chunk, buffer, dataBytes, bloom, share, handled>>

Held == Len(chunk) + Len(buffer) + Len(pending.got)

Chunks == UNION {[1..n -> Body \union {NL}] : n \in 1..(MaxBacklog - Held)}

Next ==
  \/ \E c \in Chunks : OnData(c)
  \/ TakeData \/ TakePart \/ TakeLine
  \/ Disconnect

Spec == Init /\ [][Next]_vars

-------------------------------------------------------------------------------
(* Properties.                                                               *)

Requests == [size : {0} \union {Bytes[n] : n \in DOMAIN Bytes}, got : Seq(Unit)]

TypeOK ==
  /\ chunk \in Seq(Unit) /\ buffer \in Seq(Unit) /\ dataBytes \in Nat
  /\ disconnecting \in BOOLEAN 
  /\ pending \in Requests /\ filter \in Seq(Unit)
  /\ share \in {0} \union DOMAIN Bytes
  /\ handled \in Words \union {"NONE"}

(* The raw data the client still owes is exactly what the filter that was    *)
(* asked for lacks: a block never ends early, and never eats a command.      *)
BlockExact ==
  /\ dataBytes > 0 => dataBytes + Len(pending.got) = pending.size /\ buffer = <<>>
  /\ dataBytes = 0 => pending.got = <<>>

(* A client that shares is never left without a filter and without being     *)
(* asked for one: updates that come while a filter is on its way included.   *)
NeverForgotten ==
  share > 0 /\ ~disconnecting => pending # NoRequest \/ filter # <<>>

(* Where the network cuts the input makes no difference: the hub behaves as  *)
(* one that reads whole lines and whole blocks off an unbroken stream.       *)
Unbroken ==
  IF disconnecting THEN <<>>
  ELSE IF dataBytes > 0 THEN pending.got \o chunk
  ELSE buffer \o chunk

Stream == INSTANCE CommandStream WITH
  stream <- Unbroken, open <- ~disconnecting, block <- dataBytes > 0,
  asked <- pending.size
StreamSpec == Stream!Spec

===============================================================================
