----------------------------- MODULE BBS0Journal -----------------------------
(***************************************************************************)
(* The index of the BBS0 plugin: the entries of a board in memory, the     *)
(* journal they are appended to, its compaction by renaming, and what a    *)
(* restart makes of the files a crash leaves.  One board stands for all:   *)
(* they share the files and nothing else.                                  *)
(*                                                                         *)
(* A file is a sequence of lines.  A write that is cut short leaves a Torn *)
(* line at the end, and what is appended to that is no record: Garbage.    *)
(***************************************************************************)
EXTENDS SequencesExt, Selection

CONSTANTS
  Posts,         \* hashes of posts
  MaxPosts,      \* maxPostsPerBoard
  CompactEvery,  \* compactEvery
  MaxTime,       \* bound: the clock shows 1..MaxTime
  MaxLines,      \* bound: no operation starts on a longer journal
  Faults,        \* what may happen to an append: "fail", "torn"
  None

Times == 1..MaxTime
Horizons == 0..MaxTime
Entries == [tth : Posts, ts : Times, removed : BOOLEAN]

(* The lines of a file.                                                     *)
Header == [kind |-> "header"]
Torn == [kind |-> "torn"]
Garbage == [kind |-> "garbage"]
PostLine(e) == [kind |-> "P", entry |-> e]
DeleteLine(e, h) == [kind |-> "D", entry |-> e, horizon |-> h]
HorizonLine(h) == [kind |-> "H", horizon |-> h]

Records ==
  [kind : {"P"}, entry : Entries] \union [kind : {"D"}, entry : Entries, horizon : Horizons]
    \union [kind : {"H"}, horizon : Horizons]

Lines == {Header, Torn, Garbage} \union Records

ASSUME BBSAssumption ==
  /\ None \notin Seq(Lines) \union Entries
  /\ MaxPosts \in Nat \ {0} /\ CompactEvery \in Nat /\ MaxTime \in Nat \ {0}
  /\ MaxLines \in Nat /\ Faults \subseteq {"fail", "torn"}

VARIABLES
  clock,
  up,                \* "running", "down", or "refused": the index did not load
  entries, horizon,  \* the Board
  mutations,         \* mutationsSinceCompact
  index, bak, tmp,   \* the files: None, or lines
  step,              \* where the handler of a command is
  entry              \* the entry it has to write, the one it has to delete

disk == <<index, bak, tmp>>
board == <<entries, horizon, mutations>>
vars == <<clock, up, board, disk, step, entry>>

Init ==
  /\ clock = 1 /\ up = "running" /\ step = "idle" /\ entry = None
  /\ entries = <<>> /\ horizon = 0 /\ mutations = 0
  /\ index = None /\ bak = None /\ tmp = None

-------------------------------------------------------------------------------
(* parseJournal.                                                             *)

Larger(a, b) == IF a > b THEN a ELSE b

Without(es, p) == Select(es, {es[i] : i \in {j \in DOMAIN es : es[j].tth # p}})

\* Mutant: an entry that is replaced keeps its place.
InPlace(b, line) ==
  IF line.kind = "P" THEN
    LET at == {i \in DOMAIN b.entries : b.entries[i].tth = line.entry.tth} IN
    [b EXCEPT !.entries = IF at = {} THEN Append(@, line.entry)
                          ELSE [i \in DOMAIN @ |-> IF i \in at THEN line.entry ELSE @[i]]]
  ELSE IF line.kind = "D" THEN
    [entries |-> Without(b.entries, line.entry.tth), horizon |-> Larger(line.horizon, b.horizon)]
  ELSE [b EXCEPT !.horizon = line.horizon]

Apply(b, line) ==
  CASE line.kind = "P" ->
         [b EXCEPT !.entries = Append(Without(@, line.entry.tth), line.entry)]
    [] line.kind = "D" ->
         [entries |-> Without(b.entries, line.entry.tth),
          horizon |-> Larger(line.horizon, b.horizon)]
    [] line.kind = "H" -> [b EXCEPT !.horizon = line.horizon]

(* The retention that parseJournal applies in the end: all but the MaxPosts  *)
(* newest go, one at a time.                                                 *)
Pruned(b) ==
  LET over == Len(b.entries) - MaxPosts IN
  IF over <= 0 THEN b
  ELSE [entries |-> SubSeq(b.entries, over + 1, Len(b.entries)),
        horizon |-> Larger(b.horizon, b.entries[over + 1].ts)]

Complete(lines) == IF lines # <<>> /\ Last(lines) = Torn THEN Front(lines) ELSE lines

InOrder(es) == \A i \in 2..Len(es) : es[i - 1].ts <= es[i].ts

EmptyBoard == [entries |-> <<>>, horizon |-> 0]

Replay(records) ==
  LET upto[i \in 0..Len(records)] ==
        IF i = 0 THEN EmptyBoard ELSE Apply(upto[i - 1], records[i])
  IN upto[Len(records)]

Replayed(lines) == Replay(Tail(Complete(lines)))

Loads(lines) ==
  /\ Complete(lines) # <<>> /\ Complete(lines)[1] = Header
  /\ \A i \in DOMAIN lines : lines[i] # Garbage
  /\ InOrder(Replayed(lines).entries)

\* Mutant: the backup is forgotten.
FoundIndex == index

(* loadIndex: the backup counts when there is no index.                      *)
Found == IF index # None THEN index ELSE bak

Recovers == Found = None \/ Loads(Found)

Recovered ==
  IF Found = None THEN EmptyBoard ELSE Pruned(Replayed(Found))

-------------------------------------------------------------------------------
(* appendJournal.                                                            *)

OnTorn(lines, line) ==
  IF lines # <<>> /\ lines[Len(lines)] = Torn
  THEN [lines EXCEPT ![Len(lines)] = Garbage]
  ELSE Append(lines, line)

Appended(line) ==
  IF index \in {None, <<>>} THEN <<Header, line>> ELSE OnTorn(index, line)

(* What an append that is cut short leaves behind.                           *)
CutShort ==
  IF index \in {None, <<>>} THEN {index, <<>>, <<Torn>>, <<Header>>, <<Header, Torn>>}
  ELSE IF Last(index) = Torn THEN {index}
  ELSE {index, Append(index, Torn)}

(* What an append that fails, or a crash during one, leaves behind.          *)
Left == IF "torn" \in Faults THEN CutShort ELSE {index}

-------------------------------------------------------------------------------
\* Mutant: the clock is trusted.
ClockTime == clock

(* nextTimestamp *)
NextTimestamp ==
  Larger(clock, Larger(horizon, IF entries = <<>> THEN 0 ELSE entries[Len(entries)].ts))

(* handleBBP, for a command that is not refused: the entry to be written.    *)
Ready == up = "running" /\ step = "idle" /\ (index # None => Len(index) < MaxLines)

Indexed(p) == {i \in DOMAIN entries : entries[i].tth = p}

Post(p) ==
  /\ Ready /\ Indexed(p) = {}
  /\ entry' = [tth |-> p, ts |-> NextTimestamp, removed |-> FALSE]
  /\ step' = "append"
  /\ UNCHANGED <<clock, up, board, disk>>

Withdraw(p) ==
  /\ Ready /\ \E i \in Indexed(p) : ~entries[i].removed
  /\ entry' = [tth |-> p, ts |-> NextTimestamp, removed |-> TRUE]
  /\ step' = "append"
  /\ UNCHANGED <<clock, up, board, disk>>

(* pruneBoard, up to the record it appends, when the board is too long.      *)
\* Mutant: the retention is left to the next restart.
NeverPrune(es, h, next) ==
  entries' = es /\ horizon' = h /\ entry' = None /\ step' = next

PruneOr(es, h, next) ==
  IF Len(es) > MaxPosts
  THEN /\ entries' = Tail(es) /\ horizon' = Larger(h, es[2].ts)
       /\ entry' = es[1] /\ step' = "prune"
  ELSE /\ entries' = es /\ horizon' = h /\ entry' = None /\ step' = next

(* maybeCompactIndex *)
Then(m) == IF CompactEvery > 0 /\ m >= CompactEvery THEN "snapshot" ELSE "idle"

Written ==
  /\ step = "append"
  /\ index' = Appended(PostLine(entry))
  /\ mutations' = mutations + 1
  /\ PruneOr(Append(Without(entries, entry.tth), entry), horizon, Then(mutations'))
  /\ UNCHANGED <<clock, up, bak, tmp>>

NotWritten ==
  /\ step = "append" /\ Faults # {}
  /\ index' \in Left
  /\ step' = "idle" /\ entry' = None
  /\ UNCHANGED <<clock, up, board, bak, tmp>>

PruneWritten(lines) ==
  /\ step = "prune"
  /\ index' \in lines
  /\ mutations' = mutations + 1
  /\ PruneOr(entries, horizon, Then(mutations'))
  /\ UNCHANGED <<clock, up, bak, tmp>>

Prune == PruneWritten({Appended(DeleteLine(entry, horizon))})
PruneFails == Faults # {} /\ PruneWritten(Left)

-------------------------------------------------------------------------------
(* compactIndex, a file operation at a time.  A temporary file that is left  *)
(* behind is truncated before it is used again: no state keeps it.           *)

Snapshot ==
  <<Header>> \o (IF horizon > 0 THEN <<HorizonLine(horizon)>> ELSE <<>>)
    \o [i \in DOMAIN entries |-> PostLine(entries[i])]

Goto(next) == step' = next /\ UNCHANGED <<clock, up, entries, horizon, entry>>

CompactWrite ==
  /\ step = "snapshot"
  /\ tmp' = Snapshot
  /\ Goto("drop backup")
  /\ UNCHANGED <<index, bak, mutations>>

CompactWriteFails ==
  /\ step = "snapshot"
  /\ Goto("idle")
  /\ UNCHANGED <<disk, mutations>>

CompactDropBackup ==
  /\ step = "drop backup"
  /\ bak' = None
  /\ Goto("back up")
  /\ UNCHANGED <<index, tmp, mutations>>

CompactBackUp(ok) ==
  /\ step = "back up"
  /\ IF ok THEN bak' = index /\ index' = None /\ tmp' = tmp /\ Goto("replace")
     ELSE bak' = bak /\ index' = index /\ tmp' = None /\ Goto("idle")
  /\ UNCHANGED mutations

CompactReplace(ok) ==
  /\ step = "replace"
  /\ IF ok THEN index' = tmp /\ tmp' = None /\ bak' = bak /\ Goto("finish")
     ELSE index' = bak /\ bak' = None /\ tmp' = None /\ Goto("idle")
  /\ UNCHANGED mutations

CompactFinish ==
  /\ step = "finish"
  /\ bak' = None /\ mutations' = 0
  /\ Goto("idle")
  /\ UNCHANGED <<index, tmp>>

-------------------------------------------------------------------------------
(* The world.                                                                *)

Crash ==
  /\ up = "running"
  /\ up' = "down" /\ step' = "idle" /\ entry' = None
  /\ entries' = <<>> /\ horizon' = 0 /\ mutations' = 0
  /\ index' \in IF step \in {"append", "prune"} THEN Left ELSE {index}
  /\ tmp' = None
  /\ UNCHANGED <<clock, bak>>

(* loadIndex, once at the start.                                             *)
Restart ==
  /\ up = "down"
  /\ index' = Found
  /\ bak' = IF index = None THEN None ELSE bak
  /\ IF Recovers
     THEN /\ up' = "running"
          /\ entries' = Recovered.entries /\ horizon' = Recovered.horizon
     ELSE up' = "refused" /\ UNCHANGED <<entries, horizon>>
  /\ UNCHANGED <<clock, mutations, tmp, step, entry>>

SetClock(t) ==
  /\ step = "idle"
  /\ clock' = t
  /\ UNCHANGED <<up, board, disk, step, entry>>

Next ==
  \/ \E p \in Posts : Post(p) \/ Withdraw(p)
  \/ Written \/ NotWritten \/ Prune \/ PruneFails
  \/ CompactWrite \/ CompactWriteFails \/ CompactDropBackup \/ CompactFinish
  \/ \E ok \in BOOLEAN : CompactBackUp(ok) \/ CompactReplace(ok)
  \/ Crash \/ Restart
  \/ \E t \in 1..MaxTime : SetClock(t)

Spec == Init /\ [][Next]_vars

-------------------------------------------------------------------------------
(* Properties.                                                               *)

TypeOK ==
  /\ clock \in Times /\ up \in {"running", "down", "refused"}
  /\ entries \in Seq(Entries) /\ Len(entries) <= MaxPosts /\ horizon \in Horizons
  /\ mutations \in Nat /\ entry \in Entries \union {None}
  /\ step \in {"idle", "append", "prune", "snapshot", "drop backup", "back up", "replace", "finish"}
  /\ {index, bak, tmp} \subseteq Seq(Lines) \union {None}

(* Whenever the hub stops, in the middle of a compaction or of a retention   *)
(* that could not be written too, the files that are left load, to the same  *)
(* entries, and to a horizon that never claims more than the one in memory.  *)
Durable ==
  up = "running" =>
    Recovers /\ Recovered.entries = entries /\ Recovered.horizon >= horizon

(* What clients are served, or would be after the next restart.              *)
Served ==
  IF up = "running" THEN [entries |-> entries, horizon |-> horizon] ELSE Recovered

(* What is served behaves as the board that BulletinBoard promises: a post   *)
(* or a withdrawal is in it once it is written, with the retention it        *)
(* causes, and neither compaction, a crash nor a restart takes it back.      *)
Store == INSTANCE BulletinBoard WITH board <- Served
StoreSpec == Store!Spec

(* The time that clients resume from never goes back, whatever the clock     *)
(* does and whatever is pruned, withdrawn or reloaded.                       *)
TimeGoesOn ==
  [][\A b \in {Served}, c \in {Served'} : Store!Latest(c) >= Store!Latest(b)]_vars

(* "Incomplete final records are ignored after an interrupted write": a file *)
(* that starts with its header loads.                                        *)
TornIgnored == up = "refused" => index = <<>> \/ index[1] # Header
===============================================================================
