# ADCH++ in TLA+

TLA+ modules for ADCH++, a hub for the Advanced Direct Connect protocol: a
server that lets clients log in, tells each of them who else is there, and
passes on their chat, searches and connection requests. The modules describe the
C++ core (`src/adchpp`), its plugins `HBRI`, `BBS0`, `Script`, `Bloom` and `RTF0`
(`src/plugins`) as far as they keep state, and the part of the access script
(`src/plugins/Script/examples/access.lua`) that takes part in a login. TLC checks
them on small instances; TLAPS proves what matters most for all instances.

Run, in this directory:

    tlc -workers 2 -config MCHub.cfg MCClientManager
    tlapm ClientManagerProofs.tla

## 1. The system

### Threads and scheduling

One thread runs the hub: `SocketManager::run` is a loop over a
`boost::asio::io_service`. Completed reads and writes, expired timers and posted
jobs are handlers in its queue, and a handler runs to its end. There is no data
race to model in the core. What makes it hard is that one handler calls far into
other parts (a command of one client writes to the sockets of all others, each
of which may decide at that moment to disconnect), and that the consequences of a
decision come in later handlers: a socket that is told to disconnect reports to
its owner by a job, while reads and writes that are already completed wait in
front of that job or behind it. So in all modules **an action is one handler** or
one call from outside, and the interleavings are those of handlers.

### Components

| Component | State | Operations | Talks to |
|---|---|---|---|
| `ManagedSocket` | output queue, one outstanding write and its time, overflow time, disconnect time, the owner's callbacks | `write`, `disconnect`, and the completions of accept, handshake, read, write | the stream below, jobs and timers of `SocketManager`, its owner's `onReady`, `onData`, `onFailed` |
| `SocketManager` | listeners, the event loop, timers | accept, `addJob`, `addTimedJob`, cancel, shutdown | `ClientManager` (new connections), everyone (jobs) |
| `Client`, `Bot`, `Entity` | state of the login, flags, fields of the INF, partial line, data mode | `onData`, `send`, `inject`, `disconnect`, `onFailed` | `ManagedSocket`, `ClientManager` |
| `ClientManager` | maps SID, nick and CID to entities; list of pending logins | connect, commands (SUP, INF, PAS by script, others), takeover, removal, bots | all entities, plugins by signals |
| `Signal`, `PluginManager` | lists of slots, loaded plugins, plugin data on entities | connect, disconnect, emit, load, unload | plugins |
| `HBRI` | sessions, pending tokens | SUP, INF, TCP, state changes, removal | `ClientManager` by signals |
| `BBS0` | boards, journal on disk, sessions | post, withdraw, list, replay, retention, compaction, load | `ClientManager` by signals, file system |
| `Bloom` | per-entity filter or transfer | INF, SND, raw data, outgoing search | `Client` data mode |
| `Script`, Lua scripts | engines, scripts, settings | load, reload, hooks | `ClientManager`, `PluginManager` |
| `RTF0` | none | filter a command, repair a line | `ClientManager` |
| `Core` | the four managers | init, run, shutdown | all |
| `AdcCommand`, `Encoder`, `CID`, `TigerHash` | none | parse, escape, encode, hash | |
| `Text`, `Util`, `SimpleXML`, `File`, `LogManager`, `Buffer`, `Pool` | little | conversions, configuration, memory | |
| `adchppd`, `adchpp-ui`, bindings, tests, `boost`, `lua` | | start-up, editor, declarations, third-party code | |

### What is hard, and what makes each part correct

* **`ManagedSocket`**. Partial writes, a queue with a limit, three timeouts and
  four ways to fail meet in one small class. Correct when the bytes accepted
  leave in order and once, queued data always has a write under way, nothing is
  accepted after a disconnect and what was accepted before is flushed, the owner
  (which deletes itself) is told of a failure exactly once, and every disconnect
  comes to an end.
* **`ClientManager`**. The three indexes hold raw pointers to objects that delete
  themselves in later handlers, and a login changes them in several steps each of
  which can refuse. Correct when no index names a deleted object, each is exact,
  and the sequence of INF and QUI messages that a client is sent adds up to the
  hub's list of users.
* **`HBRI`**. A token links two connections, the login of a third party
  (the script) and a timeout. Correct when the two maps agree, and when every
  address that becomes public was seen on a connection that answered a challenge.
* **`BBS0`**. An append-only file, rewritten by renames, on a disk that may fill
  up, read by a process that may stop anywhere. Correct when what is read at the
  next start is what was served before, and the time stamps that clients resume
  from never go back.
* **`Client`**. Lines and raw data are cut from chunks whose borders the network
  chooses. Correct when the commands do not depend on the borders.
* **`SocketManager` timers, `Signal`, `Script`, `Core`**. Callbacks against the
  end of what they call. Correct when nothing runs after its owner is gone.
* **`Bloom`**. A filter is replaced by a transfer on the same connection that
  carries commands. Correct when it stands for the latest share it can know of.

`PROJECT.json` lists the points that matter most one by one, at their lines, under `hazards`,
with the properties that cover them or the reason why none does yet.

## 2. Plan

In the order of what the system depends on most; the first nine are done.

1. `ByteStream`, `ManagedSocket`, `ManagedSocketProofs`: one connection and
   what it promises.
2. `ClientManager`, `ClientManagerProofs`: all users.
3. `HBRI`, `HBRIProofs`.
4. `BulletinBoard`, `BBS0Journal`, `BBS0JournalProofs`: the journal and what it
   promises.
5. `Commands`, `CommandStream`, `ClientInput`, `ClientInputProofs`: line
   assembly and data mode, the same commands for every division into chunks.
6. In the same module, as they need each other: the transfer of `Bloom`'s
   filters in the data mode, and the repair of bad lines by `RTF0`.
7. `BBS0Sessions`, `BBS0SessionsProofs`: permissions, subscriptions, replay, the post interval, on the
   board that `BulletinBoard` promises.
8. `Scripts`, `ScriptsProofs`: repeated timers and their cancellation, the loading and reloading
   of scripts, the shutdown of `Core`.
9. `Selection`, `SelectionProofs`, and proofs of every safety property of the
   modules above and of the three refinements. Modules are written for this: no
   `RECURSIVE` operator in anything a theorem is stated about, invariants as
   conjunctions of named parts.
10. Routing: which commands reach whom, by type, state and support flags, with
    the slots that refuse them. For the INF, whose delivery decides what clients
    know of each other, `ClientManager` has it.
11. The composition of `ClientInput` with `ManagedSocket`: what is still read
    after a write, and not the client, decided to disconnect.

A property refuted by the code has a run of its own. Where several show what one
part does wrong, the project keeps the run that says most and describes the
others here, in section 4.

## 3. The modules

### `ManagedSocket`, `ByteStream`

One socket, the stream below it, its jobs and timers, and as much of its owner
as its callbacks touch. A buffer is the interval of numbers of the bytes in it;
time is kept as ages in ticks, which stop one tick past the timeout that they are
compared with.

| Variable | In the code |
|---|---|
| `stage`, `stream` | how far accept and handshake are; the state of `sock` |
| `outBuf`, `overflow`, `lastWrite` | the members of the same names |
| `write`, `read` | the outstanding asynchronous operation and what became of it |
| `accepted`, `sent` | bytes that `write()` took, and that the kernel reported |
| `disconnecting`, `closer` | `disc`, and the timer of `Disconnector` |
| `ready` | handlers in the queue of the `io_service`, in order |
| `owner`, `ownerGone`, `failures` | the handlers are set; `Client::disconnecting`; calls of `failedHandler` |

`write()` is two actions (`WriteOverflow` when it gives the socket up,
`WriteQueued` when it takes or ignores the buffer), `disconnect` is `Disconnect`,
and the completions have their names. `KernelWrite`, `KernelRead` and their
failures are what asio and the operating system do, as `ManagedSocket` uses it:
an external part. The overload of `shutdown` that is used throws on every error,
in a function declared `throw()`: when the stream was closed before, and when the
peer has reset the connection. The stream is then `terminated`.

The bytes in the queue and what is left of them after a write are recursive
functions over the buffers (`BytesOf`, `unsent`).

`ByteStream` is the promise without queue, timers or callbacks, and
`StreamSpec == Stream!Spec` is the refinement, with `unsent` as the bytes of the
queue one by one.

### `ClientManager`

All entities, the three maps, the login list, and what each client has been told
(`view`, the sum of the INF and QUI messages sent to it). An entity is an address:
`live` while the object exists, `ghost` once it is removed from the maps,
`closing` once told to disconnect, and `failing` once the job that will delete it
is queued. `closing` and `failing` are different because a socket may give up on
its own (`SocketGivesUp`), which the `Client` does not learn before the job runs.

`Accept` is `handleIncoming` with `onConnected` and the login timeouts it
enforces; `Sup`, `Pas` and the seven `Inf...` actions are the outcomes of one
command each: `InfNickRefused` and `InfDescriptionRefused` keep what `verifyINF`
had already changed when it refused. `Delete` is `removeEntity` followed by
`delete this`. `InfRegistered` and `Pas` are the two hooks of `access.lua`;
`Unidentified` is what its `verify_info` refuses, and `Expects` the states in
which somebody takes an INF. The script is there when a nick is `Registered`.

In the NORMAL state the hub takes an INF of any type and `send` delivers it by
its type. `InfUpdate` has the set `to` of those it goes to, from nobody (`H`) to
everyone (`B`), as a parameter. The history variable `unannounced` holds the
clients whose last change of nick did not go to everyone.
`Draws` says which SIDs the random generator may give, so that collisions are a
matter of the instance. `LoginsWithout` is the list of the pending logins after
`removeLogins`.

### `HBRI`

The plugin with its two maps, over a hub reduced to the states of clients. An
address stands for the connection on which it was observed, so a published
address is either some client's or `Claimed`. The history variable `asked` holds
the tokens sent to a client.

A command reaches the plugin first, then the script, then the hub. The plugin
connects its slots while it is loaded (`HBRIPlugin.cpp:24-29`), the scripts run in
a job later (`LuaEngine.cpp:97`), and slots are called in the order in which they
were connected (`Signal.h:63`). So the plugin strips the first INF of a client
with a password as well (`InfRegistered`) and notes the intent (`NoteIntent`); the
question waits for the login, which the password brings (`Pas`). An INF that comes
while the password is awaited is of no interest to the plugin
(`HBRIManager.cpp:350`) but is to the script (`InfAgain`).

### `ClientInput`, `CommandStream`, `Commands`

`Client::onData`, with the two plugins that turn on what it reads: `Bloom`, for
which a line switches to raw data in the middle of a chunk, and `RTF0`, which
repairs a line that did not parse and injects it. Each turn of the loop in
`onData` is an action (`TakeData`, `TakePart`, `TakeLine`), of which each makes the
chunk shorter; nothing comes between two turns, since `OnData` and
`Disconnect` wait for an empty `chunk`. `TakeLine` is the whole way of a line:
the size limit, the parse, the SID, the plugins, and whatever the hub makes of
it, which may disconnect the client (`Receive`).

| Variable | In the code |
|---|---|
| `chunk` | what is left of `buf` in the running `onData` |
| `buffer`, `dataBytes`, `disconnecting` | the members of the same names |
| `pending`, `filter` | the plugin data of `Bloom`: size and bytes of the `PendingItem`, the filter |
| `share` | the field `SF` |
| `handled` | the command that the hub was passed last |

A line is a sequence of units, each of which stands for the bytes that make it up
and counts as one: the word of a command with the part of it that matters, or an
escape. `Commands` says what a line amounts to: does it parse, does the repair
change it and to what, is it an INF that asks for a filter, is it an SND.

`CommandStream` is the promise: a reader of whole lines and whole blocks off an
unbroken stream, with the same commands and without chunks, buffer or count.
`StreamSpec` is the refinement, where the stream is what is left of the
input that came so far.

### `BBS0Sessions`

Who is told of a board, who is subscribed, and what a client holds that leaves,
comes back and resumes from the time stamp that it saw last. The index is
`BulletinBoard`, used for its operators: what `BBS0Journal` is shown to implement
is what the sessions build on, the restart with a lost end of the retention
included. Each command is an action, `RefreshPermissions` is the timer's pass
over all sessions, and `SetCredential` the script that changes a user's level.
`permissionCache`, `subscribed` and `lastPost` are the `Session`. Of the client
there is what the hub sent to it (`told`, `holds`, `latest`) and two history
variables: does it `follow` the board, and from which time on is every entry
`owed` to it. `Others` are authors of whom nothing but their commands matters.

### `Scripts`

The queue of the `io_service` with the jobs of the Script plugin in it. Loading an
engine queues a job for each script; each script arms a repeated timer when it is
loaded and cancels it when it is unloaded, as `access.lua`, `history.lua` and
`access.bans.lua` do. `Expire` queues the completion of a wait (`expired`),
`CancelTimers` turns the waits that have not ended into aborted completions and
deletes the callbacks, and `DoExpired` sets the timer again and queues a copy of
the callback (`run`). Engines are numbered, so that a job for one that is gone
can be told. What uses something deleted sets `fault`; `hurried` remembers that
something was taken away from under a queued job.

### `BBS0Journal`, `BulletinBoard`

One board and three files: the index, the backup and the temporary file. A line
is a header, a post (`P`), a deletion (`D`), a horizon (`H`), a torn end or, when
something was appended to a torn end, garbage. A command is two actions, the
decision (`Post`, `Withdraw`) and the append (`Written`, `NotWritten`), so that a
crash fits between; retention is one action for each record, and compaction is
one for each file operation. `Restart` is `loadIndex`, and `Replay` what it makes of the lines, record by record.
An append that is cut short leaves a torn end, and leaves it torn when one is
there already and nothing more is written.

`BulletinBoard` is a board as clients see it: posts and withdrawals that happen
completely or not at all, in time order, with the oldest dropped at the limit and
a horizon. `StoreSpec` is the refinement, with the board in memory or, when the
hub is down, the one it would load.

### `Selection`

The elements of a sequence that are in a set, in their order: what the code does
with `erase` and `remove_if`, or by copying what it keeps. It is a recursive
function over the positions, so that `SelectionProofs` can prove its laws;
`BulletinBoard`, `BBS0Journal`, `BBS0Sessions`, `Scripts` and `ClientManager` are
written with it.

## 4. What the runs check

### Runs that pass

**`socket`** (`MCManagedSocket.cfg`, 101,205 states): every property of
`ManagedSocket`: no stall, exact overflow time, one
failure, flush before shutdown, refinement of
`ByteStream`, and completion of a disconnect. Buffers of 1 and 3 bytes, a limit
of 3, chunks of 2 bytes from at most 2 buffers, 5 bytes in all (`MaxBytes`), and
timeouts of one tick. That is enough for a buffer cut twice, a chunk over two
buffers, a queue below, at and over the limit, and a timeout before and after it
is due. Deadlock is not checked: a socket that has ended stops.

**`hub`** (`MCHub.cfg`, 38,051 states): two clients, a bot, two nicks of which
one has a password, two CIDs, any INF (with each verification failing or none)
at login and later, the later ones for every audience, SIDs that do not collide. Takeover needs two clients; a
third changes nothing about the CIDs. All but the nick index is checked here.

**`hub_nicks`** (`MCHubNicks.cfg`, 65,431 states): three clients, which is what
a nick lost to a third party needs. The nick index is exact as long as no
description is refused and nobody changes the nick he logged in with: outside
that it is not: see `nick_dupe` below and what follows the table.

**`hbri`** (`MCHBRI.cfg`, 591,872 states): two clients, of which one has a
password, each of which can be the second connection of the other; two tokens, so
that one can be renewed; claims that are false, invalid, or the other's address.
The client with a password is asked after it has given it, and nobody gets an
address unproved except while its password is awaited (`EarnedUnlessVerifying`).

**`bbs`** (`MCBBS0Journal.cfg`, 13,150 states): three posts on a board for two,
compaction after three changes, files of up to five lines (`MaxLines`, enough for
two compactions), a clock that takes two values in any order (`MaxTime`), and
appends and renames that may fail as a whole. Posts are symmetric; all the properties
are safety properties, for which that is sound.

**`client`** (`MCClientInput.cfg`, 1,261,193 states): input of any length over
nine units, in chunks of every length up to three units held at a time
(`MaxBacklog`): a line that comes in three parts, two lines in a chunk, a command
with its block and the next command in one chunk, a block in two chunks. A
command may be two units long, one of them the line end, and a third makes it too
long. Filters are one unit for one file and two for more, and `SND` may announce
the right length or a wrong one. The alphabet has an `INF` with one or two files, one with the size only, two
`SND`, a command with a foreign SID, and an escape error in a plain and in a rich
text message. Deadlock is checked, and there is none:
whatever is left of a chunk, the loop of `onData` makes a further turn.

**`bbs_sessions`** (`MCBBS0Sessions.cfg`, 295,404 states): one client in full and
the commands of others, three posts of which one is the client's, a board for
two, so that retention takes entries away, a clock that moves between two values
in both directions (`MaxTime`), a replay limit and a post interval of one. Two
credentials, of which the higher may subscribe and withdraw everything; the
permission that is lost and the one that is kept are both there. One client is enough,
since sessions share nothing but the board; `Others` put the board in every state.
Two posts of the others are symmetric, and all the properties are safety properties.

**`scripts`** (`MCScripts.cfg`, 233,531 states): three scripts in one engine, two
reloads and a shutdown (`MaxEngines` 3), with every timer free to go off at any
time. Two reloads are what it takes for one to overtake the loading of the other.
Deadlock is not checked: a hub that is stopped stops, and so does one that used what
was deleted.

### Runs that refute what a comment or a document says

| Run | Statement | What happens |
|---|---|---|
| `nick_dupe` | `verifyNick` checks "that its not a dupe" (`ClientManager.h:113`) | a refused change of nick gives the old nick away; two users end with one nick |
| `hbri_verify` | a claimed address never reaches the public INF (`HBRIManager.cpp:367`) | it does by a second INF while the password is awaited: the plugin passes it by, the script has the hub store its fields, and the login publishes them |
| `bbs_torn` | incomplete final records are ignored (`BBS0/README.md:25`) | at the next start they are; a record appended after one makes a corrupt line and the plugin does not start again |
| `reload` | "Fix crashes after calling +reload" (`changelog.txt:44`); of a cancelled timer "its callback will still be executed" (`SocketManager.h:60`) | a reload between the expiry of a script's timer and its completion deletes the callback that the completion copies; two reloads in a row delete an engine before its scripts are loaded into it |

The findings in `PROJECT.json` give the details and the lines.

### Seen in the models, without a run of their own

* *The overflow time moves* (`ManagedSocket.cpp:70`). Each write that finds the
  queue above the limit sets it again (`WriteQueued`), so that a user who is
  written to often enough is never timed out, where `ManagedSocket.h:98` calls it
  "the time when the socket started to overflow".
* *The last write against the Disconnector* (`ManagedSocket.cpp:147`). A completion
  queued behind the job that closes the stream shuts down a closed stream
  with the overload that throws, out of a function declared `throw()`:
  `stream = "terminated"`. So does a shutdown after the peer's reset.
* *A change of nick that is not announced* (`ClientManager.cpp:318`). `updateFields`
  runs for an INF of every type, and `send` (line 65) delivers by type. A logged-in client
  that sends its new nick with `HINF`, `DINF`, `EINF` or `FINF` has it in the hub's index and in the
  list that newcomers get, while the others know it under the old one. `ViewsAgree`
  makes this the only exception (`unannounced`).
* *A nick without a client* (`ClientManager.cpp:263`). An INF that is refused for
  its description has put its nick in the index, and the removal erases by the
  field, which is not set yet: the entry points to the deleted client and the nick
  is taken from then on. `hub_nicks` therefore has no such INF at login.
* *Two clients with one SID* (`ClientManager.cpp:145`). `makeSID` looks at those who
  are logged in; of two who connect before either is, the second then enters
  NORMAL without entering the map. `hub` and `hub_nicks` draw different SIDs;
  the theorems about `ClientManager` do not assume it.
* *Login timeouts* (`ClientManager.cpp:156`) are enforced when somebody connects,
  not by a timer: on a quiet hub a client that never logs in stays. `LoginsExact` is
  what makes the check safe when it runs.
* *A subscription that comes back* (`BBS0Manager.cpp:420`). When a permission is
  lost and regained between two passes of the timer, the subscription is still
  there, the descriptor is old, and the posts in between were not sent. A SUP in
  that time stores the new permissions in the cache, so that the timer never ends
  the subscription. Nothing is sent on it while the permission is missing
  (`OnlyPermitted`). `owed` ends with the loss of the permission for this reason.
* *The post interval* is kept in the session and starts over with each connection.
* *Jobs after the shutdown* (`Core.cpp:78`). The loop is stopped with what is
  queued; the plugins are unloaded; the jobs are destroyed with the `io_service`,
  among them functions whose code was the plugin's. `CalmIsSafe` shows that a hub
  which is stopped, and reloaded, with no such job queued is safe.
* *An old filter* (`BloomManager.cpp:108`). An INF that comes while a filter is on
  its way asks for none; the comment there knows it. `NeverForgotten` says that
  the client has a filter, or one on its way, all the same.

### Fairness

Nothing is assumed of a peer, which may never send, read or close. The
`io_service` runs each handler that is queued (`WF` on the handlers); time
passes (`WF` on `Tick`); and the kernel completes, with an error, the operations
on a descriptor that the hub closed, which asio guarantees. On this
`DisconnectCompletes` rests: without the timer that `disconnect` arms, a peer
that does not read would keep the socket for ever. `DroppedAreDeleted` of the hub
assumes only that queued jobs run; that a job is queued is the code's doing.
`ReloadCompletes` rests on the loop running the job at the head of its queue (`WF` on
`DoJob`); whether timers go off, and reloads are asked for, is left open.

## 5. What is proved

TLAPS checks the theorems below for every value of the constants that satisfies
the assumptions in the modules (`SocketAssumption`, `HubAssumption`,
`BotCidAssumption`, `HBRIAssumption`, `CommandsAssumption`,
`ClientInputAssumption`, `BBSAssumption`, `SessionsAssumption`,
`ScriptsAssumption`): types of the constants, that the CID of a bot, 192 random
bits, is nobody else's, that no script is configured twice, and that a filter has
at least one byte, which the rounding in `HashBloom::get_m` sees to. Three theorems
about `ClientManager` and three about `BBS0Journal` have a hypothesis more, each
of which rules out what a run or section 4 shows to break the property.

Every safety property, action property and refinement that the passing runs check
is stated by a theorem. Each rests on an invariant that is inductive and that
implies it; what the invariant has to add is named here.

**`SelectionProofs`** holds what the others need about sequences: `Select` over
`Append`, `\o`, `Tail` and a second `Select`, the elements of what it returns, and
when it returns nothing or one element. Induction is by sets instead of
by operators: `AllNumbers` and `AllSequences` say that a set with the first number or
sequence, which has the next one with each, has all. They follow from the smallest number
of a set (`Smallest`), and `Recursion` from them: a recursive function on `0..n` is
what its equation says.

**`ManagedSocketProofs`**: `OwnerFailedOnce`, `QueuedDataMoves`,
`FlushedAtShutdown`, `OverflowAlwaysExact`,
`TypeCorrect`, and `SocketIsStream`, the refinement of `ByteStream`. None of the
first three is inductive. `IInv` adds that `lastWrite` is set exactly
while a write is outstanding (`OneWrite`: `prepareWrite` decides by `lastWrite` whether
it may start one), that a stream that is shut has no write and an empty queue,
and that the count of failures is 0 with an owner and 1 without. `Held` is about
the bytes: the buffers are pieces that join, without a gap, the last byte sent to the last byte
accepted, and a write is outstanding for no more than they have. The erasing of
`completeWrite`, with a buffer cut in the middle, keeps them joined; therefore `unsent`
is an interval, and sending a part of it is one step of `ByteStream`. `Closing` says
who may have closed the stream: nobody but a disconnect or a failure.

**`ClientManagerProofs`**: `EntitiesAlwaysLive`, `CidIndexAlwaysExact`,
`LoginsAlwaysExact` and `TypeCorrect`, for colliding SIDs too. The first two need
each other (`IInv`): a takeover removes the entity that the CID index names, so the index
must name present entities only, and never the claimant himself. `Fresh` (who has
not identified himself has no CID) makes the claimant differ from the victim, and
`OwnCids` keeps clients from taking a bot's CID. `KInv` adds that removal goes one
way (`Flags`: a ghost is closing, what is closing is failing, what is failing
exists), that a free address keeps nothing of its last user (`Objects`), and who
is in the list of logins.

`EntitiesAlwaysExact` and `ViewsAlwaysAgree` have the hypothesis `DrawsApart`: no SID
is drawn for two entities. Without it both fail (section 4). In the code it is a matter of
luck: SIDs are random numbers of 20 bits. `ViewsAlwaysAgree` says that a logged-in client
shows everyone who is there, nobody else, and each under the nick the hub has for it, unless
the last change of it was not for all. Each action adds to a view what it sends; for an INF of
any audience, those it misses show what they showed, which is why the sender has to be
`unannounced` (`AgreeTellSome`), until an INF with its nick goes to everyone.
`NickIndexAlwaysExact` has the hypothesis `NicksGivenOnce`: clients do not change the nick,
no INF with a nick is refused for its description, and bots have none. `nick_dupe`,
section 4 and `regBot`, which asks for nothing, show that without these the index
is not exact.

**`HBRIProofs`**: `PendingAlwaysExact`, `WithdrawalAlwaysCancels`,
`AddressesEarned`, `WantedAlwaysAsked`, `UdpAlwaysWithAddress` and `TypeCorrect`.
`Mirrored` says that the two maps are inverse to each other,
that a token belongs to a session of a client which supports the extension and
was sent it, and that a pending token was drawn: a token drawn later is new.
`Intents` adds that an intent on record is that of a client which supports the extension and
is logged in, waits for its password, or is being disconnected: so the password, when it comes,
finds the intent and asks, and a login by an INF has none to ask for but its own.
`AddressesEarned` is an action property of everyone whose password is not awaited: while it
is, `hbri_verify` shows it to fail.

**`BBS0JournalProofs`**: `IndexTypeCorrect`, whatever an append leaves behind, and,
under `Whole` (an append writes its record or nothing), `NothingIsLost`,
`TimeAlwaysGoesOn` and `IndexIsBoard`, the refinement of `BulletinBoard`. Without
`Whole` there may be no board left that a start could read: `bbs_torn`. Crashes, restarts, failing appends and renames are
all there. `Durable` is not inductive, since the journal may have more than memory: the
records of entries that the retention took away, when the record of it could not be written.
`Carries` says what these may be: older than all in memory, and there only when the
board is full, so that the retention of the next start takes them away again, and
that this can change nothing but the horizon. `Files` says which of the three files
there are at each step of a compaction and its repair, and `Working` what the
step under way has in its hands.

**`BBS0SessionsProofs`**: `NothingEverMissed`, `SubscriptionAlwaysKept`,
`NobodyEverOverlooked`, `TypeCorrect`, and `OnlyEverPermitted`, an action property.
`Stretch` is the heart: a client that is away holds what is owed to it with times below
the time stamp it saw last, and one that follows holds all of it. A replay from that time stamp
closes the gap because no entry comes to a board with a time earlier than the
board's last (`Recent`), whatever the clock does. `Listening` and `Told` tie what the client
does to the session that the hub has of it.

**`ScriptsProofs`**: `LoadedAlwaysInOrder`, `TimersAlwaysExact`, `CalmAlwaysSafe`
and `TypeCorrect`, for any list of scripts and any number of reloads. `Traces`
lists what the queue can have of one timer of the open engine: nothing or a run
while it waits, its expiry, or a run and its expiry behind it, when it does not, and the
load job before that. That no step makes another shape is the proof of `TimersExact`.
`Calm` says that, until something is taken away, everything queued has what it needs.

**`ClientInputProofs`**: `BlocksAreExact`, `NoClientForgotten`, `TypeCorrect`, and
`ReadsAStream`, the refinement of `CommandStream`, for every alphabet, every length
of input and every limit. The invariant `IInv` joins to the types the two counts of
a block, `dataBytes` of the client and the bytes that `Bloom` has collected
(`BlockExact`), with the fact that a line so far holds no line end: then the first
line end of the chunk ends the first line of the stream. The refinement takes one
case for each action: `OnData` appends to the stream, `TakePart` is a stutter, and
in `TakeLine` lemmas about concatenation and `SubSeq` show that the line is cut off the
stream where the abstract reader cuts it. The proof showed one thing that TLC's
alphabet does not: an `SND` of zero bytes with no filter on its way must be
refused, which the abstract reader now says.

Only model-checked: the three liveness properties, `DisconnectCompletes`,
`DroppedAreDeleted` and `ReloadCompletes`. They need fairness and `ENABLED`, which
TLAPS does not handle here. What the theorems are about is the model with its
bounds as parameters (`MaxBytes`, `MaxTime`, `MaxLines`, `MaxBacklog`,
`MaxEngines`): they hold for every value of them.


## 6. What is not modelled, and why

* The text of messages, the parsing of addresses and of configuration, logging
  and statistics: no property is about them.
* Routing of MSG, SCH, CTM and the like by type and features, and the fields of
  an INF beyond nick, CID and the secondary address. Which features an `FINF` names is any
  audience.
* TLS: a stream whose handshake may fail or never end, which `CompleteInit` is.
* The page cache: `BBS0Journal` is about a process that stops, and what was
  written stays. The code does not force anything to the disk.
* A rename whose failure makes the repair fail as well, and two boards in one
  index: a board's lines do not touch another's, and each board has its own horizon.
* Bytes: a unit of `ClientInput` stands for several and counts as one. Where a
  unit is cut in two by a chunk, the first part is a line without an end like any
  other. UTF-8 and the syntax of SIDs and features are outcomes of `Parses`.
* What a filter answers: `HashBloom` is arithmetic on floating point and 192-bit
  values without state.
* Of BBS0: the permission to reply and the parents of a post, the limit on
  subscriptions (a refusal that changes nothing), the checks of a post's fields.
* Scripts that fail to load or refuse to be loaded, several engines, and what
  scripts do beyond the login. Emitting a signal while slots disconnect: nothing in
  the repository does it.
* Listeners and their set-up, the reading of the configuration, `adchpp-ui`, the
  bindings, the daemons around `Core::run`.
* Third-party code: `src/boost` and `src/lua` are nearly all of the lines in the
  tree, and no part of this program. What asio promises is the external part of
  `ManagedSocket` and the queue of `Scripts`.
