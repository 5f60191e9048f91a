---------------------------- MODULE ManagedSocket ----------------------------
(***************************************************************************)
(* One ManagedSocket of SocketManager with the stream below it, the jobs   *)
(* and timers it posts, and the Client (its owner) that its handlers call. *)
(* Everything runs on one thread, the io_service, which takes the handlers *)
(* that are ready in the order they became so.  An action is one handler,  *)
(* or one call made by the owner (from a handler of another socket), or    *)
(* what the operating system does to an operation that is outstanding.     *)
(*                                                                         *)
(* A buffer is the interval of byte numbers it holds, bytes being numbered *)
(* in the order in which write() took them.  Times are ages counted in     *)
(* ticks, and an age stops growing one tick past the timeout it is         *)
(* compared with: the code only compares it.                               *)
(***************************************************************************)
EXTENDS Integers, Sequences, SequencesExt, FiniteSetsExt

CONSTANTS
  MaxBufferSize,      \* SocketManager::maxBufferSize, 0 for no limit
  OverflowTimeout,    \* SocketManager::overflowTimeout
  WriteTimeout,       \* the 60 seconds of prepareWrite
  DisconnectTimeout,  \* SocketManager::disconnectTimeout
  ChunkBytes,         \* most bytes of several buffers in one write (1024)
  ChunkBuffers,       \* most buffers in one write (64)
  BufferSizes,        \* sizes of the buffers the owner writes
  MaxBytes            \* bound of the model: bytes accepted in a behaviour

ASSUME SocketAssumption ==
  /\ MaxBufferSize \in Nat /\ MaxBytes \in Nat
  /\ {OverflowTimeout, WriteTimeout, DisconnectTimeout} \subseteq Nat
  /\ {ChunkBytes, ChunkBuffers} \subseteq Nat \ {0}
  /\ BufferSizes \subseteq Nat \ {0}

None == -1

VARIABLES
  stage,          \* "accepting", "handshake" (sock->init running), "ready"
  stream,         \* the AsyncStream: "open", "shut", "closed", or "terminated"
                  \* when an exception left a function declared throw()
  outBuf,         \* buffers waiting to be transmitted
  accepted,       \* bytes write() has taken so far
  sent,           \* bytes the kernel has reported as written
  write,          \* the outstanding async_write_some
  lastWrite,      \* age of lastWrite, None when no write is outstanding
  overflow,       \* age of the overflow time, None for not_a_date_time
  disconnecting,  \* disc is set
  ready,          \* handlers the io_service has queued: a completed "write" or
                  \* "read", the "fail" Reporter, the "close" Disconnector
  closer,         \* ticks left of the Disconnector's timer, None without one
  read,           \* the outstanding read and what became of it
  owner,          \* the handlers are set: the Client exists
  ownerGone,      \* Client::disconnecting: the owner has asked for it
  failures        \* calls of failedHandler

vars == <<stage, stream, outBuf, accepted, sent, write, lastWrite, overflow, disconnecting,
          ready, closer, read, owner, ownerGone, failures>>

queueVars == <<outBuf, accepted, sent, write, lastWrite, overflow>>
discVars  == <<disconnecting, closer>>
ownVars   == <<owner, ownerGone, failures>>

Buffers == [first : 1..MaxBytes, size : 1..MaxBytes]
Idle    == [st |-> "none", n |-> 0]

TypeOK ==
  /\ stage \in {"accepting", "handshake", "ready"}
  /\ stream \in {"open", "shut", "closed", "terminated"}
  /\ outBuf \in Seq(Buffers)
  /\ accepted \in 0..MaxBytes /\ sent \in 0..MaxBytes
  /\ write \in [st : {"none", "pending", "done", "error"}, n : 0..MaxBytes]
  /\ lastWrite \in {None} \union 0..(WriteTimeout + 1)
  /\ overflow \in {None} \union 0..(OverflowTimeout + 1)
  /\ closer \in {None} \union 0..DisconnectTimeout
  /\ read \in {"none", "poll", "polled", "data", "arrived", "error"}
  /\ ready \in Seq({"write", "read", "fail", "close"})
  /\ {disconnecting, owner, ownerGone} \subseteq BOOLEAN
  /\ failures \in 0..2

Init ==
  /\ stage = "accepting" /\ stream = "open"
  /\ outBuf = <<>> /\ accepted = 0 /\ sent = 0 /\ write = Idle
  /\ lastWrite = None /\ overflow = None
  /\ disconnecting = FALSE /\ ready = <<>> /\ closer = None
  /\ read = "none"
  /\ owner = TRUE /\ ownerGone = FALSE /\ failures = 0

-------------------------------------------------------------------------------
(* Operators on the queue of buffers.                                      *)

Sum(q) ==
  LET upto[i \in 0..Len(q)] == IF i = 0 THEN 0 ELSE upto[i - 1] + q[i].size
  IN upto[Len(q)]

writing == lastWrite # None

\* SocketStream::write offers a single buffer whole, and otherwise the first
\* ChunkBytes bytes of the first ChunkBuffers buffers.
Offered(q) ==
  IF Len(q) = 1 THEN q[1].size
  ELSE Min({ChunkBytes, Sum(SubSeq(q, 1, Min({Len(q), ChunkBuffers})))})

\* Mutants of Consume: a buffer written to its last byte is kept as an empty
\* one (< for <=); a buffer of which only a part was written is erased.
ConsumeBefore(q, bytes) ==
  LET gone == Max({k \in 0..(Len(q) - 1) : k = 0 \/ Sum(SubSeq(q, 1, k)) < bytes})
      rest == SubSeq(q, gone + 1, Len(q))
      cut  == bytes - Sum(SubSeq(q, 1, gone))
  IN <<[first |-> Head(rest).first + cut, size |-> Head(rest).size - cut]>> \o Tail(rest)

ConsumeWhole(q, bytes) ==
  SubSeq(q, Min({k \in 0..Len(q) : Sum(SubSeq(q, 1, k)) >= bytes}) + 1, Len(q))

\* The loop of completeWrite: whole buffers are erased, the last one is cut.
Consume(q, bytes) ==
  LET gone == Max({k \in 0..Len(q) : Sum(SubSeq(q, 1, k)) <= bytes})
      rest == SubSeq(q, gone + 1, Len(q))
      cut  == bytes - Sum(SubSeq(q, 1, gone))
  IN IF cut = 0 THEN rest
     ELSE <<[first |-> Head(rest).first + cut, size |-> Head(rest).size - cut]>> \o Tail(rest)

\* Mutant: lastWrite is reset after prepareWrite, which finds it set.
StartWriteIfUnset(q) ==
  IF q = <<>> \/ writing THEN write' = Idle /\ lastWrite' = None
  ELSE write' = [st |-> "pending", n |-> Offered(q)] /\ lastWrite' = 0

\* prepareWrite on an idle socket
StartWrite(q) ==
  IF q = <<>> THEN write' = Idle /\ lastWrite' = None
  ELSE write' = [st |-> "pending", n |-> Offered(q)] /\ lastWrite' = 0

\* sock->shutdown throws on any error: when the stream was closed before, or
\* when the peer has reset the connection.
Shutdown == stream' \in (IF stream = "closed" THEN {} ELSE {"shut"}) \union {"terminated"}

\* Mutant: the handlers are not cleared.
FailKeepsHandlers ==
  /\ owner' = owner
  /\ failures' = IF owner THEN failures + 1 ELSE failures
  /\ UNCHANGED ownerGone

\* ManagedSocket::fail: the first call reaches the owner and clears the handlers
Fail ==
  /\ owner' = FALSE
  /\ failures' = IF owner THEN failures + 1 ELSE failures
  /\ UNCHANGED ownerGone

\* Mutants: no look at writing(); no Disconnector.
DisconnectAtOnce ==
  /\ disconnecting' = TRUE
  /\ ready' = Append(ready, "fail")
  /\ closer' = DisconnectTimeout
  /\ Shutdown

DisconnectUntimed ==
  /\ disconnecting' = TRUE
  /\ ready' = Append(ready, "fail")
  /\ IF writing THEN UNCHANGED stream ELSE Shutdown
  /\ UNCHANGED closer

\* ManagedSocket::disconnect on a socket that is not disconnecting
StartDisconnect ==
  /\ disconnecting' = TRUE
  /\ ready' = Append(ready, "fail")
  /\ closer' = DisconnectTimeout
  /\ IF writing THEN UNCHANGED stream ELSE Shutdown

Alive == stream # "terminated"

-------------------------------------------------------------------------------
(* Calls made by the owner.                                                *)

\* Mutant: write() does not look at the new buffer's size.
OverBefore(size) == MaxBufferSize > 0 /\ Sum(outBuf) > MaxBufferSize

CanWrite == Alive /\ owner /\ stage # "accepting" /\ ~disconnecting

Over(size) == MaxBufferSize > 0 /\ Sum(outBuf) + size > MaxBufferSize

Expired == overflow # None /\ overflow > OverflowTimeout

Stuck == writing /\ lastWrite > WriteTimeout

WriteOverflow(size) ==
  /\ CanWrite /\ Over(size) /\ Expired
  /\ StartDisconnect
  /\ UNCHANGED <<stage, queueVars, read, ownVars>>

WriteQueued(size, lowPrio) ==
  /\ CanWrite /\ accepted + size <= MaxBytes
  /\ Over(size) => ~lowPrio /\ ~Expired
  /\ overflow' = IF Over(size) THEN 0 ELSE overflow
  /\ outBuf' = Append(outBuf, [first |-> accepted + 1, size |-> size])
  /\ accepted' = accepted + size
  /\ IF writing THEN UNCHANGED <<write, lastWrite>> ELSE StartWrite(outBuf')
  /\ IF Stuck THEN StartDisconnect ELSE UNCHANGED <<stream, discVars, ready>>
  /\ UNCHANGED <<stage, sent, read, ownVars>>

\* Client::disconnect, which calls ManagedSocket::disconnect the first time
Disconnect ==
  /\ Alive /\ owner /\ stage # "accepting" /\ ~ownerGone
  /\ ownerGone' = TRUE
  /\ IF disconnecting THEN UNCHANGED <<stream, discVars, ready>>
     ELSE StartDisconnect
  /\ UNCHANGED <<stage, queueVars, read, owner, failures>>

-------------------------------------------------------------------------------
(* Handlers run by the io_service.                                         *)

Run(handler) == Alive /\ ready # <<>> /\ Head(ready) = handler /\ ready' = Tail(ready)

CompleteAccept(ok) ==
  /\ Alive /\ stage = "accepting" /\ owner
  /\ IF ok THEN stage' = "handshake" /\ UNCHANGED ownVars
     ELSE Fail /\ UNCHANGED stage
  /\ UNCHANGED <<stream, queueVars, discVars, ready, read>>

CompleteInit(ok) ==
  /\ Alive /\ stage = "handshake"
  /\ stage' = "ready"
  /\ IF ok THEN stream # "closed" /\ read' = "poll" /\ UNCHANGED ownVars
     ELSE Fail /\ UNCHANGED read
  /\ UNCHANGED <<stream, queueVars, discVars, ready>>

CompleteWrite ==
  /\ Run("write") /\ write.st = "done"
  /\ outBuf' = Consume(outBuf, write.n)
  /\ sent' = sent + write.n
  /\ overflow' = IF overflow # None /\ Sum(outBuf') < MaxBufferSize THEN None ELSE overflow
  /\ StartWrite(outBuf')
  /\ IF disconnecting /\ outBuf' = <<>> THEN Shutdown ELSE UNCHANGED stream
  /\ UNCHANGED <<stage, accepted, discVars, read, ownVars>>

CompleteWriteError ==
  /\ Run("write") /\ write.st = "error"
  /\ write' = Idle /\ lastWrite' = None
  /\ Fail
  /\ UNCHANGED <<stage, stream, outBuf, accepted, sent, overflow, discVars, read>>

PrepareRead2 ==
  /\ Run("read") /\ read = "polled"
  /\ read' = "data"
  /\ UNCHANGED <<stage, stream, queueVars, discVars, ownVars>>

\* The data handler is Client::onData: what it does with the data is not here.
CompleteRead ==
  /\ Run("read") /\ read = "arrived"
  /\ read' = "poll"
  /\ UNCHANGED <<stage, stream, queueVars, discVars, ownVars>>

CompleteReadError ==
  /\ Run("read") /\ read = "error"
  /\ read' = "none"
  /\ Fail
  /\ UNCHANGED <<stage, stream, queueVars, discVars>>

RunFailJob ==
  /\ Run("fail")
  /\ Fail
  /\ UNCHANGED <<stage, stream, queueVars, discVars, read>>

Disconnector ==
  /\ Run("close")
  /\ stream' = "closed"
  /\ UNCHANGED <<stage, queueVars, discVars, read, ownVars>>

\* The last shared_ptr goes: the stream's destructor closes the descriptor.
Release ==
  /\ Alive /\ stream # "closed"
  /\ ~owner /\ write = Idle /\ read = "none" /\ ready = <<>> /\ closer = None
  /\ stage # "handshake"
  /\ stream' = "closed"
  /\ UNCHANGED <<stage, queueVars, discVars, ready, read, ownVars>>

-------------------------------------------------------------------------------
(* The operating system and the clock.                                     *)

\* A write may be done at any time before the stream is closed, and its
\* completion is then queued behind a Disconnector that waits to close it.
KernelWrite(n) ==
  /\ Alive /\ write.st = "pending" /\ stream # "closed"
  /\ n \in 1..write.n
  /\ write' = [st |-> "done", n |-> n]
  /\ ready' = Append(ready, "write")
  /\ UNCHANGED <<stage, stream, outBuf, accepted, sent, lastWrite, overflow, discVars, read, ownVars>>

KernelWriteFails ==
  /\ Alive /\ write.st = "pending"
  /\ write' = [st |-> "error", n |-> 0]
  /\ ready' = Append(ready, "write")
  /\ UNCHANGED <<stage, stream, outBuf, accepted, sent, lastWrite, overflow, discVars, read, ownVars>>

KernelRead ==
  /\ Alive /\ read \in {"poll", "data"} /\ stream # "closed"
  /\ read' = IF read = "poll" THEN "polled" ELSE "arrived"
  /\ ready' = Append(ready, "read")
  /\ UNCHANGED <<stage, stream, queueVars, discVars, ownVars>>

KernelReadFails ==
  /\ Alive /\ read \in {"poll", "data"}
  /\ read' = "error"
  /\ ready' = Append(ready, "read")
  /\ UNCHANGED <<stage, stream, queueVars, discVars, ownVars>>

\* handleWait posts the callback of the timer that expires.
Older(age, timeout) == IF age = None \/ age > timeout THEN age ELSE age + 1

Tick ==
  /\ Alive
  /\ lastWrite' = Older(lastWrite, WriteTimeout)
  /\ overflow' = Older(overflow, OverflowTimeout)
  /\ closer' = IF closer \in {None, 0} THEN None ELSE closer - 1
  /\ ready' = IF closer = 0 THEN Append(ready, "close") ELSE ready
  /\ UNCHANGED <<stage, stream, outBuf, accepted, sent, write, disconnecting, read, ownVars>>

-------------------------------------------------------------------------------
OwnerStep ==
  \/ \E size \in BufferSizes : WriteOverflow(size)
  \/ \E size \in BufferSizes, lowPrio \in BOOLEAN : WriteQueued(size, lowPrio)
  \/ Disconnect

Handlers ==
  \/ \E ok \in BOOLEAN : CompleteAccept(ok) \/ CompleteInit(ok)
  \/ CompleteWrite \/ CompleteWriteError
  \/ PrepareRead2 \/ CompleteRead \/ CompleteReadError
  \/ RunFailJob \/ Disconnector \/ Release

Kernel ==
  \/ \E n \in 1..MaxBytes : KernelWrite(n)
  \/ KernelWriteFails \/ KernelRead \/ KernelReadFails

Next == OwnerStep \/ Handlers \/ Kernel \/ Tick

Spec == Init /\ [][Next]_vars

(* The io_service runs every handler that is ready, time passes, and the     *)
(* kernel ends every operation on a closed descriptor.  Nothing is assumed   *)
(* of the peer: it may never take a byte, send one or finish its handshake.  *)
Fairness ==
  /\ WF_vars(stream = "closed" /\ CompleteInit(FALSE))
  /\ WF_vars(CompleteWrite) /\ WF_vars(CompleteWriteError)
  /\ WF_vars(PrepareRead2) /\ WF_vars(CompleteRead) /\ WF_vars(CompleteReadError)
  /\ WF_vars(RunFailJob) /\ WF_vars(Disconnector) /\ WF_vars(Release)
  /\ WF_vars(stream = "closed" /\ (KernelWriteFails \/ KernelReadFails))
  /\ WF_vars(Tick)

FairSpec == Spec /\ Fairness

-------------------------------------------------------------------------------
(* Properties.                                                             *)

(* Queued data never waits without a write outstanding, unless a write has   *)
(* failed and the owner has been told: a missing prepareWrite would leave    *)
(* the peer silent until the next command for it.                            *)
NoStall == (outBuf # <<>> /\ write = Idle) => ~owner

(* The overflow time that ClientManager::verifyOverflow counts is set when   *)
(* and only when the queue is at its limit, so no socket counts as           *)
(* overflowing for ever and none escapes the count.                          *)
OverflowExact ==
  /\ (MaxBufferSize > 0 /\ Sum(outBuf) > MaxBufferSize) => overflow # None
  /\ overflow # None => MaxBufferSize > 0 /\ Sum(outBuf) >= MaxBufferSize

(* The failure of a socket reaches the owner at most once, although a        *)
(* disconnect, a failed read and a failed write can all report it: the       *)
(* owner is deleted by the first report.                                     *)
FailedOnce == failures <= 1

(* The sending side is shut down only after everything accepted was sent.    *)
ShutdownFlushes == stream = "shut" => outBuf = <<>>

(* A socket told to disconnect tells its owner and ends closed, with a peer  *)
(* that neither reads nor closes.                                            *)
DisconnectCompletes ==
  disconnecting ~> (~Alive \/ (~owner /\ stream = "closed"))

(* The abstract byte stream.                                                 *)
BytesOf(b) == [j \in 1..b.size |-> b.first + j - 1]

unsent == FlattenSeq([i \in 1..Len(outBuf) |-> BytesOf(outBuf[i])])

Stream == INSTANCE ByteStream WITH
  Bytes <- 1..MaxBytes,
  accepting <- ~disconnecting,
  unsent <- unsent,
  delivered <- [i \in 1..sent |-> i],
  end <- CASE stream = "open" -> "open" [] stream = "shut" -> "finished" [] OTHER -> "aborted"

StreamSpec == Stream!Spec
===============================================================================
