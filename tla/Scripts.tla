------------------------------- MODULE Scripts -------------------------------
(***************************************************************************)
(* The event loop with the Script plugin on it: jobs that are posted,      *)
(* repeated timers and their cancellation, scripts that are loaded by      *)
(* jobs, +reload, and the shutdown of the hub.                             *)
(*                                                                         *)
(* Every script starts one repeated timer when it is loaded, and cancels   *)
(* it when it is unloaded, as those of the examples do.  An engine is a    *)
(* number; earlier engines are gone.  What is used after it was deleted    *)
(* ends the run: fault.                                                    *)
(***************************************************************************)
EXTENDS Integers, Sequences, SequencesExt, Selection

CONSTANTS
  Files,        \* the scripts of the engine in Script.xml, in order: each entry is a script
  MayShutdown,  \* whether the hub is stopped at all
  MaxEngines    \* bound: no further reload is asked for

ASSUME ScriptsAssumption ==
  Files \in Seq(ToSet(Files)) /\ IsInjective(Files) /\ MayShutdown \in BOOLEAN /\ MaxEngines \in Nat \ {0}

VARIABLES
  queue,     \* what the io_service has to run
  engine,    \* the engine that is open, 0 after the shutdown
  loaded,    \* its scripts, in the order of loading
  armed,     \* the timers that wait: pairs of an engine and a script
  callbacks, \* the timers whose callback was not deleted
  asked,     \* reloads and shutdowns that were asked for
  loop,      \* "runs", "stopped", "gone"
  fault,
  hurried    \* something was taken away while a job that needs it was queued

vars == <<queue, engine, loaded, armed, callbacks, asked, loop, fault, hurried>>

Load(t) == [do |-> "load", timer |-> t]
Run(t) == [do |-> "run", timer |-> t]
Expired(t) == [do |-> "expired", timer |-> t]
Aborted(t) == [do |-> "aborted", timer |-> t]
Reload == [do |-> "reload"]
Shutdown == [do |-> "shutdown"]

-------------------------------------------------------------------------------
(* ScriptManager::load: an engine at once, a job for each of its scripts.    *)

LoadJobs(g, files) == [i \in DOMAIN files |-> Load(<<g, files[i]>>)]

Loads(g) == LoadJobs(g, Files)

Init ==
  /\ queue = Loads(1) /\ engine = 1 /\ loaded = <<>>
  /\ armed = {} /\ callbacks = {}
  /\ asked = [reloads |-> 0, shutdown |-> FALSE]
  /\ loop = "runs" /\ fault = FALSE /\ hurried = FALSE

Running == loop = "runs" /\ ~fault

-------------------------------------------------------------------------------
(* From outside: commands, signals, time.                                    *)

AskReload ==
  /\ Running /\ asked.reloads + 1 < MaxEngines
  /\ queue' = Append(queue, Reload) /\ asked' = [asked EXCEPT !.reloads = @ + 1]
  /\ UNCHANGED <<engine, loaded, armed, callbacks, loop, fault, hurried>>

AskShutdown ==
  /\ Running /\ MayShutdown /\ ~asked.shutdown
  /\ queue' = Append(queue, Shutdown) /\ asked' = [asked EXCEPT !.shutdown = TRUE]
  /\ UNCHANGED <<engine, loaded, armed, callbacks, loop, fault, hurried>>

Expire(t) ==
  /\ Running /\ t \in armed
  /\ armed' = armed \ {t} /\ queue' = Append(queue, Expired(t))
  /\ UNCHANGED <<engine, loaded, callbacks, asked, loop, fault, hurried>>

-------------------------------------------------------------------------------
(* The job at the head of the queue.                                         *)

Job(kind) == Running /\ queue # <<>> /\ Head(queue).do = kind
Target == Head(queue).timer

Fault == fault' = TRUE /\ UNCHANGED <<engine, loaded, armed, callbacks, asked, loop, hurried>>

\* Mutant: the script goes to whichever engine is open.
LoadAnywhere ==
  /\ Job("load") /\ queue' = Tail(queue)
  /\ loaded' = Append(loaded, Target[2])
  /\ armed' = armed \union {<<engine, Target[2]>>}
  /\ callbacks' = callbacks \union {<<engine, Target[2]>>}
  /\ UNCHANGED <<engine, asked, loop, fault, hurried>>

(* loadScript_ *)
DoLoad ==
  /\ Job("load") /\ queue' = Tail(queue)
  /\ IF Target[1] # engine THEN Fault
     ELSE /\ loaded' = Append(loaded, Target[2])
          /\ armed' = armed \union {Target} /\ callbacks' = callbacks \union {Target}
          /\ UNCHANGED <<engine, asked, loop, fault, hurried>>

\* Mutant: the timer goes off once.
DoExpiredOnce ==
  /\ Job("expired")
  /\ IF Target \notin callbacks THEN queue' = Tail(queue) /\ Fault
     ELSE /\ queue' = Append(Tail(queue), Run(Target))
          /\ UNCHANGED <<engine, loaded, armed, callbacks, asked, loop, fault, hurried>>

(* handleWait, without an error: the timer is set again, and a copy of its   *)
(* callback is posted.                                                       *)
DoExpired ==
  /\ Job("expired")
  /\ IF Target \notin callbacks THEN queue' = Tail(queue) /\ Fault
     ELSE /\ queue' = Append(Tail(queue), Run(Target))
          /\ armed' = armed \union {Target}
          /\ UNCHANGED <<engine, loaded, callbacks, asked, loop, fault, hurried>>

(* handleWait, with operation_aborted.                                       *)
DoAborted ==
  /\ Job("aborted") /\ queue' = Tail(queue)
  /\ UNCHANGED <<engine, loaded, armed, callbacks, asked, loop, fault, hurried>>

(* The callback, a function in the Lua state of its engine.                  *)
DoRun ==
  /\ Job("run") /\ queue' = Tail(queue)
  /\ IF Target[1] # engine THEN Fault
     ELSE UNCHANGED <<engine, loaded, armed, callbacks, asked, loop, fault, hurried>>

-------------------------------------------------------------------------------
(* clearEngines: the scripts are unloaded, the last first, and each cancels  *)
(* its timer; then the Lua state is closed.                                  *)

Timers == [i \in DOMAIN loaded |-> <<engine, loaded[i]>>]

(* A wait that has not ended is aborted, one that has stays in the queue.    *)
Aborts ==
  LET waiting == Select(Reverse(Timers), armed) IN
  [i \in DOMAIN waiting |-> Aborted(waiting[i])]

\* Mutant: the callbacks are not deleted.
KeepCallbacks == armed' = armed \ ToSet(Timers) /\ UNCHANGED callbacks

\* Mutant: the timer is left to itself, and goes off once more.
KeepTimers == callbacks' = callbacks \ (ToSet(Timers) \ armed) /\ UNCHANGED armed

CancelTimers == armed' = armed \ ToSet(Timers) /\ callbacks' = callbacks \ ToSet(Timers)

Needs(job) == job.do \in {"load", "run", "expired"} /\ job.timer[1] = engine

\* Mutant: a reload is left out while scripts are still to be loaded.
ReloadWhenLoaded ==
  /\ Job("reload")
  /\ IF \E i \in 2..Len(queue) : queue[i].do = "load"
     THEN queue' = Tail(queue) /\ UNCHANGED <<engine, loaded, armed, callbacks, hurried>>
     ELSE /\ queue' = Tail(queue) \o Aborts \o Loads(engine + 1) /\ CancelTimers
          /\ engine' = engine + 1 /\ loaded' = <<>>
          /\ hurried' = (hurried \/ \E i \in 2..Len(queue) : Needs(queue[i]))
  /\ UNCHANGED <<asked, loop, fault>>

(* ScriptManager::reload *)
DoReload ==
  /\ Job("reload")
  /\ queue' = Tail(queue) \o Aborts \o Loads(engine + 1) /\ CancelTimers
  /\ engine' = engine + 1 /\ loaded' = <<>>
  /\ hurried' = (hurried \/ \E i \in 2..Len(queue) : Needs(queue[i]))
  /\ UNCHANGED <<asked, loop, fault>>

-------------------------------------------------------------------------------
(* A job that is a function of the plugin's own.                             *)
OfPlugin(job) == job.do \in {"load", "run", "reload"}

(* Core::doShutdown: the loop is stopped, with what is queued; the plugin is *)
(* destroyed, which clears its engine, and its code is unloaded.             *)
DoShutdown ==
  /\ Job("shutdown")
  /\ loop' = "stopped" /\ queue' = Tail(queue) \o Aborts /\ CancelTimers
  /\ engine' = 0 /\ loaded' = <<>>
  /\ hurried' = (hurried \/ \E i \in 2..Len(queue) : OfPlugin(queue[i]))
  /\ UNCHANGED <<asked, fault>>

(* ~Core, and with it ~io_service: the jobs that are left are destroyed.     *)
Destroy ==
  /\ loop = "stopped" /\ loop' = "gone"
  /\ queue' = <<>>
  /\ fault' = \E i \in DOMAIN queue : OfPlugin(queue[i])
  /\ UNCHANGED <<engine, loaded, armed, callbacks, asked, hurried>>

-------------------------------------------------------------------------------
DoJob ==
  \/ DoLoad \/ DoExpired \/ DoAborted \/ DoRun \/ DoReload \/ DoShutdown

Next ==
  \/ AskReload \/ AskShutdown
  \/ \E t \in armed : Expire(t)
  \/ DoJob \/ Destroy

(* The loop runs what is queued.  Nothing says that a timer goes off, or     *)
(* that anything is asked for.                                               *)
Spec == Init /\ [][Next]_vars /\ WF_vars(DoJob)

-------------------------------------------------------------------------------
(* Properties.                                                               *)

Current == {engine} \X ToSet(Files)

Jobs ==
  [do : {"load", "run", "expired", "aborted"}, timer : (1..MaxEngines) \X ToSet(Files)]
    \union [do : {"reload", "shutdown"}]

(* No timer and no callback outlives its engine.                             *)
TypeOK ==
  /\ queue \in Seq(Jobs) /\ engine \in 0..MaxEngines
  /\ loaded \in Seq(ToSet(Files)) /\ Len(loaded) <= Len(Files)
  /\ armed \subseteq callbacks /\ callbacks \subseteq Current
  /\ asked \in [reloads : 0..MaxEngines, shutdown : BOOLEAN]
  /\ loop \in {"runs", "stopped", "gone"} /\ fault \in BOOLEAN /\ hurried \in BOOLEAN

(* However many reloads come, and whenever, the scripts of the engine that   *)
(* is open are loaded once each and in the order of the configuration: what  *)
(* is loaded and what is queued make up the list.                            *)
LoadedInOrder ==
  Running =>
    LoadJobs(engine, loaded) \o Select(queue, ToSet(Loads(engine))) = Loads(engine)

Queued(job) == Len(Select(queue, {job}))

(* The timer of a script that is loaded either waits or is about to be set   *)
(* again: it is never lost and never doubled, and at most one of its runs is *)
(* outstanding, however slow the hub is.                                     *)
TimersExact ==
  Running =>
    \A t \in ToSet(Timers) :
      /\ t \in callbacks
      /\ Queued(Expired(t)) = IF t \in armed THEN 0 ELSE 1
      /\ Queued(Run(t)) <= 1

(* What goes wrong goes wrong only because an engine, or the code of the     *)
(* plugin, was taken away while a job was queued that needs it.              *)
CalmIsSafe == fault => hurried

(* After the last reload that is asked for, its scripts get loaded.          *)
ReloadCompletes ==
  \A n \in 1..MaxEngines :
    asked.reloads = n ~> (~Running \/ (engine > n /\ loaded = Files))

(* "Fix crashes after calling +reload".                                      *)
ReloadIsSafe == ~fault
===============================================================================
