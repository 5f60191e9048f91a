----------------------------- MODULE ScriptsProofs -----------------------------
(***************************************************************************)
(* What Scripts promises for any scripts and any number of reloads: the    *)
(* scripts of the open engine are loaded once and in order, no timer of    *)
(* theirs is lost or doubled, and nothing that was deleted is used unless  *)
(* it was taken away from under a queued job.                              *)
(***************************************************************************)
EXTENDS Scripts, SelectionProofs

Names == ToSet(Files)
Timed == {"load", "run", "expired", "aborted"}

(* What is assumed of the scripts and the bound.                             *)
LEMMA Given == /\ Files \in Seq(Names) /\ MaxEngines \in Nat \ {0}
               /\ \A i, j \in DOMAIN Files : Files[i] = Files[j] => i = j
  BY ScriptsAssumption DEF Names, IsInjective

(* A job is one of six.                                                      *)
LEMMA JobKinds ==
  ASSUME NEW j \in Jobs
  PROVE  /\ j.do \in Timed => j.timer \in (1..MaxEngines) \X Names
         /\ j.do = "load" => j = Load(j.timer)
         /\ j.do = "run" => j = Run(j.timer)
         /\ j.do = "expired" => j = Expired(j.timer)
         /\ j.do = "aborted" => j = Aborted(j.timer)
         /\ j.do = "reload" => j = Reload
         /\ j.do = "shutdown" => j = Shutdown
<1>1. CASE j \in [do : Timed, timer : (1..MaxEngines) \X Names]
  BY <1>1 DEF Timed, Load, Run, Expired, Aborted
<1>2. CASE j \in [do : {"reload", "shutdown"}]
  BY <1>2 DEF Timed, Reload, Shutdown
<1> QED
  BY <1>1, <1>2 DEF Jobs, Timed, Names

(* The jobs of a timer, and what the queue has of them.                      *)
Of(t) == {Load(t), Run(t), Expired(t)}

Trace(t) == Select(queue, Of(t))

LEMMA OfJob ==
  ASSUME NEW j \in Jobs, NEW t
  PROVE  j \in Of(t) => j.do \in {"load", "run", "expired"} /\ j.timer = t
  BY DEF Of, Load, Run, Expired

LEMMA JobTypes ==
  /\ \A t \in (1..MaxEngines) \X Names :
       Load(t) \in Jobs /\ Run(t) \in Jobs /\ Expired(t) \in Jobs /\ Aborted(t) \in Jobs
  /\ Reload \in Jobs /\ Shutdown \in Jobs
  BY DEF Jobs, Names, Load, Run, Expired, Aborted, Reload, Shutdown

(* The timers of the open engine.                                            *)
LEMMA TimersShape ==
  ASSUME NEW T, NEW l \in Seq(T), NEW g
  PROVE  LET timers == [i \in DOMAIN l |-> <<g, l[i]>>] IN
         /\ timers \in Seq({g} \X T)
         /\ ToSet(timers) = {g} \X ToSet(l)
<1> DEFINE timers == [i \in DOMAIN l |-> <<g, l[i]>>]
<1>1. DOMAIN l = 1..Len(l) /\ Len(l) \in Nat /\ \A i \in DOMAIN l : l[i] \in T
  OBVIOUS
<1>2. timers = [i \in 1..Len(l) |-> <<g, l[i]>>]
  BY <1>1
<1> HIDE DEF timers
<1>3. timers \in Seq({g} \X T) /\ DOMAIN timers = 1..Len(l)
  BY <1>1, <1>2
<1>4. ToSet(timers) = {g} \X ToSet(l)
  BY <1>1, <1>2, <1>3 DEF ToSet
<1> QED
  BY <1>3, <1>4 DEF timers

(* The jobs that load the scripts of an engine.                              *)
LEMMA LoadsShape ==
  ASSUME NEW g \in 1..MaxEngines
  PROVE  /\ Loads(g) \in Seq(Jobs) /\ DOMAIN Loads(g) = DOMAIN Files
         /\ \A i \in DOMAIN Files : Loads(g)[i] = Load(<<g, Files[i]>>)
         /\ ToSet(Loads(g)) = {Load(<<g, s>>) : s \in Names}
<1>1. DOMAIN Files = 1..Len(Files) /\ Len(Files) \in Nat /\ \A i \in DOMAIN Files : Files[i] \in Names
  BY Given
<1>2. \A i \in DOMAIN Files : Load(<<g, Files[i]>>) \in Jobs
  BY <1>1, JobTypes
<1>3. Loads(g) = [i \in 1..Len(Files) |-> Load(<<g, Files[i]>>)]
  BY <1>1 DEF Loads, LoadJobs
<1> HIDE DEF Loads
<1>4. DOMAIN Loads(g) = DOMAIN Files /\ \A i \in DOMAIN Files : Loads(g)[i] = Load(<<g, Files[i]>>)
  BY <1>1, <1>3
<1>5. Loads(g) \in Seq(Jobs)
  BY <1>1, <1>2, <1>3
<1>6. ToSet(Loads(g)) = {Load(<<g, s>>) : s \in Names}
  BY <1>4 DEF ToSet, Names
<1> QED
  BY <1>4, <1>5, <1>6

(* A new engine has one job for each of its timers.                          *)
LEMMA LoadsOnce ==
  ASSUME NEW g \in 1..MaxEngines, NEW s \in Names
  PROVE  Select(Loads(g), Of(<<g, s>>)) = <<Load(<<g, s>>)>>
<1>1. PICK i \in DOMAIN Files : s = Files[i]
  BY DEF Names, ToSet
<1>2. \A j \in DOMAIN Files : Load(<<g, Files[j]>>) \in Of(<<g, s>>) <=> Files[j] = s
  BY DEF Of, Load, Run, Expired
<1>3. \A j \in DOMAIN Loads(g) : Loads(g)[j] \in Of(<<g, s>>) <=> j = i
  BY <1>1, <1>2, LoadsShape, Given
<1>4. Loads(g) \in Seq(Jobs) /\ i \in DOMAIN Loads(g) /\ Loads(g)[i] = Load(<<g, s>>)
  BY <1>1, LoadsShape
<1> DEFINE q == Loads(g)
           S == Of(<<g, s>>)
<1> HIDE DEF q, S
<1>5. q \in Seq(Jobs) /\ i \in DOMAIN q /\ \A j \in DOMAIN q : q[j] \in S <=> j = i
  BY <1>3, <1>4 DEF q, S
<1>6. Select(q, S) = <<q[i]>>
  BY <1>5, SelectUnique
<1> QED
  BY <1>4, <1>6 DEF q, S


-------------------------------------------------------------------------------
(* The invariant.                                                            *)

(* The type invariant, and that the callbacks are those of what is loaded.   *)
Types ==
  /\ queue \in Seq(Jobs) /\ engine \in 0..MaxEngines
  /\ loaded \in Seq(Names)
  /\ callbacks = ToSet(Timers) /\ armed \subseteq callbacks
  /\ asked \in [reloads : 0..MaxEngines, shutdown : BOOLEAN]
  /\ loop \in {"runs", "stopped", "gone"} /\ fault \in BOOLEAN /\ hurried \in BOOLEAN

(* An engine for each reload that was asked for, at most, and no job that is *)
(* of a later one than the open one.                                         *)
Engines ==
  /\ asked.reloads < MaxEngines
  /\ loop = "runs" =>
       /\ engine \in 1..MaxEngines
       /\ engine + Len(Select(queue, {Reload})) <= asked.reloads + 1
       /\ \A j \in ToSet(queue) : j.do \in Timed => j.timer[1] <= engine

Short == Len(loaded) <= Len(Files)

(* A timer of the open engine waits, or its end is queued, and a run may     *)
(* be queued before that; without a callback it has yet to be loaded.        *)
Traces ==
  Running =>
    \A t \in {engine} \X Names :
      \/ t \in armed /\ Trace(t) \in {<<>>, <<Run(t)>>}
      \/ t \in callbacks \ armed /\ Trace(t) \in {<<Expired(t)>>, <<Run(t), Expired(t)>>}
      \/ t \notin callbacks /\ Trace(t) = <<Load(t)>>

(* Until something is taken away, all that is queued has what it needs.      *)
Calm ==
  ~hurried =>
    /\ ~fault
    /\ Running => \A j \in ToSet(queue) :
         /\ j.do \in {"load", "run"} => j.timer[1] = engine
         /\ j.do = "expired" => j.timer \in callbacks
    /\ loop = "stopped" => \A j \in ToSet(queue) : ~OfPlugin(j)

IInv == Types /\ Engines /\ LoadedInOrder /\ Short /\ Traces /\ Calm

(* The callbacks are those of scripts that are loaded.                       *)
LEMMA CallbackTypes ==
  ASSUME Types
  PROVE  callbacks = {engine} \X ToSet(loaded) /\ callbacks \subseteq {engine} \X Names
<1>1. loaded \in Seq(Names)
  BY DEF Types
<1>2. ToSet(loaded) \subseteq Names
  BY <1>1 DEF ToSet
<1>3. ToSet(Timers) = {engine} \X ToSet(loaded)
  BY <1>1, TimersShape DEF Timers
<1> QED
  BY <1>2, <1>3 DEF Types

(* The waits that end with the engine.                                       *)
LEMMA AbortsShape ==
  ASSUME Types, engine \in 1..MaxEngines
  PROVE  Aborts \in Seq(Jobs) /\ \A j \in ToSet(Aborts) : j.do = "aborted" /\ j.timer[1] = engine
<1> DEFINE P == {engine} \X Names
           back == Reverse(Timers)
           waiting == Select(back, armed)
<1>1. Timers \in Seq(P)
  BY TimersShape DEF Types, Timers
<1>2. back \in Seq(P)
  <2>1. Len(Timers) \in Nat /\ \A i \in 1..Len(Timers) : Timers[(Len(Timers) - i) + 1] \in P
    BY <1>1
  <2> QED
    BY <2>1 DEF Reverse
<1>3. waiting \in Seq(P)
  BY <1>2, SelectType
<1>4. Aborts = [i \in DOMAIN waiting |-> Aborted(waiting[i])]
  BY DEF Aborts
<1>5. \A t \in P : Aborted(t) \in Jobs /\ Aborted(t).do = "aborted" /\ Aborted(t).timer[1] = engine
  BY JobTypes DEF Aborted
<1> HIDE DEF waiting, P
<1>6. DOMAIN waiting = 1..Len(waiting) /\ Len(waiting) \in Nat /\ \A i \in DOMAIN waiting : waiting[i] \in P
  BY <1>3
<1>7. Aborts \in Seq(Jobs)
  BY <1>4, <1>5, <1>6
<1>8. DOMAIN Aborts = DOMAIN waiting /\ \A i \in DOMAIN waiting : Aborts[i] = Aborted(waiting[i])
  BY <1>4
<1>9. ASSUME NEW j \in ToSet(Aborts) PROVE j.do = "aborted" /\ j.timer[1] = engine
  <2>1. PICK i \in DOMAIN waiting : j = Aborted(waiting[i])
    BY <1>8 DEF ToSet
  <2> QED
    BY <1>5, <1>6, <2>1
<1> QED
  BY <1>7, <1>9

(* The reloads that are queued.                                              *)
Reloads(q) == Len(Select(q, {Reload}))

LEMMA ReloadsType ==
  ASSUME NEW q \in Seq(Jobs)
  PROVE  Reloads(q) \in Nat
  BY SelectType DEF Reloads

(* What becomes of the queue when a job is posted, and when one is taken.    *)
LEMMA Posted ==
  ASSUME NEW q \in Seq(Jobs), NEW j \in Jobs
  PROVE  /\ Append(q, j) \in Seq(Jobs) /\ ToSet(Append(q, j)) = ToSet(q) \union {j}
         /\ j.do = "reload" => Reloads(Append(q, j)) = Reloads(q) + 1
         /\ j.do # "reload" => Reloads(Append(q, j)) = Reloads(q)
<1>1. Select(q, {Reload}) \in Seq(Jobs)
  BY SelectType
<1>2. Select(Append(q, j), {Reload})
        = IF j \in {Reload} THEN Append(Select(q, {Reload}), j) ELSE Select(q, {Reload})
  BY SelectAppend
<1>3. Append(q, j) \in Seq(Jobs) /\ ToSet(Append(q, j)) = ToSet(q) \union {j}
  BY ElementsAppend
<1>4. j = Reload <=> j.do = "reload"
  BY JobKinds DEF Reload
<1> DEFINE r == Select(q, {Reload})
<1> HIDE DEF r
<1>5. r \in Seq(Jobs) /\ Len(Append(r, j)) = Len(r) + 1
  BY <1>1 DEF r
<1> QED
  BY <1>2, <1>3, <1>4, <1>5 DEF Reloads, r

LEMMA Taken ==
  ASSUME NEW q \in Seq(Jobs), q # <<>>
  PROVE  /\ Head(q) \in Jobs /\ Tail(q) \in Seq(Jobs)
         /\ ToSet(q) = {Head(q)} \union ToSet(Tail(q))
         /\ Head(q).do = "reload" => Reloads(q) = Reloads(Tail(q)) + 1
         /\ Head(q).do # "reload" => Reloads(q) = Reloads(Tail(q))
<1>1. Head(q) \in Jobs /\ Tail(q) \in Seq(Jobs) /\ ToSet(q) = {Head(q)} \union ToSet(Tail(q))
  BY ElementsTail
<1> DEFINE r == Select(Tail(q), {Reload})
           h == Head(q)
<1>2. /\ h \in {Reload} => Select(q, {Reload}) = <<h>> \o r
      /\ h \notin {Reload} => Select(q, {Reload}) = r
      /\ r \in Seq(Jobs)
  BY SelectTail
<1>3. h = Reload <=> h.do = "reload"
  BY <1>1, JobKinds DEF Reload
<1> HIDE DEF r, h
<1>4. Len(<<h>> \o r) = Len(r) + 1
  BY <1>2
<1>5. h.do = "reload" => Len(Select(q, {Reload})) = Len(r) + 1
  BY <1>2, <1>3, <1>4
<1>6. h.do # "reload" => Len(Select(q, {Reload})) = Len(r)
  BY <1>2, <1>3
<1> QED
  BY <1>1, <1>5, <1>6 DEF Reloads, r, h

(* The queue after a reload and after a shutdown.                            *)
LEMMA Cleared ==
  ASSUME NEW q \in Seq(Jobs), Types, engine \in 1..MaxEngines
  PROVE  /\ q \o Aborts \in Seq(Jobs)
         /\ ToSet(q \o Aborts) = ToSet(q) \union ToSet(Aborts)
         /\ Select(q \o Aborts, {Reload}) = Select(q, {Reload})
<1>1. Aborts \in Seq(Jobs) /\ \A j \in ToSet(Aborts) : j.do = "aborted"
  BY AbortsShape
<1>2. ToSet(Aborts) \intersect {Reload} = {}
  BY <1>1 DEF Reload
<1> HIDE DEF Aborts
<1>3. Select(Aborts, {Reload}) = <<>>
  BY <1>1, <1>2, SelectAllOrNone
<1>4. Select(q \o Aborts, {Reload}) = Select(q, {Reload}) \o Select(Aborts, {Reload})
  BY <1>1, SelectConcat
<1>5. Select(q, {Reload}) \in Seq(Jobs)
  BY SelectType
<1> DEFINE r == Select(q, {Reload})
<1> HIDE DEF r
<1>6. r \o <<>> = r
  BY <1>5 DEF r
<1>7. Select(q \o Aborts, {Reload}) = r
  BY <1>3, <1>4, <1>6 DEF r
<1> QED
  BY <1>1, <1>7, ElementsConcat DEF r

LEMMA Reloaded ==
  ASSUME NEW q \in Seq(Jobs), Types, engine \in 1..MaxEngines, engine + 1 \in 1..MaxEngines
  PROVE  LET n == q \o Aborts \o Loads(engine + 1) IN
         /\ n \in Seq(Jobs)
         /\ ToSet(n) = ToSet(q) \union ToSet(Aborts) \union ToSet(Loads(engine + 1))
         /\ Reloads(n) = Reloads(q)
<1> DEFINE p == q \o Aborts
           l == Loads(engine + 1)
<1>1. p \in Seq(Jobs) /\ ToSet(p) = ToSet(q) \union ToSet(Aborts) /\ Select(p, {Reload}) = Select(q, {Reload})
  BY Cleared
<1>2. l \in Seq(Jobs) /\ ToSet(l) = {Load(<<engine + 1, s>>) : s \in Names}
  BY LoadsShape
<1>3. ToSet(l) \intersect {Reload} = {}
  BY <1>2 DEF Load, Reload
<1> HIDE DEF p, l
<1>4. Select(l, {Reload}) = <<>>
  BY <1>2, <1>3, SelectAllOrNone
<1>5. Select(p \o l, {Reload}) = Select(p, {Reload}) \o Select(l, {Reload})
  BY <1>1, <1>2, SelectConcat
<1>6. Select(p, {Reload}) \in Seq(Jobs)
  BY <1>1, SelectType
<1> DEFINE r == Select(p, {Reload})
<1> HIDE DEF r
<1>7. r \o <<>> = r
  BY <1>6 DEF r
<1>8. Select(p \o l, {Reload}) = Select(q, {Reload})
  BY <1>1, <1>4, <1>5, <1>7 DEF r
<1>9. p \o l \in Seq(Jobs) /\ ToSet(p \o l) = ToSet(p) \union ToSet(l)
  <2>1. p \in Seq(Jobs) /\ l \in Seq(Jobs)
    BY <1>1, <1>2
  <2> QED
    BY ONLY <2>1, ElementsConcat
<1> QED
  BY <1>1, <1>8, <1>9 DEF Reloads, p, l


LEMMA TypesInit == Init => Types /\ Engines
<1> SUFFICES ASSUME Init PROVE Types /\ Engines
  OBVIOUS
<1>1. 1 \in 1..MaxEngines
  BY Given
<1>2. queue \in Seq(Jobs) /\ ToSet(queue) = {Load(<<1, s>>) : s \in Names}
  BY <1>1, LoadsShape DEF Init
<1>3. Select(queue, {Reload}) = <<>>
  <2>1. ToSet(queue) \intersect {Reload} = {}
    BY <1>2 DEF Load, Reload
  <2> QED
    BY <1>2, <2>1, SelectAllOrNone
<1>4. ToSet(Timers) = {}
  BY DEF Init, Timers, ToSet
<1>5. Types
  <2>1. 1 \in 0..MaxEngines /\ 0 \in 0..MaxEngines /\ <<>> \in Seq(Names)
    BY Given
  <2> QED
    BY <1>2, <1>4, <2>1 DEF Init, Types
<1>6. \A j \in ToSet(queue) : j.do \in Timed => j.timer[1] <= engine
  BY <1>2 DEF Init, Load
<1>7. Engines
  BY <1>1, <1>3, <1>6, Given DEF Init, Engines
<1> QED
  BY <1>5, <1>7

(* The job that is run is taken from a queue of which the rest remains.      *)
LEMMA Runs ==
  ASSUME Types, Engines, NEW kind, Job(kind)
  PROVE  /\ engine \in 1..MaxEngines /\ queue # <<>>
         /\ Head(queue) \in Jobs /\ Head(queue).do = kind /\ Tail(queue) \in Seq(Jobs)
         /\ ToSet(queue) = {Head(queue)} \union ToSet(Tail(queue))
         /\ kind = "reload" => Reloads(queue) = Reloads(Tail(queue)) + 1
         /\ kind # "reload" => Reloads(queue) = Reloads(Tail(queue))
         /\ kind \in Timed => Target \in (1..MaxEngines) \X Names /\ Target[1] <= engine
<1>1. engine \in 1..MaxEngines /\ queue # <<>> /\ Head(queue).do = kind /\ queue \in Seq(Jobs)
  BY DEF Job, Running, Types, Engines
<1>2. /\ Head(queue) \in Jobs /\ Tail(queue) \in Seq(Jobs)
      /\ ToSet(queue) = {Head(queue)} \union ToSet(Tail(queue))
      /\ kind = "reload" => Reloads(queue) = Reloads(Tail(queue)) + 1
      /\ kind # "reload" => Reloads(queue) = Reloads(Tail(queue))
  BY <1>1, Taken
<1>3. kind \in Timed => Target \in (1..MaxEngines) \X Names
  BY <1>1, <1>2, JobKinds DEF Target
<1>4. kind \in Timed => Target[1] <= engine
  BY <1>1, <1>2 DEF Target, Engines, Job, Running
<1> QED
  BY <1>1, <1>2, <1>3, <1>4

(* What is left when the timers are cancelled.                               *)
LEMMA Cancelled ==
  ASSUME Types, CancelTimers
  PROVE  armed' = {} /\ callbacks' = {}
  BY DEF Types, CancelTimers


LEMMA TypesNext == Types /\ Engines /\ [Next]_vars => Types' /\ Engines'
<1> SUFFICES ASSUME Types, Engines, [Next]_vars PROVE Types' /\ Engines'
  OBVIOUS
<1> DEFINE Both == Types' /\ Engines'
           Within(q) == \A j \in ToSet(q) : j.do \in Timed => j.timer[1] <= engine
<1>1. ASSUME UNCHANGED <<engine, loaded, armed, callbacks, asked, loop, hurried>>, fault' \in BOOLEAN,
             queue' \in Seq(Jobs),
             loop = "runs" => Reloads(queue') <= Reloads(queue) /\ Within(queue')
      PROVE  Both
  <2>1. Types'
    BY <1>1 DEF Types, Timers
  <2>2. queue \in Seq(Jobs)
    BY DEF Types
  <2>3. loop = "runs" => engine + Reloads(queue') <= asked.reloads + 1
    <3>1. Reloads(queue) \in Nat /\ Reloads(queue') \in Nat
      BY <1>1, <2>2, ReloadsType
    <3>2. loop = "runs" => engine + Reloads(queue) <= asked.reloads + 1
      BY DEF Engines, Reloads
    <3>3. engine \in Nat /\ asked.reloads \in Nat
      BY Given DEF Types
    <3> QED
      BY <1>1, <3>1, <3>2, <3>3
  <2>4. Engines'
    BY <1>1, <2>3 DEF Engines, Reloads
  <2> QED
    BY <2>1, <2>4
<1>2. CASE AskReload
  <2>1. queue \in Seq(Jobs) /\ engine \in 1..MaxEngines /\ asked.reloads \in Nat /\ asked.reloads + 1 < MaxEngines
    BY <1>2, Given DEF AskReload, Running, Types, Engines
  <2>2. /\ queue' \in Seq(Jobs) /\ ToSet(queue') = ToSet(queue) \union {Reload}
        /\ Reloads(queue') = Reloads(queue) + 1
    BY <1>2, <2>1, JobTypes, Posted DEF AskReload, Reload
  <2>3. asked' \in [reloads : 0..MaxEngines, shutdown : BOOLEAN] /\ asked'.reloads = asked.reloads + 1
    <3>1. asked.reloads + 1 \in 0..MaxEngines
      BY <2>1, Given
    <3> QED
      BY <1>2, <3>1 DEF AskReload, Types
  <2>4. Types'
    BY <1>2, <2>2, <2>3 DEF AskReload, Types, Timers
  <2>5. engine + Reloads(queue) <= asked.reloads + 1 /\ Reloads(queue) \in Nat
    BY <1>2, <2>1, ReloadsType DEF AskReload, Running, Engines, Reloads
  <2>6. engine + Reloads(queue') <= asked'.reloads + 1
    BY <2>1, <2>2, <2>3, <2>5
  <2>7. \A j \in ToSet(queue') : j.do \in Timed => j.timer[1] <= engine
    BY <1>2, <2>2 DEF AskReload, Running, Engines, Reload, Timed
  <2>8. Engines'
    BY <1>2, <2>1, <2>3, <2>6, <2>7 DEF AskReload, Engines, Reloads
  <2> QED
    BY <2>4, <2>8
<1>3. CASE AskShutdown
  <2>1. queue \in Seq(Jobs) /\ asked.reloads \in Nat
    BY Given DEF Types
  <2>2. /\ queue' \in Seq(Jobs) /\ ToSet(queue') = ToSet(queue) \union {Shutdown}
        /\ Reloads(queue') = Reloads(queue)
    BY <1>3, <2>1, JobTypes, Posted DEF AskShutdown, Shutdown
  <2>3. asked' \in [reloads : 0..MaxEngines, shutdown : BOOLEAN] /\ asked'.reloads = asked.reloads
    BY <1>3 DEF AskShutdown, Types
  <2>4. Types'
    BY <1>3, <2>2, <2>3 DEF AskShutdown, Types, Timers
  <2>5. \A j \in ToSet(queue') : j.do \in Timed => j.timer[1] <= engine
    BY <1>3, <2>2 DEF AskShutdown, Running, Engines, Shutdown, Timed
  <2>6. Engines'
    BY <1>3, <2>2, <2>3, <2>5 DEF AskShutdown, Engines, Reloads
  <2> QED
    BY <2>4, <2>6
<1>4. ASSUME NEW t \in armed, Expire(t) PROVE Both
  <2>1. queue \in Seq(Jobs) /\ engine \in 1..MaxEngines /\ loop = "runs"
    BY <1>4 DEF Types, Engines, Expire, Running
  <2>2. t \in (1..MaxEngines) \X Names /\ t[1] = engine
    BY <2>1, CallbackTypes DEF Types
  <2>3. Expired(t) \in Jobs /\ Expired(t).do = "expired" /\ Expired(t).timer = t
    BY <2>2, JobTypes DEF Expired
  <2>4. /\ queue' \in Seq(Jobs) /\ ToSet(queue') = ToSet(queue) \union {Expired(t)}
        /\ Reloads(queue') = Reloads(queue)
    BY <1>4, <2>1, <2>3, Posted DEF Expire
  <2>5. Types'
    BY <1>4, <2>4 DEF Expire, Types, Timers
  <2>6. \A j \in ToSet(queue') : j.do \in Timed => j.timer[1] <= engine
    BY <2>1, <2>2, <2>3, <2>4, Given DEF Engines
  <2>7. Engines'
    BY <1>4, <2>4, <2>6 DEF Expire, Engines, Reloads
  <2> QED
    BY <2>5, <2>7
<1>5. ASSUME NEW kind, Job(kind), kind # "reload"
      PROVE  /\ Tail(queue) \in Seq(Jobs) /\ Reloads(Tail(queue)) <= Reloads(queue)
             /\ Within(Tail(queue)) /\ loop = "runs"
  <2>1. Tail(queue) \in Seq(Jobs) /\ Reloads(Tail(queue)) = Reloads(queue)
    BY <1>5, Runs
  <2>2. ToSet(Tail(queue)) \subseteq ToSet(queue) /\ loop = "runs"
    BY <1>5, Runs DEF Job, Running
  <2> QED
    BY <2>1, <2>2, ReloadsType DEF Engines
<1>6. CASE DoLoad
  <2>1. Job("load") /\ queue' = Tail(queue)
    BY <1>6 DEF DoLoad
  <2>2. CASE Target[1] # engine
    BY <1>1, <1>5, <1>6, <2>1, <2>2 DEF DoLoad, Fault
  <2>3. CASE Target[1] = engine
    <3>1. Target \in {engine} \X Names /\ engine \in 1..MaxEngines
      BY <2>1, <2>3, Runs DEF Timed
    <3>2. loaded' = Append(loaded, Target[2]) /\ loaded \in Seq(Names) /\ Target[2] \in Names
      BY <1>6, <2>3, <3>1 DEF DoLoad, Types
    <3>3. loaded' \in Seq(Names) /\ ToSet(loaded') = ToSet(loaded) \union {Target[2]}
      BY <3>2, ElementsAppend
    <3>4. ToSet(Timers)' = {engine'} \X ToSet(loaded')
      BY <3>3, TimersShape DEF Timers
    <3>5. callbacks' = callbacks \union {Target} /\ armed' = armed \union {Target} /\ engine' = engine
      BY <1>6, <2>3 DEF DoLoad
    <3>6. callbacks' = ToSet(Timers)'
      BY <3>1, <3>3, <3>4, <3>5, CallbackTypes
    <3>7. Types'
      BY <1>5, <1>6, <2>1, <2>3, <3>3, <3>5, <3>6 DEF DoLoad, Types
    <3>8. Reloads(Tail(queue)) = Reloads(queue)
      BY <2>1, Runs
    <3>9. Engines'
      BY <1>5, <1>6, <2>1, <2>3, <3>8 DEF DoLoad, Engines, Reloads
    <3> QED
      BY <3>7, <3>9
  <2> QED
    BY <2>2, <2>3
<1>7. CASE DoExpired
  <2>1. Job("expired")
    BY <1>7 DEF DoExpired
  <2>2. CASE Target \notin callbacks
    BY <1>1, <1>5, <1>7, <2>1, <2>2 DEF DoExpired, Fault
  <2>3. CASE Target \in callbacks
    <3>1. Target \in (1..MaxEngines) \X Names /\ Target[1] <= engine
      BY <2>1, Runs DEF Timed
    <3>2. Run(Target) \in Jobs /\ Run(Target).do = "run" /\ Run(Target).timer = Target
      BY <3>1, JobTypes DEF Run
    <3>3. queue' = Append(Tail(queue), Run(Target)) /\ Tail(queue) \in Seq(Jobs)
      BY <1>5, <1>7, <2>1, <2>3 DEF DoExpired
    <3>4. /\ queue' \in Seq(Jobs) /\ ToSet(queue') = ToSet(Tail(queue)) \union {Run(Target)}
          /\ Reloads(queue') = Reloads(Tail(queue))
      BY <3>2, <3>3, Posted
    <3>5. Types'
      BY <1>7, <2>3, <3>4 DEF DoExpired, Types, Timers
    <3>6. Reloads(queue') = Reloads(queue)
      BY <2>1, <3>4, Runs
    <3>7. Within(queue')
      BY <1>5, <2>1, <3>1, <3>2, <3>4
    <3>8. Engines'
      BY <1>7, <2>3, <3>6, <3>7 DEF DoExpired, Engines, Reloads
    <3> QED
      BY <3>5, <3>8
  <2> QED
    BY <2>2, <2>3
<1>8. CASE DoAborted
  BY <1>1, <1>5, <1>8 DEF DoAborted, Types
<1>9. CASE DoRun
  BY <1>1, <1>5, <1>9 DEF DoRun, Fault, Types
<1>10. CASE DoReload
  <2>1. Job("reload") /\ engine' = engine + 1 /\ loaded' = <<>> /\ asked' = asked /\ loop' = loop /\ loop = "runs"
    BY <1>10 DEF DoReload, Job, Running
  <2>2. engine \in 1..MaxEngines /\ Tail(queue) \in Seq(Jobs) /\ Reloads(queue) = Reloads(Tail(queue)) + 1
    BY <2>1, Runs
  <2>3. engine + Reloads(queue) <= asked.reloads + 1 /\ asked.reloads < MaxEngines /\ asked.reloads \in Nat
    BY <2>1, Given DEF Engines, Reloads, Types
  <2>4. Reloads(Tail(queue)) \in Nat
    BY <2>2, ReloadsType
  <2>5. engine + 1 \in 1..MaxEngines /\ engine' + Reloads(Tail(queue)) <= asked.reloads + 1
    BY <2>1, <2>2, <2>3, <2>4, Given
  <2>6. /\ queue' \in Seq(Jobs) /\ Reloads(queue') = Reloads(Tail(queue))
        /\ ToSet(queue') = ToSet(Tail(queue)) \union ToSet(Aborts) \union ToSet(Loads(engine + 1))
    BY <1>10, <2>2, <2>5, Reloaded DEF DoReload
  <2>7. ASSUME NEW j \in ToSet(queue'), j.do \in Timed PROVE j.timer[1] <= engine'
    <3>1. CASE j \in ToSet(Tail(queue))
      <4>1. j \in ToSet(queue) /\ j \in Jobs
        <5>1. j \in ToSet(queue)
          BY <2>1, <3>1, Runs
        <5> QED
          BY <5>1 DEF Types, ToSet
      <4>2. j.timer[1] <= engine /\ j.timer[1] \in 1..MaxEngines
        BY <2>1, <2>7, <4>1, JobKinds DEF Engines
      <4> QED
        BY <2>1, <2>2, <4>2
    <3>2. CASE j \in ToSet(Aborts)
      BY <2>1, <2>2, <3>2, AbortsShape
    <3>3. CASE j \in ToSet(Loads(engine + 1))
      BY <2>1, <2>2, <2>5, <3>3, LoadsShape DEF Load
    <3> QED
      BY <2>6, <3>1, <3>2, <3>3
  <2>8. armed' = {} /\ callbacks' = {}
    BY <1>10, Cancelled DEF DoReload
  <2>9. ToSet(Timers)' = {}
    BY <2>1 DEF Timers, ToSet
  <2>10. hurried' \in BOOLEAN
    BY <1>10 DEF DoReload, Types
  <2>11. Types'
    BY <1>10, <2>1, <2>5, <2>6, <2>8, <2>9, <2>10, Given DEF DoReload, Types
  <2>12. Engines'
    BY <2>1, <2>3, <2>5, <2>6, <2>7 DEF Engines, Reloads
  <2> QED
    BY <2>11, <2>12
<1>11. CASE DoShutdown
  <2>1. Job("shutdown") /\ engine' = 0 /\ loaded' = <<>> /\ asked' = asked /\ loop' = "stopped"
    BY <1>11 DEF DoShutdown
  <2>2. engine \in 1..MaxEngines /\ Tail(queue) \in Seq(Jobs)
    BY <2>1, Runs
  <2>3. queue' \in Seq(Jobs)
    BY <1>11, <2>2, Cleared DEF DoShutdown
  <2>4. armed' = {} /\ callbacks' = {}
    BY <1>11, Cancelled DEF DoShutdown
  <2>5. ToSet(Timers)' = {}
    BY <2>1 DEF Timers, ToSet
  <2>6. hurried' \in BOOLEAN
    BY <1>11 DEF DoShutdown, Types
  <2>7. Types'
    BY <1>11, <2>1, <2>3, <2>4, <2>5, <2>6, Given DEF DoShutdown, Types
  <2>8. Engines'
    BY <2>1 DEF Engines
  <2> QED
    BY <2>7, <2>8
<1>12. CASE Destroy
  <2>1. Types'
    BY <1>12 DEF Destroy, Types, Timers
  <2>2. Engines'
    BY <1>12 DEF Destroy, Engines
  <2> QED
    BY <2>1, <2>2
<1>13. CASE UNCHANGED vars
  <2>1. Types'
    BY <1>13 DEF vars, Types, Timers
  <2>2. Engines'
    BY <1>13 DEF vars, Engines
  <2> QED
    BY <2>1, <2>2
<1> QED
  BY <1>2, <1>3, <1>4, <1>6, <1>7, <1>8, <1>9, <1>10, <1>11, <1>12, <1>13 DEF Next, DoJob


-------------------------------------------------------------------------------
(* Scripts are loaded in order.                                              *)
LEMMA LoadJobsShape ==
  ASSUME NEW g \in 1..MaxEngines, NEW l \in Seq(Names)
  PROVE  /\ LoadJobs(g, l) \in Seq(Jobs) /\ Len(LoadJobs(g, l)) = Len(l)
         /\ \A s \in Names : LoadJobs(g, Append(l, s)) = Append(LoadJobs(g, l), Load(<<g, s>>))
<1>1. \A s \in Names : Load(<<g, s>>) \in Jobs
  BY JobTypes
<1>2. DOMAIN l = 1..Len(l) /\ Len(l) \in Nat /\ \A i \in 1..Len(l) : l[i] \in Names
  OBVIOUS
<1>3. LoadJobs(g, l) = [i \in 1..Len(l) |-> Load(<<g, l[i]>>)]
  BY <1>2 DEF LoadJobs
<1>4. LoadJobs(g, l) \in Seq(Jobs) /\ Len(LoadJobs(g, l)) = Len(l)
  BY <1>1, <1>2, <1>3
<1>5. ASSUME NEW s \in Names PROVE LoadJobs(g, Append(l, s)) = Append(LoadJobs(g, l), Load(<<g, s>>))
  <2> DEFINE m == Append(l, s)
             a == LoadJobs(g, m)
             b == Append(LoadJobs(g, l), Load(<<g, s>>))
  <2>1. /\ m \in Seq(Names) /\ DOMAIN m = 1..(Len(l) + 1) /\ m[Len(l) + 1] = s
        /\ \A i \in 1..Len(l) : m[i] = l[i]
    OBVIOUS
  <2> HIDE DEF m
  <2>2. a = [i \in 1..(Len(l) + 1) |-> Load(<<g, m[i]>>)]
    BY <2>1 DEF LoadJobs
  <2>3. /\ b \in Seq(Jobs) /\ Len(b) = Len(l) + 1 /\ b[Len(l) + 1] = Load(<<g, s>>)
        /\ \A i \in 1..Len(l) : b[i] = Load(<<g, l[i]>>)
    BY <1>1, <1>2, <1>3, <1>4
  <2> HIDE DEF a, b
  <2>4. b = [i \in 1..(Len(l) + 1) |-> b[i]]
    BY <2>3
  <2>5. \A i \in 1..(Len(l) + 1) : b[i] = Load(<<g, m[i]>>)
    <3> TAKE i \in 1..(Len(l) + 1)
    <3>1. i \in 1..Len(l) \/ i = Len(l) + 1
      BY <1>2
    <3> QED
      BY <2>1, <2>3, <3>1
  <2>6. a = b
    BY <2>2, <2>4, <2>5
  <2> QED
    BY <2>6 DEF a, b, m
<1> QED
  BY <1>4, <1>5

(* What is queued of the scripts of an engine.                               *)
Pending(q, g) == Select(q, ToSet(Loads(g)))

LEMMA PendingChanges ==
  ASSUME NEW q \in Seq(Jobs), NEW g \in 1..MaxEngines
  PROVE  /\ Pending(q, g) \in Seq(Jobs)
         /\ \A j \in Jobs : j.do # "load" => Pending(Append(q, j), g) = Pending(q, g)
         /\ q # <<>> /\ Head(q).do # "load" => Pending(Tail(q), g) = Pending(q, g)
<1>1. \A j \in Jobs : j.do # "load" => j \notin ToSet(Loads(g))
  BY LoadsShape DEF Load
<1> DEFINE S == ToSet(Loads(g))
<1> HIDE DEF S
<1>2. Select(q, S) \in Seq(Jobs)
  BY SelectType
<1>3. ASSUME NEW j \in Jobs, j \notin S PROVE Select(Append(q, j), S) = Select(q, S)
  BY <1>3, SelectAppend
<1>4. q # <<>> => Head(q) \in Jobs
  BY Taken
<1>5. q # <<>> /\ Head(q) \notin S => Select(Tail(q), S) = Select(q, S)
  BY SelectTail
<1> QED
  BY <1>1, <1>2, <1>3, <1>4, <1>5 DEF Pending, S

LEMMA OrderInit == Init => LoadedInOrder /\ Short
<1> SUFFICES ASSUME Init PROVE LoadedInOrder /\ Short
  OBVIOUS
<1>1. 1 \in 1..MaxEngines /\ Len(Files) \in Nat /\ <<>> \in Seq(Names)
  BY Given
<1>2. queue \in Seq(Jobs) /\ queue = Loads(1) /\ engine = 1 /\ loaded = <<>>
  BY <1>1, LoadsShape DEF Init
<1>3. Select(queue, ToSet(Loads(1))) = queue
  <2>1. ToSet(queue) \subseteq ToSet(Loads(1))
    BY <1>2
  <2> QED
    BY <1>2, <2>1, SelectAllOrNone
<1>4. LoadJobs(1, <<>>) = <<>>
  <2>1. LoadJobs(1, <<>>) \in Seq(Jobs) /\ Len(LoadJobs(1, <<>>)) = 0
    BY <1>1, LoadJobsShape
  <2> QED
    BY <2>1
<1>5. <<>> \o queue = queue
  BY <1>2
<1> QED
  BY <1>1, <1>2, <1>3, <1>4, <1>5 DEF LoadedInOrder, Short

(* What makes up the list of the scripts is not longer.                      *)
LEMMA InOrderIsShort ==
  ASSUME NEW g \in 1..MaxEngines, NEW l \in Seq(Names), NEW q \in Seq(Jobs),
         LoadJobs(g, l) \o Pending(q, g) = Loads(g)
  PROVE  Len(l) <= Len(Files)
<1>1. LoadJobs(g, l) \in Seq(Jobs) /\ Len(LoadJobs(g, l)) = Len(l) /\ Pending(q, g) \in Seq(Jobs)
  BY LoadJobsShape, PendingChanges
<1>2. Files \in Seq(Names)
  BY Given
<1>3. Len(Loads(g)) = Len(Files)
  BY <1>2, LoadJobsShape DEF Loads
<1> DEFINE a == LoadJobs(g, l)
           b == Pending(q, g)
<1> HIDE DEF a, b
<1>4. a \in Seq(Jobs) /\ b \in Seq(Jobs) /\ Len(a) = Len(l) /\ Len(a \o b) = Len(Files)
  BY <1>1, <1>3 DEF a, b
<1>5. Len(a \o b) = Len(a) + Len(b) /\ Len(b) \in Nat /\ Len(a) \in Nat
  <2>1. a \in Seq(Jobs) /\ b \in Seq(Jobs)
    BY <1>4
  <2> QED
    BY <2>1
<1> QED
  BY <1>2, <1>4, <1>5

(* The queue of the engine that follows has nothing of it but its scripts.   *)
LEMMA NewPending ==
  ASSUME NEW q \in Seq(Jobs), NEW g \in 1..MaxEngines,
         \A j \in ToSet(q) : j.do \in Timed => j.timer[1] # g
  PROVE  Pending(q \o Loads(g), g) = Loads(g)
<1> DEFINE l == Loads(g)
           S == ToSet(l)
<1>1. l \in Seq(Jobs) /\ S = {Load(<<g, s>>) : s \in Names}
  BY LoadsShape
<1>2. ToSet(q) \intersect S = {}
  BY <1>1 DEF Load, Timed
<1>3. S = ToSet(l)
  OBVIOUS
<1> HIDE DEF l, S
<1>4. Select(q, S) = <<>>
  BY <1>2, SelectAllOrNone
<1>5. Select(l, S) = l
  BY <1>1, <1>3, SelectAllOrNone
<1>6. Select(q \o l, S) = Select(q, S) \o Select(l, S)
  BY <1>1, SelectConcat
<1>7. <<>> \o l = l
  BY <1>1
<1> QED
  BY <1>4, <1>5, <1>6, <1>7 DEF Pending, l, S


LEMMA OrderNext ==
  Types /\ Engines /\ LoadedInOrder /\ Short /\ [Next]_vars => LoadedInOrder' /\ Short'
<1> SUFFICES ASSUME Types, Engines, LoadedInOrder, Short, [Next]_vars PROVE LoadedInOrder' /\ Short'
  OBVIOUS
<1> DEFINE Both == LoadedInOrder' /\ Short'
<1>1. Types' /\ Engines' /\ queue \in Seq(Jobs) /\ queue' \in Seq(Jobs)
  <2>1. Types' /\ Engines'
    BY TypesNext
  <2> QED
    BY <2>1 DEF Types
<1>2. ASSUME Running, UNCHANGED <<engine, loaded>>, Pending(queue', engine) = Pending(queue, engine)
      PROVE  Both
  BY <1>2 DEF LoadedInOrder, Short, Pending
<1>3. ASSUME ~Running', UNCHANGED loaded \/ loaded' = <<>> PROVE Both
  BY <1>3, Given DEF LoadedInOrder, Short
<1>4. CASE AskReload
  <2>1. Running /\ engine \in 1..MaxEngines /\ UNCHANGED <<engine, loaded>> /\ queue' = Append(queue, Reload)
    BY <1>4 DEF AskReload, Running, Engines
  <2>2. Pending(queue', engine) = Pending(queue, engine)
    BY <1>1, <2>1, JobTypes, PendingChanges DEF Reload
  <2> QED
    BY <1>2, <2>1, <2>2
<1>5. CASE AskShutdown
  <2>1. Running /\ engine \in 1..MaxEngines /\ UNCHANGED <<engine, loaded>> /\ queue' = Append(queue, Shutdown)
    BY <1>5 DEF AskShutdown, Running, Engines
  <2>2. Pending(queue', engine) = Pending(queue, engine)
    BY <1>1, <2>1, JobTypes, PendingChanges DEF Shutdown
  <2> QED
    BY <1>2, <2>1, <2>2
<1>6. ASSUME NEW t \in armed, Expire(t) PROVE Both
  <2>1. Running /\ engine \in 1..MaxEngines /\ UNCHANGED <<engine, loaded>> /\ queue' = Append(queue, Expired(t))
    BY <1>6 DEF Expire, Running, Engines
  <2>2. Expired(t) \in Jobs /\ Expired(t).do = "expired"
    <3>1. t \in (1..MaxEngines) \X Names
      BY <2>1, CallbackTypes DEF Types
    <3> QED
      BY <3>1, JobTypes DEF Expired
  <2>3. Pending(queue', engine) = Pending(queue, engine)
    BY <1>1, <2>1, <2>2, PendingChanges
  <2> QED
    BY <1>2, <2>1, <2>3
<1>7. ASSUME NEW kind, Job(kind), kind # "load"
      PROVE  /\ Running /\ Tail(queue) \in Seq(Jobs) /\ engine \in 1..MaxEngines
             /\ Pending(Tail(queue), engine) = Pending(queue, engine)
  <2>1. /\ engine \in 1..MaxEngines /\ queue # <<>> /\ Head(queue).do # "load" /\ Tail(queue) \in Seq(Jobs)
        /\ Running
    BY <1>7, Runs DEF Job
  <2> QED
    BY <1>1, <2>1, PendingChanges
<1>8. CASE DoLoad
  <2>1. Job("load") /\ queue' = Tail(queue) /\ Running
    BY <1>8 DEF DoLoad, Job
  <2>2. CASE Target[1] # engine
    BY <1>3, <1>8, <2>2 DEF DoLoad, Fault, Running
  <2>3. CASE Target[1] = engine
    <3> DEFINE s == Target[2]
               x == Load(<<engine, s>>)
               a == LoadJobs(engine, loaded)
               p == Pending(Tail(queue), engine)
    <3>1. /\ engine \in 1..MaxEngines /\ s \in Names /\ Target = <<engine, s>>
          /\ queue # <<>> /\ Head(queue) \in Jobs /\ Head(queue).do = "load" /\ Tail(queue) \in Seq(Jobs)
      BY <2>1, <2>3, Runs DEF Timed
    <3>2. Head(queue) = x
      BY <3>1, JobKinds DEF Target
    <3>3. x \in ToSet(Loads(engine))
      BY <3>1, LoadsShape
    <3>4. Pending(queue, engine) = <<x>> \o p
      BY <1>1, <3>1, <3>2, <3>3, SelectTail DEF Pending
    <3>5. a \in Seq(Jobs) /\ LoadJobs(engine, Append(loaded, s)) = Append(a, x)
      BY <3>1, LoadJobsShape DEF Types
    <3>6. p \in Seq(Jobs) /\ x \in Jobs
      BY <3>1, <3>2, PendingChanges
    <3>7. a \o Pending(queue, engine) = Loads(engine)
      BY <2>1 DEF LoadedInOrder, Pending
    <3> HIDE DEF a, p, x
    <3>8. Append(a, x) \o p = a \o (<<x>> \o p)
      BY <3>5, <3>6
    <3>9. loaded' = Append(loaded, s) /\ engine' = engine /\ loaded' \in Seq(Names)
      BY <1>1, <1>8, <2>3 DEF DoLoad, Types
    <3>10. LoadJobs(engine, loaded') \o p = Loads(engine)
      BY <3>4, <3>5, <3>7, <3>8, <3>9
    <3>11. LoadedInOrder'
      BY <2>1, <3>9, <3>10 DEF LoadedInOrder, Pending, p
    <3>12. Short'
      BY <3>1, <3>9, <3>10, InOrderIsShort DEF Short, p
    <3> QED
      BY <3>11, <3>12
  <2> QED
    BY <2>2, <2>3
<1>9. CASE DoExpired
  <2>1. Job("expired")
    BY <1>9 DEF DoExpired
  <2>2. CASE Target \notin callbacks
    BY <1>3, <1>9, <2>2 DEF DoExpired, Fault, Running
  <2>3. CASE Target \in callbacks
    <3>1. Run(Target) \in Jobs /\ Run(Target).do = "run"
      BY <2>1, Runs, JobTypes DEF Timed, Run
    <3>2. queue' = Append(Tail(queue), Run(Target)) /\ UNCHANGED <<engine, loaded>>
      BY <1>9, <2>3 DEF DoExpired
    <3>3. Running /\ Pending(queue', engine) = Pending(queue, engine)
      BY <1>7, <2>1, <3>1, <3>2, PendingChanges
    <3> QED
      BY <1>2, <3>2, <3>3
  <2> QED
    BY <2>2, <2>3
<1>10. CASE DoAborted
  BY <1>2, <1>7, <1>10 DEF DoAborted
<1>11. CASE DoRun
  <2>1. Job("run") /\ queue' = Tail(queue) /\ UNCHANGED <<engine, loaded>>
    BY <1>11 DEF DoRun, Fault
  <2> QED
    BY <1>2, <1>7, <2>1
<1>12. CASE DoReload
  <2>1. Job("reload") /\ engine' = engine + 1 /\ loaded' = <<>> /\ loop = "runs" /\ loop' = "runs"
    BY <1>12 DEF DoReload, Job, Running
  <2>2. engine \in 1..MaxEngines /\ engine + 1 \in 1..MaxEngines /\ Tail(queue) \in Seq(Jobs)
        /\ ToSet(Tail(queue)) \subseteq ToSet(queue)
    BY <1>1, <2>1, Runs DEF Engines
  <2> DEFINE q == Tail(queue) \o Aborts
  <2>3. q \in Seq(Jobs) /\ ToSet(q) = ToSet(Tail(queue)) \union ToSet(Aborts)
    BY <2>2, Cleared
  <2>4. ASSUME NEW j \in ToSet(q), j.do \in Timed PROVE j.timer[1] # engine + 1
    <3>1. j \in ToSet(queue) => j.timer[1] <= engine
      BY <2>1, <2>4 DEF Engines
    <3>2. j \in ToSet(Aborts) => j.timer[1] = engine
      BY <2>2, AbortsShape
    <3> QED
      BY <2>2, <2>3, <3>1, <3>2
  <2>5. queue' = q \o Loads(engine + 1)
    BY <1>12 DEF DoReload
  <2> HIDE DEF q
  <2>6. Pending(queue', engine + 1) = Loads(engine + 1)
    BY <2>2, <2>3, <2>4, <2>5, NewPending
  <2>7. LoadJobs(engine + 1, <<>>) = <<>>
    <3>1. <<>> \in Seq(Names)
      OBVIOUS
    <3>2. LoadJobs(engine + 1, <<>>) \in Seq(Jobs) /\ Len(LoadJobs(engine + 1, <<>>)) = 0
      BY <2>2, <3>1, LoadJobsShape
    <3> QED
      BY <3>2
  <2>8. <<>> \o Loads(engine + 1) = Loads(engine + 1)
    BY <2>2, LoadsShape
  <2>9. LoadedInOrder'
    BY <2>1, <2>6, <2>7, <2>8 DEF LoadedInOrder, Pending
  <2>10. Short'
    BY <2>1, Given DEF Short
  <2> QED
    BY <2>9, <2>10
<1>13. CASE DoShutdown
  BY <1>3, <1>13 DEF DoShutdown, Running
<1>14. CASE Destroy
  BY <1>3, <1>14 DEF Destroy, Running
<1>15. CASE UNCHANGED vars
  BY <1>15 DEF vars, LoadedInOrder, Short, Running
<1> QED
  BY <1>4, <1>5, <1>6, <1>8, <1>9, <1>10, <1>11, <1>12, <1>13, <1>14, <1>15 DEF Next, DoJob


-------------------------------------------------------------------------------
(* The timers.                                                               *)

(* What is left of a short sequence when its first element is taken.         *)
LEMMA Rest ==
  ASSUME NEW T, NEW r \in Seq(T), NEW x, NEW y, NEW z
  PROVE  /\ <<x>> \o r # <<>>
         /\ <<x>> \o r = <<y>> => x = y /\ r = <<>>
         /\ <<x>> \o r = <<y, z>> => x = y /\ r = <<z>>
<1> DEFINE s == <<x>> \o r
<1>1. s # <<>> /\ Head(s) = x /\ Tail(s) = r
  OBVIOUS
<1>2. Head(<<y>>) = y /\ Tail(<<y>>) = <<>>
  OBVIOUS
<1>3. Head(<<y, z>>) = y /\ Tail(<<y, z>>) = <<z>>
  OBVIOUS
<1> HIDE DEF s
<1>4. s = <<y>> => x = y /\ r = <<>>
  BY <1>1, <1>2
<1>5. s = <<y, z>> => x = y /\ r = <<z>>
  BY <1>1, <1>3
<1> QED
  BY <1>1, <1>4, <1>5 DEF s

LEMMA Appends ==
  ASSUME NEW x, NEW y
  PROVE  Append(<<>>, x) = <<x>> /\ Append(<<y>>, x) = <<y, x>>
<1>1. Append(<<>>, x) = <<x>>
  OBVIOUS
<1>2. <<y>> \in Seq({y, x}) /\ Len(<<y>>) = 1 /\ <<y>>[1] = y
  OBVIOUS
<1> DEFINE s == <<y>>
<1> HIDE DEF s
<1>3. /\ Append(s, x) \in Seq({y, x}) /\ Len(Append(s, x)) = 2
      /\ Append(s, x)[1] = y /\ Append(s, x)[2] = x
  BY <1>2 DEF s
<1>4. <<y, x>> \in Seq({y, x}) /\ Len(<<y, x>>) = 2 /\ <<y, x>>[1] = y /\ <<y, x>>[2] = x
  OBVIOUS
<1> DEFINE r == Append(s, x)
           p == <<y, x>>
<1> HIDE DEF r, p
<1>5. r \in Seq({y, x}) /\ p \in Seq({y, x}) /\ Len(r) = Len(p) /\ \A i \in 1..Len(r) : r[i] = p[i]
  BY <1>3, <1>4 DEF r, p
<1>6. r = p
  BY <1>5, SeqEqual
<1> QED
  BY <1>1, <1>6 DEF s, r, p

(* What happens to the jobs of a timer when a job is posted or taken.        *)
LEMMA TraceChanges ==
  ASSUME NEW q \in Seq(Jobs), NEW t
  PROVE  /\ Select(q, Of(t)) \in Seq(Jobs)
         /\ \A j \in Jobs : Select(Append(q, j), Of(t))
              = IF j \in Of(t) THEN Append(Select(q, Of(t)), j) ELSE Select(q, Of(t))
         /\ q # <<>> =>
              /\ Select(Tail(q), Of(t)) \in Seq(Jobs)
              /\ Head(q) \in Of(t) => Select(q, Of(t)) = <<Head(q)>> \o Select(Tail(q), Of(t))
              /\ Head(q) \notin Of(t) => Select(Tail(q), Of(t)) = Select(q, Of(t))
<1> DEFINE S == Of(t)
<1> HIDE DEF S
<1>1. Select(q, S) \in Seq(Jobs)
  BY SelectType
<1>2. \A j \in Jobs : Select(Append(q, j), S) = IF j \in S THEN Append(Select(q, S), j) ELSE Select(q, S)
  BY SelectAppend
<1>3. q # <<>> =>
        /\ Select(Tail(q), S) \in Seq(Jobs)
        /\ Head(q) \in S => Select(q, S) = <<Head(q)>> \o Select(Tail(q), S)
        /\ Head(q) \notin S => Select(Tail(q), S) = Select(q, S)
  BY SelectTail
<1> QED
  BY <1>1, <1>2, <1>3 DEF S

(* Where a timer of the open engine may be.                                  *)
Waits(t, q) == t \in armed /\ Select(q, Of(t)) \in {<<>>, <<Run(t)>>}
Ends(t, q) == t \in callbacks \ armed /\ Select(q, Of(t)) \in {<<Expired(t)>>, <<Run(t), Expired(t)>>}
ToLoad(t, q) == t \notin callbacks /\ Select(q, Of(t)) = <<Load(t)>>

LEMMA TracesAre == Traces <=> (Running => \A t \in {engine} \X Names : Waits(t, queue) \/ Ends(t, queue) \/ ToLoad(t, queue))
  BY DEF Traces, Trace, Waits, Ends, ToLoad

(* The kind of the first job of a timer says where the timer is.             *)
LEMMA FirstTells ==
  ASSUME NEW t, NEW r \in Seq(Jobs), NEW x
  PROVE  /\ <<x>> \o r = <<Load(t)>> => x = Load(t) /\ r = <<>>
         /\ <<x>> \o r \in {<<>>, <<Run(t)>>} => x = Run(t) /\ r = <<>>
         /\ <<x>> \o r \in {<<Expired(t)>>, <<Run(t), Expired(t)>>} =>
              (x = Expired(t) /\ r = <<>>) \/ (x = Run(t) /\ r = <<Expired(t)>>)
  BY Rest

LEMMA TracesInit == Init => Traces
<1> SUFFICES ASSUME Init, NEW t \in {engine} \X Names
             PROVE  t \notin callbacks /\ Trace(t) = <<Load(t)>>
  BY DEF Traces
<1>1. 1 \in 1..MaxEngines /\ t = <<1, t[2]>> /\ t[2] \in Names
  BY Given DEF Init
<1> QED
  BY <1>1, LoadsOnce DEF Init, Trace

(* A new engine has each of its timers still to load.                        *)
LEMMA NewTrace ==
  ASSUME NEW q \in Seq(Jobs), NEW g \in 1..MaxEngines, NEW t \in {g} \X Names,
         \A j \in ToSet(q) : j.do \in Timed => j.timer[1] # g
  PROVE  Select(q \o Loads(g), Of(t)) = <<Load(t)>>
<1> DEFINE S == Of(t)
           l == Loads(g)
<1>1. \A j \in ToSet(q) : j \in Jobs
  BY DEF ToSet
<1>2. ToSet(q) \intersect S = {}
  BY <1>1, OfJob DEF Timed
<1>3. Select(l, S) = <<Load(t)>>
  <2>1. t = <<g, t[2]>> /\ t[2] \in Names
    OBVIOUS
  <2> QED
    BY <2>1, LoadsOnce
<1>4. l \in Seq(Jobs)
  BY LoadsShape
<1> HIDE DEF S, l
<1>5. Select(q, S) = <<>>
  BY <1>2, SelectAllOrNone
<1>6. Select(q \o l, S) = Select(q, S) \o Select(l, S)
  BY <1>4, SelectConcat
<1>7. <<>> \o <<Load(t)>> = <<Load(t)>>
  OBVIOUS
<1> QED
  BY <1>3, <1>5, <1>6, <1>7 DEF S, l


LEMMA TracesNext == Types /\ Engines /\ Traces /\ [Next]_vars => Traces'
<1> SUFFICES ASSUME Types, Engines, Traces, [Next]_vars, Running', NEW t \in {engine'} \X Names
             PROVE  (Waits(t, queue) \/ Ends(t, queue) \/ ToLoad(t, queue))'
  BY DEF Traces, Trace, Waits, Ends, ToLoad
<1> DEFINE Place == Waits(t, queue) \/ Ends(t, queue) \/ ToLoad(t, queue)
           T(q) == Select(q, Of(t))
<1>1. queue \in Seq(Jobs) /\ armed \subseteq callbacks
  BY DEF Types
<1>2. ASSUME Running, engine' = engine, queue' \in Seq(Jobs), T(queue') = T(queue),
             t \in armed' <=> t \in armed, t \in callbacks' <=> t \in callbacks
      PROVE  Place'
  BY <1>2, TracesAre DEF Waits, Ends, ToLoad
<1>3. Types' /\ queue' \in Seq(Jobs)
  <2>1. Types'
    BY TypesNext
  <2> QED
    BY <2>1 DEF Types
<1>4. Reload \in Jobs \ Of(t) /\ Shutdown \in Jobs \ Of(t)
  BY JobTypes DEF Reload, Shutdown, Of, Load, Run, Expired
<1>5. CASE AskReload \/ AskShutdown
  <2>1. /\ Running /\ UNCHANGED <<engine, armed, callbacks>>
        /\ queue' = Append(queue, Reload) \/ queue' = Append(queue, Shutdown)
    BY <1>5 DEF AskReload, AskShutdown
  <2>2. T(queue') = T(queue)
    <3>1. ASSUME NEW j \in Jobs \ Of(t), queue' = Append(queue, j) PROVE T(queue') = T(queue)
      BY <1>1, <3>1, TraceChanges
    <3> HIDE DEF T
    <3> QED
      BY <1>4, <2>1, <3>1
  <2> QED
    BY <1>2, <1>3, <2>1, <2>2
<1>6. ASSUME NEW u \in armed, Expire(u) PROVE Place'
  <2>1. /\ Running /\ engine' = engine /\ callbacks' = callbacks /\ armed' = armed \ {u}
        /\ queue' = Append(queue, Expired(u)) /\ engine \in 1..MaxEngines
    BY <1>6 DEF Expire, Running, Engines
  <2>2. u \in (1..MaxEngines) \X Names
    BY <2>1, CallbackTypes DEF Types
  <2>3. Expired(u) \in Jobs /\ (Expired(u) \in Of(t) <=> u = t)
    BY <2>2, JobTypes DEF Of, Load, Run, Expired
  <2>4. CASE u # t
    <3>1. T(queue') = T(queue)
      BY <1>1, <2>1, <2>3, <2>4, TraceChanges
    <3> QED
      BY <1>2, <1>3, <2>1, <2>4, <3>1
  <2>5. CASE u = t
    <3>1. T(queue') = Append(T(queue), Expired(t))
      BY <1>1, <2>1, <2>3, <2>5, TraceChanges
    <3>2. Waits(t, queue)
      BY <1>1, <2>1, <2>5, TracesAre DEF Ends, ToLoad
    <3>3. T(queue') \in {<<Expired(t)>>, <<Run(t), Expired(t)>>}
      BY <3>1, <3>2, Appends DEF Waits
    <3>4. t \in callbacks' \ armed'
      BY <1>1, <2>1, <2>5
    <3> QED
      BY <3>3, <3>4 DEF Ends
  <2> QED
    BY <2>4, <2>5
<1>7. ASSUME NEW kind, Job(kind)
      PROVE  /\ Running /\ queue # <<>> /\ Tail(queue) \in Seq(Jobs) /\ T(Tail(queue)) \in Seq(Jobs)
             /\ Head(queue) \in Jobs /\ Head(queue).do = kind /\ engine \in 1..MaxEngines
             /\ kind \notin {"load", "run", "expired"} => T(Tail(queue)) = T(queue)
             /\ kind \in {"load", "run", "expired"} /\ Target # t => T(Tail(queue)) = T(queue)
             /\ kind \in {"load", "run", "expired"} /\ Target = t => T(queue) = <<Head(queue)>> \o T(Tail(queue))
  <2>1. /\ Running /\ queue # <<>> /\ Tail(queue) \in Seq(Jobs)
        /\ Head(queue) \in Jobs /\ Head(queue).do = kind /\ engine \in 1..MaxEngines
    BY <1>7, Runs DEF Job
  <2>2. /\ T(Tail(queue)) \in Seq(Jobs)
        /\ Head(queue) \in Of(t) => T(queue) = <<Head(queue)>> \o T(Tail(queue))
        /\ Head(queue) \notin Of(t) => T(Tail(queue)) = T(queue)
    BY <1>1, <2>1, TraceChanges
  <2>3. Head(queue) \in Of(t) => kind \in {"load", "run", "expired"} /\ Target = t
    BY <2>1, OfJob DEF Target
  <2>4. kind \in {"load", "run", "expired"} /\ Target = t => Head(queue) \in Of(t)
    BY <2>1, JobKinds DEF Target, Of
  <2> QED
    BY <2>1, <2>2, <2>3, <2>4
<1>8. ASSUME NEW kind \in {"load", "run", "expired"}, Job(kind), Target = t, Target \in {engine} \X Names
      PROVE  /\ kind = "load" => t \notin callbacks /\ T(Tail(queue)) = <<>>
             /\ kind = "run" => \/ t \in armed /\ T(Tail(queue)) = <<>>
                                \/ t \in callbacks \ armed /\ T(Tail(queue)) = <<Expired(t)>>
             /\ kind = "expired" => t \in callbacks \ armed /\ T(Tail(queue)) = <<>>
  <2> DEFINE r == T(Tail(queue))
             x == Head(queue)
  <2>1. r \in Seq(Jobs) /\ T(queue) = <<x>> \o r /\ x.do = kind /\ Running
    BY <1>7, <1>8
  <2>2. Waits(t, queue) \/ Ends(t, queue) \/ ToLoad(t, queue)
    BY <1>8, <2>1, TracesAre
  <2> HIDE DEF r, x
  <2>3. \/ t \in armed /\ <<x>> \o r \in {<<>>, <<Run(t)>>}
        \/ t \in callbacks \ armed /\ <<x>> \o r \in {<<Expired(t)>>, <<Run(t), Expired(t)>>}
        \/ t \notin callbacks /\ <<x>> \o r = <<Load(t)>>
    BY <2>1, <2>2 DEF Waits, Ends, ToLoad
  <2>4. \/ t \in armed /\ x = Run(t) /\ r = <<>>
        \/ t \in callbacks \ armed /\ ((x = Expired(t) /\ r = <<>>) \/ (x = Run(t) /\ r = <<Expired(t)>>))
        \/ t \notin callbacks /\ x = Load(t) /\ r = <<>>
    BY <2>1, <2>3, FirstTells
  <2>5. x.do = kind
    BY <2>1
  <2> QED
    BY <2>4, <2>5 DEF Run, Expired, Load, r
<1>9. CASE DoLoad
  <2>1. Job("load") /\ queue' = Tail(queue) /\ Target[1] = engine /\ engine' = engine
    BY <1>9 DEF DoLoad, Fault, Running
  <2>2. armed' = armed \union {Target} /\ callbacks' = callbacks \union {Target}
    BY <1>9, <2>1 DEF DoLoad
  <2>3. CASE Target # t
    <3>1. T(queue') = T(queue) /\ Running
      BY <1>7, <2>1, <2>3
    <3> QED
      BY <1>2, <1>3, <2>1, <2>2, <2>3, <3>1
  <2>4. CASE Target = t
    <3>1. T(queue') = <<>>
      BY <1>8, <2>1, <2>4
    <3> QED
      BY <2>2, <2>4, <3>1 DEF Waits
  <2> QED
    BY <2>3, <2>4
<1>10. CASE DoExpired
  <2>1. /\ Job("expired") /\ queue' = Append(Tail(queue), Run(Target)) /\ Target \in callbacks
        /\ engine' = engine /\ armed' = armed \union {Target} /\ callbacks' = callbacks
    BY <1>10 DEF DoExpired, Fault, Running
  <2>2. Run(Target) \in Jobs /\ (Run(Target) \in Of(t) <=> Target = t)
    BY <2>1, Runs, JobTypes DEF Timed, Of, Load, Run, Expired
  <2>3. CASE Target # t
    <3>1. T(Tail(queue)) = T(queue) /\ Running /\ Tail(queue) \in Seq(Jobs)
      BY <1>7, <2>1, <2>3
    <3>2. T(queue') = T(queue)
      BY <2>1, <2>2, <2>3, <3>1, TraceChanges
    <3> QED
      BY <1>2, <1>3, <2>1, <2>3, <3>1, <3>2
  <2>4. CASE Target = t
    <3>1. T(Tail(queue)) = <<>> /\ t \in callbacks
      BY <1>8, <2>1, <2>4
    <3>2. T(queue') = Append(T(Tail(queue)), Run(t))
      BY <1>7, <2>1, <2>2, <2>4, TraceChanges
    <3>3. T(queue') = <<Run(t)>>
      BY <3>1, <3>2, Appends
    <3> QED
      BY <2>1, <2>4, <3>3 DEF Waits
  <2> QED
    BY <2>3, <2>4
<1>11. CASE DoAborted
  <2>1. Job("aborted") /\ queue' = Tail(queue) /\ UNCHANGED <<engine, armed, callbacks>>
    BY <1>11 DEF DoAborted
  <2>2. T(queue') = T(queue) /\ Running
    BY <1>7, <2>1
  <2> QED
    BY <1>2, <1>3, <2>1, <2>2
<1>12. CASE DoRun
  <2>1. Job("run") /\ queue' = Tail(queue) /\ Target[1] = engine /\ UNCHANGED <<engine, armed, callbacks>>
    BY <1>12 DEF DoRun, Fault, Running
  <2>2. CASE Target # t
    <3>1. T(queue') = T(queue) /\ Running
      BY <1>7, <2>1, <2>2
    <3> QED
      BY <1>2, <1>3, <2>1, <3>1
  <2>3. CASE Target = t
    <3>1. \/ t \in armed /\ T(queue') = <<>>
          \/ t \in callbacks \ armed /\ T(queue') = <<Expired(t)>>
      BY <1>8, <2>1, <2>3
    <3> QED
      BY <2>1, <3>1 DEF Waits, Ends
  <2> QED
    BY <2>2, <2>3
<1>13. CASE DoReload
  <2>1. Job("reload") /\ engine' = engine + 1 /\ loop = "runs"
    BY <1>13 DEF DoReload, Job, Running
  <2>2. /\ engine \in 1..MaxEngines /\ Tail(queue) \in Seq(Jobs)
        /\ ToSet(Tail(queue)) \subseteq ToSet(queue)
    BY <2>1, Runs
  <2>3. engine + 1 \in 1..MaxEngines
    <3>1. Types' /\ Engines' /\ loop' = "runs"
      BY TypesNext DEF Running
    <3> QED
      BY <2>1, <3>1 DEF Engines
  <2> DEFINE q == Tail(queue) \o Aborts
  <2>4. q \in Seq(Jobs) /\ ToSet(q) = ToSet(Tail(queue)) \union ToSet(Aborts)
    BY <2>2, Cleared
  <2>5. ASSUME NEW j \in ToSet(q), j.do \in Timed PROVE j.timer[1] # engine + 1
    <3>1. j \in ToSet(queue) => j.timer[1] <= engine
      BY <2>1, <2>5 DEF Engines
    <3>2. j \in ToSet(Aborts) => j.timer[1] = engine
      BY <2>2, AbortsShape
    <3> QED
      BY <2>2, <2>4, <3>1, <3>2
  <2>6. queue' = q \o Loads(engine + 1)
    BY <1>13 DEF DoReload
  <2>7. t \in {engine + 1} \X Names
    BY <2>1
  <2> HIDE DEF q
  <2>8. T(queue') = <<Load(t)>>
    BY <2>3, <2>4, <2>5, <2>6, <2>7, NewTrace
  <2>9. callbacks' = {}
    BY <1>13, Cancelled DEF DoReload
  <2> QED
    BY <2>8, <2>9 DEF ToLoad
<1>14. CASE DoShutdown \/ Destroy
  BY <1>14 DEF DoShutdown, Destroy, Running
<1>15. CASE UNCHANGED vars
  <2>1. Running /\ UNCHANGED <<engine, queue, armed, callbacks>>
    BY <1>15 DEF vars, Running
  <2> QED
    BY <1>2, <1>3, <2>1
<1> QED
  BY <1>5, <1>6, <1>9, <1>10, <1>11, <1>12, <1>13, <1>14, <1>15 DEF Next, DoJob


-------------------------------------------------------------------------------
(* Nothing goes wrong as long as nothing is taken away.                      *)

(* What a job has to find.                                                   *)
Served(j, g, c) ==
  /\ j.do \in {"load", "run"} => j.timer[1] = g
  /\ j.do = "expired" => j.timer \in c

LEMMA CalmInit == Init => Calm
<1> SUFFICES ASSUME Init PROVE Calm
  OBVIOUS
<1>1. 1 \in 1..MaxEngines
  BY Given
<1>2. ToSet(queue) = {Load(<<1, s>>) : s \in Names} /\ engine = 1 /\ ~fault /\ loop = "runs"
  BY <1>1, LoadsShape DEF Init
<1>3. \A j \in ToSet(queue) : Served(j, engine, callbacks)
  BY <1>2 DEF Load, Served
<1> QED
  BY <1>2, <1>3 DEF Calm, Served

LEMMA CalmNext == Types /\ Engines /\ Calm /\ [Next]_vars => Calm'
<1> SUFFICES ASSUME Types, Engines, Calm, [Next]_vars, ~hurried' PROVE Calm'
  BY DEF Calm
<1>1. ~hurried
  BY DEF Next, DoJob, AskReload, AskShutdown, Expire, DoLoad, DoExpired, DoAborted, DoRun, DoReload,
         DoShutdown, Destroy, Fault, vars
<1>2. ~fault /\ queue \in Seq(Jobs)
  BY <1>1 DEF Calm, Types
<1>3. Running => \A j \in ToSet(queue) : Served(j, engine, callbacks)
  BY <1>1 DEF Calm, Served
<1>4. ASSUME Running, loop' = "runs", ~fault', \A j \in ToSet(queue') : Served(j, engine', callbacks')
      PROVE  Calm'
  BY <1>4 DEF Calm, Served
<1>5. ASSUME NEW kind, Job(kind)
      PROVE  /\ Running /\ engine \in 1..MaxEngines /\ Head(queue) \in Jobs /\ Head(queue).do = kind
             /\ Tail(queue) \in Seq(Jobs) /\ ToSet(Tail(queue)) \subseteq ToSet(queue)
             /\ Served(Head(queue), engine, callbacks)
             /\ \A j \in ToSet(Tail(queue)) : Served(j, engine, callbacks)
             /\ \A j \in ToSet(Tail(queue)) : j \in Jobs /\ \E i \in 2..Len(queue) : queue[i] = j
  <2>1. /\ Running /\ engine \in 1..MaxEngines /\ Head(queue) \in Jobs /\ Head(queue).do = kind
        /\ queue # <<>> /\ Tail(queue) \in Seq(Jobs)
        /\ ToSet(queue) = {Head(queue)} \union ToSet(Tail(queue))
    BY <1>5, Runs DEF Job
  <2>2. \A j \in ToSet(Tail(queue)) : \E i \in 2..Len(queue) : queue[i] = j
    BY <1>2, <2>1, ElementsTail
  <2>3. \A j \in ToSet(Tail(queue)) : j \in Jobs
    BY <2>1 DEF ToSet
  <2> QED
    BY <1>3, <2>1, <2>2, <2>3
<1>6. CASE AskReload \/ AskShutdown
  <2>1. Running /\ UNCHANGED <<engine, callbacks, loop, fault>>
        /\ (queue' = Append(queue, Reload) \/ queue' = Append(queue, Shutdown))
    BY <1>6 DEF AskReload, AskShutdown
  <2>2. \A j \in {Reload, Shutdown} : ToSet(Append(queue, j)) = ToSet(queue) \union {j}
    <3> TAKE j \in {Reload, Shutdown}
    <3>1. j \in Jobs
      BY JobTypes
    <3> QED
      BY <1>2, <3>1, ElementsAppend
  <2>3. \A j \in ToSet(queue') : Served(j, engine, callbacks)
    <3>1. Served(Reload, engine, callbacks) /\ Served(Shutdown, engine, callbacks)
      BY DEF Served, Reload, Shutdown
    <3> QED
      BY <1>3, <2>1, <2>2, <3>1
  <2> QED
    BY <1>2, <1>4, <2>1, <2>3 DEF Running
<1>7. ASSUME NEW t \in armed, Expire(t) PROVE Calm'
  <2>1. /\ Running /\ UNCHANGED <<engine, callbacks, loop, fault>> /\ queue' = Append(queue, Expired(t))
        /\ t \in callbacks /\ engine \in 1..MaxEngines
    BY <1>7 DEF Expire, Types, Engines, Running
  <2>2. t \in (1..MaxEngines) \X Names
    BY <2>1, CallbackTypes
  <2>3. ToSet(queue') = ToSet(queue) \union {Expired(t)}
    BY <1>2, <2>1, <2>2, JobTypes, ElementsAppend
  <2>4. \A j \in ToSet(queue') : Served(j, engine, callbacks)
    BY <1>3, <2>1, <2>3 DEF Served, Expired
  <2> QED
    BY <1>2, <1>4, <2>1, <2>4 DEF Running
<1>8. CASE DoLoad
  <2>1. Job("load") /\ queue' = Tail(queue) /\ loop' = loop /\ engine' = engine
    BY <1>8 DEF DoLoad, Fault
  <2>2. Target[1] = engine
    BY <1>5, <2>1 DEF Served, Target
  <2>3. callbacks' = callbacks \union {Target} /\ fault' = fault
    BY <1>8, <2>2 DEF DoLoad
  <2>4. \A j \in ToSet(queue') : Served(j, engine, callbacks')
    BY <1>5, <2>1, <2>3 DEF Served
  <2> QED
    BY <1>2, <1>4, <1>5, <2>1, <2>3, <2>4 DEF Running
<1>9. CASE DoExpired
  <2>1. Job("expired") /\ loop' = loop
    BY <1>9 DEF DoExpired, Fault
  <2>2. Target \in callbacks
    BY <1>5, <2>1 DEF Served, Target
  <2>3. queue' = Append(Tail(queue), Run(Target)) /\ UNCHANGED <<engine, callbacks, fault>>
    BY <1>9, <2>2 DEF DoExpired
  <2>4. Target \in (1..MaxEngines) \X Names /\ Target[1] = engine
    BY <1>5, <2>1, <2>2, CallbackTypes
  <2>5. ToSet(queue') = ToSet(Tail(queue)) \union {Run(Target)}
    <3>1. Tail(queue) \in Seq(Jobs) /\ Run(Target) \in Jobs
      BY <1>5, <2>1, <2>4, JobTypes
    <3> DEFINE w == Tail(queue)
               j == Run(Target)
    <3>2. w \in Seq(Jobs)
      BY <3>1
    <3>3. j \in Jobs
      BY <3>1
    <3> HIDE DEF w, j
    <3>4. ToSet(Append(w, j)) = ToSet(w) \union {j}
      BY ONLY <3>2, <3>3, ElementsAppend
    <3> QED
      BY <2>3, <3>4 DEF w, j
  <2>6. \A j \in ToSet(queue') : Served(j, engine, callbacks)
    BY <1>5, <2>1, <2>4, <2>5 DEF Served, Run
  <2> QED
    BY <1>2, <1>4, <1>5, <2>1, <2>3, <2>6 DEF Running
<1>10. CASE DoAborted
  <2>1. Job("aborted") /\ queue' = Tail(queue) /\ UNCHANGED <<engine, callbacks, loop, fault>>
    BY <1>10 DEF DoAborted
  <2> QED
    BY <1>2, <1>4, <1>5, <2>1 DEF Running
<1>11. CASE DoRun
  <2>1. Job("run") /\ queue' = Tail(queue)
    BY <1>11 DEF DoRun
  <2>2. Target[1] = engine
    BY <1>5, <2>1 DEF Served, Target
  <2>3. UNCHANGED <<engine, callbacks, loop, fault>>
    BY <1>11, <2>2 DEF DoRun
  <2> QED
    BY <1>2, <1>4, <1>5, <2>1, <2>3 DEF Running
<1>12. CASE DoReload
  <2>1. /\ Job("reload") /\ engine' = engine + 1 /\ UNCHANGED <<loop, fault>>
        /\ queue' = Tail(queue) \o Aborts \o Loads(engine + 1)
        /\ \A i \in 2..Len(queue) : ~Needs(queue[i])
    BY <1>12 DEF DoReload
  <2>2. engine \in 1..MaxEngines /\ engine + 1 \in 1..MaxEngines /\ Tail(queue) \in Seq(Jobs)
    <3>1. Types' /\ Engines' /\ loop' = "runs"
      BY <1>5, <2>1, TypesNext DEF Running
    <3> QED
      BY <1>5, <2>1, <3>1 DEF Engines
  <2>3. ToSet(queue') = ToSet(Tail(queue)) \union ToSet(Aborts) \union ToSet(Loads(engine + 1))
    BY <2>1, <2>2, Reloaded
  <2>4. ASSUME NEW j \in ToSet(Tail(queue)) PROVE Served(j, engine', callbacks')
    <3>1. Served(j, engine, callbacks) /\ ~Needs(j)
      BY <1>5, <2>1, <2>4
    <3>2. j.do = "expired" => j.timer[1] = engine
      BY <3>1, CallbackTypes DEF Served
    <3> QED
      BY <3>1, <3>2 DEF Served, Needs
  <2>5. \A j \in ToSet(Aborts) : Served(j, engine', callbacks')
    BY <2>2, AbortsShape DEF Served
  <2>6. \A j \in ToSet(Loads(engine + 1)) : Served(j, engine', callbacks')
    BY <2>1, <2>2, LoadsShape DEF Served, Load
  <2>7. \A j \in ToSet(queue') : Served(j, engine', callbacks')
    BY <2>3, <2>4, <2>5, <2>6
  <2> QED
    BY <1>2, <1>4, <1>5, <2>1, <2>7 DEF Running
<1>13. CASE DoShutdown
  <2>1. /\ Job("shutdown") /\ loop' = "stopped" /\ fault' = fault /\ queue' = Tail(queue) \o Aborts
        /\ \A i \in 2..Len(queue) : ~OfPlugin(queue[i])
    BY <1>13 DEF DoShutdown
  <2>2. ToSet(queue') = ToSet(Tail(queue)) \union ToSet(Aborts)
    BY <1>5, <2>1, Cleared
  <2>3. \A j \in ToSet(queue') : ~OfPlugin(j)
    BY <1>5, <2>1, <2>2, AbortsShape DEF OfPlugin
  <2> QED
    BY <1>2, <2>1, <2>3 DEF Calm, Running
<1>14. CASE Destroy
  <2>1. loop = "stopped" /\ loop' = "gone" /\ (fault' <=> \E i \in DOMAIN queue : OfPlugin(queue[i]))
    BY <1>14 DEF Destroy
  <2>2. \A i \in DOMAIN queue : ~OfPlugin(queue[i])
    BY <1>1, <2>1 DEF Calm, ToSet
  <2> QED
    BY <2>1, <2>2 DEF Calm, Running
<1>15. CASE UNCHANGED vars
  BY <1>1, <1>15 DEF vars, Calm, Running
<1> QED
  BY <1>6, <1>7, <1>8, <1>9, <1>10, <1>11, <1>12, <1>13, <1>14, <1>15 DEF Next, DoJob

-------------------------------------------------------------------------------
(* The theorems.                                                             *)

LEMMA IInvAlways == Spec => []IInv
<1>1. Init => IInv
  BY TypesInit, OrderInit, TracesInit, CalmInit DEF IInv
<1>2. IInv /\ [Next]_vars => IInv'
  BY TypesNext, OrderNext, TracesNext, CalmNext DEF IInv
<1> QED
  BY <1>1, <1>2, PTL DEF Spec

(* The state is what it is said to be: no timer and no callback outlives its *)
(* engine, and an engine has at most its scripts (clearEngines, loadScript_).*)
THEOREM TypeCorrect == Spec => []TypeOK
<1>1. IInv => TypeOK
  <2> SUFFICES ASSUME IInv PROVE TypeOK
    OBVIOUS
  <2>1. callbacks \subseteq {engine} \X Names
    BY CallbackTypes DEF IInv
  <2> QED
    BY <2>1 DEF IInv, Types, Short, TypeOK, Current, Names
<1> QED
  BY <1>1, IInvAlways, PTL

(* The scripts of the open engine are loaded once each, in their order,      *)
(* however many reloads come and whenever (ScriptManager::load and reload).  *)
THEOREM LoadedAlwaysInOrder == Spec => []LoadedInOrder
<1>1. IInv => LoadedInOrder
  BY DEF IInv
<1> QED
  BY <1>1, IInvAlways, PTL

(* Nothing that was deleted is used unless it was taken away from under a    *)
(* job that was queued: +reload and the shutdown are the only ways to fail.  *)
THEOREM CalmAlwaysSafe == Spec => []CalmIsSafe
<1>1. IInv => CalmIsSafe
  BY DEF IInv, Calm, CalmIsSafe
<1> QED
  BY <1>1, IInvAlways, PTL

(* What the queue has of a timer says how often it has each of its jobs.     *)
LEMMA Counted ==
  ASSUME NEW q \in Seq(Jobs), NEW t, NEW j \in Of(t)
  PROVE  /\ Select(q, Of(t)) = <<>> => Len(Select(q, {j})) = 0
         /\ \A x : Select(q, Of(t)) = <<x>> => Len(Select(q, {j})) = IF x = j THEN 1 ELSE 0
         /\ \A x, y : x # y /\ Select(q, Of(t)) = <<x, y>> =>
              Len(Select(q, {j})) = IF x = j \/ y = j THEN 1 ELSE 0
<1> DEFINE S == Of(t)
           R == {j}
<1>1. R \in SUBSET S
  OBVIOUS
<1>2. \A x : x \in R <=> x = j
  OBVIOUS
<1> HIDE DEF S, R
<1>3. Select(q, R) = Select(Select(q, S), R)
  BY <1>1, SelectTwice
<1>4. Len(<<>>) = 0 /\ \A x : Len(<<x>>) = 1
  OBVIOUS
<1>5. Select(<<>>, R) = <<>>
  BY SelectEmpty
<1>6. \A x : Select(<<x>>, R) = IF x = j THEN <<x>> ELSE <<>>
  BY <1>2, SelectOne
<1>7. ASSUME NEW x, NEW y, x # y PROVE Len(Select(<<x, y>>, R)) = IF x = j \/ y = j THEN 1 ELSE 0
  <2> DEFINE p == <<x>>
             V == {x, y}
  <2>1. p \in Seq(V) /\ y \in V /\ Append(p, y) = <<x, y>>
    BY Appends
  <2> HIDE DEF p, V
  <2>5. Select(Append(p, y), R) = IF y \in R THEN Append(Select(p, R), y) ELSE Select(p, R)
    <3>1. p \in Seq(V)
      BY <2>1
    <3>2. y \in V
      BY <2>1
    <3> QED
      BY ONLY <3>1, <3>2, SelectAppend
  <2>2. Select(<<x, y>>, R) = IF y = j THEN Append(Select(<<x>>, R), y) ELSE Select(<<x>>, R)
    BY <1>2, <2>1, <2>5 DEF p
  <2>3. Append(<<>>, y) = <<y>>
    BY Appends
  <2> QED
    BY <1>4, <1>6, <1>7, <2>2, <2>3
<1> DEFINE r == Select(q, S)
<1> HIDE DEF r
<1>8. Select(q, R) = Select(r, R)
  BY <1>3 DEF r
<1>9. r = <<>> => Len(Select(q, R)) = 0
  BY <1>4, <1>5, <1>8
<1>10. ASSUME NEW x, r = <<x>> PROVE Len(Select(q, R)) = IF x = j THEN 1 ELSE 0
  BY <1>4, <1>6, <1>8, <1>10
<1>11. ASSUME NEW x, NEW y, x # y, r = <<x, y>> PROVE Len(Select(q, R)) = IF x = j \/ y = j THEN 1 ELSE 0
  BY <1>7, <1>8, <1>11
<1> QED
  BY <1>9, <1>10, <1>11 DEF S, R, r

(* A timer that was started is neither lost nor doubled, and has at most one *)
(* run outstanding (SocketManager::addTimedJob, handleWait).                 *)
THEOREM TimersAlwaysExact == Spec => []TimersExact
<1>1. IInv => TimersExact
  <2> SUFFICES ASSUME IInv, Running, NEW t \in ToSet(Timers)
               PROVE  /\ t \in callbacks
                      /\ Queued(Expired(t)) = IF t \in armed THEN 0 ELSE 1
                      /\ Queued(Run(t)) <= 1
    BY DEF TimersExact
  <2>1. queue \in Seq(Jobs) /\ t \in callbacks /\ t \in {engine} \X Names
    BY CallbackTypes DEF IInv, Types
  <2>2. \/ t \in armed /\ Trace(t) \in {<<>>, <<Run(t)>>}
        \/ t \notin armed /\ Trace(t) \in {<<Expired(t)>>, <<Run(t), Expired(t)>>}
    BY <2>1 DEF IInv, Traces
  <2>3. Run(t) \in Of(t) /\ Expired(t) \in Of(t) /\ Run(t) # Expired(t)
    BY DEF Of, Run, Expired
  <2>4. /\ Trace(t) = <<>> => Queued(Expired(t)) = 0 /\ Queued(Run(t)) = 0
        /\ Trace(t) = <<Run(t)>> => Queued(Expired(t)) = 0 /\ Queued(Run(t)) = 1
        /\ Trace(t) = <<Expired(t)>> => Queued(Expired(t)) = 1 /\ Queued(Run(t)) = 0
        /\ Trace(t) = <<Run(t), Expired(t)>> => Queued(Expired(t)) = 1 /\ Queued(Run(t)) = 1
    <3> DEFINE Result(j) ==
          /\ Trace(t) = <<>> => Queued(j) = 0
          /\ \A x : Trace(t) = <<x>> => Queued(j) = IF x = j THEN 1 ELSE 0
          /\ \A x, y : x # y /\ Trace(t) = <<x, y>> => Queued(j) = IF x = j \/ y = j THEN 1 ELSE 0
    <3>1. \A j \in Of(t) : Result(j)
      BY <2>1, Counted DEF Trace, Queued
    <3> QED
      BY <2>3, <3>1
  <2> QED
    BY <2>1, <2>2, <2>4
<1> QED
  BY <1>1, IInvAlways, PTL
===============================================================================
