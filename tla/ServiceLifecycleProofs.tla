----------------------- MODULE ServiceLifecycleProofs -----------------------
(***************************************************************************)
(* The theorems of ServiceLifecycle, for each of the six services and any  *)
(* number of failures: consumers find their topics, no transaction is cut, *)
(* and handlers finish before their resources are closed.                  *)
(***************************************************************************)
EXTENDS ServiceLifecycle, SequenceTheorems, TLAPS

\* What a step does, by action: the form in which the lemmas use Next.
LEMMA Steps ==
  ASSUME [Next]_vars
  PROVE  \/ Load
         \/ \E r \in Resources : Open(r)
         \/ ReadPartitions
         \/ CreateTopics
         \/ \E t \in Tasks : Start(t)
         \/ Booted
         \/ BootFail
         \/ ShutdownBegins
         \/ ServerErr
         \/ ShutdownEnds
         \/ ConsumersStopped
         \/ ClosePool
         \/ CloseNext
         \/ Return
         \/ \E t \in Tasks : Begin(t)
         \/ \E t \in Tasks : Acquire(t)
         \/ \E t \in Tasks : Release(t)
         \/ \E t \in Tasks : Finish(t)
         \/ \E t \in Tasks : Stop(t)
         \/ Signal
         \/ ServerFails
         \/ Crash
         \/ PeerCreatesTopic
         \/ UNCHANGED vars
BY DEF Next, run, BootStep, LeaveStep, TaskStep

-----------------------------------------------------------------------------
(* The start of each service. *)

\* Every step of a start that can fail comes before the first task, and the
\* topics before the readers.
WellOrdered(boot) ==
  /\ Len(boot) \in Nat /\ DOMAIN boot = 1..Len(boot)
  /\ \A i, j \in 1..Len(boot) : boot[i] \in Fallible /\ boot[j] \in Tasks => i < j
  /\ \A i \in 1..Len(boot) :
       boot[i] = "readers" => \E j \in 1..(i - 1) : boot[j] = "topics"

LEMMA OrderMainOrdered ==
  WellOrdered(OrderMain)
<1>1. Len(OrderMain) = 9 /\ DOMAIN OrderMain = 1..9
  BY DEF OrderMain
<1>2. \A i \in 1..9 : /\ OrderMain[i] \in Fallible => i <= 7
                      /\ OrderMain[i] \in Tasks => i > 7
                      /\ OrderMain[i] # "readers"
  BY DEF OrderMain, Fallible, Tasks
<1> QED BY <1>1, <1>2 DEF WellOrdered

LEMMA RiderMainOrdered ==
  WellOrdered(RiderMain)
<1>1. Len(RiderMain) = 5 /\ DOMAIN RiderMain = 1..5
  BY DEF RiderMain
<1>2. \A i \in 1..5 : /\ RiderMain[i] \in Fallible => i <= 4
                      /\ RiderMain[i] \in Tasks => i > 4
                      /\ RiderMain[i] # "readers"
  BY DEF RiderMain, Fallible, Tasks
<1> QED BY <1>1, <1>2 DEF WellOrdered

LEMMA LocationMainOrdered ==
  WellOrdered(LocationMain)
<1>1. Len(LocationMain) = 7 /\ DOMAIN LocationMain = 1..7
  BY DEF LocationMain
<1>2. \A i \in 1..7 : /\ LocationMain[i] \in Fallible => i <= 6
                      /\ LocationMain[i] \in Tasks => i > 6
                      /\ LocationMain[i] # "readers"
  BY DEF LocationMain, Fallible, Tasks
<1> QED BY <1>1, <1>2 DEF WellOrdered

LEMMA AssignmentMainOrdered ==
  WellOrdered(AssignmentMain)
<1>1. Len(AssignmentMain) = 10 /\ DOMAIN AssignmentMain = 1..10
  BY DEF AssignmentMain
<1>2. \A i \in 1..10 : /\ AssignmentMain[i] \in Fallible => i <= 7
                       /\ AssignmentMain[i] \in Tasks => i > 7
                       /\ AssignmentMain[i] = "readers" => i > 6
  BY DEF AssignmentMain, Fallible, Tasks
<1>3. AssignmentMain[6] = "topics"
  BY DEF AssignmentMain
<1> QED BY <1>1, <1>2, <1>3 DEF WellOrdered

LEMMA EtaMainOrdered ==
  WellOrdered(EtaMain)
<1>1. Len(EtaMain) = 8 /\ DOMAIN EtaMain = 1..8
  BY DEF EtaMain
<1>2. \A i \in 1..8 : /\ EtaMain[i] \in Fallible => i <= 7
                      /\ EtaMain[i] \in Tasks => i > 7
                      /\ EtaMain[i] = "readers" => i > 6
  BY DEF EtaMain, Fallible, Tasks
<1>3. EtaMain[5] = "topics"
  BY DEF EtaMain
<1> QED BY <1>1, <1>2, <1>3 DEF WellOrdered

LEMMA NotificationMainOrdered ==
  WellOrdered(NotificationMain)
<1>1. Len(NotificationMain) = 9 /\ DOMAIN NotificationMain = 1..9
  BY DEF NotificationMain
<1>2. \A i \in 1..9 : /\ NotificationMain[i] \in Fallible => i <= 6
                      /\ NotificationMain[i] \in Tasks => i > 6
                      /\ NotificationMain[i] = "readers" => i > 5
  BY DEF NotificationMain, Fallible, Tasks
<1>3. NotificationMain[5] = "topics"
  BY DEF NotificationMain
<1> QED BY <1>1, <1>2, <1>3 DEF WellOrdered

\* So it is for whichever service this process is.
LEMMA BootOrdered ==
  ASSUME service \in Services
  PROVE  WellOrdered(Boot)
<1>1. CASE service = "order"
  <2>1. Boot = OrderMain
    BY <1>1 DEF Boot
  <2> QED BY <2>1, OrderMainOrdered
<1>2. CASE service = "rider"
  <2>1. Boot = RiderMain
    BY <1>2 DEF Boot
  <2> QED BY <2>1, RiderMainOrdered
<1>3. CASE service = "location"
  <2>1. Boot = LocationMain
    BY <1>3 DEF Boot
  <2> QED BY <2>1, LocationMainOrdered
<1>4. CASE service = "assignment"
  <2>1. Boot = AssignmentMain
    BY <1>4 DEF Boot
  <2> QED BY <2>1, AssignmentMainOrdered
<1>5. CASE service = "eta"
  <2>1. Boot = EtaMain
    BY <1>5 DEF Boot
  <2> QED BY <2>1, EtaMainOrdered
<1>6. CASE service = "notification"
  <2>1. Boot = NotificationMain
    BY <1>6 DEF Boot
  <2> QED BY <2>1, NotificationMainOrdered
<1> QED BY <1>1, <1>2, <1>3, <1>4, <1>5, <1>6 DEF Services

\* A process stays the service it is, and its start only goes forward, one
\* step at a time.
LEMMA StartAdvances ==
  ASSUME TypeOK, [Next]_vars
  PROVE  /\ service' = service /\ Boot' = Boot
         /\ at' = at \/ (at' = at + 1 /\ at <= Len(Boot))
         /\ \A s : Past(s) => Past(s)'
<1>1. service' = service /\ (at' = at \/ (at' = at + 1 /\ at <= Len(Boot)))
  BY Steps DEF Load, Open, ReadPartitions, CreateTopics, Start, Booted, BootFail,
     ShutdownBegins, ServerErr, ShutdownEnds, ConsumersStopped, ClosePool, CloseNext,
     Return, Begin, Acquire, Release, Finish, Stop, Signal, ServerFails, Crash,
     PeerCreatesTopic, vars, Done, AtStep, To
<1>2. Boot' = Boot
  BY <1>1 DEF Boot
<1>3. at \in Nat
  <2>1. Len(Boot) \in Nat
    BY BootOrdered DEF TypeOK, WellOrdered
  <2> QED BY <2>1 DEF TypeOK
<1>4. ASSUME NEW s, Past(s) PROVE Past(s)'
  BY <1>1, <1>2, <1>3, <1>4 DEF Past
<1> QED BY <1>1, <1>2, <1>4

\* Past a step: the step just done, or one done before.
LEMMA PastNow ==
  ASSUME TypeOK, [Next]_vars, NEW step
  PROVE  /\ AtStep(step) /\ at' = at + 1 => Past(step)'
         /\ Past(step)' => \/ Past(step)
                           \/ at' = at + 1 /\ Boot[at] = step
<1>1. at \in Nat \ {0}
  <2>1. Len(Boot) \in Nat
    BY BootOrdered DEF TypeOK, WellOrdered
  <2> QED BY <2>1 DEF TypeOK
<1>2. Boot' = Boot /\ (at' = at \/ at' = at + 1)
  BY StartAdvances
<1> QED BY <1>1, <1>2 DEF Past, AtStep

\* The start goes forward by its own steps alone.
LEMMA StepDone ==
  ASSUME TypeOK, [Next]_vars, at' = at + 1
  PROVE  \/ Load
         \/ \E r \in Resources : Open(r)
         \/ ReadPartitions
         \/ CreateTopics
         \/ \E t \in Tasks : Start(t)
<1>1. at' # at
  <2>1. Len(Boot) \in Nat
    BY BootOrdered DEF TypeOK, WellOrdered
  <2> QED BY <2>1 DEF TypeOK
<1> QED BY <1>1, Steps
        DEF Booted, BootFail, ShutdownBegins, ServerErr, ShutdownEnds,
            ConsumersStopped, ClosePool, CloseNext, Return, Begin, Acquire, Release,
            Finish, Stop, Signal, ServerFails, Crash, PeerCreatesTopic, vars, To

-----------------------------------------------------------------------------
(* The deferred calls. *)

\* One is added in front.
LEMMA Deferred ==
  ASSUME TypeOK, NEW r \in Resources, opened' = <<r>> \o opened
  PROVE  opened' \in Seq(Resources) /\ Held(r)' /\ \A x : Held(x) => Held(x)'
<1>0. opened \in Seq(Resources)
  BY DEF TypeOK
<1>1. opened' \in Seq(Resources)
  BY <1>0
<1>2. opened'[1] = r /\ Len(opened') = Len(opened) + 1 /\ Len(opened) \in Nat
  BY <1>0
<1>3. \A i \in 1..Len(opened) : opened'[i + 1] = opened[i]
  BY <1>0
<1>4. Held(r)'
  BY <1>1, <1>2 DEF Held
<1>5. ASSUME NEW x, Held(x) PROVE Held(x)'
  <2>1. PICK i \in 1..Len(opened) : opened[i] = x
    BY <1>5 DEF Held
  <2>2. i + 1 \in 1..Len(opened')
    BY <1>2
  <2> QED BY <1>3, <2>1, <2>2 DEF Held
<1> QED BY <1>1, <1>4, <1>5

\* The first is made.
LEMMA Undeferred ==
  ASSUME TypeOK, opened # <<>>, opened' = Tail(opened)
  PROVE  /\ opened' \in Seq(Resources)
         /\ \A x : Held(x) /\ x # Head(opened) => Held(x)'
<1>0. opened \in Seq(Resources)
  BY DEF TypeOK
<1>1. opened' \in Seq(Resources)
  BY <1>0
<1>2. /\ Head(opened) = opened[1]
      /\ Len(opened') = Len(opened) - 1 /\ Len(opened) \in Nat
  BY <1>0
<1>3. \A i \in 1..Len(opened') : opened'[i] = opened[i + 1]
  BY <1>0
<1>4. ASSUME NEW x, Held(x), x # Head(opened) PROVE Held(x)'
  <2>1. PICK i \in 1..Len(opened) : opened[i] = x
    BY <1>4 DEF Held
  <2>2. i # 1
    BY <1>2, <1>4, <2>1
  <2>3. i - 1 \in 1..Len(opened')
    BY <1>2, <2>2
  <2> QED BY <1>3, <2>1, <2>3 DEF Held
<1> QED BY <1>1, <1>4

-----------------------------------------------------------------------------
(* Types. *)

\* What is left of TypeOK without the start and the deferred calls.
StateTyped ==
  /\ phase \in {"booting", "serving", "draining", "waiting", "closing",
                "returned", "crashed"}
  /\ seen \subseteq AllTopics
  /\ topics \subseteq AllTopics
  /\ task \in [Tasks -> {"off", "idle", "busy", "tx"}]
  /\ cut \in [Tasks -> {"off", "idle", "busy", "tx"}]
  /\ faults \in 0..MaxFaults

LEMMA StatePreserved ==
  ASSUME TypeOK, [Next]_vars
  PROVE  StateTyped'
<1> USE MaxFaultsAssumption DEF TypeOK, StateTyped, AtStep, Done, Fault, flags, To
<1>1. CASE Load \/ ReadPartitions \/ CreateTopics \/ Booted
  BY <1>1 DEF Load, ReadPartitions, CreateTopics, Booted
<1>2. ASSUME NEW r \in Resources, Open(r) PROVE StateTyped'
  BY <1>2 DEF Open
<1>3. ASSUME NEW t \in Tasks, Start(t) PROVE StateTyped'
  BY <1>3 DEF Start
<1>4. CASE BootFail
  BY <1>4 DEF BootFail
<1>5. CASE ShutdownBegins \/ ServerErr \/ ShutdownEnds \/ ConsumersStopped
  BY <1>5 DEF ShutdownBegins, ServerErr, ShutdownEnds, ConsumersStopped
<1>6. CASE ClosePool \/ CloseNext \/ Signal \/ ServerFails \/ PeerCreatesTopic
  BY <1>6 DEF ClosePool, CloseNext, Signal, ServerFails, PeerCreatesTopic
<1>7. CASE Return \/ Crash
  BY <1>7 DEF Return, Crash
<1>8. ASSUME NEW t \in Tasks, Begin(t) \/ Acquire(t) \/ Release(t) \/ Finish(t) \/ Stop(t)
      PROVE  StateTyped'
  BY <1>8 DEF Begin, Acquire, Release, Finish, Stop
<1>9. CASE UNCHANGED vars
  BY <1>9 DEF vars
<1> QED BY <1>1, <1>2, <1>3, <1>4, <1>5, <1>6, <1>7, <1>8, <1>9, Steps

LEMMA OpenedPreserved ==
  ASSUME TypeOK, [Next]_vars
  PROVE  opened' \in Seq(Resources) /\ OnlyOpened'
<1>0. /\ opened \in Seq(Resources)
      /\ \A i \in 1..Len(opened) : Past(opened[i])
      /\ \A x : Past(x) => Past(x)'
  BY StartAdvances DEF TypeOK, OnlyOpened
<1>1. ASSUME NEW r \in Resources, Open(r)
      PROVE  opened' \in Seq(Resources) /\ OnlyOpened'
  <2>1. opened' = <<r>> \o opened /\ AtStep(r) /\ at' = at + 1
    BY <1>1 DEF Open, Done
  <2>2. Past(r)'
    BY <2>1, PastNow
  <2>3. \A i \in 1..Len(opened') :
          opened'[i] = r \/ \E j \in 1..Len(opened) : opened'[i] = opened[j]
    <3>1. SUFFICES ASSUME NEW i \in 1..Len(opened'), i # 1
                   PROVE  i - 1 \in 1..Len(opened) /\ opened'[i] = opened[i - 1]
      BY <1>0, <2>1
    <3> QED BY <1>0, <2>1, <3>1
  <2>4. OnlyOpened'
    BY <1>0, <2>2, <2>3 DEF OnlyOpened
  <2> QED BY <2>1, <2>4, Deferred
<1>2. CASE CloseNext
  <2>1. opened # <<>> /\ opened' = Tail(opened)
    BY <1>2 DEF CloseNext
  <2>2. \A i \in 1..Len(opened') : i + 1 \in 1..Len(opened) /\ opened'[i] = opened[i + 1]
    BY <1>0, <2>1
  <2>3. OnlyOpened'
    BY <1>0, <2>2 DEF OnlyOpened
  <2> QED BY <2>1, <2>3, Undeferred
<1>3. CASE UNCHANGED opened
  BY <1>0, <1>3 DEF OnlyOpened
<1> QED BY <1>1, <1>2, <1>3, Steps
        DEF Load, ReadPartitions, CreateTopics, Start, Booted, BootFail,
            ShutdownBegins, ServerErr, ShutdownEnds, ConsumersStopped, ClosePool,
            Return, Begin, Acquire, Release, Finish, Stop, Signal, ServerFails, Crash,
            PeerCreatesTopic, vars, To

\* The flags are flags, and poolClosed, serverFailed and timedOut stay up.
LEMMA FlagsPreserved ==
  ASSUME TypeOK, [Next]_vars
  PROVE  /\ cancelled' \in BOOLEAN /\ poolClosed' \in BOOLEAN
         /\ serverFailed' \in BOOLEAN /\ timedOut' \in BOOLEAN
         /\ poolClosed => poolClosed'
         /\ serverFailed => serverFailed'
         /\ timedOut => timedOut'
<1>1. cancelled' \in BOOLEAN
  <2>1. \/ cancelled' = cancelled \/ cancelled' = TRUE
        \/ cancelled' = (cancelled \/ service = "notification")
    BY Steps, Zenon
       DEF Load, Open, ReadPartitions, CreateTopics, Start, Booted, BootFail,
           ShutdownBegins, ServerErr, ShutdownEnds, ConsumersStopped, ClosePool,
           CloseNext, Return, Begin, Acquire, Release, Finish, Stop, Signal,
           ServerFails, Crash, PeerCreatesTopic, vars, Done
  <2> QED BY <2>1 DEF TypeOK
<1>2. poolClosed' = poolClosed \/ poolClosed' = TRUE
  BY Steps, Zenon
     DEF Load, Open, ReadPartitions, CreateTopics, Start, Booted, BootFail,
         ShutdownBegins, ServerErr, ShutdownEnds, ConsumersStopped, ClosePool,
         CloseNext, Return, Begin, Acquire, Release, Finish, Stop, Signal,
         ServerFails, Crash, PeerCreatesTopic, vars, flags, Done, To
<1>3. serverFailed' = serverFailed \/ serverFailed' = TRUE
  BY Steps, Zenon
     DEF Load, Open, ReadPartitions, CreateTopics, Start, Booted, BootFail,
         ShutdownBegins, ServerErr, ShutdownEnds, ConsumersStopped, ClosePool,
         CloseNext, Return, Begin, Acquire, Release, Finish, Stop, Signal,
         ServerFails, Crash, PeerCreatesTopic, vars, flags, Done, To
<1>4. timedOut' = timedOut \/ timedOut' = TRUE
  BY Steps, Zenon
     DEF Load, Open, ReadPartitions, CreateTopics, Start, Booted, BootFail,
         ShutdownBegins, ServerErr, ShutdownEnds, ConsumersStopped, ClosePool,
         CloseNext, Return, Begin, Acquire, Release, Finish, Stop, Signal,
         ServerFails, Crash, PeerCreatesTopic, vars, flags, Done
<1> QED BY <1>1, <1>2, <1>3, <1>4, Zenon DEF TypeOK

LEMMA TypesPreserved ==
  ASSUME TypeOK, [Next]_vars
  PROVE  TypeOK'
<1>1. service' \in Services /\ at' \in 1..(Len(Boot') + 1)
  <2>1. Len(Boot) \in Nat
    BY BootOrdered DEF TypeOK, WellOrdered
  <2>2. service' = service /\ Boot' = Boot
        /\ (at' = at \/ (at' = at + 1 /\ at <= Len(Boot)))
    BY StartAdvances
  <2> QED BY <2>1, <2>2 DEF TypeOK
<1> QED BY <1>1, StatePreserved, OpenedPreserved, FlagsPreserved, Zenon
        DEF TypeOK, StateTyped

-----------------------------------------------------------------------------
(* The topics and the tasks. *)

LEMMA TopicsPreserved ==
  ASSUME TypeOK, TopicsEnsured, [Next]_vars
  PROVE  TopicsEnsured'
<1>1. CASE CreateTopics
  <2>1. seen' = seen /\ topics' = topics \union (AllTopics \ seen)
    BY <1>1 DEF CreateTopics
  <2>2. topics' = AllTopics /\ seen' \subseteq topics'
    BY <2>1 DEF TypeOK, TopicsEnsured
  <2> QED BY <2>2 DEF TopicsEnsured
<1>2. CASE ~CreateTopics
  <2>1. /\ topics \subseteq topics'
        /\ seen' = seen \/ (seen' = topics /\ topics' = topics)
    BY <1>2, Steps
       DEF Load, Open, ReadPartitions, Start, Booted, BootFail, ShutdownBegins,
           ServerErr, ShutdownEnds, ConsumersStopped, ClosePool, CloseNext, Return,
           Begin, Acquire, Release, Finish, Stop, Signal, ServerFails, Crash,
           PeerCreatesTopic, vars, To
  <2>2. topics' \subseteq AllTopics
    BY TypesPreserved DEF TypeOK
  <2>3. ASSUME at' = at + 1, Boot[at] = "topics" PROVE FALSE
    BY <1>2, <2>3, StepDone
       DEF Load, Open, ReadPartitions, Start, AtStep, Resources, Tasks
  <2>4. Past("topics")' => Past("topics")
    BY <2>3, PastNow
  <2> QED BY <2>1, <2>2, <2>4 DEF TopicsEnsured
<1> QED BY <1>1, <1>2

LEMMA TasksPreserved ==
  ASSUME TypeOK, TasksStarted, [Next]_vars
  PROVE  TasksStarted'
<1>1. ASSUME NEW t \in Tasks, Start(t) PROVE TasksStarted'
  <2>1. \A u \in Tasks \ {t} : task'[u] = task[u]
    BY <1>1 DEF TypeOK, Start
  <2>2. AtStep(t) /\ at' = at + 1
    BY <1>1 DEF Start, Done
  <2>3. Past(t)'
    BY <2>2, PastNow
  <2> QED BY <2>1, <2>3, StartAdvances DEF TasksStarted
<1>2. ASSUME NEW t \in Tasks, Begin(t) \/ Acquire(t) \/ Release(t) \/ Finish(t) \/ Stop(t)
      PROVE  TasksStarted'
  <2>1. task[t] # "off" /\ \A u \in Tasks \ {t} : task'[u] = task[u]
    BY <1>2 DEF TypeOK, Begin, Acquire, Release, Finish, Stop
  <2> QED BY <2>1, StartAdvances DEF TasksStarted
<1>3. CASE Return \/ Crash
  BY <1>3 DEF Return, Crash, TasksStarted
<1>4. CASE UNCHANGED task
  BY <1>4, StartAdvances DEF TasksStarted
<1> QED BY <1>1, <1>2, <1>3, <1>4, Steps
        DEF Load, Open, ReadPartitions, CreateTopics, Booted, BootFail,
            ShutdownBegins, ServerErr, ShutdownEnds, ConsumersStopped, ClosePool,
            CloseNext, Signal, ServerFails, PeerCreatesTopic, vars, To

\* Where a step that can fail is still to come, no task was started.
LEMMA NothingYet ==
  ASSUME TypeOK, TasksStarted, NEW step \in Fallible, AtStep(step)
  PROVE  \A t \in Tasks : task[t] = "off"
<1> SUFFICES ASSUME NEW t \in Tasks, task[t] # "off" PROVE FALSE
  OBVIOUS
<1>1. PICK i \in 1..(at - 1) : Boot[i] = t
  BY DEF TasksStarted, Past
<1>2. WellOrdered(Boot)
  BY BootOrdered DEF TypeOK
<1>3. at \in 1..Len(Boot) /\ Boot[at] = step
  BY <1>2 DEF WellOrdered, TypeOK, AtStep
<1>4. i \in 1..Len(Boot) /\ i < at /\ i \in Int /\ at \in Int
  BY <1>2, <1>3 DEF WellOrdered
<1>5. at < i
  BY <1>1, <1>2, <1>3, <1>4 DEF WellOrdered
<1> QED BY <1>4, <1>5

\* A running task that uses Postgres was started after the pool was opened.
LEMMA PostgresFirst ==
  ASSUME TypeOK, TasksStarted, NEW t \in Tasks, task[t] # "off", UsesPostgres(t)
  PROVE  Past("postgres")
<1>1. PICK i \in 1..(at - 1) : Boot[i] = t
  BY DEF TasksStarted, Past
<1>2. WellOrdered(Boot)
  BY BootOrdered DEF TypeOK
<1>3. PICK j \in 1..Len(Boot) : Boot[j] = "postgres"
  BY <1>2 DEF UsesPostgres, WellOrdered
<1>4. at \in 1..(Len(Boot) + 1) /\ Len(Boot) \in Nat
  BY <1>2 DEF TypeOK, WellOrdered
<1>5. i \in 1..Len(Boot)
  BY <1>4
<1>6. j < i
  BY <1>1, <1>2, <1>3, <1>5 DEF WellOrdered, Fallible
<1>7. j \in 1..(at - 1)
  BY <1>4, <1>5, <1>6
<1> QED BY <1>3, <1>7 DEF Past

-----------------------------------------------------------------------------
(* The pool. *)

LEMMA PoolPreserved ==
  ASSUME TypeOK, TasksStarted, PoolHeld, [Next]_vars
  PROVE  PoolHeld'
<1>1. ASSUME NEW r \in Resources, Open(r) PROVE PoolHeld'
  <2>1. opened' = <<r>> \o opened /\ UNCHANGED <<task, poolClosed>>
    BY <1>1 DEF Open, Done, flags
  <2>2. Held(r)' /\ (Held("postgres") => Held("postgres")')
    BY <2>1, Deferred
  <2>3. Past("postgres")' => Past("postgres") \/ r = "postgres"
    BY <1>1, PastNow DEF Open, AtStep
  <2> QED BY <2>1, <2>2, <2>3 DEF PoolHeld
<1>2. ASSUME Load \/ ReadPartitions \/ CreateTopics \/ \E t \in Tasks : Start(t)
      PROVE  PoolHeld'
  <2>1. UNCHANGED <<opened, poolClosed>>
    BY <1>2 DEF Load, ReadPartitions, CreateTopics, Start, Done, flags
  <2>2. \A t \in Tasks : task'[t] = "tx" => task[t] = "tx"
    BY <1>2 DEF TypeOK, Load, ReadPartitions, CreateTopics, Start
  <2>3. Past("postgres")' => Past("postgres")
    BY <1>2, PastNow
       DEF Load, ReadPartitions, CreateTopics, Start, AtStep, Tasks
  <2> QED BY <2>1, <2>2, <2>3 DEF PoolHeld, Held
<1>3. ASSUME UNCHANGED at PROVE Past("postgres")' => Past("postgres")
  <2>1. Boot' = Boot
    BY StartAdvances
  <2> QED BY <1>3, <2>1 DEF Past
<1>4. CASE CloseNext
  <2>1. /\ opened # <<>> /\ opened' = Tail(opened)
        /\ Head(opened) = "postgres" => poolClosed /\ \A t \in Tasks : task[t] # "tx"
        /\ UNCHANGED <<at, task, poolClosed>>
    BY <1>4 DEF CloseNext, flags
  <2>2. Held("postgres") /\ Head(opened) # "postgres" => Held("postgres")'
    BY <2>1, Undeferred
  <2>3. Past("postgres")' => Past("postgres")
    BY <1>3, <2>1
  <2>4. /\ \A t \in Tasks : task'[t] = task[t]
        /\ poolClosed' <=> poolClosed
    BY <2>1
  <2>5. Head(opened) = "postgres" => poolClosed /\ \A t \in Tasks : task[t] # "tx"
    BY <2>1
  <2> QED BY <2>2, <2>3, <2>4, <2>5 DEF PoolHeld
<1>5. ASSUME NEW t \in Tasks, Acquire(t) PROVE PoolHeld'
  <2>1. /\ task[t] = "busy" /\ UsesPostgres(t) /\ ~poolClosed
        /\ UNCHANGED <<at, opened, poolClosed>>
    BY <1>5 DEF Acquire, flags
  <2>2. Past("postgres")
    BY <2>1, PostgresFirst
  <2>3. Held("postgres")
    BY <2>1, <2>2 DEF PoolHeld
  <2> QED BY <2>1, <2>3 DEF PoolHeld, Held
<1>6. ASSUME UNCHANGED <<at, opened>>, poolClosed => poolClosed',
             \A t \in Tasks : task'[t] = "tx" => task[t] = "tx"
      PROVE  PoolHeld'
  BY <1>3, <1>6 DEF PoolHeld, Held
<1>7. ASSUME NEW t \in Tasks, Begin(t) \/ Release(t) \/ Finish(t) \/ Stop(t)
      PROVE  PoolHeld'
  <2>1. /\ UNCHANGED <<at, opened>>
        /\ \A u \in Tasks : task'[u] = "tx" => task[u] = "tx"
    BY <1>7 DEF TypeOK, Begin, Release, Finish, Stop
  <2> QED BY <1>6, <2>1, FlagsPreserved
<1>8. ASSUME Return \/ Crash PROVE PoolHeld'
  <2>1. /\ UNCHANGED <<at, opened>>
        /\ \A u \in Tasks : task'[u] = "tx" => task[u] = "tx"
    BY <1>8 DEF Return, Crash
  <2> QED BY <1>6, <2>1, FlagsPreserved
<1>9. ASSUME UNCHANGED <<at, opened, task>> PROVE PoolHeld'
  BY <1>6, <1>9, FlagsPreserved
<1> QED BY <1>1, <1>2, <1>4, <1>5, <1>7, <1>8, <1>9, Steps
        DEF Booted, BootFail, ShutdownBegins, ServerErr, ShutdownEnds,
            ConsumersStopped, ClosePool, Signal, ServerFails, PeerCreatesTopic, vars, To

LEMMA NothingCutPreserved ==
  ASSUME TypeOK, PoolHeld, NoTransactionCut, [Next]_vars
  PROVE  NoTransactionCut'
<1>1. CASE Return
  <2>1. opened = <<>> /\ cut' = task
    BY <1>1 DEF Return
  <2>2. ~Held("postgres")
    BY <2>1 DEF Held
  <2> QED BY <2>1, <2>2 DEF PoolHeld, NoTransactionCut
<1>2. CASE UNCHANGED cut
  BY <1>2 DEF NoTransactionCut
<1> QED BY <1>1, <1>2, Steps
        DEF Load, Open, ReadPartitions, CreateTopics, Start, Booted, BootFail,
            ShutdownBegins, ServerErr, ShutdownEnds, ConsumersStopped, ClosePool,
            CloseNext, Begin, Acquire, Release, Finish, Stop, Signal, ServerFails,
            Crash, PeerCreatesTopic, vars, flags, Done, To

-----------------------------------------------------------------------------
(* Waiting for the handlers. *)

LEMMA AwaitedPreserved ==
  ASSUME TypeOK, TasksStarted, HandlersAwaited, [Next]_vars
  PROVE  HandlersAwaited'
<1> USE DEF Consumers, Tasks
<1>0. /\ serverFailed => serverFailed'
      /\ timedOut => timedOut'
  BY FlagsPreserved
<1>1. ASSUME NEW t \in Tasks, Start(t) PROVE HandlersAwaited'
  BY <1>1 DEF Start, AtStep, Done, HandlersAwaited
<1>2. CASE BootFail
  <2>1. \A t \in Tasks : task[t] = "off"
    BY <1>2, NothingYet DEF BootFail, Fallible
  <2>2. UNCHANGED task
    BY <1>2 DEF BootFail
  <2> QED BY <2>1, <2>2 DEF HandlersAwaited
<1>3. CASE ServerErr
  BY <1>0, <1>3 DEF ServerErr, HandlersAwaited
<1>4. CASE ShutdownEnds
  <2>1. phase' = "waiting" /\ UNCHANGED task
    BY <1>4 DEF ShutdownEnds, To
  <2>2. task["http"] \in {"off", "idle"} \/ timedOut'
    BY <1>4 DEF ShutdownEnds
  <2> QED BY <2>1, <2>2 DEF HandlersAwaited
<1>5. CASE ConsumersStopped
  <2>1. UNCHANGED task /\ \A t \in Consumers : task[t] = "off"
    BY <1>5 DEF ConsumersStopped, To
  <2>2. CASE phase = "waiting"
    BY <1>0, <2>1, <2>2 DEF HandlersAwaited
  <2>3. CASE ~HasServer
    <3>1. task["http"] = "off"
      <4> SUFFICES ASSUME task["http"] # "off" PROVE FALSE
        OBVIOUS
      <4>1. PICK i \in 1..(at - 1) : Boot[i] = "http"
        BY DEF TasksStarted, Past
      <4>2. Len(Boot) \in Nat /\ DOMAIN Boot = 1..Len(Boot)
        BY BootOrdered DEF TypeOK, WellOrdered
      <4>3. i \in DOMAIN Boot
        BY <4>2 DEF TypeOK
      <4> QED BY <2>3, <4>1, <4>3 DEF HasServer
    <3> QED BY <2>1, <3>1 DEF HandlersAwaited
  <2> QED BY <1>5, <2>2, <2>3 DEF ConsumersStopped
<1>6. ASSUME NEW t \in Tasks, Begin(t) \/ Acquire(t) \/ Release(t) \/ Finish(t) \/ Stop(t)
      PROVE  HandlersAwaited'
  <2>1. /\ UNCHANGED phase
        /\ \A u \in Tasks \ {t} : task'[u] = task[u]
        /\ task[t] # "off"
    BY <1>6 DEF TypeOK, Begin, Acquire, Release, Finish, Stop
  <2>2. ASSUME phase \in {"waiting", "closing"}
        PROVE  task'["http"] \in {"off", "idle"} \/ timedOut' \/ serverFailed'
    <3>1. CASE t # "http"
      BY <1>0, <2>1, <2>2, <3>1 DEF HandlersAwaited
    <3>2. CASE t = "http"
      <4>1. CASE Begin(t)
        BY <1>0, <2>2, <3>2, <4>1 DEF Begin, Accepting
      <4>2. CASE ~Begin(t)
        <5>1. \/ task[t] \in {"busy", "tx"}
              \/ Stop(t)
          BY <1>6, <4>2 DEF Acquire, Release, Finish
        <5>2. ~Stop(t)
          BY <3>2 DEF Stop
        <5> QED BY <1>0, <2>2, <3>2, <5>1, <5>2 DEF HandlersAwaited
      <4> QED BY <4>1, <4>2
    <3> QED BY <3>1, <3>2
  <2>3. ASSUME phase = "closing"
        PROVE  (\A u \in Consumers : task'[u] = "off") \/ serverFailed'
    <3>1. CASE t \in Consumers
      BY <1>0, <2>1, <2>3, <3>1 DEF HandlersAwaited
    <3>2. CASE t \notin Consumers
      BY <1>0, <2>1, <2>3, <3>2 DEF HandlersAwaited
    <3> QED BY <3>1, <3>2
  <2> QED BY <2>1, <2>2, <2>3 DEF HandlersAwaited
<1>7. CASE Return \/ Crash
  BY <1>7 DEF Return, Crash, HandlersAwaited
<1>8. CASE phase' \in {"serving", "draining"}
  BY <1>8 DEF HandlersAwaited
<1>9. CASE UNCHANGED <<phase, task>>
  BY <1>0, <1>9 DEF HandlersAwaited
<1> QED BY <1>1, <1>2, <1>3, <1>4, <1>5, <1>6, <1>7, <1>8, <1>9, Steps
        DEF Load, Open, ReadPartitions, CreateTopics, Booted, ShutdownBegins,
            ClosePool, CloseNext, Signal, ServerFails, PeerCreatesTopic, vars, Done, To

-----------------------------------------------------------------------------

\* The invariant is one.
THEOREM Invariance == Spec => []IInv
<1>1. Init => IInv
  <2> SUFFICES ASSUME Init PROVE IInv
    OBVIOUS
  <2>1. /\ at = 1 /\ opened = <<>> /\ seen = {}
        /\ \A t \in Tasks : task[t] = "off" /\ cut[t] = "off"
        /\ phase = "booting" /\ service \in Services
    BY DEF Init
  <2>2. \A step : ~Past(step)
    BY <2>1 DEF Past
  <2>3. TypeOK
    <3>1. Len(Boot) \in Nat
      BY <2>1, BootOrdered DEF WellOrdered
    <3>2. StateTyped
      BY MaxFaultsAssumption DEF Init, StateTyped, AllTopics
    <3>3. /\ cancelled \in BOOLEAN /\ poolClosed \in BOOLEAN
          /\ serverFailed \in BOOLEAN /\ timedOut \in BOOLEAN
      BY DEF Init
    <3>4. /\ at \in 1..(Len(Boot) + 1) /\ opened \in Seq(Resources)
          /\ OnlyOpened
      BY <2>1, <3>1 DEF OnlyOpened
    <3> QED BY <2>1, <3>2, <3>3, <3>4, Zenon DEF TypeOK, StateTyped
  <2>4. TopicsEnsured /\ TasksStarted
    BY <2>1, <2>2 DEF TopicsEnsured, TasksStarted
  <2>5. PoolHeld
    BY <2>1, <2>2 DEF PoolHeld
  <2>6. NoTransactionCut /\ HandlersAwaited
    BY <2>1 DEF NoTransactionCut, HandlersAwaited
  <2> QED BY <2>3, <2>4, <2>5, <2>6 DEF IInv
<1>2. IInv /\ [Next]_vars => IInv'
  BY TypesPreserved, TopicsPreserved, TasksPreserved, PoolPreserved,
     NothingCutPreserved, AwaitedPreserved DEF IInv
<1> QED BY <1>1, <1>2, PTL DEF Spec

\* What run() keeps has its types in every one of the services, whatever
\* fails; the start stays within its steps, and only what was opened is closed.
THEOREM TypeCorrect == Spec => []TypeOK
BY Invariance, PTL DEF IInv

\* No reader of any service is made before the topics it reads exist, whether
\* they were there, another process created them, or EnsureTopics did.
THEOREM TopicsComeFirst == Spec => []ReadersHaveTopics
<1>1. IInv => ReadersHaveTopics
  <2> SUFFICES ASSUME IInv, Past("readers")
               PROVE  Reads \subseteq topics
    BY DEF ReadersHaveTopics
  <2>1. PICK i \in 1..(at - 1) : Boot[i] = "readers"
    BY DEF Past
  <2>2. WellOrdered(Boot) /\ at \in 1..(Len(Boot) + 1)
    BY BootOrdered DEF IInv, TypeOK
  <2>3. i \in 1..Len(Boot) /\ at \in Nat
    BY <2>2 DEF WellOrdered
  <2>4. PICK j \in 1..(i - 1) : Boot[j] = "topics"
    BY <2>1, <2>2, <2>3 DEF WellOrdered
  <2>5. Past("topics")
    BY <2>3, <2>4 DEF Past
  <2>6. topics = AllTopics
    BY <2>5 DEF IInv, TopicsEnsured
  <2>7. Reads \subseteq AllTopics
    <3>1. \/ Reads = {"order.placed"} \/ Reads = {"rider.location.updated"}
          \/ Reads = AllTopics \ {"order.placed"} \/ Reads = {}
      BY Zenon DEF Reads
    <3> QED BY <3>1 DEF AllTopics
  <2> QED BY <2>6, <2>7
<1> QED BY <1>1, Invariance, PTL

\* A process that leaves through run() never abandons a transaction: the
\* pool, which waits for the connections in use, is closed on every way out
\* that a task with a connection can be caught on.
THEOREM NothingIsCut == Spec => []NoTransactionCut
BY Invariance, PTL DEF IInv

\* On every way to the deferred calls, consumers have stopped and requests
\* are done, unless the server failed or Shutdown ran out of time.
THEOREM HandlersFinishFirst == Spec => []HandlersOutlived
<1>1. IInv => HandlersOutlived
  BY DEF IInv, HandlersAwaited, HandlersOutlived, Tasks, Consumers
<1> QED BY <1>1, Invariance, PTL

=============================================================================
