-------------------------- MODULE ServiceLifecycle --------------------------
(***************************************************************************)
(* The life of one process, any of the six services: run() of              *)
(* cmd/*/main.go opens its resources one by one, starts its goroutines,    *)
(* waits for a signal or for its HTTP server to fail, and leaves through   *)
(* its deferred calls, which close the resources last opened first.        *)
(*                                                                         *)
(* What the goroutines do is modelled as far as leaving depends on it: a   *)
(* task is idle, busy, or busy and holding a Postgres connection.          *)
(*                                                                         *)
(* External: the broker with its topics, which the other processes create  *)
(* too; Postgres, whose pool, when it is closed, gives out no connection   *)
(* and waits for the ones in use; http.Server.Shutdown, which waits for    *)
(* the handlers of requests and not for WebSockets.                        *)
(***************************************************************************)
EXTENDS Integers, Sequences

CONSTANT MaxFaults   \* bound: steps of the start that fail, and crashes

ASSUME MaxFaultsAssumption == MaxFaults \in Nat

VARIABLES
  service,      \* which of the six this process is
  phase,        \* where run() is
  at,           \* the next step of the start, its place in Boot
  opened,       \* the deferred calls: resources to close, last opened first
  cancelled,    \* ctx is cancelled
  seen,         \* the topics EnsureTopics found
  topics,       \* the topics of the broker
  task,         \* task[t]: what the goroutines t are doing
  poolClosed,   \* db.Close() was called
  serverFailed, \* ListenAndServe returned an error
  timedOut,     \* Shutdown gave up after 10 seconds
  cut,          \* tasks that were under way when run() returned
  faults        \* failures so far

flags == <<poolClosed, serverFailed, timedOut, cut>>
vars == <<service, phase, at, opened, cancelled, seen, topics, task,
          flags, faults>>

AllTopics == {"order.placed", "order.assigned", "order.status.updated",
              "rider.location.updated", "eta.updated"}

\* http: requests; socket: WebSocket sessions; relay: the outbox relay;
\* consumer: a consumer loop whose handler uses Postgres; broadcaster: the
\* consumer loops of notification-service whose handlers do not.
Tasks == {"http", "socket", "relay", "broadcaster", "consumer"}
Consumers == {"broadcaster", "consumer"}

-----------------------------------------------------------------------------
(* The services: the steps of the start, in the order run() takes them, and  *)
(* the topics the consumers read.                                            *)

OrderMain ==
  <<"config", "telemetry", "postgres", "redis", "partitions", "topics", "producer",
    "relay", "http">>

RiderMain ==
  <<"config", "telemetry", "postgres", "redis", "http">>

LocationMain ==
  <<"config", "telemetry", "redis", "partitions", "topics", "producer", "socket">>

AssignmentMain ==
  <<"config", "telemetry", "postgres", "redis", "partitions", "topics", "producer",
    "relay", "readers", "consumer">>

EtaMain ==
  <<"config", "telemetry", "postgres", "partitions", "topics", "producer", "readers",
    "consumer">>

NotificationMain ==
  <<"config", "telemetry", "postgres", "partitions", "topics", "readers",
    "broadcaster", "consumer", "socket">>

Services == {"order", "rider", "location", "assignment", "eta", "notification"}

Boot ==
  CASE service = "order"        -> OrderMain
    [] service = "rider"        -> RiderMain
    [] service = "location"     -> LocationMain
    [] service = "assignment"   -> AssignmentMain
    [] service = "eta"          -> EtaMain
    [] service = "notification" -> NotificationMain

Reads ==
  CASE service = "assignment"   -> {"order.placed"}
    [] service = "eta"          -> {"rider.location.updated"}
    [] service = "notification" -> AllTopics \ {"order.placed"}
    [] OTHER                    -> {}

Resources == {"telemetry", "postgres", "redis", "producer", "readers"}
HasServer == \E i \in DOMAIN Boot : Boot[i] \in {"http", "socket"}

-----------------------------------------------------------------------------

\* The start is past a step.
Past(step) == \E i \in 1..(at - 1) : Boot[i] = step

\* Only what was opened will be closed.
OnlyOpened == \A i \in 1..Len(opened) : Past(opened[i])

\* The types of what the process keeps, its deferred calls among them.
TypeOK ==
  /\ service \in Services
  /\ phase \in {"booting", "serving", "draining", "waiting", "closing",
                "returned", "crashed"}
  /\ at \in 1..(Len(Boot) + 1)
  /\ opened \in Seq(Resources) /\ OnlyOpened
  /\ cancelled \in BOOLEAN
  /\ seen \subseteq AllTopics
  /\ topics \subseteq AllTopics
  /\ task \in [Tasks -> {"off", "idle", "busy", "tx"}]
  /\ poolClosed \in BOOLEAN /\ serverFailed \in BOOLEAN /\ timedOut \in BOOLEAN
  /\ cut \in [Tasks -> {"off", "idle", "busy", "tx"}]
  /\ faults \in 0..MaxFaults

Init ==
  /\ service \in Services
  /\ phase = "booting"
  /\ at = 1
  /\ opened = <<>>
  /\ cancelled = FALSE
  /\ seen = {}
  /\ topics \in {{}, {"order.placed"}, AllTopics}
  /\ task = [t \in Tasks |-> "off"]
  /\ poolClosed = FALSE /\ serverFailed = FALSE /\ timedOut = FALSE
  /\ cut = [t \in Tasks |-> "off"]
  /\ faults = 0

Fault ==
  /\ faults < MaxFaults
  /\ faults' = faults + 1

-----------------------------------------------------------------------------
(* The start. *)

AtStep(step) == phase = "booting" /\ at <= Len(Boot) /\ Boot[at] = step

Done ==
  /\ at' = at + 1
  /\ UNCHANGED <<service, phase, cancelled, flags, faults>>

\* config.Load, which leaves nothing to close.
Load ==
  /\ AtStep("config")
  /\ Done
  /\ UNCHANGED <<opened, seen, topics, task>>

\* telemetry.Init, postgres.New, redisx.New with their pings under ctx,
\* NewProducer, which connects when it is first used, and NewConsumer, whose
\* reader begins at once, in the background, to join its group.
Open(resource) ==
  /\ AtStep(resource)
  /\ resource \in {"postgres", "redis"} => ~cancelled
  /\ opened' = <<resource>> \o opened
  /\ Done
  /\ UNCHANGED <<seen, topics, task>>

\* EnsureTopics: ReadPartitions ...
ReadPartitions ==
  /\ AtStep("partitions")
  /\ seen' = topics
  /\ Done
  /\ UNCHANGED <<opened, topics, task>>

\* Mutant of CreateTopics: a cluster that has topics is taken for complete.
CreateTopicsIfNone ==
  /\ AtStep("topics")
  /\ topics' = IF seen = {} THEN AllTopics ELSE topics
  /\ Done
  /\ UNCHANGED <<opened, seen, task>>

\* ... and CreateTopics of the missing ones; the broker skips those that
\* another process has created in between.
CreateTopics ==
  /\ AtStep("topics")
  /\ topics' = topics \union (AllTopics \ seen)
  /\ Done
  /\ UNCHANGED <<opened, seen, task>>

\* go relay.Run(ctx), go c.Run(ctx, h), go srv.ListenAndServe().
Start(t) ==
  /\ AtStep(t)
  /\ task' = [task EXCEPT ![t] = "idle"]
  /\ Done
  /\ UNCHANGED <<opened, seen, topics>>

Fallible == {"config", "telemetry", "postgres", "redis", "partitions", "topics"}

\* Mutant of BootFail: defer db.Close() stands before the check of err, so
\* what did not open is closed.
BootFailDeferred ==
  /\ \/ /\ \E step \in Fallible : AtStep(step)
        /\ Fault
     \/ /\ AtStep("postgres") \/ AtStep("redis")
        /\ cancelled
        /\ UNCHANGED faults
  /\ phase' = "closing"
  /\ opened' = IF Boot[at] \in Resources THEN <<Boot[at]>> \o opened ELSE opened
  /\ UNCHANGED <<service, at, cancelled, seen, topics, task, flags>>

\* A step of the start fails, or is refused because ctx is cancelled: run()
\* returns the error through what it has deferred so far.
BootFail ==
  /\ \/ /\ \E step \in Fallible : AtStep(step)
        /\ Fault
     \/ /\ AtStep("postgres") \/ AtStep("redis")
        /\ cancelled
        /\ UNCHANGED faults
  /\ phase' = "closing"
  /\ UNCHANGED <<service, at, opened, cancelled, seen, topics, task, flags>>

Booted ==
  /\ phase = "booting" /\ at = Len(Boot) + 1
  /\ phase' = "serving"
  /\ UNCHANGED <<service, at, opened, cancelled, seen, topics, task, flags, faults>>

\* Another process creates a topic.
PeerCreatesTopic ==
  /\ \E t \in AllTopics \ topics : topics' = topics \union {t}
  /\ UNCHANGED <<service, phase, at, opened, cancelled, seen, task, flags, faults>>

-----------------------------------------------------------------------------
(* The tasks. *)

Alive == phase \notin {"returned", "crashed"}
UsesPostgres(t) ==
  /\ \E i \in DOMAIN Boot : Boot[i] = "postgres"
  /\ t \in {"http", "relay", "consumer"}

\* Shutdown closes the connections; a server that failed to listen still has
\* those it accepted before.
Accepting == phase \in {"booting", "serving"} \/ (phase = "closing" /\ serverFailed)

\* A request or a message arrives, the ticker fires.  A loop whose ctx is
\* cancelled may still take a message or a tick that is ready, since a select
\* chooses either; an open WebSocket is served to the end.
Begin(t) ==
  /\ Alive
  /\ task[t] = "idle"
  /\ t = "http" => Accepting
  /\ task' = [task EXCEPT ![t] = "busy"]
  /\ UNCHANGED <<service, phase, at, opened, cancelled, seen, topics, flags, faults>>

\* The task begins a transaction: the pool gives it a connection.
Acquire(t) ==
  /\ Alive
  /\ task[t] = "busy"
  /\ UsesPostgres(t) /\ ~poolClosed
  /\ t # "http" => ~cancelled
  /\ task' = [task EXCEPT ![t] = "tx"]
  /\ UNCHANGED <<service, phase, at, opened, cancelled, seen, topics, flags, faults>>

\* COMMIT or ROLLBACK.
Release(t) ==
  /\ Alive
  /\ task[t] = "tx"
  /\ task' = [task EXCEPT ![t] = "busy"]
  /\ UNCHANGED <<service, phase, at, opened, cancelled, seen, topics, flags, faults>>

\* The task is done, with or without an error.
Finish(t) ==
  /\ Alive
  /\ task[t] = "busy"
  /\ task' = [task EXCEPT ![t] = "idle"]
  /\ UNCHANGED <<service, phase, at, opened, cancelled, seen, topics, flags, faults>>

\* FetchMessage, or the select of the relay, sees that ctx is cancelled.
Stop(t) ==
  /\ Alive
  /\ task[t] = "idle" /\ t \in Consumers \union {"relay"}
  /\ cancelled
  /\ task' = [task EXCEPT ![t] = "off"]
  /\ UNCHANGED <<service, phase, at, opened, cancelled, seen, topics, flags, faults>>

-----------------------------------------------------------------------------
(* The end. *)

\* SIGINT or SIGTERM.
Signal ==
  /\ Alive
  /\ ~cancelled
  /\ cancelled' = TRUE
  /\ UNCHANGED <<service, phase, at, opened, seen, topics, task, flags, faults>>

\* ListenAndServe fails, for instance because the port is taken.
ServerFails ==
  /\ phase = "serving" /\ HasServer /\ ~serverFailed
  /\ Fault
  /\ serverFailed' = TRUE
  /\ UNCHANGED <<service, phase, at, opened, cancelled, seen, topics, task,
                 poolClosed, timedOut, cut>>

To(next) ==
  /\ phase' = next
  /\ UNCHANGED <<service, at, opened, seen, topics, task, poolClosed,
                 serverFailed, cut, faults>>

\* case <-ctx.Done(): srv.Shutdown.
ShutdownBegins ==
  /\ phase = "serving" /\ HasServer /\ cancelled
  /\ To("draining")
  /\ UNCHANGED <<cancelled, timedOut>>

\* case err := <-serverErr: return err.  Only notification-service cancels.
ServerErr ==
  /\ phase = "serving" /\ serverFailed
  /\ To("closing")
  /\ cancelled' = (cancelled \/ service = "notification")
  /\ UNCHANGED timedOut

\* Mutant of ShutdownEnds: the deferred calls do not wait for the handlers.
ShutdownEndsAtOnce ==
  /\ phase = "draining"
  /\ UNCHANGED timedOut
  /\ To("waiting")
  /\ UNCHANGED cancelled

\* Shutdown returns when no request is under way, or after its 10 seconds.
ShutdownEnds ==
  /\ phase = "draining"
  /\ \/ task["http"] \in {"off", "idle"} /\ UNCHANGED timedOut
     \/ task["http"] \in {"busy", "tx"} /\ timedOut' = TRUE
  /\ To("waiting")
  /\ UNCHANGED cancelled

\* Mutant of ConsumersStopped: wg.Wait also waits for the relay and the
\* sockets, which nothing stops.
AllTasksStopped ==
  /\ \/ phase = "waiting"
     \/ phase = "serving" /\ ~HasServer
  /\ \A t \in Tasks : task[t] = "off"
  /\ To("closing")
  /\ UNCHANGED <<cancelled, timedOut>>

\* wg.Wait, and the return of consumer.Run where it is the last call of run.
ConsumersStopped ==
  /\ \/ phase = "waiting"
     \/ phase = "serving" /\ ~HasServer
  /\ \A t \in Consumers : task[t] = "off"
  /\ To("closing")
  /\ UNCHANGED <<cancelled, timedOut>>

\* db.Close() closes the pool, and goes on when no connection is in use.
ClosePool ==
  /\ phase = "closing" /\ opened # <<>> /\ Head(opened) = "postgres"
  /\ ~poolClosed
  /\ poolClosed' = TRUE
  /\ UNCHANGED <<service, phase, at, opened, cancelled, seen, topics, task,
                 serverFailed, timedOut, cut, faults>>

\* Mutant of CloseNext: the pool is not waited for.
CloseNextAtOnce ==
  /\ phase = "closing" /\ opened # <<>>
  /\ Head(opened) = "postgres" => poolClosed
  /\ opened' = Tail(opened)
  /\ UNCHANGED <<service, phase, at, cancelled, seen, topics, task, flags, faults>>

CloseNext ==
  /\ phase = "closing" /\ opened # <<>>
  /\ Head(opened) = "postgres" => poolClosed /\ \A t \in Tasks : task[t] # "tx"
  /\ opened' = Tail(opened)
  /\ UNCHANGED <<service, phase, at, cancelled, seen, topics, task, flags, faults>>

\* run() returns, after the deferred cancel(), and the process ends with
\* whatever was still running.
Return ==
  /\ phase = "closing" /\ opened = <<>>
  /\ phase' = "returned"
  /\ cancelled' = TRUE
  /\ cut' = task
  /\ task' = [t \in Tasks |-> "off"]
  /\ UNCHANGED <<service, at, opened, seen, topics, poolClosed, serverFailed,
                 timedOut, faults>>

\* SIGKILL, a panic, the end of the grace period.
Crash ==
  /\ Alive
  /\ Fault
  /\ phase' = "crashed"
  /\ task' = [t \in Tasks |-> "off"]
  /\ UNCHANGED <<service, at, opened, cancelled, seen, topics, flags>>

-----------------------------------------------------------------------------

BootStep ==
  \/ Load
  \/ \E r \in Resources : Open(r)
  \/ ReadPartitions
  \/ CreateTopics
  \/ \E t \in Tasks : Start(t)
  \/ Booted

LeaveStep ==
  \/ ShutdownBegins
  \/ ServerErr
  \/ ShutdownEnds
  \/ ConsumersStopped
  \/ ClosePool
  \/ CloseNext
  \/ Return

run == BootStep \/ BootFail \/ LeaveStep

TaskStep(t) ==
  \/ Begin(t)
  \/ Acquire(t)
  \/ Release(t)
  \/ Finish(t)
  \/ Stop(t)

Next ==
  \/ run
  \/ \E t \in Tasks : TaskStep(t)
  \/ Signal \/ ServerFails \/ Crash
  \/ PeerCreatesTopic

Spec == Init /\ [][Next]_vars

\* run() goes on as long as nothing it calls blocks; a transaction ends; the
\* handler of a message ends, by itself or with ctx, and the select of a
\* consumer loop does not overlook ctx.Done() for ever.
FairSpec ==
  /\ Spec
  /\ WF_vars(run)
  /\ \A t \in Tasks : WF_vars(Release(t))
  /\ \A t \in Consumers : WF_vars(Finish(t)) /\ SF_vars(Stop(t))

-----------------------------------------------------------------------------

\* "Pre-creating at boot removes the ordering dependency" (pkg/kafka/
\* admin.go): from the moment the readers are made, and so begin to join
\* their groups, the topics they read exist, whichever processes start at the
\* same time and in whatever order.
ReadersHaveTopics == Past("readers") => Reads \subseteq topics

\* However the process leaves, short of being killed, it does not leave a
\* transaction behind: neither a request that outlived the 10 seconds, nor
\* the relay or a consumer that nobody waits for.
NoTransactionCut == \A t \in Tasks : cut[t] # "tx"

\* A handler at work when run() begins to close its resources is one of an
\* open WebSocket or the relay, or the HTTP server has failed, or the request
\* took longer than the 10 seconds of Shutdown: on a signal the consumers'
\* handlers, whose calls the cancelled context cuts short, and the requests
\* end first.  README.md lists "Graceful consumer shutdown on SIGTERM" as
\* still to do; open WebSockets and the relay are what really is not waited for.
HandlersOutlived ==
  phase = "closing" =>
  \A t \in Tasks : task[t] \in {"busy", "tx"} =>
    \/ t \in {"socket", "relay"}
    \/ serverFailed
    \/ t = "http" /\ timedOut

\* After a signal, or after its server has failed, the process ends: nothing
\* it waits for can hold it for ever.
StopsInTheEnd == cancelled \/ serverFailed ~> ~Alive

-----------------------------------------------------------------------------
(***************************************************************************)
(* The inductive invariant the proofs use.                                 *)
(***************************************************************************)

\* A deferred call will close resource r.
Held(r) == \E i \in 1..Len(opened) : opened[i] = r

\* EnsureTopics saw nothing that is not there, and leaves nothing missing.
TopicsEnsured ==
  /\ seen \subseteq topics
  /\ Past("topics") => topics = AllTopics

\* What is running was started.
TasksStarted == \A t \in Tasks : task[t] # "off" => Past(t)

\* A pool that was opened is closed by a deferred call still to come, as long
\* as it is open or a connection of it is in use.
PoolHeld ==
  /\ Past("postgres") /\ ~poolClosed => Held("postgres")
  /\ \A t \in Tasks : task[t] = "tx" => Held("postgres")

\* Shutdown was left without a request under way, or late; and wg.Wait
\* without a consumer.
HandlersAwaited ==
  /\ phase \in {"waiting", "closing"} =>
       task["http"] \in {"off", "idle"} \/ timedOut \/ serverFailed
  /\ phase = "closing" =>
       (\A t \in Consumers : task[t] = "off") \/ serverFailed

IInv ==
  /\ TypeOK
  /\ TopicsEnsured
  /\ TasksStarted
  /\ PoolHeld
  /\ NoTransactionCut
  /\ HandlersAwaited

=============================================================================
