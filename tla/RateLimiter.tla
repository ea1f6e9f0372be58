---------------------------- MODULE RateLimiter ----------------------------
(***************************************************************************)
(* The sliding window of pkg/middleware/ratelimit.go for one identity: one *)
(* key, a sorted set of the times of the requests.  Keys of different      *)
(* identities do not meet.                                                 *)
(*                                                                         *)
(* Allow reads the clock and sends four commands in a pipeline, which      *)
(* Redis does not run as a transaction: commands of other requests, and    *)
(* the expiry of the key, may come between them.  Time is discrete.        *)
(*                                                                         *)
(* External: Redis (the commands; a key is gone once its time has come),   *)
(* go-redis (a pipeline that met a network error is sent again; the        *)
(* client's timeouts bound how long a pipeline takes).  A key whose set is *)
(* emptied does not exist, and so has no time to live.                     *)
(***************************************************************************)
EXTENDS Integers, FiniteSets

CONSTANTS
  Requests,   \* bound: the requests, each of which is made once
  Limit,      \* orders_per_minute
  Window,     \* window: time.Minute
  MaxDelay,   \* from the reading of the clock to the last command
  Grain,      \* two times nearer than this may get the same float64 score
  NoExpiry,   \* the key has no time to live
  MaxTime,    \* bound: the clock
  MaxFaults   \* bound: pipelines that are sent again or given up

ASSUME LimitAssumption == Limit \in Nat
ASSUME RequestsAssumption == IsFiniteSet(Requests)
ASSUME WindowAssumption ==
  /\ Window \in Nat /\ MaxDelay \in Nat /\ Grain \in Nat \ {0}
  /\ MaxDelay + Grain < Window
ASSUME NoExpiryAssumption == NoExpiry \notin Nat
ASSUME BoundsAssumption == MaxTime \in Nat /\ MaxFaults \in Nat

VARIABLES
  now,      \* the clock, in nanoseconds (UnixNano)
  zset,     \* the sorted set; a member is the time it stands for
  expiry,   \* when Redis removes the key
  req,      \* req[q]: [pc, stamp], stamp the reading of the clock
  faults,   \* failures so far
  attempts, \* history: times that were added
  passed,   \* the requests whose count was within the limit
  refused,  \* the requests whose count was not
  lost      \* the requests whose pipeline failed, or lost the key under way

vars == <<now, zset, expiry, req, faults, attempts, passed, refused, lost>>
history == <<attempts, passed, refused, lost>>

Times == 0..MaxTime

\* The types of the sorted set, of the requests and of the history.
TypeOK ==
  /\ now \in Times
  /\ zset \subseteq Times
  /\ expiry \in Nat \union {NoExpiry}
  /\ req \in [Requests -> [pc    : {"new", "zadd", "zrem", "zcard", "expire", "done"},
                           stamp : Times]]
  /\ faults \in 0..MaxFaults
  /\ attempts \subseteq Times
  /\ passed \subseteq Requests
  /\ refused \subseteq Requests
  /\ lost \subseteq Requests

Init ==
  /\ now = 0
  /\ zset = {}
  /\ expiry = NoExpiry
  /\ req = [q \in Requests |-> [pc |-> "new", stamp |-> 0]]
  /\ faults = 0
  /\ attempts = {} /\ passed = {} /\ refused = {} /\ lost = {}

Fault ==
  /\ faults < MaxFaults
  /\ faults' = faults + 1

UnderWay(q) == req[q].pc \notin {"new", "done"}
Readings(S) == {req[q].stamp : q \in S}

\* Time passes, but no pipeline takes longer than MaxDelay.
Tick ==
  /\ now < MaxTime
  /\ \A q \in Requests : UnderWay(q) => now < req[q].stamp + MaxDelay
  /\ now' = now + 1
  /\ UNCHANGED <<zset, expiry, req, faults, history>>

\* Redis removes the key; a pipeline under way loses what it has added.
KeyExpires ==
  /\ expiry # NoExpiry
  /\ expiry <= now
  /\ zset' = {}
  /\ expiry' = NoExpiry
  /\ lost' = lost \union {q \in Requests : UnderWay(q) /\ req[q].stamp \in zset}
  /\ UNCHANGED <<now, req, faults, attempts, passed, refused>>

\* A command finds the key as long as its time has not passed.
AtCommand(q, pc) ==
  /\ req[q].pc = pc
  /\ ~(expiry # NoExpiry /\ expiry < now)

\* Mutant of Allow: the time is taken in another unit than the clock's.
AllowMicros(q) ==
  /\ req[q].pc = "new"
  /\ req' = [req EXCEPT ![q] = [pc |-> "zadd", stamp |-> now * 1000]]
  /\ UNCHANGED <<now, zset, expiry, faults, history>>

\* now := time.Now().UnixNano()
Allow(q) ==
  /\ req[q].pc = "new"
  /\ req' = [req EXCEPT ![q] = [pc |-> "zadd", stamp |-> now]]
  /\ UNCHANGED <<now, zset, expiry, faults, history>>

\* The time is member and score, so equal readings make one member.
ZAdd(q) ==
  /\ AtCommand(q, "zadd")
  /\ zset' = zset \union {req[q].stamp}
  /\ attempts' = attempts \union {req[q].stamp}
  /\ req' = [req EXCEPT ![q].pc = "zrem"]
  /\ UNCHANGED <<now, expiry, faults, passed, refused, lost>>

\* Mutant of Cutoff: the unit of the window is too small.
CutoffHalf(q) == req[q].stamp - Window \div 2

\* Mutant of Cutoff: nothing is old enough.
CutoffNever(q) == 0 - Window

Cutoff(q) == req[q].stamp - Window

\* ZREMRANGEBYSCORE removes all up to the cutoff.  Scores and cutoff are
\* rounded alike, so times a little after the cutoff may fall on it.
ZRemRangeByScore(q) ==
  /\ AtCommand(q, "zrem")
  /\ \E rounded \in SUBSET {z \in zset : Cutoff(q) < z /\ z < Cutoff(q) + Grain} :
       zset' = {z \in zset : z > Cutoff(q)} \ rounded
  /\ expiry' = IF zset' = {} THEN NoExpiry ELSE expiry
  /\ req' = [req EXCEPT ![q].pc = "zcard"]
  /\ UNCHANGED <<now, faults, history>>

\* ZCARD, whose answer decides: count <= s.limit.  That of a repeated
\* pipeline replaces the one before.
ZCard(q) ==
  LET allowed == Cardinality(zset) <= Limit IN
  /\ AtCommand(q, "zcard")
  /\ req' = [req EXCEPT ![q].pc = "expire"]
  /\ passed' = IF allowed THEN passed \union {q} ELSE passed \ {q}
  /\ refused' = IF allowed THEN refused \ {q} ELSE refused \union {q}
  /\ UNCHANGED <<now, zset, expiry, faults, attempts, lost>>

\* Mutant of Expire: the time to live is only set for requests let through.
ExpireIfPassed(q) ==
  /\ AtCommand(q, "expire")
  /\ expiry' = IF zset # {} /\ q \in passed THEN now + Window ELSE expiry
  /\ req' = [req EXCEPT ![q].pc = "done"]
  /\ UNCHANGED <<now, zset, faults, history>>

\* EXPIRE, which does nothing when the key has gone since the ZADD; Exec
\* returns, and the request is served or answered with 429.
Expire(q) ==
  /\ AtCommand(q, "expire")
  /\ expiry' = IF zset # {} THEN now + Window ELSE expiry
  /\ req' = [req EXCEPT ![q].pc = "done"]
  /\ UNCHANGED <<now, zset, faults, history>>

\* go-redis sends the pipeline again, with the time it had.
Retry(q) ==
  /\ UnderWay(q)
  /\ Fault
  /\ req' = [req EXCEPT ![q].pc = "zadd"]
  /\ UNCHANGED <<now, zset, expiry, history>>

\* Exec returns an error: the middleware lets the request through uncounted.
\* What Redis has run of the pipeline stays.
FailOpen(q) ==
  /\ UnderWay(q)
  /\ Fault
  /\ req' = [req EXCEPT ![q].pc = "done"]
  /\ lost' = lost \union {q}
  /\ refused' = refused \ {q}
  /\ UNCHANGED <<now, zset, expiry, attempts, passed>>

Pipeline(q) ==
  \/ ZAdd(q)
  \/ ZRemRangeByScore(q)
  \/ ZCard(q)
  \/ Expire(q)

Next ==
  \/ Tick
  \/ KeyExpires
  \/ \E q \in Requests : Allow(q) \/ Pipeline(q) \/ Retry(q) \/ FailOpen(q)

Spec == Init /\ [][Next]_vars

-----------------------------------------------------------------------------

\* The widest span in which the limit is kept.
Span == Window - MaxDelay - Grain

\* The requests of a span that were let through because of their count.
Through(t) == {q \in passed \ lost : t <= req[q].stamp /\ req[q].stamp <= t + Span}

\* The limiter keeps its limit, but for requests that read the same time:
\* however the pipelines of concurrent requests interleave, are repeated and
\* lose the key to its expiry, of any Limit + 1 requests let through in a
\* span shorter than the window (by what a pipeline takes and a score is
\* off) two have one reading of the clock, which is one member of the set
\* and counts once (ratelimit.go:42).  There is no other way past the limit.
WindowRespected ==
  \A t \in Times : \A S \in SUBSET Through(t) :
    Cardinality(S) > Limit =>
      \E p, q \in S : p # q /\ req[p].stamp = req[q].stamp

\* "You hit the 5/min rate limit for that X-Customer-Id. Wait 60s"
\* (SETUP.md): a request is refused only when more than Limit requests,
\* refused ones included, were made in the window before it, or while it was
\* answered.  So who stays away for a window is let in.
RefusedOnlyWhenBusy ==
  \A s \in Readings(refused) :
    Cardinality({a \in attempts : s - Window < a /\ a <= s + MaxDelay}) > Limit

\* "EXPIRE K W (reap idle keys)": a key that nobody uses has a time to live,
\* unless a pipeline was given up between its ZADD and its EXPIRE.
KeyIsReaped ==
  expiry = NoExpiry =>
    zset \subseteq Readings({q \in Requests : UnderWay(q)} \union lost)

-----------------------------------------------------------------------------
(***************************************************************************)
(* The inductive invariant the proofs use.                                 *)
(***************************************************************************)

\* A pipeline under way is young, and what it has added is still there.
PipelinesYoung ==
  \A q \in Requests : UnderWay(q) =>
    /\ req[q].stamp <= now /\ now <= req[q].stamp + MaxDelay
    /\ req[q].pc # "zadd" => req[q].stamp \in zset \/ q \in lost

\* A request that passed is in the set until it is too old to matter.
Recorded ==
  \A q \in passed \ lost :
    req[q].stamp \in zset \/ req[q].stamp < now - Window + Grain

\* The key outlives the times it must remember, once their EXPIRE was run.
Outlives ==
  \A q \in passed \ lost : req[q].stamp \in zset =>
    \/ UnderWay(q)
    \/ expiry # NoExpiry /\ req[q].stamp + Window <= expiry

\* Only requests that were made have an outcome.
OnlyMade == \A q \in passed \union refused \union lost : req[q].pc # "new"

\* No time in the set, or on record, is in the future.
NothingAhead ==
  /\ zset \subseteq attempts
  /\ \A s \in attempts \union Readings(Requests) : s <= now

\* After its ZREMRANGEBYSCORE a pipeline sees only times of its window.
OnlyTheWindow ==
  \A q \in Requests : req[q].pc \in {"zcard", "expire"} =>
    \A z \in zset : z > req[q].stamp - Window

IInv ==
  /\ TypeOK
  /\ PipelinesYoung
  /\ Recorded
  /\ Outlives
  /\ OnlyMade
  /\ NothingAhead
  /\ OnlyTheWindow
  /\ WindowRespected
  /\ RefusedOnlyWhenBusy
  /\ KeyIsReaped

=============================================================================
