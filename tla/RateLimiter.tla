---------------------------- MODULE RateLimiter ----------------------------
(***************************************************************************)
(* The rate limiter (middleware/ratelimit.go): a request is counted in     *)
(* Redis, under its key and the minute it came in, and in a map of the     *)
(* process when Redis fails.  Time is the number of the current minute,    *)
(* the window; the clock never goes back.  The pipeline runs some time     *)
(* after its key was formed, the map is read and written under its mutex.  *)
(***************************************************************************)
EXTENDS Naturals, FiniteSets

CONSTANTS
    Keys,           \* client and route
    Limit,          \* requests of one key admitted per window
    Capacity,       \* keys the map holds before it is cleaned, 512 in the code
    Reqs,           \* requests, each counted once
    LastWindow,     \* bounds the clock
    MaxRestarts     \* bounds the restarts of the process

ASSUME LimitAssumption    == Limit \in Nat \ {0}
ASSUME CapacityAssumption == Capacity \in Nat \ {0}
ASSUME BoundsAssumption   == LastWindow \in Nat /\ MaxRestarts \in Nat

Windows == 0 .. LastWindow

VARIABLES
    now,        \* the window the clock is in
    counters,   \* Redis: counter and window of the last EXPIRE, by window and key
    local,      \* the map of the process: key |-> bucket
    lives,      \* restarts of the process so far
    phase,      \* where each request is
    redisKey,   \* the window and key each request formed
    charges     \* history: which counter counted which request, and when

vars == <<now, counters, local, lives, phase, redisKey, charges>>

Phases == {"idle", "exec", "local", "admitted", "rejected", "lost"}

NoKey   == [window |-> 0, key |-> "none"]
NoCount == [count |-> 0, touched |-> 0]

Init ==
    /\ now = 0
    /\ counters = [w \in Windows |-> [k \in Keys |-> NoCount]]
    /\ local = [k \in {} |-> NoCount]
    /\ lives = 0
    /\ phase = [r \in Reqs |-> "idle"]
    /\ redisKey = [r \in Reqs |-> NoKey]
    /\ charges = {}

-----------------------------------------------------------------------------
(***************************************************************************)
(* Counting.                                                               *)
(***************************************************************************)
\* A request comes in; its Redis key holds the window of this moment.
Arrive(r) ==
    /\ phase[r] = "idle"
    /\ \E k \in Keys :
         redisKey' = [redisKey EXCEPT ![r] = [window |-> now, key |-> k]]
    /\ phase' = [phase EXCEPT ![r] = "exec"]
    /\ UNCHANGED <<now, counters, local, lives, charges>>

Charge(r, by, window) ==
    charges' = charges \cup {[request |-> r, key |-> redisKey[r].key, by |-> by,
                              window |-> window, life |-> lives]}

Verdict(count) == IF count > Limit THEN "rejected" ELSE "admitted"

\* The timeouts of the Redis client are seconds: a pipeline runs in the window
\* of its key or in the next.
InTime(r) == now <= redisKey[r].window + 1

\* INCR and EXPIRE, in one MULTI.
Counted(r) ==
    LET in == redisKey[r]
    IN  [counters EXCEPT ![in.window][in.key] =
            [count |-> @.count + 1, touched |-> now]]

Exec(r) ==
    /\ phase[r] = "exec" /\ InTime(r)
    /\ counters' = Counted(r)
    /\ LET in == redisKey[r]
       IN  phase' = [phase EXCEPT ![r] =
                       Verdict(counters'[in.window][in.key].count)]
    /\ Charge(r, "redis", redisKey[r].window)
    /\ UNCHANGED <<now, local, lives, redisKey>>

\* The pipeline ran, its answer is lost.
ExecAnswerLost(r) ==
    /\ phase[r] = "exec" /\ InTime(r)
    /\ counters' = Counted(r)
    /\ phase' = [phase EXCEPT ![r] = "local"]
    /\ Charge(r, "redis", redisKey[r].window)
    /\ UNCHANGED <<now, local, lives, redisKey>>

\* It did not run, or there is no Redis at all.
ExecFails(r) ==
    /\ phase[r] = "exec"
    /\ phase' = [phase EXCEPT ![r] = "local"]
    /\ UNCHANGED <<now, counters, local, lives, redisKey, charges>>

\* Mutant: buckets of earlier windows stay.
NeverCleaned(buckets) == buckets

\* Mutant: the current window is dropped as well.
AllCleaned(buckets) ==
    IF Cardinality(DOMAIN buckets) < Capacity THEN buckets
    ELSE [k \in {} |-> NoCount]

\* From Capacity keys on, the buckets of earlier windows are dropped.
Cleaned(buckets) ==
    IF Cardinality(DOMAIN buckets) < Capacity THEN buckets
    ELSE [k \in {k \in DOMAIN buckets : buckets[k].window >= now} |-> buckets[k]]

\* Mutant: the count of an earlier window is carried on.
BucketWithoutReset(buckets, k) ==
    [window |-> now, count |-> IF k \in DOMAIN buckets
                               THEN buckets[k].count + 1 ELSE 1]

\* Mutant: the first request of a window is not counted.
BucketFromZero(buckets, k) ==
    [window |-> now,
     count |-> IF k \in DOMAIN buckets /\ buckets[k].window = now
               THEN buckets[k].count + 1 ELSE 0]

\* The bucket of a key with one more request in the current window.
Bucket(buckets, k) ==
    [window |-> now,
     count |-> IF k \in DOMAIN buckets /\ buckets[k].window = now
               THEN buckets[k].count + 1 ELSE 1]

IncrementLocal(r) ==
    /\ phase[r] = "local"
    /\ LET k == redisKey[r].key
           buckets == Cleaned(local)
       IN  /\ local' = [x \in DOMAIN buckets \cup {k} |->
                          IF x = k THEN Bucket(buckets, k) ELSE buckets[x]]
           /\ phase' = [phase EXCEPT ![r] = Verdict(local'[k].count)]
    /\ Charge(r, "local", now)
    /\ UNCHANGED <<now, counters, lives, redisKey>>

-----------------------------------------------------------------------------
(***************************************************************************)
(* Time, and a process that stops and starts again with an empty map.      *)
(***************************************************************************)
Tick ==
    /\ now < LastWindow
    /\ now' = now + 1
    /\ UNCHANGED <<counters, local, lives, phase, redisKey, charges>>

\* Mutant: the time to live is the rest of a window.
ExpiredWithTheWindow(counter) == now >= counter.touched + 1

\* Redis forgets a counter two minutes after it was last incremented.
Expired(counter) == now >= counter.touched + 2

Expire ==
    /\ \E w \in Windows, k \in Keys :
         /\ counters[w][k].count > 0
         /\ Expired(counters[w][k])
         /\ counters' = [counters EXCEPT ![w][k] = NoCount]
    /\ UNCHANGED <<now, local, lives, phase, redisKey, charges>>

Restart ==
    /\ lives < MaxRestarts
    /\ lives' = lives + 1
    /\ local' = [k \in {} |-> NoCount]
    /\ phase' = [r \in Reqs |-> IF phase[r] \in {"exec", "local"} THEN "lost"
                                                                  ELSE phase[r]]
    /\ UNCHANGED <<now, counters, redisKey, charges>>

Middleware(r) == \/ Arrive(r)
                 \/ Exec(r)
                 \/ ExecAnswerLost(r)
                 \/ ExecFails(r)
                 \/ IncrementLocal(r)

\* Every request was answered and nothing is left to expire.
Quiescent ==
    /\ now = LastWindow
    /\ \A r \in Reqs : phase[r] \in {"admitted", "rejected", "lost"}
    /\ UNCHANGED vars

Next == \/ \E r \in Reqs : Middleware(r)
        \/ Tick
        \/ Expire
        \/ Restart
        \/ Quiescent

Spec == Init /\ [][Next]_vars

-----------------------------------------------------------------------------
(***************************************************************************)
(* What a client may get, and what the process keeps.                      *)
(***************************************************************************)
TypeOK ==
    /\ now \in Windows
    /\ counters \in [Windows -> [Keys -> [count: Nat, touched: Windows]]]
    /\ DOMAIN local \subseteq Keys
    /\ \A k \in DOMAIN local : local[k] \in [window: Windows, count: Nat \ {0}]
    /\ lives \in 0 .. MaxRestarts
    /\ phase \in [Reqs -> Phases]
    /\ redisKey \in [Reqs -> [window: Windows, key: Keys] \cup {NoKey}]
    /\ charges \subseteq [request: Reqs, key: Keys, by: {"redis", "local"},
                          window: Windows, life: 0 .. MaxRestarts]

\* The counter that decides is the local one whenever it was asked.
DecidedBy(r) ==
    IF \E c \in charges : c.request = r /\ c.by = "local" THEN "local" ELSE "redis"

\* The charges of one counter, and those it decided with a given verdict.
ChargesOf(by, k, w) == {c \in charges : c.by = by /\ c.key = k /\ c.window = w}
Decided(by, k, w, verdict) ==
    {c \in ChargesOf(by, k, w) : DecidedBy(c.request) = by
                                 /\ phase[c.request] = verdict}

\* Redis admits no more than Limit requests of a key and a window, also those
\* whose pipeline runs after the window turned, and through restarts.
RedisBudget ==
    \A k \in Keys, w \in Windows : Cardinality(Decided("redis", k, w, "admitted")) <= Limit

\* One life of the process admits no more than Limit requests of a key and a
\* window by its own count, however full the map is.
LocalBudget ==
    \A k \in Keys, w \in Windows, life \in 0 .. MaxRestarts :
        Cardinality({c \in Decided("local", k, w, "admitted") : c.life = life}) <= Limit

\* A request is turned away only when its counter had counted Limit others of
\* its key in its window: nothing is carried over from an earlier one.
RejectionsAreEarned ==
    \A by \in {"redis", "local"}, k \in Keys, w \in Windows :
        Decided(by, k, w, "rejected") # {}
            => Cardinality(ChargesOf(by, k, w)) > Limit

\* The map grows past Capacity only with keys of one window: earlier ones do not
\* pile up over the life of the process.
OldBucketsDropped ==
    Cardinality(DOMAIN local) > Capacity =>
        \A j, k \in DOMAIN local : local[j].window = local[k].window

=============================================================================
