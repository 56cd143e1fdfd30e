-------------------------- MODULE RateLimiterProofs --------------------------
(***************************************************************************)
(* The budgets of the rate limiter, proved for any number of requests,     *)
(* keys, windows and restarts, and whatever Redis answers or fails to.     *)
(***************************************************************************)
EXTENDS RateLimiter, FiniteSetTheorems, TLAPS

-----------------------------------------------------------------------------
(***************************************************************************)
(* What the steps have in common.                                          *)
(***************************************************************************)
\* The next number of the counter a request increments in Redis, and the two
\* steps that increment it: with the answer, and with the answer lost.
NextCount(r) == counters[redisKey[r].window][redisKey[r].key].count + 1

RedisCharge(r, next) ==
    /\ phase[r] = "exec" /\ InTime(r)
    /\ counters' = Counted(r)
    /\ phase' = [phase EXCEPT ![r] = next]
    /\ Charge(r, "redis", redisKey[r].window)
    /\ UNCHANGED <<now, local, lives, redisKey>>

\* A request that arrived has a key of the present window or an earlier one, and
\* no bucket is ahead of the clock; a counter in use was touched no earlier than
\* in its window.
KeysAreDue ==
    /\ \A r \in Reqs : phase[r] # "idle" =>
         redisKey[r] \in [window: 0 .. now, key: Keys]
    /\ \A k \in DOMAIN local : local[k].window \in 0 .. now
    /\ \A w \in Windows, k \in Keys :
         counters[w][k].count > 0 => counters[w][k].touched >= w

Basics == TypeOK /\ KeysAreDue

LEMMA KeyIsDue ==
    ASSUME Basics, NEW r \in Reqs, phase[r] # "idle"
    PROVE  /\ redisKey[r] \in [window: Windows, key: Keys]
           /\ redisKey[r].window <= now
           /\ now \in Nat /\ now \in Windows
BY BoundsAssumption DEF Basics, TypeOK, KeysAreDue, Windows

\* INCR changes one counter.
LEMMA CountedEffect ==
    ASSUME Basics, NEW r \in Reqs, phase[r] = "exec", counters' = Counted(r)
    PROVE  LET in == redisKey[r]
           IN  /\ counters' \in [Windows -> [Keys -> [count: Nat, touched: Windows]]]
               /\ NextCount(r) \in Nat \ {0}
               /\ counters'[in.window][in.key] =
                    [count |-> NextCount(r), touched |-> now]
               /\ \A w \in Windows, k \in Keys :
                    w # in.window \/ k # in.key => counters'[w][k] = counters[w][k]
<1> DEFINE w == redisKey[r].window
           k == redisKey[r].key
           new == [count |-> counters[w][k].count + 1, touched |-> now]
<1>1. w \in Windows /\ k \in Keys /\ now \in Windows
    BY KeyIsDue
<1>2. counters' = [counters EXCEPT ![w] = [counters[w] EXCEPT ![k] = new]]
    BY DEF Counted
<1>3. counters \in [Windows -> [Keys -> [count: Nat, touched: Windows]]]
    BY DEF Basics, TypeOK
<1>4. counters[w][k] \in [count: Nat, touched: Windows]
    BY <1>1, <1>3
<1>5. new \in [count: Nat, touched: Windows] /\ new.count \in Nat \ {0}
    BY <1>1, <1>4
<1> HIDE DEF w, k, new
<1> DEFINE row == [counters[w] EXCEPT ![k] = new]
<1>6. /\ row \in [Keys -> [count: Nat, touched: Windows]]
      /\ row[k] = new /\ \A j \in Keys \ {k} : row[j] = counters[w][j]
    BY <1>1, <1>3, <1>5
<1> HIDE DEF row
<1>7. /\ counters' \in [Windows -> [Keys -> [count: Nat, touched: Windows]]]
      /\ counters'[w][k] = new
      /\ \A v \in Windows, j \in Keys :
           v # w \/ j # k => counters'[v][j] = counters[v][j]
  <2>1. counters' = [counters EXCEPT ![w] = row]
      BY <1>2 DEF row
  <2>2. counters'[w] = row /\ \A v \in Windows \ {w} : counters'[v] = counters[v]
      BY <1>1, <1>3, <2>1
  <2>3. counters' \in [Windows -> [Keys -> [count: Nat, touched: Windows]]]
      BY <1>1, <1>3, <1>6, <2>1
  <2>4. QED
      BY <1>6, <2>2, <2>3
<1>8. QED
    BY <1>5, <1>7 DEF w, k, new, NextCount

LEMMA ExecIsCharge ==
    ASSUME Basics, NEW r \in Reqs, Exec(r)
    PROVE  RedisCharge(r, Verdict(NextCount(r)))
<1>1. phase[r] = "exec" /\ counters' = Counted(r)
    BY DEF Exec
<1>2. counters'[redisKey[r].window][redisKey[r].key] =
        [count |-> NextCount(r), touched |-> now]
    BY <1>1, CountedEffect
<1>3. counters'[redisKey[r].window][redisKey[r].key].count = NextCount(r)
    BY <1>2
<1>4. QED
    BY <1>3 DEF Exec, RedisCharge

LEMMA ExecAnswerLostIsCharge ==
    ASSUME NEW r \in Reqs, ExecAnswerLost(r)
    PROVE  RedisCharge(r, "local")
BY DEF ExecAnswerLost, RedisCharge

\* The map keeps buckets it had, drops those of earlier windows when it is full,
\* and gives the key of the request one of the present window.
LEMMA LocalEffect ==
    ASSUME Basics, NEW r \in Reqs, IncrementLocal(r)
    PROVE  LET k == redisKey[r].key
               buckets == Cleaned(local)
           IN  /\ k \in Keys
               /\ DOMAIN local' = DOMAIN buckets \cup {k}
               /\ DOMAIN buckets \subseteq DOMAIN local
               /\ \A j \in DOMAIN local :
                    local[j].window = now => j \in DOMAIN buckets
               /\ \A j \in DOMAIN buckets : buckets[j] = local[j]
               /\ local'[k] = Bucket(buckets, k)
               /\ Bucket(buckets, k) \in [window: {now}, count: Nat \ {0}]
               /\ \A j \in DOMAIN buckets \ {k} : local'[j] = local[j]
               /\ phase' = [phase EXCEPT ![r] = Verdict(local'[k].count)]
<1> DEFINE k == redisKey[r].key
           buckets == Cleaned(local)
<1>1. phase[r] = "local" /\ k \in Keys /\ now \in Nat
    BY KeyIsDue DEF IncrementLocal
<1>2. /\ DOMAIN buckets \subseteq DOMAIN local
      /\ \A j \in DOMAIN local : local[j].window = now => j \in DOMAIN buckets
      /\ \A j \in DOMAIN buckets : buckets[j] = local[j]
    BY <1>1 DEF Cleaned
<1>3. \A j \in DOMAIN local : local[j].count \in Nat \ {0}
    BY DEF Basics, TypeOK
<1>4. Bucket(buckets, k) \in [window: {now}, count: Nat \ {0}]
    BY <1>2, <1>3 DEF Bucket
<1>5. local' = [x \in DOMAIN buckets \cup {k} |->
                  IF x = k THEN Bucket(buckets, k) ELSE buckets[x]]
    BY DEF IncrementLocal
<1>6. phase' = [phase EXCEPT ![r] = Verdict(local'[k].count)]
    BY DEF IncrementLocal
<1> HIDE DEF k, buckets
<1>7. /\ DOMAIN local' = DOMAIN buckets \cup {k}
      /\ local'[k] = Bucket(buckets, k)
      /\ \A j \in DOMAIN buckets \ {k} : local'[j] = local[j]
    BY <1>2, <1>5
<1>8. QED
    BY <1>1, <1>2, <1>4, <1>6, <1>7 DEF k, buckets

-----------------------------------------------------------------------------
(***************************************************************************)
(* Types, and the order of windows.                                        *)
(***************************************************************************)
LEMMA InitIsBasic == Init => Basics
<1> SUFFICES ASSUME Init PROVE Basics
    OBVIOUS
<1>1. 0 \in Windows /\ 0 \in 0 .. MaxRestarts
    BY BoundsAssumption DEF Windows
<1>2. counters \in [Windows -> [Keys -> [count: Nat, touched: Windows]]]
    BY <1>1 DEF Init, NoCount
<1>3. \A w \in Windows, k \in Keys : counters[w][k].count = 0
    BY DEF Init, NoCount
<1>4. TypeOK
    BY <1>1, <1>2 DEF Init, TypeOK, Phases
<1>5. KeysAreDue
    BY <1>3 DEF Init, KeysAreDue
<1>6. QED
    BY <1>3, <1>4, <1>5 DEF Init, Basics

LEMMA ChargesAreTyped ==
    ASSUME Basics, NEW r \in Reqs, phase[r] # "idle", NEW by \in {"redis", "local"},
           NEW window \in Windows, Charge(r, by, window)
    PROVE  charges' \subseteq [request: Reqs, key: Keys, by: {"redis", "local"},
                               window: Windows, life: 0 .. MaxRestarts]
<1>1. PICK key, life : key = redisKey[r].key /\ life = lives
    OBVIOUS
<1>2. key \in Keys /\ life \in 0 .. MaxRestarts
    BY <1>1, KeyIsDue DEF Basics, TypeOK
<1>3. charges' = charges \cup {[request |-> r, key |-> key, by |-> by,
                                window |-> window, life |-> life]}
    BY <1>1 DEF Charge
<1>4. [request |-> r, key |-> key, by |-> by, window |-> window, life |-> life]
        \in [request: Reqs, key: Keys, by: {"redis", "local"},
             window: Windows, life: 0 .. MaxRestarts]
    BY <1>2
<1>5. QED
    BY <1>3, <1>4 DEF Basics, TypeOK

LEMMA VerdictIsPhase == \A count : Verdict(count) \in {"admitted", "rejected"}
BY DEF Verdict

LEMMA BasicsStep == Basics /\ [Next]_vars => Basics'
<1> SUFFICES ASSUME Basics, [Next]_vars PROVE Basics'
    OBVIOUS
<1>1. ASSUME NEW r \in Reqs, Arrive(r) PROVE Basics'
  <2>1. /\ phase[r] = "idle" /\ phase' = [phase EXCEPT ![r] = "exec"]
        /\ UNCHANGED <<now, counters, local, lives, charges>>
      BY <1>1 DEF Arrive
  <2>2. PICK k \in Keys :
          redisKey' = [redisKey EXCEPT ![r] = [window |-> now, key |-> k]]
      BY <1>1 DEF Arrive
  <2>3. now \in 0 .. now /\ now \in Windows
      BY BoundsAssumption DEF Basics, TypeOK, Windows
  <2>4. TypeOK'
      BY <2>1, <2>2, <2>3 DEF Basics, TypeOK, Phases
  <2>5. KeysAreDue'
      BY <2>1, <2>2, <2>3 DEF Basics, TypeOK, KeysAreDue
  <2>6. QED
      BY <2>4, <2>5 DEF Basics
<1>2. ASSUME NEW r \in Reqs, NEW next \in {"local", "admitted", "rejected"},
             RedisCharge(r, next)
      PROVE  Basics'
  <2>1. /\ phase[r] = "exec" /\ phase' = [phase EXCEPT ![r] = next]
        /\ UNCHANGED <<now, local, lives, redisKey>>
        /\ Charge(r, "redis", redisKey[r].window) /\ counters' = Counted(r)
      BY <1>2 DEF RedisCharge
  <2>2. /\ redisKey[r].window \in Windows /\ redisKey[r].window <= now
        /\ charges' \subseteq [request: Reqs, key: Keys, by: {"redis", "local"},
                               window: Windows, life: 0 .. MaxRestarts]
      BY <2>1, KeyIsDue, ChargesAreTyped
  <2>3. /\ counters' \in [Windows -> [Keys -> [count: Nat, touched: Windows]]]
        /\ counters'[redisKey[r].window][redisKey[r].key].touched = now
        /\ \A w \in Windows, k \in Keys :
             w # redisKey[r].window \/ k # redisKey[r].key
               => counters'[w][k] = counters[w][k]
    <3>1. counters'[redisKey[r].window][redisKey[r].key] =
            [count |-> NextCount(r), touched |-> now]
        BY <2>1, CountedEffect
    <3>2. counters'[redisKey[r].window][redisKey[r].key].touched = now
        BY <3>1
    <3>3. QED
        BY <2>1, <3>2, CountedEffect
  <2>4. \A w \in Windows, k \in Keys :
          counters'[w][k].count > 0 => counters'[w][k].touched >= w
      BY <2>2, <2>3 DEF Basics, KeysAreDue
  <2>5. TypeOK'
      BY <2>1, <2>2, <2>3 DEF Basics, TypeOK, Phases
  <2>6. KeysAreDue'
      BY <2>1, <2>4 DEF Basics, TypeOK, KeysAreDue
  <2>7. QED
      BY <2>5, <2>6 DEF Basics
<1>3. ASSUME NEW r \in Reqs, ExecFails(r) PROVE Basics'
    BY <1>3 DEF ExecFails, Basics, TypeOK, KeysAreDue, Phases
<1>4. ASSUME NEW r \in Reqs, IncrementLocal(r) PROVE Basics'
  <2> DEFINE k == redisKey[r].key
             bucket == Bucket(Cleaned(local), k)
  <2>1. /\ phase[r] = "local" /\ UNCHANGED <<now, counters, lives, redisKey>>
        /\ Charge(r, "local", now)
      BY <1>4 DEF IncrementLocal
  <2>2. /\ k \in Keys /\ DOMAIN local' \subseteq DOMAIN local \cup {k}
        /\ local'[k] = bucket /\ bucket \in [window: {now}, count: Nat \ {0}]
        /\ \A j \in DOMAIN local' \ {k} : local'[j] = local[j]
        /\ phase' = [phase EXCEPT ![r] = Verdict(local'[k].count)]
      BY <1>4, LocalEffect
  <2>3. /\ now \in Windows /\ now \in 0 .. now
        /\ charges' \subseteq [request: Reqs, key: Keys, by: {"redis", "local"},
                               window: Windows, life: 0 .. MaxRestarts]
      BY <2>1, KeyIsDue, ChargesAreTyped
  <2>4. phase' \in [Reqs -> Phases] /\ phase'[r] # "idle"
        /\ \A q \in Reqs \ {r} : phase'[q] = phase[q]
      BY <2>2, VerdictIsPhase DEF Basics, TypeOK, Phases
  <2> HIDE DEF k, bucket
  <2>5. \A j \in DOMAIN local' : /\ j \in Keys
                                 /\ local'[j] \in [window: Windows, count: Nat \ {0}]
                                 /\ local'[j].window \in 0 .. now
      BY <2>2, <2>3 DEF Basics, TypeOK, KeysAreDue
  <2>6. TypeOK'
      BY <2>1, <2>3, <2>4, <2>5 DEF Basics, TypeOK
  <2>7. KeysAreDue'
      BY <2>1, <2>4, <2>5 DEF Basics, KeysAreDue
  <2>8. QED
      BY <2>6, <2>7 DEF Basics
<1>5. CASE Tick
  <2>1. /\ now' = now + 1 /\ now < LastWindow /\ now \in Nat
        /\ UNCHANGED <<counters, local, lives, phase, redisKey, charges>>
      BY <1>5, BoundsAssumption DEF Tick, Basics, TypeOK, Windows
  <2>2. now' \in Windows /\ \A n \in 0 .. now : n \in 0 .. now'
      BY <2>1, BoundsAssumption DEF Windows
  <2>3. TypeOK'
      BY <2>1, <2>2 DEF Basics, TypeOK
  <2>4. KeysAreDue'
      BY <2>1, <2>2 DEF Basics, KeysAreDue
  <2>5. QED
      BY <2>3, <2>4 DEF Basics
<1>6. CASE Expire
  <2>1. PICK w \in Windows, k \in Keys :
          counters' = [counters EXCEPT ![w] = [counters[w] EXCEPT ![k] = NoCount]]
      BY <1>6 DEF Expire
  <2>2. UNCHANGED <<now, local, lives, phase, redisKey, charges>>
      BY <1>6 DEF Expire
  <2>3. NoCount \in [count: Nat, touched: Windows] /\ NoCount.count = 0
      BY BoundsAssumption DEF NoCount, Windows
  <2>4. counters \in [Windows -> [Keys -> [count: Nat, touched: Windows]]]
      BY DEF Basics, TypeOK
  <2>5. [counters[w] EXCEPT ![k] = NoCount] \in [Keys -> [count: Nat, touched: Windows]]
      BY <2>3, <2>4
  <2>6. /\ counters' \in [Windows -> [Keys -> [count: Nat, touched: Windows]]]
        /\ \A v \in Windows, j \in Keys :
             counters'[v][j] = counters[v][j] \/ counters'[v][j] = NoCount
      BY <2>1, <2>4, <2>5
  <2>7. TypeOK'
      BY <2>2, <2>6 DEF Basics, TypeOK
  <2>8. KeysAreDue'
    <3>1. \A v \in Windows, j \in Keys :
            counters'[v][j].count > 0 => counters'[v][j] = counters[v][j]
        BY <2>3, <2>6
    <3>2. \A v \in Windows, j \in Keys :
            counters'[v][j].count > 0 => counters'[v][j].touched >= v
        BY <3>1 DEF Basics, KeysAreDue
    <3>3. QED
        BY <2>2, <3>2 DEF Basics, KeysAreDue
  <2>9. QED
      BY <2>7, <2>8 DEF Basics
<1>7. CASE Restart
  <2>1. TypeOK'
      BY <1>7, BoundsAssumption DEF Restart, Basics, TypeOK, Phases
  <2>2. KeysAreDue'
      BY <1>7 DEF Restart, Basics, TypeOK, KeysAreDue
  <2>3. QED
      BY <2>1, <2>2 DEF Basics
<1>8. CASE Quiescent \/ UNCHANGED vars
    BY <1>8 DEF Quiescent, vars, Basics, TypeOK, KeysAreDue
<1>9. QED
    BY <1>1, <1>2, <1>3, <1>4, <1>5, <1>6, <1>7, <1>8, ExecIsCharge,
       ExecAnswerLostIsCharge, VerdictIsPhase DEF Next, Middleware

-----------------------------------------------------------------------------
(***************************************************************************)
(* A request is counted once by each counter, and by the map of the        *)
(* process last.                                                           *)
(***************************************************************************)
\* No counter has counted a request that is about to ask it, nor in a window or
\* a life to come.
ChargesAreDone ==
    /\ IsFiniteSet(charges)
    /\ \A c \in charges : /\ phase[c.request] \notin {"idle", "exec"}
                          /\ c.by = "local" => /\ phase[c.request] # "local"
                                               /\ c.window <= now
                          /\ c.life <= lives

Entry(r, by, window) == [request |-> r, key |-> redisKey[r].key, by |-> by,
                         window |-> window, life |-> lives]

LEMMA ChargeIsNew ==
    ASSUME Basics, ChargesAreDone, NEW r \in Reqs, NEW by, NEW window,
           phase[r] = "exec" \/ (phase[r] = "local" /\ by = "local"),
           Charge(r, by, window)
    PROVE  /\ charges' = charges \cup {Entry(r, by, window)}
           /\ Entry(r, by, window) \notin charges
           /\ \A c \in charges : c.request = r => phase[r] = "local" /\ c.by # by
<1>1. charges' = charges \cup {Entry(r, by, window)}
    BY DEF Charge, Entry
<1>2. \A c \in charges : c.request = r => phase[r] = "local" /\ c.by # by
    BY DEF ChargesAreDone
<1>3. Entry(r, by, window).request = r /\ Entry(r, by, window).by = by
    BY DEF Entry
<1>4. QED
    BY <1>1, <1>2, <1>3

\* The steps, as far as counting goes: one of the two counters counts a request
\* and answers it, or nothing is counted and no request answered.
NoCharge ==
    /\ UNCHANGED charges
    /\ \A r \in Reqs : \/ phase'[r] = phase[r]
                       \/ phase[r] = "idle" /\ phase'[r] = "exec"
                       \/ phase[r] = "exec" /\ phase'[r] = "local"
                       \/ phase[r] \in {"exec", "local"} /\ phase'[r] = "lost"
    /\ lives' >= lives /\ now' >= now
    /\ UNCHANGED <<now, local, lives>> \/ Tick \/ Restart
    /\ UNCHANGED counters \/ Expire

LEMMA Steps ==
    ASSUME Basics, [Next]_vars
    PROVE  \/ \E r \in Reqs : \/ RedisCharge(r, Verdict(NextCount(r)))
                             \/ RedisCharge(r, "local")
                             \/ IncrementLocal(r)
           \/ NoCharge
<1>1. now \in Nat /\ lives \in Nat
    BY BoundsAssumption DEF Basics, TypeOK, Windows
<1>2. ASSUME NEW r \in Reqs, Arrive(r) \/ ExecFails(r) PROVE NoCharge
    BY <1>1, <1>2 DEF Arrive, ExecFails, NoCharge, Basics, TypeOK
<1>3. CASE Restart
    BY <1>1, <1>3 DEF Restart, NoCharge
<1>4. CASE Tick \/ Expire \/ Quiescent \/ UNCHANGED vars
    BY <1>1, <1>4 DEF Tick, Expire, Quiescent, vars, NoCharge
<1>5. QED
    BY <1>2, <1>3, <1>4, ExecIsCharge, ExecAnswerLostIsCharge DEF Next, Middleware

LEMMA ChargesAreDoneStep ==
    Basics /\ ChargesAreDone /\ [Next]_vars => ChargesAreDone'
<1> SUFFICES ASSUME Basics, ChargesAreDone, [Next]_vars PROVE ChargesAreDone'
    OBVIOUS
<1>1. /\ now \in Nat /\ lives \in Nat
      /\ \A c \in charges : /\ c.request \in Reqs /\ c.window \in Nat
                             /\ c.life \in Nat
    BY BoundsAssumption DEF Basics, TypeOK, Windows
<1>2. ASSUME NEW r \in Reqs, NEW next \in {"local", "admitted", "rejected"},
             RedisCharge(r, next)
      PROVE  ChargesAreDone'
  <2> DEFINE new == Entry(r, "redis", redisKey[r].window)
  <2>1. /\ charges' = charges \cup {new}
        /\ \A c \in charges : c.request # r
      BY <1>2, ChargeIsNew DEF RedisCharge
  <2>2. IsFiniteSet(charges')
      BY <2>1, FS_AddElement DEF ChargesAreDone
  <2>3. new.request = r /\ new.by = "redis" /\ new.life = lives
      BY DEF Entry
  <2>4. /\ phase'[r] = next /\ \A q \in Reqs \ {r} : phase'[q] = phase[q]
        /\ UNCHANGED <<now, lives>>
      BY <1>2 DEF RedisCharge, Basics, TypeOK
  <2> HIDE DEF new
  <2>5. QED
      BY <1>1, <2>1, <2>2, <2>3, <2>4 DEF ChargesAreDone
<1>3. ASSUME NEW r \in Reqs, IncrementLocal(r) PROVE ChargesAreDone'
  <2> DEFINE new == Entry(r, "local", now)
  <2>1. charges' = charges \cup {new}
      BY <1>3, ChargeIsNew DEF IncrementLocal
  <2>2. IsFiniteSet(charges')
      BY <2>1, FS_AddElement DEF ChargesAreDone
  <2>3. new.request = r /\ new.by = "local" /\ new.life = lives /\ new.window = now
      BY DEF Entry
  <2>4. /\ phase'[r] \in {"admitted", "rejected"}
        /\ \A q \in Reqs \ {r} : phase'[q] = phase[q]
        /\ UNCHANGED <<now, lives>>
      BY <1>3, VerdictIsPhase DEF IncrementLocal, Basics, TypeOK
  <2> HIDE DEF new
  <2>5. QED
      BY <1>1, <2>1, <2>2, <2>3, <2>4 DEF ChargesAreDone
<1>4. CASE NoCharge
  <2>1. \A c \in charges : /\ c.window <= now => c.window <= now'
                           /\ c.life <= lives => c.life <= lives'
    <3>1. now' \in Nat /\ lives' \in Nat
        BY BasicsStep, BoundsAssumption DEF Basics, TypeOK, Windows
    <3>2. QED
        BY <1>1, <1>4, <3>1 DEF NoCharge
  <2>2. QED
      BY <1>1, <1>4, <2>1 DEF NoCharge, ChargesAreDone
<1>5. QED
    BY <1>2, <1>3, <1>4, Steps, VerdictIsPhase

-----------------------------------------------------------------------------
(***************************************************************************)
(* The counters hold the number of their charges while it matters.         *)
(***************************************************************************)
\* What one life of the process counted by itself.
LifeCharges(k, w, life) == {c \in ChargesOf("local", k, w) : c.life = life}

LocalCount(k) ==
    IF k \in DOMAIN local /\ local[k].window = now THEN local[k].count ELSE 0

\* Redis forgets a counter only when no pipeline of its window runs any more, and
\* the map only buckets of earlier windows; the next life starts from nothing.
RedisCounts ==
    \A w \in Windows, k \in Keys :
        \/ now >= w + 2
        \/ counters[w][k].count = Cardinality(ChargesOf("redis", k, w))

LocalCounts ==
    \A k \in Keys : LocalCount(k) = Cardinality(LifeCharges(k, now, lives))

Counting == Basics /\ ChargesAreDone /\ RedisCounts /\ LocalCounts

LEMMA ChargesAreFinite ==
    ASSUME ChargesAreDone
    PROVE  /\ \A by, k, w : IsFiniteSet(ChargesOf(by, k, w))
           /\ \A by, k, w : Cardinality(ChargesOf(by, k, w)) \in Nat
           /\ \A k, w, life : IsFiniteSet(LifeCharges(k, w, life))
           /\ \A k, w, life : Cardinality(LifeCharges(k, w, life)) \in Nat
<1>1. \A by, k, w : ChargesOf(by, k, w) \subseteq charges
    BY DEF ChargesOf
<1>2. \A k, w, life : LifeCharges(k, w, life) \subseteq charges
    BY <1>1 DEF LifeCharges
<1>3. \A T : T \subseteq charges => IsFiniteSet(T) /\ Cardinality(T) \in Nat
    BY FS_Subset, FS_CardinalityType DEF ChargesAreDone
<1>4. QED
    BY <1>1, <1>2, <1>3

\* A new charge is one of exactly one counter.
LEMMA OneChargeMore ==
    ASSUME NEW r, NEW by, NEW window, charges' = charges \cup {Entry(r, by, window)}
    PROVE  LET new == Entry(r, by, window)
           IN  /\ \A b, k, w :
                    ChargesOf(b, k, w)' =
                      IF b = by /\ k = redisKey[r].key /\ w = window
                      THEN ChargesOf(b, k, w) \cup {new} ELSE ChargesOf(b, k, w)
               /\ \A k, w, life :
                    LifeCharges(k, w, life)' =
                      IF by = "local" /\ k = redisKey[r].key /\ w = window
                           /\ life = lives
                      THEN LifeCharges(k, w, life) \cup {new}
                      ELSE LifeCharges(k, w, life)
<1> DEFINE new == Entry(r, by, window)
<1>1. /\ new.by = by /\ new.key = redisKey[r].key /\ new.window = window
      /\ new.life = lives
    BY DEF Entry
<1> HIDE DEF new
<1>2. charges' = charges \cup {new}
    BY DEF new
<1>3. ASSUME NEW b, NEW k, NEW w
      PROVE  ChargesOf(b, k, w)' =
               IF b = by /\ k = redisKey[r].key /\ w = window
               THEN ChargesOf(b, k, w) \cup {new} ELSE ChargesOf(b, k, w)
    BY <1>1, <1>2 DEF ChargesOf
<1>4. ASSUME NEW k, NEW w, NEW life
      PROVE  LifeCharges(k, w, life)' =
               IF by = "local" /\ k = redisKey[r].key /\ w = window /\ life = lives
               THEN LifeCharges(k, w, life) \cup {new} ELSE LifeCharges(k, w, life)
    BY <1>1, <1>2 DEF LifeCharges, ChargesOf
<1>5. QED
    BY <1>3, <1>4 DEF new

LEMMA SameCharges ==
    ASSUME UNCHANGED charges
    PROVE  /\ \A by, k, w : ChargesOf(by, k, w)' = ChargesOf(by, k, w)
           /\ \A k, w, life : LifeCharges(k, w, life)' = LifeCharges(k, w, life)
BY DEF ChargesOf, LifeCharges

\* The count an INCR returns is the number of requests the counter has counted.
LEMMA RedisChargeCounts ==
    ASSUME Counting, NEW r \in Reqs, NEW next, RedisCharge(r, next),
           NEW k, k = redisKey[r].key, NEW w, w = redisKey[r].window
    PROVE  LET new == Entry(r, "redis", w)
           IN  /\ k \in Keys /\ w \in Windows
               /\ charges' = charges \cup {new} /\ new \notin charges
               /\ ChargesOf("redis", k, w)' = ChargesOf("redis", k, w) \cup {new}
               /\ Cardinality(ChargesOf("redis", k, w)') = NextCount(r)
               /\ counters'[w][k].count = NextCount(r)
<1> DEFINE new == Entry(r, "redis", w)
<1>1. phase[r] = "exec" /\ counters' = Counted(r) /\ Charge(r, "redis", w)
    BY DEF RedisCharge
<1>2. /\ k \in Keys /\ w \in Windows /\ now \in Nat /\ w \in Nat
      /\ ~(now >= w + 2)
    BY <1>1, KeyIsDue, BoundsAssumption DEF Counting, RedisCharge, InTime, Windows
<1>3. charges' = charges \cup {new} /\ new \notin charges
    BY <1>1, ChargeIsNew DEF Counting
<1>4. ChargesOf("redis", k, w)' = ChargesOf("redis", k, w) \cup {new}
    BY <1>3, OneChargeMore
<1>5. new \notin ChargesOf("redis", k, w)
    BY <1>3 DEF ChargesOf
<1>6. counters[w][k].count = Cardinality(ChargesOf("redis", k, w))
    BY <1>2 DEF Counting, RedisCounts
<1>7. Cardinality(ChargesOf("redis", k, w)') = NextCount(r)
  <2> HIDE DEF new
  <2>1. Cardinality(ChargesOf("redis", k, w) \cup {new})
          = Cardinality(ChargesOf("redis", k, w)) + 1
      BY <1>5, ChargesAreFinite, FS_AddElement DEF Counting
  <2>2. QED
      BY <1>4, <1>6, <2>1 DEF NextCount
<1>8. counters'[w][k].count = NextCount(r)
  <2>1. counters'[w][k] = [count |-> NextCount(r), touched |-> now]
      BY <1>1, CountedEffect DEF Counting
  <2>2. QED
      BY <2>1
<1>9. QED
    BY <1>2, <1>3, <1>4, <1>7, <1>8

\* The count a bucket is left with is the number of requests the process has
\* counted by itself in this window.
LEMMA LocalChargeCounts ==
    ASSUME Counting, NEW r \in Reqs, IncrementLocal(r),
           NEW k, k = redisKey[r].key, NEW w, w = now, NEW life, life = lives
    PROVE  LET new == Entry(r, "local", w)
           IN  /\ k \in Keys /\ w \in Windows /\ life \in 0 .. MaxRestarts
               /\ charges' = charges \cup {new} /\ new \notin charges
               /\ LifeCharges(k, w, life)' =
                    LifeCharges(k, w, life) \cup {new}
               /\ Cardinality(LifeCharges(k, w, life)') = local'[k].count
               /\ LocalCount(k)' = local'[k].count
               /\ \A j \in Keys \ {k} : LocalCount(j)' = LocalCount(j)
<1> DEFINE new == Entry(r, "local", w)
           buckets == Cleaned(local)
<1>1. phase[r] = "local" /\ Charge(r, "local", w) /\ UNCHANGED now
    BY DEF IncrementLocal
<1>2. k \in Keys /\ w \in Windows /\ life \in 0 .. MaxRestarts
    BY <1>1, KeyIsDue DEF Counting, Basics, TypeOK
<1>3. charges' = charges \cup {new} /\ new \notin charges
    BY <1>1, ChargeIsNew DEF Counting
<1>4. LifeCharges(k, w, life)' = LifeCharges(k, w, life) \cup {new}
    BY <1>3, OneChargeMore
<1>5. /\ DOMAIN buckets \subseteq DOMAIN local
      /\ \A j \in DOMAIN local : local[j].window = now => j \in DOMAIN buckets
      /\ \A j \in DOMAIN buckets : buckets[j] = local[j]
      /\ DOMAIN local' = DOMAIN buckets \cup {k}
      /\ local'[k] = Bucket(buckets, k)
      /\ \A j \in DOMAIN buckets \ {k} : local'[j] = local[j]
    BY LocalEffect DEF Counting
<1>6. Bucket(buckets, k) = [window |-> now, count |-> LocalCount(k) + 1]
  <2>1. \A j \in DOMAIN local : local[j].count \in Nat
      BY DEF Counting, Basics, TypeOK
  <2> HIDE DEF buckets
  <2>2. QED
      BY <1>5, <2>1 DEF Bucket, LocalCount
<1>7. new \notin LifeCharges(k, w, life)
    BY <1>3 DEF LifeCharges, ChargesOf
<1>8. LocalCount(k) = Cardinality(LifeCharges(k, w, life))
    BY <1>2 DEF Counting, LocalCounts
<1> HIDE DEF new, buckets
<1>9. local'[k].count = LocalCount(k) + 1 /\ local'[k].window = now
    BY <1>5, <1>6
<1>10. Cardinality(LifeCharges(k, w, life)') = local'[k].count
  <2>1. Cardinality(LifeCharges(k, w, life) \cup {new})
          = Cardinality(LifeCharges(k, w, life)) + 1
      BY <1>7, ChargesAreFinite, FS_AddElement DEF Counting
  <2>2. QED
      BY <1>4, <1>8, <1>9, <2>1
<1>11. LocalCount(k)' = local'[k].count
    BY <1>1, <1>5, <1>9 DEF LocalCount
<1>12. \A j \in Keys \ {k} : LocalCount(j)' = LocalCount(j)
    BY <1>1, <1>5 DEF LocalCount
<1>13. QED
    BY <1>2, <1>3, <1>4, <1>10, <1>11, <1>12 DEF new

LEMMA RedisCountsStep == Counting /\ [Next]_vars => RedisCounts'
<1> SUFFICES ASSUME Counting, [Next]_vars, NEW w \in Windows, NEW k \in Keys
             PROVE  \/ now' >= w + 2
                    \/ counters'[w][k].count
                         = Cardinality(ChargesOf("redis", k, w)')
    BY DEF RedisCounts
<1>1. w \in Nat /\ now \in Nat /\ now' \in Nat /\ now' >= now
  <2>1. Basics'
      BY BasicsStep DEF Counting
  <2>2. w \in Nat /\ now \in Nat /\ now' \in Nat
      BY <2>1, BoundsAssumption DEF Counting, Basics, TypeOK, Windows
  <2>3. now' = now \/ now' >= now
      BY Steps DEF Counting, NoCharge, RedisCharge, IncrementLocal
  <2>4. QED
      BY <2>2, <2>3
<1>2. now >= w + 2 \/ counters[w][k].count = Cardinality(ChargesOf("redis", k, w))
    BY DEF Counting, RedisCounts
<1>3. ASSUME NEW r \in Reqs, NEW next, RedisCharge(r, next)
      PROVE  \/ now' >= w + 2
             \/ counters'[w][k].count = Cardinality(ChargesOf("redis", k, w)')
  <2>1. CASE k = redisKey[r].key /\ w = redisKey[r].window
      BY <1>3, <2>1, RedisChargeCounts
  <2>2. CASE ~(k = redisKey[r].key /\ w = redisKey[r].window)
    <3>1. charges' = charges \cup {Entry(r, "redis", redisKey[r].window)}
        BY <1>3 DEF RedisCharge, Charge, Entry
    <3>2. ChargesOf("redis", k, w)' = ChargesOf("redis", k, w)
        BY <2>2, <3>1, OneChargeMore
    <3>3. counters'[w][k] = counters[w][k]
        BY <1>3, <2>2, CountedEffect DEF RedisCharge, Counting
    <3>4. UNCHANGED now
        BY <1>3 DEF RedisCharge
    <3>5. QED
        BY <1>2, <3>2, <3>3, <3>4
  <2>3. QED
      BY <2>1, <2>2
<1>4. ASSUME NEW r \in Reqs, IncrementLocal(r)
      PROVE  \/ now' >= w + 2
             \/ counters'[w][k].count = Cardinality(ChargesOf("redis", k, w)')
  <2>1. charges' = charges \cup {Entry(r, "local", now)}
      BY <1>4 DEF IncrementLocal, Charge, Entry
  <2>2. ChargesOf("redis", k, w)' = ChargesOf("redis", k, w)
      BY <2>1, OneChargeMore
  <2>3. UNCHANGED <<counters, now>>
      BY <1>4 DEF IncrementLocal
  <2>4. QED
      BY <1>2, <2>2, <2>3
<1>5. CASE NoCharge
  <2>1. ChargesOf("redis", k, w)' = ChargesOf("redis", k, w)
      BY <1>5, SameCharges DEF NoCharge
  <2>2. CASE UNCHANGED counters
      BY <1>1, <1>2, <2>1, <2>2
  <2>3. CASE Expire
    <3>1. PICK v \in Windows, j \in Keys :
            /\ counters[v][j].count > 0 /\ Expired(counters[v][j])
            /\ counters' = [counters EXCEPT ![v] = [counters[v] EXCEPT ![j] = NoCount]]
        BY <2>3 DEF Expire
    <3>2. CASE v = w /\ j = k
      <4>1. /\ counters[w][k].touched >= w
            /\ counters[w][k].touched \in Nat
          BY <3>1, <3>2, BoundsAssumption
             DEF Counting, Basics, KeysAreDue, TypeOK, Windows
      <4>2. now >= counters[w][k].touched + 2
          BY <3>1, <3>2 DEF Expired
      <4>3. QED
          BY <1>1, <4>1, <4>2
    <3>3. CASE v # w \/ j # k
      <4>1. counters'[w][k] = counters[w][k]
          BY <3>1, <3>3 DEF Counting, Basics, TypeOK
      <4>2. QED
          BY <1>1, <1>2, <2>1, <4>1
    <3>4. QED
        BY <3>2, <3>3
  <2>4. QED
      BY <1>5, <2>2, <2>3 DEF NoCharge
<1>6. QED
    BY <1>3, <1>4, <1>5, Steps DEF Counting

LEMMA LocalCountsStep == Counting /\ [Next]_vars => LocalCounts'
<1> SUFFICES ASSUME Counting, [Next]_vars, NEW k \in Keys
             PROVE  LocalCount(k)' = Cardinality(LifeCharges(k, now, lives)')
    BY DEF LocalCounts
<1>1. LocalCount(k) = Cardinality(LifeCharges(k, now, lives))
    BY DEF Counting, LocalCounts
<1>2. now \in Nat /\ lives \in Nat
    BY BoundsAssumption DEF Counting, Basics, TypeOK, Windows
<1>3. ASSUME NEW r \in Reqs, NEW next, RedisCharge(r, next)
      PROVE  LocalCount(k)' = Cardinality(LifeCharges(k, now, lives)')
  <2>1. charges' = charges \cup {Entry(r, "redis", redisKey[r].window)}
        /\ UNCHANGED <<now, local, lives>>
      BY <1>3 DEF RedisCharge, Charge, Entry
  <2>2. PICK w, life : w = now /\ life = lives
      OBVIOUS
  <2>3. LifeCharges(k, w, life)' = LifeCharges(k, w, life)
      BY <2>1, OneChargeMore
  <2>4. LifeCharges(k, now, lives)' = LifeCharges(k, now, lives)
      BY <2>1, <2>2, <2>3 DEF LifeCharges, ChargesOf
  <2>5. LocalCount(k)' = LocalCount(k)
      BY <2>1 DEF LocalCount
  <2>6. QED
      BY <1>1, <2>4, <2>5
<1>4. ASSUME NEW r \in Reqs, IncrementLocal(r)
      PROVE  LocalCount(k)' = Cardinality(LifeCharges(k, now, lives)')
  <2>1. UNCHANGED <<now, lives>>
      BY <1>4 DEF IncrementLocal
  <2>2. PICK w, life : w = now /\ life = lives
      OBVIOUS
  <2>3. CASE k = redisKey[r].key
    <3>1. /\ Cardinality(LifeCharges(k, w, life)') = local'[k].count
          /\ LocalCount(k)' = local'[k].count
        BY <1>4, <2>2, <2>3, LocalChargeCounts
    <3>2. LifeCharges(k, now, lives)' = LifeCharges(k, w, life)'
        BY <2>1, <2>2 DEF LifeCharges, ChargesOf
    <3>3. QED
        BY <3>1, <3>2
  <2>4. CASE k # redisKey[r].key
    <3>1. charges' = charges \cup {Entry(r, "local", now)}
        BY <1>4 DEF IncrementLocal, Charge, Entry
    <3>2. LifeCharges(k, w, life)' = LifeCharges(k, w, life)
        BY <2>4, <3>1, OneChargeMore
    <3>3. PICK j : j = redisKey[r].key
        OBVIOUS
    <3>4. LocalCount(k)' = LocalCount(k)
        BY <1>4, <2>2, <2>4, <3>3, LocalChargeCounts
    <3>5. QED
        BY <1>1, <2>1, <2>2, <3>2, <3>4 DEF LifeCharges, ChargesOf
  <2>5. QED
      BY <2>3, <2>4
<1>5. CASE NoCharge /\ UNCHANGED <<now, local, lives>>
  <2>1. LocalCount(k)' = LocalCount(k)
      BY <1>5 DEF LocalCount
  <2>2. QED
      BY <1>1, <1>5, <2>1 DEF NoCharge, LifeCharges, ChargesOf
<1>6. CASE Tick
  <2>1. now' = now + 1 /\ UNCHANGED <<local, lives, charges>>
      BY <1>6 DEF Tick
  <2>2. LifeCharges(k, now, lives)' = {}
      BY <1>2, <2>1 DEF LifeCharges, ChargesOf, Counting, ChargesAreDone
  <2>3. \A j \in DOMAIN local : local[j].window # now + 1
      BY <1>2 DEF Counting, Basics, KeysAreDue
  <2>4. LocalCount(k)' = 0
      BY <2>1, <2>3 DEF LocalCount
  <2>5. QED
      BY <2>2, <2>4, FS_EmptySet
<1>7. CASE Restart
  <2>1. lives' = lives + 1 /\ DOMAIN local' = {} /\ UNCHANGED <<now, charges>>
      BY <1>7 DEF Restart
  <2>2. LifeCharges(k, now, lives)' = {}
      BY <1>2, <2>1 DEF LifeCharges, ChargesOf, Counting, ChargesAreDone, Basics, TypeOK
  <2>3. LocalCount(k)' = 0
      BY <2>1 DEF LocalCount
  <2>4. QED
      BY <2>2, <2>3, FS_EmptySet
<1>8. QED
    BY <1>3, <1>4, <1>5, <1>6, <1>7, Steps DEF NoCharge, Counting

LEMMA CountingIsInvariant == Spec => []Counting
<1>1. Init => Counting
  <2> SUFFICES ASSUME Init PROVE Counting
      OBVIOUS
  <2>1. charges = {} /\ DOMAIN local = {}
      BY DEF Init
  <2>2. \A by, k, w : ChargesOf(by, k, w) = {}
      BY <2>1 DEF ChargesOf
  <2>3. \A k, w, life : LifeCharges(k, w, life) = {}
      BY <2>2 DEF LifeCharges
  <2>4. ChargesAreDone
      BY <2>1, FS_EmptySet DEF ChargesAreDone
  <2>5. RedisCounts
      BY <2>2, FS_EmptySet DEF Init, RedisCounts, NoCount
  <2>6. LocalCounts
      BY <2>1, <2>3, FS_EmptySet DEF LocalCounts, LocalCount
  <2>7. QED
      BY <2>4, <2>5, <2>6, InitIsBasic DEF Counting
<1>2. Counting /\ [Next]_vars => Counting'
    BY BasicsStep, ChargesAreDoneStep, RedisCountsStep, LocalCountsStep DEF Counting
<1>3. QED
    BY <1>1, <1>2, PTL DEF Spec

-----------------------------------------------------------------------------
(***************************************************************************)
(* Who was admitted and who was turned away.                               *)
(***************************************************************************)
\* A charge that begins to decide with a verdict is the new one, with the
\* verdict of this step: what was decided before stays with its counter.
LEMMA NothingElseDecided ==
    ASSUME Counting, NoCharge, NEW by, NEW k, NEW w, NEW verdict \in {"admitted", "rejected"}
    PROVE  Decided(by, k, w, verdict)' \subseteq Decided(by, k, w, verdict)
<1> SUFFICES ASSUME NEW c \in Decided(by, k, w, verdict)'
             PROVE  c \in Decided(by, k, w, verdict)
    OBVIOUS
<1>1. /\ c \in charges /\ c.by = by /\ c.key = k /\ c.window = w
      /\ DecidedBy(c.request)' = by /\ phase'[c.request] = verdict
      /\ c.request \in Reqs /\ UNCHANGED charges
    BY DEF Decided, ChargesOf, NoCharge, Counting, Basics, TypeOK
<1>2. DecidedBy(c.request)' = DecidedBy(c.request)
    BY <1>1 DEF DecidedBy
<1>3. phase'[c.request] = phase[c.request]
    BY <1>1 DEF NoCharge
<1>4. QED
    BY <1>1, <1>2, <1>3 DEF Decided, ChargesOf

LEMMA OneMoreDecided ==
    ASSUME Counting, NEW r \in Reqs, NEW b, NEW window, NEW next,
           Charge(r, b, window), phase' = [phase EXCEPT ![r] = next],
           phase[r] = "exec" \/ (phase[r] = "local" /\ b = "local"),
           NEW by, NEW k, NEW w, NEW verdict \in {"admitted", "rejected"}
    PROVE  LET new == Entry(r, b, window)
           IN  /\ Decided(by, k, w, verdict)'
                    \subseteq Decided(by, k, w, verdict) \cup {new}
               /\ new \in Decided(by, k, w, verdict)' =>
                    /\ by = b /\ k = redisKey[r].key /\ w = window
                    /\ verdict = next
<1> DEFINE new == Entry(r, b, window)
<1>1. /\ charges' = charges \cup {new}
      /\ \A c \in charges : c.request = r => phase[r] = "local" /\ c.by # b
    BY ChargeIsNew DEF Counting
<1>2. /\ new.request = r /\ new.by = b /\ new.key = redisKey[r].key
      /\ new.window = window
    BY DEF Entry
<1>3. /\ phase'[r] = next
      /\ \A q \in Reqs \ {r} : phase'[q] = phase[q]
    BY DEF Counting, Basics, TypeOK
<1> HIDE DEF new
<1>4. ASSUME NEW c \in Decided(by, k, w, verdict)', c # new
      PROVE  c \in Decided(by, k, w, verdict)
  <2>1. /\ c \in charges /\ c.by = by /\ c.key = k /\ c.window = w
        /\ DecidedBy(c.request)' = by /\ phase'[c.request] = verdict
      BY <1>1, <1>4 DEF Decided, ChargesOf
  <2>2. c.request \in Reqs /\ c.by \in {"redis", "local"}
      BY <2>1 DEF Counting, Basics, TypeOK
  <2>3. c.request # r
    <3>1. SUFFICES ASSUME c.request = r PROVE FALSE
        OBVIOUS
    <3>2. b = "local" /\ by = "redis"
        BY <1>1, <2>1, <2>2, <3>1
    <3>3. DecidedBy(r)' = "local"
        BY <1>1, <1>2, <3>2 DEF DecidedBy
    <3>4. QED
        BY <2>1, <3>1, <3>2, <3>3
  <2>4. phase'[c.request] = phase[c.request]
      BY <1>3, <2>2, <2>3
  <2>5. DecidedBy(c.request)' = DecidedBy(c.request)
    <3>1. \A d \in charges' : d.request = c.request => d \in charges
        BY <1>1, <1>2, <2>3
    <3>2. charges \subseteq charges'
        BY <1>1
    <3>3. QED
        BY <3>1, <3>2 DEF DecidedBy
  <2>6. QED
      BY <2>1, <2>4, <2>5 DEF Decided, ChargesOf
<1>5. ASSUME new \in Decided(by, k, w, verdict)'
      PROVE  by = b /\ k = redisKey[r].key /\ w = window /\ verdict = next
    BY <1>2, <1>3, <1>5 DEF Decided, ChargesOf
<1>6. QED
    BY <1>4, <1>5 DEF new

LEMMA DecidedIsFinite ==
    ASSUME ChargesAreDone, NEW by, NEW k, NEW w, NEW verdict
    PROVE  /\ Decided(by, k, w, verdict) \subseteq ChargesOf(by, k, w)
           /\ IsFiniteSet(Decided(by, k, w, verdict))
           /\ Cardinality(Decided(by, k, w, verdict)) \in Nat
<1>1. Decided(by, k, w, verdict) \subseteq ChargesOf(by, k, w)
    BY DEF Decided
<1>2. IsFiniteSet(ChargesOf(by, k, w))
    BY ChargesAreFinite
<1>3. QED
    BY <1>1, <1>2, FS_Subset, FS_CardinalityType

\* A part of what was within the limit is within the limit.
LEMMA WithinLimit ==
    ASSUME NEW S, NEW T, T \subseteq S, IsFiniteSet(S), Cardinality(S) <= Limit
    PROVE  Cardinality(T) <= Limit
<1>1. /\ IsFiniteSet(T) /\ Cardinality(T) <= Cardinality(S)
    BY FS_Subset
<1>2. Cardinality(S) \in Nat /\ Cardinality(T) \in Nat /\ Limit \in Nat
    BY <1>1, FS_CardinalityType, LimitAssumption
<1>3. QED
    BY <1>1, <1>2

LEMMA RedisBudgetStep ==
    Counting /\ Counting' /\ RedisBudget /\ [Next]_vars => RedisBudget'
<1> SUFFICES ASSUME Counting, Counting', RedisBudget, [Next]_vars,
                    NEW k \in Keys, NEW w \in Windows
             PROVE  Cardinality(Decided("redis", k, w, "admitted")') <= Limit
    BY DEF RedisBudget
<1> DEFINE D == Decided("redis", k, w, "admitted")
<1>1. ASSUME D' \subseteq D PROVE Cardinality(D') <= Limit
    BY <1>1, DecidedIsFinite, WithinLimit DEF RedisBudget, Counting
<1>2. ASSUME NEW r \in Reqs, NEW next, RedisCharge(r, next),
             next = "local" \/ next = Verdict(NextCount(r))
      PROVE  Cardinality(D') <= Limit
  <2>0. PICK window : window = redisKey[r].window
      OBVIOUS
  <2> DEFINE new == Entry(r, "redis", window)
  <2>1. /\ D' \subseteq D \cup {new}
        /\ new \in D' => /\ k = redisKey[r].key /\ w = window
                         /\ "admitted" = next
    <3>1. /\ Charge(r, "redis", window) /\ phase[r] = "exec"
          /\ phase' = [phase EXCEPT ![r] = next]
        BY <1>2, <2>0 DEF RedisCharge
    <3> HIDE DEF D
    <3>2. D' \subseteq D \cup {new}
        BY <3>1, OneMoreDecided DEF D
    <3>3. new \in D' => k = redisKey[r].key /\ w = window /\ "admitted" = next
      <4>1. /\ new.request = r /\ new.key = redisKey[r].key
            /\ new.window = window
          BY DEF Entry
      <4>2. phase'[r] = next
          BY <3>1 DEF Counting, Basics, TypeOK
      <4> HIDE DEF new
      <4>3. QED
          BY <4>1, <4>2 DEF D, Decided, ChargesOf
    <3>4. QED
        BY <3>2, <3>3
  <2>2. CASE new \in D'
    <3>1. Cardinality(ChargesOf("redis", k, w)') = NextCount(r)
        BY <1>2, <2>0, <2>1, <2>2, RedisChargeCounts
    <3>2. next = "admitted"
        BY <2>1, <2>2
    <3>3. ~(NextCount(r) > Limit)
        BY <1>2, <3>2 DEF Verdict
    <3>4. /\ D' \subseteq ChargesOf("redis", k, w)'
          /\ IsFiniteSet(ChargesOf("redis", k, w)')
          /\ Cardinality(ChargesOf("redis", k, w)') \in Nat
      <4>1. ChargesOf("redis", k, w)' \subseteq charges' /\ IsFiniteSet(charges')
          BY DEF ChargesOf, Counting, ChargesAreDone
      <4>2. D' \subseteq ChargesOf("redis", k, w)'
          BY DEF Decided
      <4>3. QED
          BY <4>1, <4>2, FS_Subset, FS_CardinalityType
    <3>5. Cardinality(ChargesOf("redis", k, w)') <= Limit
        BY <3>1, <3>3, <3>4, LimitAssumption
    <3>6. QED
        BY <3>4, <3>5, WithinLimit
  <2>3. CASE new \notin D'
      BY <1>1, <2>1, <2>3
  <2>4. QED
      BY <2>2, <2>3
<1>3. ASSUME NEW r \in Reqs, IncrementLocal(r) PROVE Cardinality(D') <= Limit
  <2>1. PICK window, next : /\ window = now
                            /\ phase' = [phase EXCEPT ![r] = next]
      BY <1>3 DEF IncrementLocal
  <2>2. Charge(r, "local", window) /\ phase[r] = "local"
      BY <1>3, <2>1 DEF IncrementLocal
  <2> DEFINE new == Entry(r, "local", window)
  <2>3. D' \subseteq D \cup {new} /\ new \notin D'
    <3>1. new.by = "local"
        BY DEF Entry
    <3>2. new \notin D'
        BY <3>1 DEF Decided, ChargesOf
    <3>3. D' \subseteq D \cup {new}
        BY <2>1, <2>2, OneMoreDecided
    <3>4. QED
        BY <3>2, <3>3
  <2> HIDE DEF D, new
  <2>4. QED
      BY <1>1, <2>3
<1>4. CASE NoCharge
    BY <1>1, <1>4, NothingElseDecided
<1>5. QED
    BY <1>2, <1>3, <1>4, Steps DEF Counting

LEMMA LocalBudgetStep ==
    Counting /\ Counting' /\ LocalBudget /\ [Next]_vars => LocalBudget'
<1> SUFFICES ASSUME Counting, Counting', LocalBudget, [Next]_vars,
                    NEW k \in Keys, NEW w \in Windows, NEW life \in 0 .. MaxRestarts
             PROVE  Cardinality({c \in Decided("local", k, w, "admitted")' :
                                   c.life = life}) <= Limit
    BY DEF LocalBudget
<1> DEFINE D == Decided("local", k, w, "admitted")
           mine(S) == {c \in S : c.life = life}
<1>1. ASSUME mine(D') \subseteq mine(D) PROVE Cardinality(mine(D')) <= Limit
  <2>1. IsFiniteSet(mine(D))
      BY DecidedIsFinite, FS_Subset DEF Counting
  <2>2. Cardinality(mine(D)) <= Limit
      BY DEF LocalBudget
  <2>3. QED
      BY <1>1, <2>1, <2>2, WithinLimit
<1>2. ASSUME NEW r \in Reqs, NEW next, RedisCharge(r, next)
      PROVE  Cardinality(mine(D')) <= Limit
  <2>1. PICK window : window = redisKey[r].window
      OBVIOUS
  <2>2. /\ Charge(r, "redis", window) /\ phase[r] = "exec"
        /\ phase' = [phase EXCEPT ![r] = next]
      BY <1>2, <2>1 DEF RedisCharge
  <2>3. D' \subseteq D \cup {Entry(r, "redis", window)}
      BY <2>2, OneMoreDecided
  <2>4. Entry(r, "redis", window) \notin D'
      BY DEF Entry, Decided, ChargesOf
  <2> HIDE DEF D
  <2>5. QED
      BY <1>1, <2>3, <2>4
<1>3. ASSUME NEW r \in Reqs, IncrementLocal(r)
      PROVE  Cardinality(mine(D')) <= Limit
  <2>1. PICK window, key, next :
          /\ window = now /\ key = redisKey[r].key /\ next = Verdict(local'[key].count)
      OBVIOUS
  <2>2. /\ Charge(r, "local", window) /\ phase[r] = "local"
        /\ phase' = [phase EXCEPT ![r] = next]
      BY <1>3, <2>1 DEF IncrementLocal
  <2> DEFINE new == Entry(r, "local", window)
  <2>3. D' \subseteq D \cup {new}
      BY <2>2, OneMoreDecided
  <2>4. CASE new \in mine(D')
    <3>1. /\ new.request = r /\ new.key = key /\ new.window = window
          /\ new.life = lives
        BY <2>1 DEF Entry
    <3>2. phase'[r] = next
        BY <2>2 DEF Counting, Basics, TypeOK
    <3> HIDE DEF new
    <3>3. key = k /\ window = w /\ life = lives /\ next = "admitted"
        BY <2>4, <3>1, <3>2 DEF Decided, ChargesOf
    <3>4. Cardinality(LifeCharges(k, w, life)') = local'[k].count
      <4>1. k = redisKey[r].key /\ w = now /\ life = lives
          BY <2>1, <3>3
      <4>2. QED
          BY <1>3, <4>1, LocalChargeCounts
    <3>5. ~(local'[k].count > Limit)
        BY <2>1, <3>3 DEF Verdict
    <3>6. /\ mine(D') \subseteq LifeCharges(k, w, life)'
          /\ LifeCharges(k, w, life)' \subseteq charges' /\ IsFiniteSet(charges')
        BY DEF Decided, LifeCharges, ChargesOf, Counting, ChargesAreDone
    <3>7. /\ IsFiniteSet(LifeCharges(k, w, life)')
          /\ Cardinality(LifeCharges(k, w, life)') \in Nat
        BY <3>6, FS_Subset, FS_CardinalityType
    <3> HIDE DEF D, mine
    <3>8. Cardinality(LifeCharges(k, w, life)') <= Limit
        BY <3>4, <3>5, <3>7, LimitAssumption
    <3>9. QED
        BY <3>6, <3>7, <3>8, WithinLimit
  <2>5. CASE new \notin mine(D')
    <3> HIDE DEF D, new
    <3>1. QED
        BY <1>1, <2>3, <2>5
  <2>6. QED
      BY <2>4, <2>5
<1>4. CASE NoCharge
    BY <1>1, <1>4, NothingElseDecided
<1>5. QED
    BY <1>2, <1>3, <1>4, Steps DEF Counting

LEMMA RejectionsAreEarnedStep ==
    Counting /\ Counting' /\ RejectionsAreEarned /\ [Next]_vars
        => RejectionsAreEarned'
<1> SUFFICES ASSUME Counting, Counting', RejectionsAreEarned, [Next]_vars,
                    NEW by \in {"redis", "local"}, NEW k \in Keys, NEW w \in Windows,
                    Decided(by, k, w, "rejected")' # {}
             PROVE  Cardinality(ChargesOf(by, k, w)') > Limit
    BY DEF RejectionsAreEarned
<1> DEFINE D == Decided(by, k, w, "rejected")
           C == ChargesOf(by, k, w)
<1>1. /\ C' \subseteq charges' /\ IsFiniteSet(charges')
      /\ IsFiniteSet(C') /\ Cardinality(C') \in Nat /\ Limit \in Nat
    BY FS_Subset, FS_CardinalityType, LimitAssumption
       DEF ChargesOf, Counting, ChargesAreDone
<1>2. \A T \in SUBSET (C') :
        Cardinality(T) \in Nat /\ Cardinality(T) <= Cardinality(C')
    BY <1>1, FS_Subset, FS_CardinalityType
<1>3. ASSUME D' \subseteq D, charges \subseteq charges'
      PROVE  Cardinality(C') > Limit
  <2>1. C \in SUBSET (C')
      BY <1>3 DEF ChargesOf
  <2>2. Cardinality(C) > Limit
      BY <1>3 DEF RejectionsAreEarned
  <2> HIDE DEF C, D
  <2>3. QED
      BY <1>1, <1>2, <2>1, <2>2
<1>4. ASSUME NEW r \in Reqs, NEW next, RedisCharge(r, next),
             next = "local" \/ next = Verdict(NextCount(r))
      PROVE  Cardinality(C') > Limit
  <2>1. PICK window, key : window = redisKey[r].window /\ key = redisKey[r].key
      OBVIOUS
  <2>2. /\ Charge(r, "redis", window) /\ phase[r] = "exec"
        /\ phase' = [phase EXCEPT ![r] = next]
      BY <1>4, <2>1 DEF RedisCharge
  <2> DEFINE new == Entry(r, "redis", window)
  <2>3. D' \subseteq D \cup {new} /\ charges \subseteq charges'
      BY <2>2, OneMoreDecided DEF Charge
  <2>4. CASE new \in D'
    <3>1. /\ new.request = r /\ new.key = key /\ new.window = window
          /\ new.by = "redis"
        BY <2>1 DEF Entry
    <3>2. phase'[r] = next
        BY <2>2 DEF Counting, Basics, TypeOK
    <3> HIDE DEF new
    <3>3. key = k /\ window = w /\ by = "redis" /\ next = "rejected"
        BY <2>4, <3>1, <3>2 DEF Decided, ChargesOf
    <3>4. k = redisKey[r].key /\ w = redisKey[r].window
        BY <2>1, <3>3
    <3>5. Cardinality(ChargesOf("redis", k, w)') = NextCount(r)
        BY <1>4, <3>4, RedisChargeCounts
    <3>6. NextCount(r) > Limit
        BY <1>4, <3>3 DEF Verdict
    <3>7. QED
        BY <3>3, <3>5, <3>6
  <2>5. CASE new \notin D'
    <3> HIDE DEF D, new, C
    <3>1. QED
        BY <1>3, <2>3, <2>5
  <2>6. QED
      BY <2>4, <2>5
<1>5. ASSUME NEW r \in Reqs, IncrementLocal(r)
      PROVE  Cardinality(C') > Limit
  <2>1. PICK window, key, life, next :
          /\ window = now /\ key = redisKey[r].key /\ life = lives
          /\ next = Verdict(local'[key].count)
      OBVIOUS
  <2>2. /\ Charge(r, "local", window) /\ phase[r] = "local"
        /\ phase' = [phase EXCEPT ![r] = next]
      BY <1>5, <2>1 DEF IncrementLocal
  <2> DEFINE new == Entry(r, "local", window)
  <2>3. D' \subseteq D \cup {new} /\ charges \subseteq charges'
      BY <2>2, OneMoreDecided DEF Charge
  <2>4. CASE new \in D'
    <3>1. /\ new.request = r /\ new.key = key /\ new.window = window
          /\ new.by = "local"
        BY <2>1 DEF Entry
    <3>2. phase'[r] = next
        BY <2>2 DEF Counting, Basics, TypeOK
    <3> HIDE DEF new
    <3>3. key = k /\ window = w /\ by = "local" /\ next = "rejected"
        BY <2>4, <3>1, <3>2 DEF Decided, ChargesOf
    <3>4. Cardinality(LifeCharges(k, w, life)') = local'[k].count
      <4>1. k = redisKey[r].key /\ w = now /\ life = lives
          BY <2>1, <3>3
      <4>2. QED
          BY <1>5, <4>1, LocalChargeCounts
    <3>5. local'[k].count > Limit
        BY <2>1, <3>3 DEF Verdict
    <3>6. LifeCharges(k, w, life)' \in SUBSET (C')
        BY <3>3 DEF LifeCharges
    <3> HIDE DEF C, D
    <3>7. QED
        BY <1>1, <1>2, <3>4, <3>5, <3>6
  <2>5. CASE new \notin D'
    <3> HIDE DEF D, new, C
    <3>1. QED
        BY <1>3, <2>3, <2>5
  <2>6. QED
      BY <2>4, <2>5
<1>6. CASE NoCharge
  <2>1. D' \subseteq D /\ charges \subseteq charges'
      BY <1>6, NothingElseDecided DEF NoCharge
  <2>2. QED
      BY <1>3, <2>1
<1>7. QED
    BY <1>4, <1>5, <1>6, Steps DEF Counting

-----------------------------------------------------------------------------
(***************************************************************************)
(* The size of the map.                                                    *)
(***************************************************************************)
BucketsDropped == IsFiniteSet(DOMAIN local) /\ OldBucketsDropped

LEMMA BucketsDroppedStep ==
    Basics /\ BucketsDropped /\ [Next]_vars => BucketsDropped'
<1> SUFFICES ASSUME Basics, BucketsDropped, [Next]_vars PROVE BucketsDropped'
    OBVIOUS
<1>1. ASSUME NEW r \in Reqs, IncrementLocal(r) PROVE BucketsDropped'
  <2>1. PICK k : k = redisKey[r].key
      OBVIOUS
  <2> DEFINE buckets == Cleaned(local)
             n == Cardinality(DOMAIN local)
  <2>2. /\ DOMAIN local' = DOMAIN buckets \cup {k}
        /\ DOMAIN buckets \subseteq DOMAIN local
        /\ \A j \in DOMAIN buckets : buckets[j] = local[j]
        /\ local'[k].window = now
        /\ \A j \in DOMAIN buckets \ {k} : local'[j] = local[j]
    <3>1. /\ local'[k] = Bucket(buckets, k)
          /\ Bucket(buckets, k) \in [window: {now}, count: Nat \ {0}]
        BY <1>1, <2>1, LocalEffect
    <3>2. local'[k].window = now
        BY <3>1
    <3>3. QED
        BY <1>1, <2>1, <3>2, LocalEffect
  <2>3. IsFiniteSet(DOMAIN local')
    <3>1. IsFiniteSet(DOMAIN buckets)
        BY <2>2, FS_Subset DEF BucketsDropped
    <3>2. QED
        BY <2>2, <3>1, FS_AddElement
  <2>4. n \in Nat /\ Capacity \in Nat
      BY FS_CardinalityType, CapacityAssumption DEF BucketsDropped
  <2>5. CASE n < Capacity
    <3>1. buckets = local
        BY <2>5 DEF Cleaned
    <3>2. DOMAIN local' = DOMAIN local \cup {k}
        BY <2>2, <3>1
    <3>3. Cardinality(DOMAIN local') \in {n, n + 1}
        BY <3>2, FS_AddElement DEF BucketsDropped
    <3>4. ~(Cardinality(DOMAIN local') > Capacity)
        BY <2>4, <2>5, <3>3
    <3>5. QED
        BY <2>3, <3>4 DEF BucketsDropped, OldBucketsDropped
  <2>6. CASE ~(n < Capacity)
    <3>1. \A j \in DOMAIN buckets : local[j].window >= now
        BY <2>6 DEF Cleaned
    <3>2. \A j \in DOMAIN local : local[j].window \in 0 .. now
        BY DEF Basics, KeysAreDue
    <3>3. now \in Nat
        BY BoundsAssumption DEF Basics, TypeOK, Windows
    <3>4. \A j \in DOMAIN buckets : local[j].window = now
        BY <2>2, <3>1, <3>2, <3>3
    <3> HIDE DEF buckets
    <3>5. \A j \in DOMAIN local' : local'[j].window = now
        BY <2>2, <3>4
    <3>6. QED
        BY <2>3, <3>5 DEF BucketsDropped, OldBucketsDropped
  <2>7. QED
      BY <2>5, <2>6
<1>2. CASE UNCHANGED local
    BY <1>2 DEF BucketsDropped, OldBucketsDropped
<1>3. CASE Restart
  <2>1. DOMAIN local' = {}
      BY <1>3 DEF Restart
  <2>2. QED
      BY <2>1, FS_EmptySet DEF BucketsDropped, OldBucketsDropped
<1>4. QED
    BY <1>1, <1>2, <1>3, Steps DEF RedisCharge, NoCharge, Tick

-----------------------------------------------------------------------------
\* The state of the limiter keeps its types (middleware/ratelimit.go).
THEOREM TypeCorrect == Spec => []TypeOK
BY CountingIsInvariant, PTL DEF Counting, Basics

\* By the counters in Redis no more than Limit requests of a key are admitted in
\* a window, for any number of requests, restarts and lost answers.
THEOREM RedisAdmitsWithinLimit == Spec => []RedisBudget
<1>1. Init => RedisBudget
  <2> SUFFICES ASSUME Init PROVE RedisBudget
      OBVIOUS
  <2>1. \A k, w : Decided("redis", k, w, "admitted") = {}
      BY DEF Init, Decided, ChargesOf
  <2>2. QED
      BY <2>1, FS_EmptySet, LimitAssumption DEF RedisBudget
<1>2. QED
    BY <1>1, RedisBudgetStep, CountingIsInvariant, PTL DEF Spec

\* By its own map one life of the process admits no more than Limit requests of a
\* key in a window, whatever the map is cleaned of.
THEOREM ProcessAdmitsWithinLimit == Spec => []LocalBudget
<1>1. Init => LocalBudget
  <2> SUFFICES ASSUME Init PROVE LocalBudget
      OBVIOUS
  <2>1. \A k, w : Decided("local", k, w, "admitted") = {}
      BY DEF Init, Decided, ChargesOf
  <2>2. \A k, w, life : {c \in Decided("local", k, w, "admitted") : c.life = life} = {}
      BY <2>1
  <2>3. QED
      BY <2>2, FS_EmptySet, LimitAssumption DEF LocalBudget
<1>2. QED
    BY <1>1, LocalBudgetStep, CountingIsInvariant, PTL DEF Spec

\* A request is turned away only by a counter that counted more than Limit
\* requests of its key in its window.
THEOREM NobodyIsTurnedAwayEarly == Spec => []RejectionsAreEarned
<1>1. Init => RejectionsAreEarned
  <2> SUFFICES ASSUME Init PROVE RejectionsAreEarned
      OBVIOUS
  <2>1. \A by, k, w : Decided(by, k, w, "rejected") = {}
      BY DEF Init, Decided, ChargesOf
  <2>2. QED
      BY <2>1 DEF RejectionsAreEarned
<1>2. QED
    BY <1>1, RejectionsAreEarnedStep, CountingIsInvariant, PTL DEF Spec

\* A map with more than Capacity keys holds buckets of one window only
\* (incrementLocal).
THEOREM BucketsDoNotPileUp == Spec => []OldBucketsDropped
<1>1. Init => BucketsDropped
  <2> SUFFICES ASSUME Init PROVE BucketsDropped
      OBVIOUS
  <2>1. DOMAIN local = {}
      BY DEF Init
  <2>2. QED
      BY <2>1, FS_EmptySet DEF BucketsDropped, OldBucketsDropped
<1>2. Counting /\ BucketsDropped /\ [Next]_vars => BucketsDropped'
    BY BucketsDroppedStep DEF Counting
<1>3. BucketsDropped => OldBucketsDropped
    BY DEF BucketsDropped
<1>4. QED
    BY <1>1, <1>2, <1>3, CountingIsInvariant, PTL DEF Spec

=============================================================================
