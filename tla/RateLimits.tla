------------------------------ MODULE RateLimits ------------------------------
(***************************************************************************)
(* The limiters of the api-gateway: calls per client address for HTTP and  *)
(* for websocket upgrades (internal/api/middleware.go) and failed logins   *)
(* per email (recordFailure of internal/api/auth_handler.go).  They count  *)
(* with the RateLimit of a cache - a sliding window, in memory under a     *)
(* lock (internal/cache/memory.go), or in Redis as three commands shared   *)
(* by the gateways (internal/cache/redis.go) - and, when there is none or  *)
(* it fails, with counters of their own: a fixed window, or a lock that is *)
(* set at the last permitted failure.                                      *)
(*                                                                         *)
(* A setup is one limiter on one kind of cache.  A call has the time its   *)
(* caller read, which in memory is before the lock and in Redis before the *)
(* commands; the gateways and Redis are taken to have one clock.  The      *)
(* sweep of fixed windows that are over is left out, for the next call     *)
(* would replace them.                                                     *)
(***************************************************************************)
EXTENDS Integers, FiniteSets, Sequences

CONSTANTS
  LimitSetups,        \* limiter, cache, gateways, callers in parallel, keys, capacity
  LimitMax, LimitWindow,  \* calls permitted, and the window they are counted in
  MaxLimitTime, MaxCalls, MaxLimitFaults   \* bounds

ASSUME LimitAssumption ==
  /\ LimitMax \in Nat \ {0} /\ LimitWindow \in Nat \ {0}
  /\ MaxLimitTime \in Nat /\ MaxCalls \in Nat /\ MaxLimitFaults \in Nat
  /\ \A s \in LimitSetups :
       /\ s.site \in {"http", "ws", "lockout"} /\ s.cache \in {"memory", "redis"}
       /\ s.capacity \in Nat \ {0} /\ IsFiniteSet(s.callers) /\ "redis" \notin s.gateways

VARIABLES
  limSetup, limClock,
  windows,    \* MemoryCache.rlKeys of each gateway: the calls of each key, as appended, and its last visit
  zset,       \* Redis: the members of each key
  ttl,        \* ... and the time the key dies, if it was given one
  fixed,      \* rateEntry of each gateway and key
  lockout,    \* lockoutEntry of each gateway and key
  caller,     \* calls that wait for the lock in memory, or are between two commands of Redis
  granted,    \* history: the calls each counter let through and still answers for
  lost,       \* calls let through that ZADD did not add, or that died with their key
  calls, limFaults

limVars == <<limSetup, limClock, windows, zset, ttl, fixed, lockout, caller, granted, lost, calls, limFaults>>

Ready == [step |-> "ready"]
NoTTL == -1
Keys  == limSetup.keys
Fixed0   == [count |-> 0, resetAt |-> -1]
Lockout0 == [failures |-> 0, lockedUntil |-> 0]

Grants(by, at, k, time) == {e \in granted : <<e.by, e.at, e.key, e.time>> = <<by, at, k, time>>}
Granted(by, at, k, time) ==
  [by |-> by, at |-> at, key |-> k, time |-> time, nth |-> Cardinality(Grants(by, at, k, time))]
Grant(by, at, k, time) == granted' = granted \cup {Granted(by, at, k, time)}
Forget(by, at, k)      == granted' = {e \in granted : <<e.by, e.at, e.key>> # <<by, at, k>>}
LimitFault == limFaults < MaxLimitFaults /\ limFaults' = limFaults + 1
Call == calls < MaxCalls /\ calls' = calls + 1

-----------------------------------------------------------------------------
(* The counters *)

\* A stamp is the call it stands for; its time is what is looked at.
Trimmed(stamps, now) == {e \in stamps : e.time > now - LimitWindow}
\* MUTANT for RateBound: one call more.
Mutant_OneMore(n) == n > LimitMax
Full(n) == n >= LimitMax

\* In memory a caller drops stamps from the front of the list, up to the first
\* that is in its window.
Cut(stamps, now) ==
  LET live == {i \in 1..Len(stamps) : stamps[i].time > now - LimitWindow}
  IN  IF live = {} THEN <<>> ELSE SubSeq(stamps, CHOOSE i \in live : \A j \in live : i <= j, Len(stamps))

\* The keys that stay: a new one at the capacity first clears those whose last
\* stamp is over, then one that was not seen for longest.
Kept(w, now) ==
  IF Cardinality(DOMAIN w) < limSetup.capacity THEN {DOMAIN w}
  ELSE LET live == {k \in DOMAIN w : Len(w[k].stamps) > 0 /\ w[k].stamps[Len(w[k].stamps)].time > now - LimitWindow} IN
       IF Cardinality(live) < limSetup.capacity THEN {live}
       ELSE {live \ {k} : k \in {j \in live : \A i \in live : w[j].seen <= w[i].seen}}

\* The caller has the lock; its time is from before.
MemoryCounts(g, k, now) ==
  LET w     == windows[g]
      known == IF k \in DOMAIN w THEN Cut(w[k].stamps, now) ELSE <<>>
      new   == Granted("cache", g, k, now)
  IN  \E kept \in IF k \in DOMAIN w THEN {DOMAIN w} ELSE Kept(w, now) :
        LET left   == {e \in granted : ~(e.by = "cache" /\ e.at = g /\ e.key \in DOMAIN w \ kept)}
            Window(stamps) == [j \in kept \cup {k} |-> IF j = k THEN [stamps |-> stamps, seen |-> now] ELSE w[j]]
        IN  IF Full(Len(known))
            THEN windows' = [windows EXCEPT ![g] = Window(known)] /\ granted' = left
            ELSE windows' = [windows EXCEPT ![g] = Window(Append(known, new))] /\ granted' = left \cup {new}

FixedWindow(g, k) ==
  LET e == fixed[g][k] IN
  IF limClock > e.resetAt
  THEN /\ fixed' = [fixed EXCEPT ![g][k] = [count |-> 1, resetAt |-> limClock + LimitWindow]]
       /\ Grant("window", g, k, limClock)
  ELSE /\ fixed' = [fixed EXCEPT ![g][k].count = @ + 1]
       /\ IF e.count + 1 > LimitMax THEN UNCHANGED granted ELSE Grant("window", g, k, limClock)

LockoutInMemory(g, k) ==
  LET n == lockout[g][k].failures + 1 IN
  /\ lockout' = [lockout EXCEPT ![g][k] =
       [failures |-> n, lockedUntil |-> IF n >= LimitMax THEN limClock + LimitWindow ELSE @.lockedUntil]]
  /\ IF limClock < lockout[g][k].lockedUntil THEN UNCHANGED granted ELSE Grant("lockout", g, k, limClock)

-----------------------------------------------------------------------------
(* The limiters *)

\* HTTP without Redis counts by itself; the others ask the cache.
CallInMemory(g, k) ==
  /\ limSetup.cache = "memory" /\ limSetup.site = "http" /\ Call
  /\ FixedWindow(g, k)
  /\ UNCHANGED <<limSetup, limClock, windows, zset, ttl, lockout, caller, lost, limFaults>>

Calls(c, g, k, step) ==
  /\ caller[c] = Ready /\ Call
  /\ caller' = [caller EXCEPT ![c] = [step |-> step, gateway |-> g, key |-> k, now |-> limClock]]

\* In memory: the time is read, and the window counted when the lock is free.
MemoryReads(c, g, k) ==
  /\ limSetup.cache = "memory" /\ limSetup.site # "http" /\ Calls(c, g, k, "lock")
  /\ UNCHANGED <<limSetup, limClock, windows, zset, ttl, fixed, lockout, granted, lost, limFaults>>

MemoryRateLimit(c) ==
  /\ caller[c].step = "lock"
  /\ MemoryCounts(caller[c].gateway, caller[c].key, caller[c].now)
  /\ caller' = [caller EXCEPT ![c] = Ready]
  /\ UNCHANGED <<limSetup, limClock, zset, ttl, fixed, lockout, lost, calls, limFaults>>

\* Redis: the time is read, what is older is removed, and with the last member
\* the key; whether that worked is not looked at ...
ZRemRange(c, g, k) ==
  /\ limSetup.cache = "redis" /\ Calls(c, g, k, "card")
  /\ \/ /\ zset' = [zset EXCEPT ![k] = Trimmed(@, limClock)]
        /\ ttl' = [ttl EXCEPT ![k] = IF zset'[k] = {} THEN NoTTL ELSE @]
        /\ UNCHANGED limFaults
     \/ LimitFault /\ UNCHANGED <<zset, ttl>>
  /\ UNCHANGED <<limSetup, limClock, windows, fixed, lockout, granted, lost>>

\* ... the rest is counted ...
ZCard(c) ==
  /\ caller[c].step = "card"
  /\ caller' = [caller EXCEPT ![c] = IF Full(Cardinality(zset[@.key])) THEN Ready ELSE [@ EXCEPT !.step = "add"]]
  /\ UNCHANGED <<limSetup, limClock, windows, zset, ttl, fixed, lockout, granted, lost, calls, limFaults>>

\* ... the call is added; whether that worked is not looked at either.  The
\* member is the time in nanoseconds: Redis keeps one for two calls of the same.
ZAdd(c) ==
  LET k == caller[c].key IN
  /\ caller[c].step = "add"
  /\ \/ /\ zset' = [zset EXCEPT ![k] = @ \cup {Granted("cache", "redis", k, caller[c].now)}]
        /\ UNCHANGED <<lost, limFaults>>
     \/ /\ LimitFault \/ (UNCHANGED limFaults /\ \E e \in zset[k] : e.time = caller[c].now)
        /\ lost' = lost + 1 /\ UNCHANGED zset
  /\ Grant("cache", "redis", k, caller[c].now)
  /\ caller' = [caller EXCEPT ![c].step = "expire"]
  /\ UNCHANGED <<limSetup, limClock, windows, ttl, fixed, lockout, calls>>

\* ... and the key is given a window more to live; until then it has the time of
\* an earlier call, or none.
Expire(c) ==
  LET k == caller[c].key IN
  /\ caller[c].step = "expire"
  /\ \/ ttl' = [ttl EXCEPT ![k] = IF zset[k] = {} THEN NoTTL ELSE limClock + LimitWindow] /\ UNCHANGED limFaults
     \/ LimitFault /\ UNCHANGED ttl
  /\ caller' = [caller EXCEPT ![c] = Ready]
  /\ UNCHANGED <<limSetup, limClock, windows, zset, fixed, lockout, granted, lost, calls>>

\* A key dies with its members, those included that are in their window still.
Dying(k) == ttl[k] # NoTTL /\ ttl[k] <= limClock
KeyDies(k) ==
  /\ Dying(k)
  /\ zset' = [zset EXCEPT ![k] = {}] /\ ttl' = [ttl EXCEPT ![k] = NoTTL]
  /\ lost' = lost + Cardinality(Trimmed(zset[k], limClock))
  /\ UNCHANGED <<limSetup, limClock, windows, fixed, lockout, caller, granted, calls, limFaults>>

\* A failing count: HTTP refuses, upgrades and logins count by themselves.
RedisFails(c) ==
  /\ caller[c].step = "card" /\ LimitFault
  /\ LET g == caller[c].gateway
         k == caller[c].key
     IN  CASE limSetup.site = "http"    -> UNCHANGED <<fixed, lockout, granted>>
           [] limSetup.site = "ws"      -> FixedWindow(g, k) /\ UNCHANGED lockout
           [] limSetup.site = "lockout" -> LockoutInMemory(g, k) /\ UNCHANGED fixed
  /\ caller' = [caller EXCEPT ![c] = Ready]
  /\ UNCHANGED <<limSetup, limClock, windows, zset, ttl, lost, calls>>

\* A successful login clears the gateway's own counter, not the cache's.
ResetFailures(g, k) ==
  /\ limSetup.site = "lockout" /\ lockout[g][k] # Lockout0
  /\ lockout' = [lockout EXCEPT ![g][k] = Lockout0]
  /\ Forget("lockout", g, k)
  /\ UNCHANGED <<limSetup, limClock, windows, zset, ttl, fixed, caller, lost, calls, limFaults>>

\* A restart forgets what the gateway counts in memory, and its callers.
RestartGateway(g) ==
  /\ LimitFault
  /\ windows' = [windows EXCEPT ![g] = [k \in {} |-> 0]]
  /\ fixed' = [fixed EXCEPT ![g] = [k \in Keys |-> Fixed0]]
  /\ lockout' = [lockout EXCEPT ![g] = [k \in Keys |-> Lockout0]]
  /\ granted' = {e \in granted : e.at # g}
  /\ caller' = [c \in DOMAIN caller |-> IF caller[c] # Ready /\ caller[c].gateway = g THEN Ready ELSE caller[c]]
  /\ UNCHANGED <<limSetup, limClock, zset, ttl, lost, calls>>

\* No key outlives its time.
LimitTick ==
  /\ limClock < MaxLimitTime /\ \A k \in Keys : ~Dying(k)
  /\ limClock' = limClock + 1
  /\ UNCHANGED <<limSetup, windows, zset, ttl, fixed, lockout, caller, granted, lost, calls, limFaults>>

LimitInit ==
  /\ limSetup \in LimitSetups
  /\ limClock = 0
  /\ windows = [g \in limSetup.gateways |-> [k \in {} |-> 0]]
  /\ zset = [k \in Keys |-> {}] /\ ttl = [k \in Keys |-> NoTTL]
  /\ fixed = [g \in limSetup.gateways |-> [k \in Keys |-> Fixed0]]
  /\ lockout = [g \in limSetup.gateways |-> [k \in Keys |-> Lockout0]]
  /\ caller = [c \in limSetup.callers |-> Ready]
  /\ granted = {} /\ lost = 0 /\ calls = 0 /\ limFaults = 0

LimitNext ==
  \/ \E g \in limSetup.gateways, k \in Keys :
       CallInMemory(g, k) \/ ResetFailures(g, k) \/ \E c \in limSetup.callers : MemoryReads(c, g, k) \/ ZRemRange(c, g, k)
  \/ \E c \in limSetup.callers : MemoryRateLimit(c) \/ ZCard(c) \/ ZAdd(c) \/ Expire(c) \/ RedisFails(c)
  \/ \E k \in Keys : KeyDies(k)
  \/ \E g \in limSetup.gateways : RestartGateway(g)
  \/ LimitTick

LimitSpec == LimitInit /\ [][LimitNext]_limVars

-----------------------------------------------------------------------------
(* Properties *)

\* What each counter lets through in any window of its callers' times, wherever
\* it begins: the limit for the lockout, and twice the limit for a fixed window.
\* In memory a caller that read its time before another's moved the window on
\* is one more, so that all the callers but one can be.  In Redis, where counting
\* and adding are separate commands, there can be as many more again, and one
\* when the key dies; and every addition that was lost, or died with the key
\* whose time an earlier call had set, is one more too.  Keys evicted at the
\* capacity, restarts and resets start anew; Redis' windows survive the restart
\* of a gateway.
Allowed(by, at) ==
  LET n == Cardinality(limSetup.callers) IN
  CASE by = "window" -> 2 * LimitMax
    [] by = "cache" /\ at = "redis" -> LimitMax + (2 * n - 1) + lost
    [] by = "cache" /\ at # "redis" -> LimitMax + (n - 1)
    [] by = "lockout" -> LimitMax
RateBound ==
  \A e \in granted :
    Cardinality({d \in granted : /\ <<d.by, d.at, d.key>> = <<e.by, e.at, e.key>>
                                 /\ d.time > e.time - LimitWindow /\ d.time <= e.time})
      <= Allowed(e.by, e.at)
===============================================================================
