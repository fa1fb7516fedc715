----------------------------- MODULE RateLimit -----------------------------
(***************************************************************************)
(* The limiter of backbone-rate-limit over its two stores: the in-memory   *)
(* map, updated under one write lock, and Redis, updated by a sequence of  *)
(* single commands that requests of several processes interleave.          *)
(*                                                                         *)
(* The module follows one key.  Keys are independent but for the sweep of  *)
(* the in-memory map by the first request of another key, an action here.  *)
(* Time is counted in seconds.  Redis expires a key in the tick that       *)
(* reaches its expiry.  The limiter is enabled.                            *)
(***************************************************************************)
EXTENDS Naturals, FiniteSets, Sequences

CONSTANTS
    Clients,    \* requests and resets in flight at the same time
    MaxRequests, \* max_requests
    Window,     \* window_seconds
    Lockout,    \* lockout_seconds, 0 for None
    Url,        \* a Redis URL is configured
    Policy,     \* the FallbackPolicy
    DevEnv,     \* the environment reads as development
    FailMode,   \* what the middleware does when the store fails
    MaxTime,    \* bound: seconds
    MaxFaults,  \* bound: failed commands and dropped requests
    MaxResets   \* bound: resets

ASSUME LimiterAssumption ==
    /\ {MaxRequests, Window, MaxTime} \subseteq Nat \ {0}
    /\ {Lockout, MaxFaults, MaxResets} \subseteq Nat
    /\ Url \in BOOLEAN /\ DevEnv \in BOOLEAN
    /\ Policy \in {"always", "in_dev", "never"} /\ FailMode \in {"closed", "open"}

VARIABLES
    now,       \* the clock
    backend,   \* the store DualStorage::build chose
    mem,       \* the key's CounterState in InMemoryStorage::data
    counter,   \* Redis: the counter key, with its expiry
    lock,      \* Redis: the expiry of the lock key
    req,       \* the requests and resets
    admitted,  \* history: the counted requests that were admitted, with their count
    opened,    \* history: when the current or last counter began to count
    last,      \* history: when the key was last touched
    lockEnd,   \* history: the end of the last lockout, 0 for none
    faults, resets

stores == <<mem, counter, lock>>
history == <<admitted, opened, last, lockEnd>>
bounds == <<faults, resets>>
vars == <<now, backend, stores, req, history, bounds>>

Times == 0..MaxTime
NoTime == MaxTime + 1    \* the request is not counted, or is forgiven
NoEntry == [count |-> 0, start |-> 0, until |-> 0]
NoCounter == [count |-> 0, exp |-> 0]

\* expect: what a caller who knows the documented policy expects of the answer.
Request == [pc : {"idle", "ttl", "get", "incr", "expire", "lock", "decide", "dellock", "done"},
            count : Nat, until : Nat, at : Nat, opened : Nat,
            expect : SUBSET {"quiet", "over", "locked"},
            answer : {"none", "admitted", "refused", "unavailable"}]
Idle == [pc |-> "idle", count |-> 0, until |-> 0, at |-> 0, opened |-> 0,
         expect |-> {}, answer |-> "none"]

\* A request that was counted at a time as the count-th of the counter opened.
Admission == [at : Nat, opened : Nat, count : Nat]

TypeOK ==
    /\ now \in Times /\ backend \in {"memory", "redis"}
    /\ mem \in [count : Nat, start : Times, until : Nat]
    /\ counter \in [count : Nat, exp : Nat]
    /\ lock \in Nat
    /\ counter.exp = 0 \/ now < counter.exp
    /\ lock = 0 \/ now < lock
    /\ req \in [Clients -> Request]
    /\ admitted \in Seq(Admission) /\ opened \in Times
    /\ last \in Times /\ lockEnd \in Nat
    /\ faults \in 0..MaxFaults /\ resets \in 0..MaxResets

(***************************************************************************)
(* DualStorage::build: Redis when it answers, else the fallback.  The      *)
(* policies that refuse to fall back leave no limiter to run.              *)
(***************************************************************************)
Build ==
    IF ~Url THEN {"memory"}
    ELSE {"redis"} \cup {b \in {"memory"} : Policy = "always" \/ (Policy = "in_dev" /\ DevEnv)}

Init ==
    /\ now = 0 /\ backend \in Build
    /\ mem = NoEntry
    /\ counter = NoCounter
    /\ lock = 0
    /\ req = [c \in Clients |-> Idle]
    /\ admitted = <<>> /\ opened = 0
    /\ last = 0 /\ lockEnd = 0
    /\ faults = 0 /\ resets = 0

Tick ==
    /\ now < MaxTime
    /\ now' = now + 1
    /\ counter' = IF counter.exp = now + 1 THEN NoCounter ELSE counter
    /\ lock' = IF lock = now + 1 THEN 0 ELSE lock
    /\ UNCHANGED <<backend, mem, req, history, bounds>>

(***************************************************************************)
(* What the caller expects of a request that begins now.                   *)
(***************************************************************************)
Free(c) == req[c].pc \in {"idle", "done"}
InFlight == {c \in Clients : ~Free(c)}

\* A counter whose EXPIRE was lost.
Orphaned == counter.count > 0 /\ counter.exp = 0

Expected ==
    {x \in {"quiet"} : /\ InFlight = {} /\ ~Orphaned
                       /\ now > last + Window /\ now >= lockEnd}
    \cup {x \in {"over"} : InFlight = {} /\ lockEnd # 0 /\ now >= lockEnd}
    \cup {x \in {"locked"} : now < lockEnd}

\* Request c begins; of two at a time, neither is the first after a pause.
Begins(c, r) ==
    req' = [d \in Clients |->
              CASE d = c -> [r EXCEPT !.expect = Expected]
                [] d \in InFlight -> [req[d] EXCEPT !.expect = @ \ {"quiet", "over"}]
                [] OTHER -> req[d]]

Touched == last' = now

\* When the counter that stands at n began to count.
Opening(n) == IF n = 1 THEN now ELSE opened

(***************************************************************************)
(* InMemoryStorage.                                                        *)
(***************************************************************************)

\* Mutant of Unfinished: a lockout that outlives its window is swept.
UnfinishedWindow(e) == now - e.start <= Window

Unfinished(e) == e.until > now \/ now - e.start <= Window

\* The first request of another key drops the finished windows of a map that
\* has grown.
Swept ==
    /\ backend = "memory" /\ mem # NoEntry /\ ~Unfinished(mem)
    /\ mem' = NoEntry
    /\ UNCHANGED <<now, backend, counter, lock, req, history, bounds>>

\* A lockout that is over starts a fresh window.
Restarted(e) == IF e.until # 0 THEN [count |-> 0, start |-> now, until |-> 0] ELSE e

Counted(e) ==
    LET n == IF now - e.start > Window THEN 1 ELSE e.count + 1 IN
    [count |-> n,
     start |-> IF now - e.start > Window THEN now ELSE e.start,
     until |-> IF n > MaxRequests /\ Lockout # 0 THEN now + Lockout ELSE 0]

MemIncrement(c) ==
    LET e == IF mem = NoEntry THEN [NoEntry EXCEPT !.start = now] ELSE mem
        f == IF e.until > now THEN e ELSE Counted(Restarted(e)) IN
    /\ backend = "memory" /\ Free(c)
    /\ mem' = f
    /\ Begins(c, [Idle EXCEPT !.pc = "decide", !.count = f.count, !.until = f.until,
                         !.at = now, !.opened = Opening(f.count)])
    /\ opened' = Opening(f.count)
    /\ Touched
    /\ lockEnd' = f.until
    /\ UNCHANGED <<now, backend, counter, lock, admitted, bounds>>

(***************************************************************************)
(* RedisStorage::increment, one command per step.                          *)
(***************************************************************************)
RedisBegin(c) ==
    /\ backend = "redis" /\ Free(c)
    /\ Begins(c, [Idle EXCEPT !.pc = IF Lockout # 0 THEN "ttl" ELSE "incr"])
    /\ lockEnd' = IF lockEnd <= now THEN 0 ELSE lockEnd
    /\ UNCHANGED <<now, backend, stores, admitted, opened, last, bounds>>

\* TTL of the lock key, rounded to a second either way.
ReadTtl(c) ==
    /\ req[c].pc = "ttl"
    /\ \/ lock = 0 /\ req' = [req EXCEPT ![c].pc = "incr"]
       \/ /\ lock # 0
          /\ \E ttl \in {lock - now, lock - now - 1} :
                req' = [req EXCEPT ![c].pc = "get", ![c].until = ttl]
    /\ Touched
    /\ UNCHANGED <<now, backend, stores, admitted, opened, lockEnd, bounds>>

\* GET of the counter, which may have expired before the lock.
GetCount(c) ==
    /\ req[c].pc = "get"
    /\ req' = [req EXCEPT ![c].pc = "decide", ![c].until = now + @, ![c].at = NoTime,
                          ![c].count = IF counter.count > 0 THEN counter.count ELSE MaxRequests + 1]
    /\ Touched
    /\ UNCHANGED <<now, backend, stores, admitted, opened, lockEnd, bounds>>

\* Where increment goes after INCR answered n, and after EXPIRE.
AfterExpire(n) == IF n > MaxRequests /\ Lockout # 0 THEN "lock" ELSE "decide"
AfterIncr(n) == IF n = 1 THEN "expire" ELSE AfterExpire(n)

Incr(c) ==
    LET n == counter.count + 1 IN
    /\ req[c].pc = "incr"
    /\ counter' = [counter EXCEPT !.count = n]
    /\ req' = [req EXCEPT ![c].pc = AfterIncr(n), ![c].count = n, ![c].at = now, ![c].opened = Opening(n)]
    /\ opened' = Opening(n)
    /\ Touched
    /\ UNCHANGED <<now, backend, mem, lock, admitted, lockEnd, bounds>>

\* Mutant of WindowEnd: the counter is kept until a lockout would be over.
WindowEndLocked == now + Window + Lockout

\* EXPIRE counter_key window_seconds.
WindowEnd == now + Window

Expire(c) ==
    /\ req[c].pc = "expire"
    /\ counter' = [counter EXCEPT !.exp = IF counter.count > 0 THEN WindowEnd ELSE 0]
    /\ req' = [req EXCEPT ![c].pc = AfterExpire(req[c].count)]
    /\ Touched
    /\ UNCHANGED <<now, backend, mem, lock, admitted, opened, lockEnd, bounds>>

SetLock(c) ==
    /\ req[c].pc = "lock"
    /\ lock' = now + Lockout
    /\ lockEnd' = now + Lockout
    /\ req' = [req EXCEPT ![c].pc = "decide", ![c].until = now + Lockout]
    /\ Touched
    /\ UNCHANGED <<now, backend, mem, counter, admitted, opened, bounds>>

\* EXPIRE or SETEX fails: the error is dropped, the request goes on.
IgnoredError(c) ==
    /\ req[c].pc \in {"expire", "lock"} /\ faults < MaxFaults
    /\ faults' = faults + 1
    /\ req' = [req EXCEPT ![c].pc = IF req[c].pc = "expire" THEN AfterExpire(req[c].count) ELSE "decide",
                          ![c].until = IF req[c].pc = "lock" THEN now + Lockout ELSE 0]
    /\ UNCHANGED <<now, backend, stores, history, resets>>

\* The caller goes away: the future is dropped between two commands.
Dropped(c) ==
    /\ req[c].pc \in {"ttl", "get", "incr", "expire", "lock", "dellock"} /\ faults < MaxFaults
    /\ faults' = faults + 1
    /\ req' = [req EXCEPT ![c] = Idle]
    /\ UNCHANGED <<now, backend, stores, history, resets>>

(***************************************************************************)
(* RateLimiter::check and the middleware.                                  *)
(***************************************************************************)
Answers(c, a) ==
    req' = [req EXCEPT ![c] = [Idle EXCEPT !.pc = "done", !.answer = a, !.expect = req[c].expect]]

\* Mutant of Admits: the limit is taken to be exclusive of the request itself.
AdmitsOneMore(r) == r.until <= now /\ r.count <= MaxRequests + 1

\* An active lockout refuses; else the count decides, as of a later clock.
Admits(r) == r.until <= now /\ r.count <= MaxRequests

Decide(c) ==
    LET r == req[c] IN
    /\ r.pc = "decide"
    /\ Answers(c, IF Admits(r) THEN "admitted" ELSE "refused")
    /\ admitted' = IF Admits(r) /\ r.at # NoTime
                   THEN Append(admitted, [at |-> r.at, opened |-> r.opened, count |-> r.count])
                   ELSE admitted
    /\ UNCHANGED <<now, backend, stores, opened, last, lockEnd, bounds>>

\* TTL, GET or INCR fails, INCR perhaps after it was carried out.
StoreFails(c) ==
    LET r == req[c] IN
    /\ r.pc \in {"ttl", "get", "incr"} /\ faults < MaxFaults
    /\ faults' = faults + 1
    /\ \/ UNCHANGED <<counter, opened>>
       \/ /\ r.pc = "incr"
          /\ counter' = [counter EXCEPT !.count = @ + 1]
          /\ opened' = Opening(counter.count + 1)
    /\ Answers(c, IF FailMode = "open" THEN "admitted" ELSE "unavailable")
    /\ UNCHANGED <<now, backend, mem, lock, admitted, last, lockEnd, resets>>

(***************************************************************************)
(* RateLimiter::reset.  Whoever resets a key forgives what was admitted.   *)
(***************************************************************************)
Forgiven ==
    /\ admitted' = <<>>
    /\ Touched

Forgets(d) == IF d \in InFlight THEN [req[d] EXCEPT !.at = NoTime] ELSE req[d]

MemReset ==
    /\ backend = "memory" /\ resets < MaxResets
    /\ resets' = resets + 1
    /\ mem' = NoEntry
    /\ lockEnd' = 0
    /\ req' = [d \in Clients |-> Forgets(d)]
    /\ Forgiven
    /\ UNCHANGED <<now, backend, counter, lock, opened, faults>>

DelCounter(c) ==
    /\ backend = "redis" /\ Free(c) /\ resets < MaxResets
    /\ resets' = resets + 1
    /\ counter' = NoCounter
    /\ req' = [d \in Clients |-> IF d = c THEN [Idle EXCEPT !.pc = "dellock"]
                                 ELSE Forgets(d)]
    /\ Forgiven
    /\ UNCHANGED <<now, backend, mem, lock, opened, lockEnd, faults>>

\* The error of the first DEL is dropped, the second is sent all the same.
DelCounterFails(c) ==
    /\ backend = "redis" /\ Free(c) /\ resets < MaxResets /\ faults < MaxFaults
    /\ resets' = resets + 1 /\ faults' = faults + 1
    /\ req' = [req EXCEPT ![c] = [Idle EXCEPT !.pc = "dellock"]]
    /\ UNCHANGED <<now, backend, stores, history>>

DelLock(c) ==
    /\ req[c].pc = "dellock"
    /\ lock' = 0
    /\ lockEnd' = 0
    /\ req' = [req EXCEPT ![c] = Idle]
    /\ Touched
    /\ UNCHANGED <<now, backend, mem, counter, admitted, opened, bounds>>

Redis(c) ==
    \/ ReadTtl(c) \/ GetCount(c) \/ Incr(c) \/ Expire(c) \/ SetLock(c) \/ DelLock(c)
    \/ IgnoredError(c) \/ Dropped(c) \/ StoreFails(c)

Next ==
    \/ Tick
    \/ MemReset \/ Swept
    \/ \E c \in Clients : \/ MemIncrement(c) \/ RedisBegin(c) \/ Redis(c) \/ Decide(c)
                          \/ DelCounter(c) \/ DelCounterFails(c)

Spec == Init /\ [][Next]_vars

(***************************************************************************)
(* Properties.                                                             *)
(***************************************************************************)
Answered(c, a) == req[c].pc = "done" /\ req[c].answer = a

\* Of the requests the store counts, it never admits more than twice
\* max_requests of the key in any window_seconds + 1 seconds, the bound of a
\* fixed window, whatever interleaving, sweep, lost command or failure of the
\* store ("Maximum requests allowed within time window").  It is stated of
\* lockouts that are not shorter than the window, and neither of the requests
\* that only read the counter in the last second of a Redis lockout nor of
\* those the middleware lets pass because the store failed.
AdmittedBudget ==
    \A t \in Times :
        Cardinality({i \in DOMAIN admitted : t <= admitted[i].at /\ admitted[i].at <= t + Window})
            <= 2 * MaxRequests

\* Of the in-memory store: a lockout refuses every request until it ends,
\* although new keys sweep the map, and the first request after it is
\* admitted (README: "the next call starts a fresh window").
LockoutIsExact ==
    backend = "memory" => \A c \in Clients :
        /\ Answered(c, "admitted") => "locked" \notin req[c].expect
        /\ Answered(c, "refused") => "over" \notin req[c].expect

\* A key that was left alone for more than a window, and whose lockout is
\* over, is admitted again: no interleaving leaves a counter behind, except
\* the loss of the EXPIRE itself.
QuietKeyIsAdmitted ==
    \A c \in Clients : Answered(c, "refused") => "quiet" \notin req[c].expect
=============================================================================
