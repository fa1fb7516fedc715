--------------------------- MODULE RateLimitProofs ---------------------------
(***************************************************************************)
(* Proofs about RateLimit for every limit, window, lockout, store, policy, *)
(* number of requests in flight, time, number of failures and of resets.   *)
(***************************************************************************)
EXTENDS RateLimit, FiniteSetTheorems, TLAPS

(***************************************************************************)
(* The in-memory store: its entry knows the lockout until it is swept,     *)
(* which happens after the end of it; the counter of a lockout stays over  *)
(* the limit.                                                              *)
(***************************************************************************)
MemOK ==
    backend = "memory" =>
        /\ mem.until = lockEnd \/ (mem = NoEntry /\ lockEnd <= now)
        /\ mem.until # 0 => mem.count > MaxRequests
        /\ mem.start <= last

\* Redis: the lock key ends with the lockout, the counter key within a window
\* of the last command.
RedisOK ==
    backend = "redis" =>
        /\ lock = 0 \/ lock = lockEnd
        /\ counter.exp = 0 \/ counter.exp <= last + Window

\* What a request of store b knows at its place in the code.
Knows(b, q) ==
    /\ q.pc = "lock" => Lockout # 0
    /\ q.pc \in {"idle", "dellock"} => q.expect = {}
    /\ b = "memory" =>
          /\ q.pc \in {"idle", "decide", "done"}
          /\ q.pc = "decide" /\ "locked" \in q.expect => q.count > MaxRequests
          /\ q.pc = "decide" /\ "over" \in q.expect => q.count = 1 /\ q.until = 0
          /\ q.pc = "done" /\ q.answer = "admitted" => "locked" \notin q.expect
          /\ q.pc = "done" /\ q.answer = "refused" => "over" \notin q.expect
    /\ "quiet" \in q.expect =>
          /\ q.pc \notin {"get", "lock"}
          /\ q.pc # "done" => q.until = 0
          /\ q.pc \in {"expire", "decide"} => q.count = 1
          /\ q.pc = "done" => q.answer # "refused"

\* The first request after a pause has the key to itself.
Alone(c) ==
    "quiet" \in req[c].expect /\ c \in InFlight =>
        /\ \A d \in Clients \ {c} : req[d].pc \in {"idle", "done", "dellock"}
        /\ req[c].pc \in {"ttl", "incr"} => counter.count = 0 /\ lock = 0

\* Everything but the requests.
Shared ==
    /\ now \in Times /\ backend \in {"memory", "redis"}
    /\ mem \in [count : Nat, start : Times, until : Nat]
    /\ counter \in [count : Nat, exp : Nat] /\ lock \in Nat
    /\ counter.exp = 0 \/ now < counter.exp
    /\ lock = 0 \/ now < lock
    /\ admitted \in Seq(Admission) /\ opened \in Times
    /\ last \in Times /\ lockEnd \in Nat
    /\ faults \in 0..MaxFaults /\ resets \in 0..MaxResets
    /\ MemOK /\ RedisOK /\ last <= now

IndInv ==
    /\ Shared
    /\ req \in [Clients -> Request]
    /\ \A c \in Clients : Knows(backend, req[c]) /\ Alone(c)

-----------------------------------------------------------------------------
(* Types.                                                                   *)

LEMMA Consts ==
    /\ MaxRequests \in Nat /\ 1 <= MaxRequests /\ Window \in Nat /\ 1 <= Window
    /\ MaxTime \in Nat /\ 1 <= MaxTime /\ Lockout \in Nat /\ MaxFaults \in Nat /\ MaxResets \in Nat
BY LimiterAssumption

LEMMA TimeFacts ==
    ASSUME IndInv
    PROVE  now \in Nat /\ last \in Nat /\ now <= MaxTime /\ Times \subseteq Nat /\ last <= now
BY Consts DEF IndInv, Shared, Times

\* A fault or a reset that the bounds allow stays within them.
LEMMA BoundFacts ==
    ASSUME IndInv
    PROVE  /\ faults < MaxFaults => faults + 1 \in 0..MaxFaults
           /\ resets < MaxResets => resets + 1 \in 0..MaxResets
<1>1. faults \in 0..MaxFaults /\ resets \in 0..MaxResets
  BY DEF IndInv, Shared
<1>. QED  BY <1>1, Consts

LEMMA IdleType ==
    /\ Idle \in Request /\ Idle.pc = "idle" /\ Idle.count = 0 /\ Idle.until = 0 /\ Idle.at = 0
    /\ Idle.expect = {} /\ Idle.answer = "none"
BY DEF Idle, Request

LEMMA IdleKnows ==
    ASSUME NEW b
    PROVE  Knows(b, Idle)
BY IdleType DEF Knows

LEMMA RequestFacts ==
    ASSUME IndInv, NEW c \in Clients
    PROVE  /\ req[c] \in Request /\ c \in DOMAIN req /\ Knows(backend, req[c]) /\ Alone(c)
           /\ req[c].count \in Nat /\ req[c].until \in Nat /\ req[c].at \in Nat
BY DEF IndInv, Request

-----------------------------------------------------------------------------
(* Frames.                                                                  *)

\* A step that leaves the in-memory store and the clock alone.
LEMMA SharedInv ==
    ASSUME IndInv, UNCHANGED <<now, backend, mem>>,
           counter' \in [count : Nat, exp : Nat], lock' \in Nat, lockEnd' \in Nat,
           counter'.exp = 0 \/ counter'.exp = counter.exp \/ (now < counter'.exp /\ counter'.exp <= last' + Window),
           lock' = 0 \/ now < lock',
           backend = "redis" => lock' = 0 \/ lock' = lockEnd',
           backend = "memory" => lockEnd' = lockEnd,
           last' = last \/ last' = now, admitted' \in Seq(Admission),
           opened' = opened \/ opened' = now, faults' \in 0..MaxFaults, resets' \in 0..MaxResets
    PROVE  Shared'
<1>1. Shared
  BY DEF IndInv
<1>2. last' \in Times /\ last <= last' /\ last' <= now /\ last' \in Nat /\ last \in Nat /\ now \in Nat /\ Window \in Nat
  <2>1. now \in Times /\ last \in Times
    BY <1>1 DEF Shared
  <2>. QED  BY <2>1, TimeFacts, Consts
<1>3. MemOK'
  <2>1. mem.start \in Nat /\ MemOK
    BY <1>1, TimeFacts DEF Shared
  <2>. QED  BY <1>2, <2>1 DEF MemOK
<1>4. counter.exp \in Nat /\ counter'.exp \in Nat /\ RedisOK
  BY <1>1 DEF Shared
<1>5. RedisOK'
  BY <1>2, <1>4 DEF RedisOK
<1>6. counter'.exp = 0 \/ now < counter'.exp
  BY <1>1 DEF Shared
<1>. QED  BY <1>1, <1>2, <1>3, <1>5, <1>6 DEF Shared

\* The request of a client that has begun, and is not a reset, goes on as x.
LEMMA ActiveInv ==
    ASSUME IndInv, Shared', NEW c \in Clients, req[c].pc \notin {"idle", "done", "dellock"},
           NEW x \in Request, Knows(backend, x), req' = [req EXCEPT ![c] = x], UNCHANGED backend,
           x.expect = req[c].expect \/ x.expect = {},
           x.pc \in {"ttl", "incr"} /\ "quiet" \in x.expect => counter'.count = 0 /\ lock' = 0
    PROVE  IndInv'
<1>1. /\ req' \in [Clients -> Request] /\ req'[c] = x
      /\ \A d \in Clients \ {c} : req'[d] = req[d]
  BY DEF IndInv
<1>2. \A d \in Clients : Knows(backend', req'[d])
  BY <1>1 DEF IndInv
<1>3. c \in InFlight
  BY DEF InFlight, Free
<1>4. ASSUME NEW d \in Clients \ {c} PROVE ~("quiet" \in req[d].expect /\ d \in InFlight)
  BY <1>4 DEF IndInv, Alone
<1>5. ASSUME NEW d \in Clients \ {c} PROVE Alone(d)'
  <2>1. req'[d] = req[d]
    BY <1>1
  <2>2. d \in InFlight' => d \in InFlight
    BY <2>1 DEF InFlight, Free
  <2>. QED  BY <1>4, <2>1, <2>2 DEF Alone
<1>6. Alone(c)'
  <2>. SUFFICES ASSUME "quiet" \in x.expect
                PROVE  /\ \A d \in Clients \ {c} : req'[d].pc \in {"idle", "done", "dellock"}
                       /\ x.pc \in {"ttl", "incr"} => counter'.count = 0 /\ lock' = 0
    BY <1>1 DEF Alone
  <2>1. "quiet" \in req[c].expect
    OBVIOUS
  <2>2. \A d \in Clients \ {c} : req[d].pc \in {"idle", "done", "dellock"}
    BY <1>3, <2>1 DEF IndInv, Alone
  <2>. QED  BY <1>1, <2>2
<1>. QED  BY <1>1, <1>2, <1>5, <1>6 DEF IndInv

-----------------------------------------------------------------------------
(* RedisStorage::increment.                                                 *)

\* Only Redis has requests between two commands.
LEMMA OnRedis ==
    ASSUME IndInv, NEW c \in Clients, req[c].pc \notin {"idle", "decide", "done"}
    PROVE  backend = "redis"
BY RequestFacts DEF Knows, IndInv, Shared

LEMMA ReadTtlInv ==
    ASSUME IndInv, NEW c \in Clients, ReadTtl(c)
    PROVE  IndInv'
<1>. DEFINE q == req[c]
<1>1. q.pc = "ttl" /\ UNCHANGED <<now, backend, stores, admitted, opened, lockEnd, bounds>> /\ last' = now
  BY DEF ReadTtl, Touched
<1>2. q \in Request /\ Knows(backend, q) /\ backend = "redis" /\ c \in DOMAIN req /\ Alone(c)
  BY <1>1, RequestFacts, OnRedis
<1>3. Shared'
  <2>1. UNCHANGED <<now, backend, mem, counter, lock, admitted, opened, lockEnd, faults, resets>>
    BY <1>1 DEF stores, bounds
  <2>. QED  BY <1>1, <2>1, SharedInv DEF IndInv, Shared, RedisOK
<1>4. "quiet" \in q.expect => lock = 0 /\ counter.count = 0
  <2>1. c \in InFlight
    BY <1>1 DEF InFlight, Free
  <2>. QED  BY <1>1, <1>2, <2>1 DEF Alone
<1>5. UNCHANGED <<counter, lock, backend>>
  BY <1>1 DEF stores
<1>6. CASE lock = 0 /\ req' = [req EXCEPT ![c].pc = "incr"]
  <2>. DEFINE x == [q EXCEPT !.pc = "incr"]
  <2>1. req' = [req EXCEPT ![c] = x]
    BY <1>6
  <2>. HIDE DEF q
  <2>2. x \in Request /\ x.pc = "incr" /\ x.expect = q.expect /\ x.until = q.until
    BY <1>2 DEF Request
  <2>. HIDE DEF x
  <2>3. Knows(backend, x)
    BY <1>1, <1>2, <2>2 DEF Knows
  <2>4. q.pc \notin {"idle", "done", "dellock"}
    BY <1>1
  <2>. QED  BY <1>3, <1>4, <1>5, <2>1, <2>2, <2>3, <2>4, ActiveInv DEF q
<1>7. ASSUME lock # 0, NEW ttl \in {lock - now, lock - now - 1},
             req' = [req EXCEPT ![c].pc = "get", ![c].until = ttl]
      PROVE  IndInv'
  <2>. DEFINE x == [q EXCEPT !.pc = "get", !.until = ttl]
  <2>1. req' = [req EXCEPT ![c] = x]
    BY <1>2, <1>7 DEF Request
  <2>2. ttl \in Nat
    <3>1. lock \in Nat /\ now \in Nat /\ now < lock
      BY <1>7, TimeFacts DEF IndInv, Shared
    <3>. QED  BY <1>7, <3>1
  <2>. HIDE DEF q
  <2>3. x \in Request /\ x.pc = "get" /\ x.expect = q.expect
    BY <1>2, <2>2 DEF Request
  <2>. HIDE DEF x
  <2>4. Knows(backend, x)
    BY <1>2, <1>4, <1>7, <2>3 DEF Knows
  <2>5. q.pc \notin {"idle", "done", "dellock"}
    BY <1>1
  <2>. QED  BY <1>3, <1>5, <2>1, <2>3, <2>4, <2>5, ActiveInv DEF q
<1>. QED  BY <1>6, <1>7 DEF ReadTtl

LEMMA GetCountInv ==
    ASSUME IndInv, NEW c \in Clients, GetCount(c)
    PROVE  IndInv'
<1>. DEFINE q == req[c]
            u == now + q.until
            n == IF counter.count > 0 THEN counter.count ELSE MaxRequests + 1
            x == [q EXCEPT !.pc = "decide", !.until = u, !.at = NoTime, !.count = n]
<1>1. q.pc = "get" /\ UNCHANGED <<now, backend, stores, admitted, opened, lockEnd, bounds>> /\ last' = now
  BY DEF GetCount, Touched
<1>2. q \in Request /\ Knows(backend, q) /\ backend = "redis" /\ c \in DOMAIN req /\ q.until \in Nat
  BY <1>1, RequestFacts, OnRedis
<1>3. req' = [req EXCEPT ![c] = x]
  BY <1>2 DEF GetCount, Request
<1>4. Shared'
  <2>1. UNCHANGED <<now, backend, mem, counter, lock, admitted, opened, lockEnd, faults, resets>>
    BY <1>1 DEF stores, bounds
  <2>. QED  BY <1>1, <2>1, SharedInv DEF IndInv, Shared, RedisOK
<1>5. u \in Nat /\ n \in Nat /\ NoTime \in Nat
  <2>1. counter.count \in Nat
    BY DEF IndInv, Shared
  <2>. QED  BY <1>2, <2>1, TimeFacts, Consts DEF NoTime
<1>. HIDE DEF q, u, n
<1>6. x \in Request /\ x.pc = "decide" /\ x.expect = q.expect
  BY <1>2, <1>5 DEF Request
<1>. HIDE DEF x
<1>7. Knows(backend, x)
  BY <1>1, <1>2, <1>6 DEF Knows
<1>8. q.pc \notin {"idle", "done", "dellock"}
  BY <1>1
<1>. QED  BY <1>1, <1>3, <1>4, <1>6, <1>7, <1>8, ActiveInv DEF q

LEMMA After ==
    ASSUME NEW n
    PROVE  /\ AfterExpire(n) \in {"lock", "decide"} /\ (AfterExpire(n) = "lock" => Lockout # 0)
           /\ AfterIncr(n) \in {"expire", "lock", "decide"} /\ (AfterIncr(n) = "lock" => Lockout # 0)
           /\ n = 1 => AfterExpire(n) = "decide" /\ AfterIncr(n) = "expire"
BY Consts DEF AfterExpire, AfterIncr

\* A quiet request that has not counted itself finds no counter and no lock.
LEMMA QuietStart ==
    ASSUME IndInv, NEW c \in Clients, "quiet" \in req[c].expect, req[c].pc \in {"ttl", "incr"}
    PROVE  counter.count = 0 /\ lock = 0
BY RequestFacts DEF Alone, InFlight, Free

LEMMA IncrInv ==
    ASSUME IndInv, NEW c \in Clients, Incr(c)
    PROVE  IndInv'
<1>. DEFINE q == req[c]
            n == counter.count + 1
            p == AfterIncr(n)
            o == Opening(n)
            x == [q EXCEPT !.pc = p, !.count = n, !.at = now, !.opened = o]
<1>1. /\ q.pc = "incr" /\ counter' = [counter EXCEPT !.count = n] /\ last' = now /\ opened' = o
      /\ UNCHANGED <<now, backend, mem, lock, admitted, lockEnd, bounds>>
  BY DEF Incr, Touched
<1>2. q \in Request /\ Knows(backend, q) /\ backend = "redis" /\ c \in DOMAIN req
  BY <1>1, RequestFacts, OnRedis
<1>3. req' = [req EXCEPT ![c] = x]
  BY <1>2 DEF Incr, Request
<1>4. n \in Nat /\ now \in Nat /\ o \in Nat /\ (o = now \/ o = opened)
  BY TimeFacts DEF IndInv, Shared, Opening
<1>5. Shared'
  <2>. HIDE DEF o
  <2>1. counter' \in [count : Nat, exp : Nat] /\ counter'.exp = counter.exp
    BY <1>1, <1>4 DEF IndInv, Shared
  <2>2. UNCHANGED <<now, backend, mem, lock, admitted, lockEnd, faults, resets>>
    BY <1>1 DEF bounds
  <2>. QED  BY <1>1, <1>4, <2>1, <2>2, SharedInv DEF IndInv, Shared, RedisOK
<1>6. "quiet" \in q.expect => n = 1
  BY <1>1, QuietStart
<1>7. p \in {"expire", "lock", "decide"} /\ (p = "lock" => Lockout # 0) /\ (n = 1 => p = "expire")
  BY After
<1>. HIDE DEF q, n, p, o
<1>8. x \in Request /\ x.pc = p /\ x.expect = q.expect /\ x.count = n /\ x.until = q.until
  BY <1>2, <1>4, <1>7 DEF Request
<1>. HIDE DEF x
<1>9. Knows(backend, x)
  BY <1>1, <1>2, <1>6, <1>7, <1>8 DEF Knows
<1>10. q.pc \notin {"idle", "done", "dellock"} /\ x.pc \notin {"ttl", "incr"}
  BY <1>1, <1>7, <1>8
<1>. QED  BY <1>1, <1>3, <1>5, <1>8, <1>9, <1>10, ActiveInv DEF q

LEMMA ExpireInv ==
    ASSUME IndInv, NEW c \in Clients, Expire(c)
    PROVE  IndInv'
<1>. DEFINE q == req[c]
            p == AfterExpire(q.count)
            e == IF counter.count > 0 THEN WindowEnd ELSE 0
            x == [q EXCEPT !.pc = p]
<1>1. /\ q.pc = "expire" /\ counter' = [counter EXCEPT !.exp = e] /\ last' = now
      /\ UNCHANGED <<now, backend, mem, lock, admitted, opened, lockEnd, bounds>>
  BY DEF Expire, Touched
<1>2. q \in Request /\ Knows(backend, q) /\ backend = "redis" /\ c \in DOMAIN req
  BY <1>1, RequestFacts, OnRedis
<1>3. req' = [req EXCEPT ![c] = x]
  BY <1>2 DEF Expire, Request
<1>4. e \in Nat /\ (e = 0 \/ (now < e /\ e <= now + Window))
  BY TimeFacts, Consts DEF WindowEnd
<1>5. Shared'
  <2>. HIDE DEF e
  <2>1. counter' \in [count : Nat, exp : Nat] /\ counter'.exp = e
    BY <1>1, <1>4 DEF IndInv, Shared
  <2>2. UNCHANGED <<now, backend, mem, lock, admitted, opened, lockEnd, faults, resets>>
    BY <1>1 DEF bounds
  <2>. QED  BY <1>1, <1>4, <2>1, <2>2, SharedInv DEF IndInv, Shared, RedisOK
<1>6. p \in {"lock", "decide"} /\ (p = "lock" => Lockout # 0) /\ (q.count = 1 => p = "decide")
  BY After
<1>. HIDE DEF q, p
<1>7. x \in Request /\ x.pc = p /\ x.expect = q.expect /\ x.count = q.count /\ x.until = q.until
  BY <1>2, <1>6 DEF Request
<1>. HIDE DEF x
<1>8. Knows(backend, x)
  BY <1>1, <1>2, <1>6, <1>7 DEF Knows
<1>9. q.pc \notin {"idle", "done", "dellock"} /\ x.pc \notin {"ttl", "incr"}
  BY <1>1, <1>6, <1>7
<1>. QED  BY <1>1, <1>3, <1>5, <1>7, <1>8, <1>9, ActiveInv DEF q

LEMMA SetLockInv ==
    ASSUME IndInv, NEW c \in Clients, SetLock(c)
    PROVE  IndInv'
<1>. DEFINE q == req[c]
            u == now + Lockout
            x == [q EXCEPT !.pc = "decide", !.until = u]
<1>1. /\ q.pc = "lock" /\ lock' = u /\ lockEnd' = u /\ last' = now
      /\ UNCHANGED <<now, backend, mem, counter, admitted, opened, bounds>>
  BY DEF SetLock, Touched
<1>2. q \in Request /\ Knows(backend, q) /\ backend = "redis" /\ c \in DOMAIN req
  BY <1>1, RequestFacts, OnRedis
<1>3. req' = [req EXCEPT ![c] = x]
  BY <1>2 DEF SetLock, Request
<1>4. u \in Nat /\ now < u
  BY <1>1, <1>2, TimeFacts, Consts DEF Knows
<1>5. Shared'
  <2>1. UNCHANGED <<now, backend, mem, counter, admitted, opened, faults, resets>>
    BY <1>1 DEF bounds
  <2>. QED  BY <1>1, <1>2, <1>4, <2>1, SharedInv DEF IndInv, Shared
<1>. HIDE DEF q, u
<1>6. x \in Request /\ x.pc = "decide" /\ x.expect = q.expect
  BY <1>2, <1>4 DEF Request
<1>. HIDE DEF x
<1>7. Knows(backend, x)
  BY <1>1, <1>2, <1>6 DEF Knows
<1>8. q.pc \notin {"idle", "done", "dellock"}
  BY <1>1
<1>. QED  BY <1>1, <1>3, <1>5, <1>6, <1>7, <1>8, ActiveInv DEF q

LEMMA IgnoredErrorInv ==
    ASSUME IndInv, NEW c \in Clients, IgnoredError(c)
    PROVE  IndInv'
<1>. DEFINE q == req[c]
            p == IF q.pc = "expire" THEN AfterExpire(q.count) ELSE "decide"
            u == IF q.pc = "lock" THEN now + Lockout ELSE 0
            x == [q EXCEPT !.pc = p, !.until = u]
<1>1. /\ q.pc \in {"expire", "lock"} /\ faults < MaxFaults /\ faults' = faults + 1
      /\ UNCHANGED <<now, backend, stores, history, resets>>
  BY DEF IgnoredError
<1>2. q \in Request /\ Knows(backend, q) /\ backend = "redis" /\ c \in DOMAIN req
  BY <1>1, RequestFacts, OnRedis
<1>3. req' = [req EXCEPT ![c] = x]
  BY <1>2 DEF IgnoredError, Request
<1>4. u \in Nat
  BY TimeFacts, Consts
<1>5. Shared'
  <2>1. UNCHANGED <<now, backend, mem, counter, lock, admitted, opened, last, lockEnd, resets>>
    BY <1>1 DEF stores, history
  <2>2. faults' \in 0..MaxFaults
    BY <1>1, Consts DEF IndInv, Shared
  <2>. QED  BY <1>1, <2>1, <2>2, SharedInv DEF IndInv, Shared, RedisOK
<1>6. /\ p \in {"lock", "decide"} /\ (p = "lock" => Lockout # 0) /\ (q.count = 1 => p = "decide")
      /\ (q.pc = "expire" => u = 0)
  BY After
<1>. HIDE DEF q, p, u
<1>7. x \in Request /\ x.pc = p /\ x.expect = q.expect /\ x.count = q.count /\ x.until = u
  BY <1>2, <1>4, <1>6 DEF Request
<1>. HIDE DEF x
<1>8. Knows(backend, x)
  BY <1>1, <1>2, <1>6, <1>7 DEF Knows
<1>9. q.pc \notin {"idle", "done", "dellock"} /\ x.pc \notin {"ttl", "incr"}
  BY <1>1, <1>6, <1>7
<1>. QED  BY <1>1, <1>3, <1>5, <1>7, <1>8, <1>9, ActiveInv DEF q

-----------------------------------------------------------------------------
(* Answers.                                                                 *)

LEMMA DecideInv ==
    ASSUME IndInv, NEW c \in Clients, Decide(c)
    PROVE  IndInv'
<1>. DEFINE q == req[c]
            a == IF Admits(q) THEN "admitted" ELSE "refused"
            x == [Idle EXCEPT !.pc = "done", !.answer = a, !.expect = q.expect]
<1>1. /\ q.pc = "decide" /\ UNCHANGED <<now, backend, stores, opened, last, lockEnd, bounds>>
      /\ req' = [req EXCEPT ![c] = x]
  BY DEF Decide, Answers
<1>2. q \in Request /\ Knows(backend, q) /\ q.count \in Nat /\ q.until \in Nat
  BY RequestFacts
<1>3. admitted' \in Seq(Admission)
  <2>. DEFINE y == [at |-> q.at, opened |-> q.opened, count |-> q.count]
  <2>1. admitted \in Seq(Admission) /\ y \in Admission
    BY <1>2 DEF IndInv, Shared, Request, Admission
  <2>2. admitted' = admitted \/ admitted' = Append(admitted, y)
    BY DEF Decide
  <2>. HIDE DEF y
  <2>. QED  BY <2>1, <2>2
<1>4. Shared'
  <2>1. UNCHANGED <<now, backend, mem, counter, lock, opened, last, lockEnd, faults, resets>>
    BY <1>1 DEF stores, bounds
  <2>. QED  BY <1>1, <1>3, <2>1, SharedInv DEF IndInv, Shared, RedisOK
<1>5. /\ a \in {"admitted", "refused"}
      /\ a = "admitted" => q.count <= MaxRequests
      /\ q.count = 1 /\ q.until = 0 => a = "admitted"
  BY <1>2, TimeFacts, Consts DEF Admits
<1>. HIDE DEF q, a
<1>6. x \in Request /\ x.pc = "done" /\ x.answer = a /\ x.expect = q.expect
  BY <1>2, <1>5 DEF Request, Idle
<1>. HIDE DEF x
<1>7. Knows(backend, x)
  <2>1. q.count > MaxRequests => a # "admitted"
    BY <1>2, <1>5, Consts
  <2>. QED  BY <1>1, <1>2, <1>5, <1>6, <2>1 DEF Knows
<1>8. q.pc \notin {"idle", "done", "dellock"}
  BY <1>1
<1>. QED  BY <1>1, <1>4, <1>6, <1>7, <1>8, ActiveInv DEF q

LEMMA StoreFailsInv ==
    ASSUME IndInv, NEW c \in Clients, StoreFails(c)
    PROVE  IndInv'
<1>. DEFINE q == req[c]
            a == IF FailMode = "open" THEN "admitted" ELSE "unavailable"
            x == [Idle EXCEPT !.pc = "done", !.answer = a, !.expect = q.expect]
<1>1. /\ q.pc \in {"ttl", "get", "incr"} /\ faults < MaxFaults /\ faults' = faults + 1
      /\ UNCHANGED <<now, backend, mem, lock, admitted, last, lockEnd, resets>>
      /\ req' = [req EXCEPT ![c] = x]
  BY DEF StoreFails, Answers
<1>2. q \in Request /\ Knows(backend, q) /\ backend = "redis"
  BY <1>1, RequestFacts, OnRedis
<1>3. admitted' \in Seq(Admission) /\ (opened' = opened \/ opened' = now)
  BY <1>1 DEF StoreFails, IndInv, Shared, Opening
<1>4. Shared'
  <2>1. counter' \in [count : Nat, exp : Nat] /\ counter'.exp = counter.exp
    BY DEF StoreFails, IndInv, Shared
  <2>2. faults' \in 0..MaxFaults
    BY <1>1, BoundFacts
  <2>. QED  BY <1>1, <1>3, <2>1, <2>2, SharedInv DEF IndInv, Shared, RedisOK
<1>5. a \in {"admitted", "unavailable"}
  OBVIOUS
<1>. HIDE DEF q, a
<1>6. x \in Request /\ x.pc = "done" /\ x.answer = a /\ x.expect = q.expect
  BY <1>2, <1>5 DEF Request, Idle
<1>. HIDE DEF x
<1>7. Knows(backend, x)
  BY <1>1, <1>2, <1>5, <1>6 DEF Knows
<1>8. q.pc \notin {"idle", "done", "dellock"}
  BY <1>1
<1>. QED  BY <1>1, <1>4, <1>6, <1>7, <1>8, ActiveInv DEF q

-----------------------------------------------------------------------------
(* Resets, dropped requests and the passage of time.                        *)

\* x is q but for the time it was counted at, or a fresh idle or resetting
\* client, the latter only of Redis.
Rests(b, q, x) ==
    \/ x.expect = {} /\ x.pc \in {"idle", "dellock"} /\ (x.pc = "dellock" => b = "redis")
    \/ /\ x.pc = q.pc /\ x.count = q.count /\ x.until = q.until
       /\ x.expect = q.expect /\ x.answer = q.answer

LEMMA RestsKnows ==
    ASSUME NEW b \in {"memory", "redis"}, NEW q, NEW x, Knows(b, q), Rests(b, q, x)
    PROVE  Knows(b, x)
<1>1. CASE x.expect = {} /\ x.pc \in {"idle", "dellock"} /\ (x.pc = "dellock" => b = "redis")
  BY <1>1 DEF Knows
<1>2. CASE /\ x.pc = q.pc /\ x.count = q.count /\ x.until = q.until
           /\ x.expect = q.expect /\ x.answer = q.answer
  BY <1>2 DEF Knows
<1>. QED  BY <1>1, <1>2 DEF Rests

\* A step that only removes counters and locks, and lets every client rest.
LEMMA RestInv ==
    ASSUME IndInv, Shared', UNCHANGED backend, req' \in [Clients -> Request],
           \A d \in Clients : Rests(backend, req[d], req'[d]),
           counter'.count = counter.count \/ counter'.count = 0, lock' = lock \/ lock' = 0
    PROVE  IndInv'
<1>1. \A d \in Clients : Knows(backend', req'[d])
  BY RestsKnows DEF IndInv, Shared
<1>2. ASSUME NEW c \in Clients PROVE Alone(c)'
  <2>. SUFFICES ASSUME "quiet" \in req'[c].expect, req'[c].pc \notin {"idle", "done"}
                PROVE  /\ \A d \in Clients \ {c} : req'[d].pc \in {"idle", "done", "dellock"}
                       /\ req'[c].pc \in {"ttl", "incr"} => counter'.count = 0 /\ lock' = 0
    BY DEF Alone, InFlight, Free
  <2>1. req'[c].pc = req[c].pc /\ req'[c].expect = req[c].expect
    BY DEF Rests
  <2>2. /\ \A d \in Clients \ {c} : req[d].pc \in {"idle", "done", "dellock"}
        /\ req[c].pc \in {"ttl", "incr"} => counter.count = 0 /\ lock = 0
    BY <2>1 DEF IndInv, Alone, InFlight, Free
  <2>3. \A d \in Clients : req'[d].pc \in {"idle", "dellock"} \/ req'[d].pc = req[d].pc
    BY DEF Rests
  <2>. QED  BY <2>1, <2>2, <2>3
<1>. QED  BY <1>1, <1>2 DEF IndInv

LEMMA ForgetsRests ==
    ASSUME IndInv, NEW d \in Clients
    PROVE  Forgets(d) \in Request /\ Rests(backend, req[d], Forgets(d))
<1>. DEFINE q == req[d]
            x == [q EXCEPT !.at = NoTime]
<1>1. q \in Request /\ NoTime \in Nat
  BY RequestFacts, Consts DEF NoTime
<1>2. Forgets(d) = x \/ Forgets(d) = q
  BY DEF Forgets
<1>. HIDE DEF q
<1>3. /\ x \in Request /\ x.pc = q.pc /\ x.count = q.count /\ x.until = q.until
      /\ x.expect = q.expect /\ x.answer = q.answer
  BY <1>1 DEF Request
<1>. HIDE DEF x
<1>. QED  BY <1>1, <1>2, <1>3 DEF Rests, q

LEMMA DroppedInv ==
    ASSUME IndInv, NEW c \in Clients, Dropped(c)
    PROVE  IndInv'
<1>1. /\ faults < MaxFaults /\ faults' = faults + 1 /\ req' = [req EXCEPT ![c] = Idle]
      /\ UNCHANGED <<now, backend, mem, counter, lock, admitted, opened, last, lockEnd, resets>>
  BY DEF Dropped, stores, history
<1>2. Shared'
  <2>1. faults' \in 0..MaxFaults
    BY <1>1, Consts DEF IndInv, Shared
  <2>. QED  BY <1>1, <2>1, SharedInv DEF IndInv, Shared, RedisOK
<1>3. req' \in [Clients -> Request]
  BY <1>1, IdleType DEF IndInv
<1>4. \A d \in Clients : Rests(backend, req[d], req'[d])
  BY <1>1, IdleType DEF Rests, IndInv
<1>. QED  BY <1>1, <1>2, <1>3, <1>4, RestInv

LEMMA DelLockInv ==
    ASSUME IndInv, NEW c \in Clients, DelLock(c)
    PROVE  IndInv'
<1>1. /\ req[c].pc = "dellock" /\ lock' = 0 /\ lockEnd' = 0 /\ last' = now
      /\ req' = [req EXCEPT ![c] = Idle]
      /\ UNCHANGED <<now, backend, mem, counter, admitted, opened, faults, resets>>
  BY DEF DelLock, Touched, bounds
<1>2. Shared'
  BY <1>1, OnRedis, SharedInv DEF IndInv, Shared
<1>3. req' \in [Clients -> Request]
  BY <1>1, IdleType DEF IndInv
<1>4. \A d \in Clients : Rests(backend, req[d], req'[d])
  BY <1>1, IdleType DEF Rests, IndInv
<1>. QED  BY <1>1, <1>2, <1>3, <1>4, RestInv

LEMMA Resetting ==
    LET x == [Idle EXCEPT !.pc = "dellock"] IN x \in Request /\ x.pc = "dellock" /\ x.expect = {}
BY DEF Idle, Request

LEMMA DelCounterInv ==
    ASSUME IndInv, NEW c \in Clients, DelCounter(c)
    PROVE  IndInv'
<1>. DEFINE x == [Idle EXCEPT !.pc = "dellock"]
<1>1. /\ backend = "redis" /\ resets < MaxResets /\ resets' = resets + 1 /\ counter' = NoCounter
      /\ req' = [d \in Clients |-> IF d = c THEN x ELSE Forgets(d)]
      /\ admitted' = <<>> /\ last' = now
      /\ UNCHANGED <<now, backend, mem, lock, opened, lockEnd, faults>>
  BY DEF DelCounter, Forgiven, Touched
<1>2. NoCounter \in [count : Nat, exp : Nat] /\ NoCounter.exp = 0 /\ NoCounter.count = 0
  BY DEF NoCounter
<1>3. Shared'
  <2>1. resets' \in 0..MaxResets
    BY <1>1, Consts DEF IndInv, Shared
  <2>2. admitted' \in Seq(Admission)
    BY <1>1
  <2>. QED  BY <1>1, <1>2, <2>1, <2>2, SharedInv DEF IndInv, Shared, RedisOK
<1>4. x \in Request /\ x.pc = "dellock" /\ x.expect = {}
  BY Resetting
<1>. HIDE DEF x
<1>5. req' \in [Clients -> Request]
  BY <1>1, <1>4, ForgetsRests
<1>6. ASSUME NEW d \in Clients PROVE Rests(backend, req[d], req'[d])
  <2>1. CASE d = c
    BY <1>1, <1>4, <2>1 DEF Rests
  <2>2. CASE d # c
    BY <1>1, <2>2, ForgetsRests
  <2>. QED  BY <2>1, <2>2
<1>. QED  BY <1>1, <1>2, <1>3, <1>5, <1>6, RestInv

LEMMA DelCounterFailsInv ==
    ASSUME IndInv, NEW c \in Clients, DelCounterFails(c)
    PROVE  IndInv'
<1>. DEFINE x == [Idle EXCEPT !.pc = "dellock"]
<1>1. /\ backend = "redis" /\ resets < MaxResets /\ resets' = resets + 1
      /\ faults < MaxFaults /\ faults' = faults + 1 /\ req' = [req EXCEPT ![c] = x]
      /\ UNCHANGED <<now, backend, mem, counter, lock, admitted, opened, last, lockEnd>>
  BY DEF DelCounterFails, stores, history
<1>2. Shared'
  <2>1. resets' \in 0..MaxResets /\ faults' \in 0..MaxFaults
    BY <1>1, BoundFacts
  <2>. QED  BY <1>1, <2>1, SharedInv DEF IndInv, Shared, RedisOK
<1>3. x \in Request /\ x.pc = "dellock" /\ x.expect = {}
  BY Resetting
<1>. HIDE DEF x
<1>4. req' \in [Clients -> Request]
  BY <1>1, <1>3 DEF IndInv
<1>5. \A d \in Clients : Rests(backend, req[d], req'[d])
  BY <1>1, <1>3 DEF Rests, IndInv
<1>. QED  BY <1>1, <1>2, <1>4, <1>5, RestInv

LEMMA EmptyEntry ==
    /\ NoEntry \in [count : Nat, start : Times, until : Nat]
    /\ NoEntry.count = 0 /\ NoEntry.start = 0 /\ NoEntry.until = 0
BY Consts DEF NoEntry, Times

LEMMA MemResetInv ==
    ASSUME IndInv, MemReset
    PROVE  IndInv'
<1>1. /\ backend = "memory" /\ resets < MaxResets /\ resets' = resets + 1
      /\ mem' = NoEntry /\ lockEnd' = 0 /\ last' = now
      /\ req' = [d \in Clients |-> Forgets(d)] /\ admitted' = <<>>
      /\ UNCHANGED <<now, backend, counter, lock, opened, faults>>
  BY DEF MemReset, Forgiven, Touched
<1>2. Shared'
  <2>1. resets' \in 0..MaxResets
    BY <1>1, Consts DEF IndInv, Shared
  <2>2. admitted' \in Seq(Admission)
    BY <1>1
  <2>3. MemOK' /\ RedisOK'
    BY <1>1, EmptyEntry, TimeFacts DEF MemOK, RedisOK
  <2>. QED  BY <1>1, <2>1, <2>2, <2>3, EmptyEntry, TimeFacts DEF IndInv, Shared
<1>3. req' \in [Clients -> Request]
  BY <1>1, ForgetsRests
<1>4. \A d \in Clients : Rests(backend, req[d], req'[d])
  BY <1>1, ForgetsRests
<1>. QED  BY <1>1, <1>2, <1>3, <1>4, RestInv

LEMMA StaysRests ==
    ASSUME NEW b, NEW q
    PROVE  Rests(b, q, q)
BY DEF Rests

LEMMA SweptInv ==
    ASSUME IndInv, Swept
    PROVE  IndInv'
<1>1. /\ backend = "memory" /\ mem # NoEntry /\ ~Unfinished(mem) /\ mem' = NoEntry
      /\ UNCHANGED <<now, backend, counter, lock, req, admitted, opened, last, lockEnd, faults, resets>>
  BY DEF Swept, history, bounds
<1>2. mem.until \in Nat /\ mem.until <= now /\ mem.until = lockEnd
  BY <1>1, TimeFacts DEF IndInv, Shared, MemOK, Unfinished
<1>3. Shared'
  <2>1. MemOK' /\ RedisOK'
    BY <1>1, <1>2, EmptyEntry, TimeFacts DEF MemOK, RedisOK
  <2>. QED  BY <1>1, <2>1, EmptyEntry DEF IndInv, Shared
<1>4. req' \in [Clients -> Request] /\ \A d \in Clients : Rests(backend, req[d], req'[d])
  BY <1>1, StaysRests DEF IndInv
<1>. QED  BY <1>1, <1>3, <1>4, RestInv

LEMMA TickInv ==
    ASSUME IndInv, Tick
    PROVE  IndInv'
<1>1. /\ now < MaxTime /\ now' = now + 1
      /\ counter' = IF counter.exp = now + 1 THEN NoCounter ELSE counter
      /\ lock' = IF lock = now + 1 THEN 0 ELSE lock
      /\ UNCHANGED <<backend, mem, req, admitted, opened, last, lockEnd, faults, resets>>
  BY DEF Tick, history, bounds
<1>2. NoCounter \in [count : Nat, exp : Nat] /\ NoCounter.exp = 0 /\ NoCounter.count = 0
  BY DEF NoCounter
<1>3. Shared
  BY DEF IndInv
<1>4. now' \in Times /\ last <= now'
  BY <1>1, TimeFacts, Consts DEF Times
<1>5. lock' \in Nat /\ (lock' = 0 \/ now' < lock') /\ (lock' = lock \/ lock' = 0)
  BY <1>1, <1>3, TimeFacts DEF Shared
<1>6. /\ counter' \in [count : Nat, exp : Nat] /\ (counter'.exp = 0 \/ now' < counter'.exp)
      /\ counter' = counter \/ counter' = NoCounter
  BY <1>1, <1>2, <1>3, TimeFacts DEF Shared
<1>7. MemOK' /\ RedisOK'
  <2>1. lockEnd \in Nat /\ (lockEnd <= now => lockEnd <= now')
    BY <1>1, <1>3, TimeFacts DEF Shared
  <2>. QED  BY <1>1, <1>2, <1>3, <1>5, <1>6, <2>1 DEF Shared, MemOK, RedisOK
<1>8. Shared'
  BY <1>1, <1>3, <1>4, <1>5, <1>6, <1>7 DEF Shared
<1>9. req' \in [Clients -> Request] /\ \A d \in Clients : Rests(backend, req[d], req'[d])
  BY <1>1, StaysRests DEF IndInv
<1>. QED  BY <1>1, <1>2, <1>5, <1>6, <1>8, <1>9, RestInv

-----------------------------------------------------------------------------
(* The requests that begin.                                                 *)

LEMMA ExpectedFacts ==
    /\ Expected \subseteq {"quiet", "over", "locked"}
    /\ "quiet" \in Expected => InFlight = {} /\ ~Orphaned /\ now > last + Window /\ now >= lockEnd
    /\ "over" \in Expected => lockEnd # 0 /\ now >= lockEnd
    /\ "locked" \in Expected => now < lockEnd
BY DEF Expected

\* A request that is no longer alone expects less, and so knows enough.
LEMMA LessKnows ==
    ASSUME NEW b, NEW q \in Request, Knows(b, q)
    PROVE  LET x == [q EXCEPT !.expect = @ \ {"quiet", "over"}] IN
           x \in Request /\ x.pc = q.pc /\ "quiet" \notin x.expect /\ Knows(b, x)
<1>. DEFINE e == q.expect \ {"quiet", "over"}
            x == [q EXCEPT !.expect = e]
<1>1. e \subseteq q.expect /\ "quiet" \notin e /\ "over" \notin e /\ e \in SUBSET {"quiet", "over", "locked"}
  BY DEF Request
<1>. HIDE DEF e
<1>2. /\ x \in Request /\ x.pc = q.pc /\ x.count = q.count /\ x.until = q.until /\ x.expect = e
      /\ x.answer = q.answer
  BY <1>1 DEF Request
<1>. HIDE DEF x
<1>3. Knows(b, x)
  BY <1>1, <1>2 DEF Knows
<1>4. x = [q EXCEPT !.expect = @ \ {"quiet", "over"}]
  BY DEF x, e
<1>. QED  BY <1>1, <1>2, <1>3, <1>4

LEMMA BeginsInv ==
    ASSUME IndInv, Shared', NEW c \in Clients, Free(c), NEW r \in Request, Begins(c, r),
           UNCHANGED <<backend, counter, lock>>, NEW x \in Request, x = [r EXCEPT !.expect = Expected],
           x.expect = Expected, Knows(backend, x),
           "quiet" \in Expected /\ x.pc \in {"ttl", "incr"} => counter.count = 0 /\ lock = 0
    PROVE  IndInv'
<1>. DEFINE less(d) == [req[d] EXCEPT !.expect = @ \ {"quiet", "over"}]
<1>1. c \notin InFlight
  BY DEF InFlight
<1>2. req' = [d \in Clients |-> CASE d = c -> x
                                  [] d \in InFlight -> less(d)
                                  [] OTHER -> req[d]]
  BY DEF Begins
<1>3. \A d \in Clients : /\ less(d) \in Request /\ less(d).pc = req[d].pc
                         /\ "quiet" \notin less(d).expect /\ Knows(backend, less(d))
  BY LessKnows, RequestFacts
<1>. HIDE DEF less
<1>4. req'[c] = x
  BY <1>1, <1>2
<1>5. \A d \in InFlight : req'[d] = less(d)
  BY <1>1, <1>2 DEF InFlight
<1>6. \A d \in Clients \ {c} : d \notin InFlight => req'[d] = req[d]
  BY <1>2
<1>7. \A d \in Clients : d = c \/ d \in InFlight \/ (d # c /\ d \notin InFlight)
  OBVIOUS
<1>8. req' \in [Clients -> Request]
  <2>1. \A d \in Clients : req'[d] \in Request
    BY <1>3, <1>4, <1>5, <1>6, RequestFacts
  <2>2. req' = [d \in Clients |-> req'[d]]
    BY <1>2
  <2>. QED  BY <2>1, <2>2
<1>9. \A d \in Clients : Knows(backend, req'[d])
  BY <1>3, <1>4, <1>5, <1>6, RequestFacts
<1>10. ASSUME NEW d \in Clients PROVE Alone(d)'
  <2>1. CASE d = c
    <3>. SUFFICES ASSUME "quiet" \in Expected
                  PROVE  \A z \in Clients \ {c} : req'[z].pc \in {"idle", "done", "dellock"}
      BY <1>4, <2>1 DEF Alone
    <3>1. InFlight = {}
      BY ExpectedFacts
    <3>. QED  BY <1>6, <3>1 DEF InFlight, Free
  <2>2. CASE d \in InFlight
    BY <1>3, <1>5, <2>2 DEF Alone
  <2>3. CASE d # c /\ d \notin InFlight
    BY <1>6, <2>3 DEF Alone, InFlight, Free
  <2>. QED  BY <2>1, <2>2, <2>3
<1>. QED  BY <1>8, <1>9, <1>10 DEF IndInv

LEMMA RedisBeginInv ==
    ASSUME IndInv, NEW c \in Clients, RedisBegin(c)
    PROVE  IndInv'
<1>. DEFINE p == IF Lockout # 0 THEN "ttl" ELSE "incr"
            r == [Idle EXCEPT !.pc = p]
            x == [r EXCEPT !.expect = Expected]
<1>1. /\ backend = "redis" /\ Free(c) /\ Begins(c, r) /\ lockEnd' = IF lockEnd <= now THEN 0 ELSE lockEnd
      /\ UNCHANGED <<now, backend, mem, counter, lock, admitted, opened, last, faults, resets>>
  BY DEF RedisBegin, stores, bounds
<1>2. Shared
  BY DEF IndInv
<1>3. Shared'
  <2>1. lockEnd' \in Nat /\ (lock = 0 \/ lock = lockEnd')
    BY <1>1, <1>2, TimeFacts DEF Shared, RedisOK
  <2>. QED  BY <1>1, <1>2, <2>1, SharedInv DEF Shared
<1>4. "quiet" \in Expected => counter.count = 0 /\ lock = 0
  <2>. SUFFICES ASSUME "quiet" \in Expected PROVE counter.count = 0 /\ lock = 0
    OBVIOUS
  <2>1. ~Orphaned /\ now > last + Window /\ now >= lockEnd
    BY ExpectedFacts
  <2>2. counter.exp = 0
    <3>1. counter.exp = 0 \/ counter.exp <= last + Window
      BY <1>1, <1>2 DEF Shared, RedisOK
    <3>2. counter.exp \in Nat /\ (counter.exp = 0 \/ now < counter.exp)
      BY <1>2 DEF Shared
    <3>. QED  BY <2>1, <3>1, <3>2, TimeFacts, Consts
  <2>3. counter.count = 0
    BY <1>2, <2>1, <2>2 DEF Orphaned, Shared
  <2>4. lock = 0
    BY <1>1, <1>2, <2>1, TimeFacts DEF Shared, RedisOK
  <2>. QED  BY <2>3, <2>4
<1>5. p \in {"ttl", "incr"} /\ Expected \in SUBSET {"quiet", "over", "locked"}
  BY ExpectedFacts
<1>. HIDE DEF p
<1>6. r \in Request /\ r.pc = p /\ r.until = 0
  BY <1>5 DEF Idle, Request
<1>7. x \in Request /\ x.pc = p /\ x.until = 0 /\ x.expect = Expected
  BY <1>5 DEF Idle, Request
<1>8. x = [r EXCEPT !.expect = Expected]
  OBVIOUS
<1>. HIDE DEF x, r
<1>9. Knows(backend, x)
  BY <1>1, <1>5, <1>7 DEF Knows
<1>. QED  BY <1>1, <1>3, <1>4, <1>6, <1>7, <1>8, <1>9, BeginsInv

\* What InMemoryStorage::increment leaves in the entry.
LEMMA EntryFacts ==
    ASSUME IndInv, backend = "memory", NEW e, NEW f,
           e = IF mem = NoEntry THEN [NoEntry EXCEPT !.start = now] ELSE mem,
           f = IF e.until > now THEN e ELSE Counted(Restarted(e))
    PROVE  /\ f \in [count : Nat, start : Times, until : Nat] /\ f.start <= now
           /\ f.until # 0 => f.count > MaxRequests
           /\ now < lockEnd => f.count > MaxRequests
           /\ now >= lockEnd /\ (lockEnd # 0 \/ now > last + Window) => f.count = 1 /\ f.until = 0
<1>1. Shared /\ MemOK /\ now \in Nat /\ last \in Nat /\ last <= now /\ now \in Times /\ 0 \in Times
  BY TimeFacts, Consts DEF IndInv, Shared, Times
<1>2. /\ mem \in [count : Nat, start : Times, until : Nat] /\ mem.start \in Nat /\ mem.start <= now
      /\ mem.start <= last /\ (mem.until # 0 => mem.count > MaxRequests) /\ lockEnd \in Nat
      /\ mem.until = lockEnd \/ (mem = NoEntry /\ lockEnd <= now)
  BY <1>1, TimeFacts DEF Shared, MemOK
<1>3. \/ e.count = 0 /\ e.start = now /\ e.until = 0 /\ lockEnd <= now
      \/ e = mem /\ mem.until = lockEnd
  BY <1>1, <1>2, EmptyEntry DEF NoEntry
<1>4. /\ e \in [count : Nat, start : Times, until : Nat] /\ e.start \in Nat /\ e.start <= now
      /\ e.until # 0 => e.count > MaxRequests
  BY <1>1, <1>2, EmptyEntry DEF NoEntry
<1>5. CASE e.until > now
  <2>1. f = e
    BY <1>5
  <2>2. lockEnd > now
    BY <1>1, <1>2, <1>3, <1>5
  <2>. QED  BY <1>1, <1>2, <1>4, <1>5, <2>1, <2>2
<1>6. CASE ~(e.until > now)
  <2>. DEFINE g == Restarted(e)
              n == IF now - g.start > Window THEN 1 ELSE g.count + 1
              s == IF now - g.start > Window THEN now ELSE g.start
              u == IF n > MaxRequests /\ Lockout # 0 THEN now + Lockout ELSE 0
  <2>1. f = [count |-> n, start |-> s, until |-> u]
    BY <1>6 DEF Counted
  <2>2. /\ g.count \in Nat /\ g.start \in Times /\ g.start \in Nat /\ g.start <= now
        /\ e.until # 0 => g.count = 0 /\ g.start = now
        /\ e.until = 0 => g = e
    BY <1>1, <1>4 DEF Restarted
  <2>. HIDE DEF g
  <2>3. /\ n \in Nat /\ s \in Times /\ s <= now
        /\ g.count = 0 => n = 1
        /\ now > g.start + Window => n = 1
    BY <1>1, <2>2, Consts
  <2>4. u \in Nat /\ (u # 0 => n > MaxRequests) /\ (n = 1 => u = 0)
    <3>. HIDE DEF n
    <3>. QED  BY <1>1, <2>3, Consts
  <2>. HIDE DEF n, s, u
  <2>5. f.count = n /\ f.until = u /\ f.start = s /\ f \in [count : Nat, start : Times, until : Nat]
    BY <2>1, <2>3, <2>4
  <2>6. ~(now < lockEnd)
    BY <1>1, <1>2, <1>3, <1>6
  <2>7. ASSUME lockEnd # 0 \/ now > last + Window PROVE n = 1
    <3>1. CASE e.until # 0
      BY <2>2, <2>3, <3>1
    <3>2. CASE e.until = 0 /\ e.count = 0
      BY <2>2, <2>3, <3>2
    <3>3. CASE e.until = 0 /\ e = mem /\ mem.until = lockEnd
      BY <1>1, <1>2, <2>2, <2>3, <2>7, <3>3, Consts
    <3>. QED  BY <1>3, <3>1, <3>2, <3>3
  <2>. QED  BY <2>3, <2>4, <2>5, <2>6, <2>7
<1>. QED  BY <1>5, <1>6

LEMMA MemIncrementInv ==
    ASSUME IndInv, NEW c \in Clients, MemIncrement(c)
    PROVE  IndInv'
<1>. DEFINE e == IF mem = NoEntry THEN [NoEntry EXCEPT !.start = now] ELSE mem
            f == IF e.until > now THEN e ELSE Counted(Restarted(e))
            o == Opening(f.count)
            r == [Idle EXCEPT !.pc = "decide", !.count = f.count, !.until = f.until, !.at = now, !.opened = o]
            x == [r EXCEPT !.expect = Expected]
<1>1. /\ backend = "memory" /\ Free(c) /\ mem' = f /\ Begins(c, r) /\ last' = now /\ lockEnd' = f.until
      /\ opened' = o /\ UNCHANGED <<now, backend, counter, lock, admitted, faults, resets>>
  BY DEF MemIncrement, Touched, bounds
<1>2. /\ f \in [count : Nat, start : Times, until : Nat] /\ f.start <= now
      /\ f.until # 0 => f.count > MaxRequests
      /\ now < lockEnd => f.count > MaxRequests
      /\ now >= lockEnd /\ (lockEnd # 0 \/ now > last + Window) => f.count = 1 /\ f.until = 0
  BY <1>1, EntryFacts
<1>. HIDE DEF e, f
<1>10. opened' \in Times /\ o \in Nat
  BY <1>1, TimeFacts DEF IndInv, Shared, Opening
<1>. HIDE DEF o
<1>3. Shared'
  <2>1. MemOK' /\ RedisOK'
    BY <1>1, <1>2 DEF MemOK, RedisOK
  <2>2. f.until \in Nat
    BY <1>2
  <2>. QED  BY <1>1, <1>2, <1>10, <2>1, <2>2, TimeFacts DEF IndInv, Shared
<1>4. Expected \in SUBSET {"quiet", "over", "locked"} /\ f.count \in Nat /\ f.until \in Nat /\ now \in Nat
  BY <1>2, ExpectedFacts, TimeFacts
<1>5. r \in Request
  BY <1>4, <1>10 DEF Idle, Request
<1>6. x \in Request /\ x.pc = "decide" /\ x.count = f.count /\ x.until = f.until /\ x.expect = Expected
  BY <1>4, <1>10 DEF Idle, Request
<1>7. x = [r EXCEPT !.expect = Expected]
  OBVIOUS
<1>. HIDE DEF x, r
<1>8. /\ "quiet" \in Expected => f.count = 1 /\ f.until = 0
      /\ "over" \in Expected => f.count = 1 /\ f.until = 0
      /\ "locked" \in Expected => f.count > MaxRequests
  BY <1>2, ExpectedFacts
<1>9. Knows(backend, x)
  BY <1>1, <1>6, <1>8 DEF Knows
<1>. QED  BY <1>1, <1>3, <1>5, <1>6, <1>7, <1>9, BeginsInv

-----------------------------------------------------------------------------
(* The budget.  A counter lives from the time it opened until it expires,  *)
(* is swept or is reset; an admission is known by that time and by its     *)
(* count.  Counters open a window apart, so that window_seconds + 1        *)
(* seconds meet at most two of them.                                       *)

\* Everything y knows is older than the time s, when a counter opens or would.
Past(y, s) == y.opened + Window <= s /\ y.at < s

\* A counted request that may still be admitted.
Live(q) == q.pc \in {"expire", "lock", "decide"} /\ q.at # NoTime /\ q.count <= MaxRequests

Stamp(q) == [at |-> q.at, opened |-> q.opened, count |-> q.count]

\* The admissions there are and the ones there may be.
Tally == {admitted[i] : i \in DOMAIN admitted} \cup {Stamp(req[c]) : c \in {d \in Clients : Live(req[d])}}

\* The count of the key in the store in use.
StoreCount == IF backend = "memory" THEN mem.count ELSE counter.count

\* y belongs to the standing counter or to one that ended before it opened.
Placed(y) ==
    /\ 1 <= y.count /\ y.count <= MaxRequests /\ y.opened <= y.at /\ y.at <= now
    /\ StoreCount = 0 => Past(y, now)
    /\ StoreCount # 0 => (y.opened = opened /\ y.count <= StoreCount) \/ Past(y, opened)
    /\ backend = "memory" => y.at <= y.opened + Window /\ (mem.until # 0 => y.at < mem.until)

Spaced(y, z) == y.opened = z.opened \/ Past(y, z.opened) \/ Past(z, y.opened)
Same(y, z) == y.opened = z.opened /\ y.count = z.count

\* No two admissions are the same one, and no request is admitted already.
Distinct ==
    /\ \A i, j \in DOMAIN admitted : Same(admitted[i], admitted[j]) => i = j
    /\ \A i \in DOMAIN admitted, c \in Clients : Live(req[c]) => ~Same(admitted[i], Stamp(req[c]))
    /\ \A c, d \in Clients :
          Live(req[c]) /\ Live(req[d]) /\ Same(Stamp(req[c]), Stamp(req[d])) => c = d

\* The standing counter does not end before a window is over.
Standing ==
    /\ opened <= now
    /\ counter.count = 0 => counter.exp = 0
    /\ backend = "redis" /\ counter.exp # 0 => opened + Window <= counter.exp
    /\ backend = "memory" =>
          /\ mem # NoEntry => mem.count > 0 /\ opened = mem.start
          /\ mem.until # 0 => opened + Window <= mem.until

BudgetInv ==
    /\ Standing
    /\ \A y \in Tally : Placed(y)
    /\ \A y, z \in Tally : Spaced(y, z)
    /\ Distinct

\* The admissions f[i] of W were counted in the stretch from t.
Within(W, f, t) ==
    /\ \A i \in W : /\ f[i] \in Admission /\ f[i].opened <= f[i].at
                    /\ t <= f[i].at /\ f[i].at <= t + Window
    /\ \A i, j \in W : Spaced(f[i], f[j])

Opened(W, f, x, y) == \A i \in W : f[i].opened = x \/ f[i].opened = y

\* A stretch of window_seconds + 1 seconds meets at most two counters.
LEMMA TwoCounters ==
    ASSUME NEW W, NEW t \in Nat, NEW f, Within(W, f, t)
    PROVE  \E x, y : Opened(W, f, x, y)
<1>. SUFFICES \E x, y : \A i \in W : f[i].opened = x \/ f[i].opened = y
  BY DEF Opened
<1>1. CASE W = {}
  BY <1>1
<1>2. CASE W # {}
  <2>1. PICK a \in W : TRUE
    BY <1>2
  <2>2. CASE \A i \in W : f[i].opened = f[a].opened
    BY <2>2
  <2>3. ASSUME NEW b \in W, f[b].opened # f[a].opened
        PROVE  \E x, y : \A i \in W : f[i].opened = x \/ f[i].opened = y
    <3>. SUFFICES ASSUME NEW i \in W PROVE f[i].opened = f[a].opened \/ f[i].opened = f[b].opened
      OBVIOUS
    <3>1. \A k \in W : /\ f[k].opened \in Nat /\ f[k].at \in Nat /\ f[k].opened <= f[k].at
                       /\ t <= f[k].at /\ f[k].at <= t + Window
      BY DEF Admission, Within
    <3>2. \A j, k \in W : \/ f[j].opened = f[k].opened
                          \/ f[j].opened + Window <= f[k].opened /\ f[j].at < f[k].opened
                          \/ f[k].opened + Window <= f[j].opened /\ f[k].at < f[j].opened
      BY DEF Within, Spaced, Past
    <3>. QED  BY <2>1, <2>3, <3>1, <3>2, Consts
  <2>. QED  BY <2>2, <2>3
<1>. QED  BY <1>1, <1>2

\* A counter admits at most max_requests, each with a count of its own.
LEMMA Counting ==
    ASSUME NEW W, NEW f, NEW x, NEW y,
           \A i \in W : /\ f[i].count \in Nat /\ 1 <= f[i].count /\ f[i].count <= MaxRequests
                        /\ f[i].opened = x \/ f[i].opened = y,
           \A i, j \in W : Same(f[i], f[j]) => i = j
    PROVE  Cardinality(W) <= 2 * MaxRequests
<1>. DEFINE m == 2 * MaxRequests
            g == [i \in W |-> IF f[i].opened = x THEN f[i].count ELSE f[i].count + MaxRequests]
<1>1. m \in Nat /\ MaxRequests \in Nat /\ m = MaxRequests + MaxRequests
  BY Consts
<1>2. \A i \in W : g[i] \in 1..m
  BY <1>1
<1>3. ASSUME NEW i \in W, NEW j \in W, g[i] = g[j] PROVE i = j
  <2>1. f[i].opened = f[j].opened /\ f[i].count = f[j].count
    BY <1>1, <1>3
  <2>. QED  BY <2>1 DEF Same
<1>4. g \in Injection(W, 1..m)
  BY <1>2, <1>3 DEF Injection, IsInjective
<1>5. IsFiniteSet(1..m) /\ Cardinality(1..m) = m
  BY <1>1, FS_Interval, Consts
<1>. HIDE DEF g, m
<1>6. Cardinality(W) <= m
  BY <1>4, <1>5, FS_Injection
<1>. QED  BY <1>6 DEF m

LEMMA BudgetCounts ==
    ASSUME IndInv, BudgetInv
    PROVE  AdmittedBudget
<1>. SUFFICES ASSUME NEW t \in Times
              PROVE  Cardinality({i \in DOMAIN admitted : t <= admitted[i].at /\ admitted[i].at <= t + Window})
                        <= 2 * MaxRequests
  BY DEF AdmittedBudget
<1>. DEFINE W == {i \in DOMAIN admitted : t <= admitted[i].at /\ admitted[i].at <= t + Window}
<1>1. \A i \in DOMAIN admitted : admitted[i] \in Admission /\ admitted[i] \in Tally
  BY DEF IndInv, Shared, Tally
<1>2. \A i \in DOMAIN admitted : Placed(admitted[i])
  BY <1>1 DEF BudgetInv
<1>3. \A i, j \in DOMAIN admitted : Spaced(admitted[i], admitted[j])
  BY <1>1 DEF BudgetInv
<1>4. \A i, j \in W : Same(admitted[i], admitted[j]) => i = j
  BY DEF BudgetInv, Distinct
<1>5. \A i \in W : /\ admitted[i] \in Admission /\ admitted[i].opened <= admitted[i].at
                   /\ t <= admitted[i].at /\ admitted[i].at <= t + Window
  BY <1>1, <1>2 DEF Placed
<1>6. \A i, j \in W : Spaced(admitted[i], admitted[j])
  BY <1>3
<1>7. \A i \in W : /\ admitted[i].count \in Nat
                   /\ 1 <= admitted[i].count /\ admitted[i].count <= MaxRequests
  BY <1>1, <1>2 DEF Placed, Admission
<1>8. t \in Nat
  BY TimeFacts
<1>. HIDE DEF W
<1>11. Within(W, admitted, t)
  BY <1>5, <1>6 DEF Within
<1>12. \E x, y : Opened(W, admitted, x, y)
  BY <1>8, <1>11, TwoCounters
<1>9. PICK x, y : \A i \in W : admitted[i].opened = x \/ admitted[i].opened = y
  BY <1>12 DEF Opened
<1>10. Cardinality(W) <= 2 * MaxRequests
  BY <1>4, <1>7, <1>9, Counting
<1>. QED  BY <1>10 DEF W

LEMMA TallyType ==
    ASSUME IndInv
    PROVE  \A y \in Tally : y \in Admission /\ y.at \in Nat /\ y.opened \in Nat /\ y.count \in Nat
<1>1. \A c \in Clients : Stamp(req[c]) \in Admission
  BY RequestFacts DEF Stamp, Admission, Request
<1>2. \A i \in DOMAIN admitted : admitted[i] \in Admission
  BY DEF IndInv, Shared
<1>3. \A y \in Tally : y \in Admission
  BY <1>1, <1>2 DEF Tally
<1>. QED  BY <1>3 DEF Admission

LEMMA InTally ==
    /\ \A i \in DOMAIN admitted : admitted[i] \in Tally
    /\ \A c \in Clients : Live(req[c]) => Stamp(req[c]) \in Tally
BY DEF Tally

\* The requests stay as they are counted but for request c, which may be
\* counted now.
Keeps(c) ==
    /\ admitted' = admitted
    /\ \A d \in Clients \ {c} : Live(req'[d]) => Live(req[d]) /\ Stamp(req'[d]) = Stamp(req[d])

LEMMA JoinsInv ==
    ASSUME BudgetInv, NEW c \in Clients, Keeps(c), Standing', \A y \in Tally : Placed(y)', NEW z, z = Stamp(req'[c]),
           Live(req'[c]) => Placed(z)' /\ \A y \in Tally : Spaced(y, z) /\ ~Same(y, z)
    PROVE  BudgetInv'
<1>1. \A y \in Tally' : y \in Tally \/ (Live(req'[c]) /\ y = z)
  BY DEF Keeps, Tally
<1>2. \A y \in Tally' : Placed(y)'
  BY <1>1
<1>3. ASSUME NEW x \in Tally', NEW y \in Tally' PROVE Spaced(x, y)
  <2>1. \A v \in Tally : Live(req'[c]) => Spaced(v, z) /\ Spaced(z, v)
    BY DEF Spaced
  <2>2. Spaced(z, z)
    BY DEF Spaced
  <2>3. \A v, w \in Tally : Spaced(v, w)
    BY DEF BudgetInv
  <2>. QED  BY <1>1, <2>1, <2>2, <2>3
<1>4. Distinct'
  <2>1. Distinct
    BY DEF BudgetInv
  <2>2. \A i, j \in DOMAIN admitted' : Same(admitted'[i], admitted'[j]) => i = j
    BY <2>1 DEF Keeps, Distinct
  <2>3. ASSUME NEW i \in DOMAIN admitted', NEW d \in Clients, Live(req'[d])
        PROVE  ~Same(admitted'[i], Stamp(req'[d]))
    <3>1. CASE d = c
      BY <2>3, <3>1, InTally DEF Keeps
    <3>2. CASE d # c
      BY <2>1, <2>3, <3>2 DEF Keeps, Distinct
    <3>. QED  BY <3>1, <3>2
  <2>4. ASSUME NEW d \in Clients, NEW e \in Clients, Live(req'[d]), Live(req'[e]),
               Same(Stamp(req'[d]), Stamp(req'[e]))
        PROVE  d = e
    <3>1. \A y : Same(y, z) <=> Same(z, y)
      BY DEF Same
    <3>2. \A b \in Clients \ {c} : Live(req'[b]) => Stamp(req'[b]) \in Tally
      BY InTally DEF Keeps
    <3>3. CASE d = c \/ e = c
      BY <2>4, <3>1, <3>2, <3>3
    <3>4. CASE d # c /\ e # c
      BY <2>1, <2>4, <3>4 DEF Keeps, Distinct
    <3>. QED  BY <3>3, <3>4
  <2>. HIDE DEF Distinct
  <2>. QED  BY <2>2, <2>3, <2>4 DEF Distinct
<1>5. \A x, y \in Tally' : Spaced(x, y)'
  BY <1>3 DEF Spaced, Past
<1>. QED  BY <1>2, <1>4, <1>5 DEF BudgetInv

\* A step that counts nothing.
LEMMA KeepsInv ==
    ASSUME BudgetInv, admitted' = admitted, Standing', \A y \in Tally : Placed(y)',
           \A d \in Clients : Live(req'[d]) => Live(req[d]) /\ Stamp(req'[d]) = Stamp(req[d])
    PROVE  BudgetInv'
<1>1. Tally' \subseteq Tally
  BY DEF Tally
<1>2. \A y \in Tally' : Placed(y)'
  BY <1>1
<1>3. \A x, y \in Tally' : Spaced(x, y)'
  BY <1>1 DEF BudgetInv, Spaced, Past
<1>4. Distinct'
  BY DEF BudgetInv, Distinct
<1>. QED  BY <1>2, <1>3, <1>4 DEF BudgetInv

\* A step that leaves the counter in use alone.
LEMMA SameStoreInv ==
    ASSUME BudgetInv, UNCHANGED <<now, backend, mem, counter, opened, admitted>>,
           \A d \in Clients : Live(req'[d]) => Live(req[d]) /\ Stamp(req'[d]) = Stamp(req[d])
    PROVE  BudgetInv'
<1>1. Standing'
  BY DEF BudgetInv, Standing
<1>2. \A y \in Tally : Placed(y)'
  BY DEF BudgetInv, Placed, StoreCount, Past
<1>. QED  BY <1>1, <1>2, KeepsInv

\* Nothing counts any more.
LEMMA ForgivenInv ==
    ASSUME Standing', admitted' = <<>>, \A d \in Clients : ~Live(req'[d])
    PROVE  BudgetInv'
<1>1. Tally' = {}
  BY DEF Tally
<1>2. Distinct'
  BY DEF Distinct
<1>. QED  BY <1>1, <1>2 DEF BudgetInv

-----------------------------------------------------------------------------
(* The budget, action by action.                                            *)

LEMMA StampFacts ==
    ASSUME NEW q \in Request, NEW x \in Request, x.at = q.at, x.opened = q.opened, x.count = q.count
    PROVE  Stamp(x) = Stamp(q)
BY DEF Stamp

\* Only request c changes, to x.
LEMMA OneInv ==
    ASSUME IndInv, BudgetInv, UNCHANGED <<now, backend, mem, counter, opened, admitted>>, NEW c \in Clients,
           NEW x, req' = [req EXCEPT ![c] = x], Live(x) => Live(req[c]) /\ Stamp(x) = Stamp(req[c])
    PROVE  BudgetInv'
<1>1. ASSUME NEW d \in Clients PROVE Live(req'[d]) => Live(req[d]) /\ Stamp(req'[d]) = Stamp(req[d])
  BY DEF IndInv
<1>. QED  BY <1>1, SameStoreInv

LEMMA ReadTtlBudget ==
    ASSUME IndInv, BudgetInv, NEW c \in Clients, ReadTtl(c)
    PROVE  BudgetInv'
<1>. DEFINE q == req[c]
<1>1. UNCHANGED <<now, backend, mem, counter, opened, admitted>>
  BY DEF ReadTtl, stores
<1>2. q \in Request /\ c \in DOMAIN req
  BY RequestFacts
<1>3. CASE req' = [req EXCEPT ![c].pc = "incr"]
  <2>. DEFINE x == [q EXCEPT !.pc = "incr"]
  <2>1. req' = [req EXCEPT ![c] = x]
    BY <1>2, <1>3 DEF Request
  <2>. HIDE DEF q
  <2>2. x.pc = "incr"
    BY <1>2 DEF Request
  <2>. HIDE DEF x
  <2>3. ~Live(x)
    BY <2>2 DEF Live
  <2>. QED  BY <1>1, <2>1, <2>3, OneInv
<1>4. ASSUME NEW u, req' = [req EXCEPT ![c].pc = "get", ![c].until = u] PROVE BudgetInv'
  <2>. DEFINE x == [q EXCEPT !.pc = "get", !.until = u]
  <2>1. req' = [req EXCEPT ![c] = x]
    BY <1>2, <1>4 DEF Request
  <2>. HIDE DEF q
  <2>2. x.pc = "get"
    BY <1>2 DEF Request
  <2>. HIDE DEF x
  <2>3. ~Live(x)
    BY <2>2 DEF Live
  <2>. QED  BY <1>1, <2>1, <2>3, OneInv
<1>. QED  BY <1>3, <1>4 DEF ReadTtl

LEMMA GetCountBudget ==
    ASSUME IndInv, BudgetInv, NEW c \in Clients, GetCount(c)
    PROVE  BudgetInv'
<1>. DEFINE q == req[c]
            u == now + q.until
            n == IF counter.count > 0 THEN counter.count ELSE MaxRequests + 1
            x == [q EXCEPT !.pc = "decide", !.until = u, !.at = NoTime, !.count = n]
<1>1. UNCHANGED <<now, backend, mem, counter, opened, admitted>>
  BY DEF GetCount, stores
<1>2. q \in Request /\ c \in DOMAIN req
  BY RequestFacts
<1>3. req' = [req EXCEPT ![c] = x]
  BY <1>2 DEF GetCount, Request
<1>. HIDE DEF q, u, n
<1>4. x.at = NoTime
  BY <1>2 DEF Request
<1>. HIDE DEF x
<1>5. ~Live(x)
  BY <1>4 DEF Live
<1>. QED  BY <1>1, <1>3, <1>5, OneInv

LEMMA SetLockBudget ==
    ASSUME IndInv, BudgetInv, NEW c \in Clients, SetLock(c)
    PROVE  BudgetInv'
<1>. DEFINE q == req[c]
            u == now + Lockout
            x == [q EXCEPT !.pc = "decide", !.until = u]
<1>1. UNCHANGED <<now, backend, mem, counter, opened, admitted>> /\ q.pc = "lock"
  BY DEF SetLock
<1>2. q \in Request /\ c \in DOMAIN req /\ u \in Nat
  BY RequestFacts, TimeFacts, Consts
<1>3. req' = [req EXCEPT ![c] = x]
  BY <1>2 DEF SetLock, Request
<1>. HIDE DEF q, u
<1>4. x \in Request /\ x.at = q.at /\ x.opened = q.opened /\ x.count = q.count
  BY <1>2 DEF Request
<1>. HIDE DEF x
<1>5. (Live(x) => Live(q)) /\ Stamp(x) = Stamp(q)
  BY <1>1, <1>2, <1>4, StampFacts DEF Live
<1>. QED  BY <1>1, <1>3, <1>5, OneInv DEF q

LEMMA IgnoredErrorBudget ==
    ASSUME IndInv, BudgetInv, NEW c \in Clients, IgnoredError(c)
    PROVE  BudgetInv'
<1>. DEFINE q == req[c]
            p == IF q.pc = "expire" THEN AfterExpire(q.count) ELSE "decide"
            u == IF q.pc = "lock" THEN now + Lockout ELSE 0
            x == [q EXCEPT !.pc = p, !.until = u]
<1>1. UNCHANGED <<now, backend, mem, counter, opened, admitted>> /\ q.pc \in {"expire", "lock"}
  BY DEF IgnoredError, stores, history
<1>2. q \in Request /\ c \in DOMAIN req /\ u \in Nat /\ p \in {"lock", "decide"}
  BY RequestFacts, TimeFacts, Consts, After
<1>3. req' = [req EXCEPT ![c] = x]
  BY <1>2 DEF IgnoredError, Request
<1>. HIDE DEF q, p, u
<1>4. x \in Request /\ x.at = q.at /\ x.opened = q.opened /\ x.count = q.count
  BY <1>2 DEF Request
<1>. HIDE DEF x
<1>5. (Live(x) => Live(q)) /\ Stamp(x) = Stamp(q)
  BY <1>1, <1>2, <1>4, StampFacts DEF Live
<1>. QED  BY <1>1, <1>3, <1>5, OneInv DEF q

\* A client that is idle or resets counts nothing.
LEMMA FreeBudget ==
    ASSUME IndInv, BudgetInv, NEW c \in Clients, Dropped(c) \/ DelCounterFails(c) \/ DelLock(c)
    PROVE  BudgetInv'
<1>. DEFINE y == [Idle EXCEPT !.pc = "dellock"]
<1>1. UNCHANGED <<now, backend, mem, counter, opened, admitted>>
  BY DEF Dropped, DelCounterFails, DelLock, stores, history
<1>2. req' = [req EXCEPT ![c] = Idle] \/ req' = [req EXCEPT ![c] = y]
  BY DEF Dropped, DelCounterFails, DelLock
<1>3. Idle.pc = "idle" /\ y.pc = "dellock"
  BY DEF Idle
<1>. HIDE DEF y
<1>4. ~Live(Idle) /\ ~Live(y)
  BY <1>3 DEF Live
<1>. QED  BY <1>1, <1>2, <1>4, OneInv

LEMMA ResetBudget ==
    ASSUME IndInv, BudgetInv, MemReset \/ \E c \in Clients : DelCounter(c)
    PROVE  BudgetInv'
<1>1. admitted' = <<>> /\ UNCHANGED <<now, backend, opened>>
  BY DEF MemReset, DelCounter, Forgiven
<1>2. Standing'
  <2>1. NoCounter.exp = 0
    BY DEF NoCounter
  <2>2. \/ backend = "memory" /\ mem' = NoEntry /\ counter' = counter
        \/ backend = "redis" /\ counter' = NoCounter
    BY DEF MemReset, DelCounter
  <2>. QED  BY <1>1, <2>1, <2>2, EmptyEntry DEF BudgetInv, Standing
<1>3. ASSUME NEW d \in Clients PROVE ~Live(Forgets(d))
  <2>. DEFINE q == req[d]
              x == [q EXCEPT !.at = NoTime]
  <2>1. q \in Request
    BY RequestFacts
  <2>2. Forgets(d) = x \/ (Forgets(d) = q /\ q.pc \in {"idle", "done"})
    BY DEF Forgets, InFlight, Free
  <2>. HIDE DEF q
  <2>3. x.at = NoTime
    BY <2>1 DEF Request
  <2>. HIDE DEF x
  <2>. QED  BY <2>2, <2>3 DEF Live
<1>4. ~Live([Idle EXCEPT !.pc = "dellock"])
  BY Resetting DEF Live
<1>5. \A d \in Clients : req'[d] = Forgets(d) \/ req'[d] = [Idle EXCEPT !.pc = "dellock"]
  BY DEF MemReset, DelCounter
<1>6. \A d \in Clients : ~Live(req'[d])
  BY <1>3, <1>4, <1>5
<1>. QED  BY <1>1, <1>2, <1>6, ForgivenInv

\* A request that begins leaves the other requests as they are counted.
LEMMA BeginsKeeps ==
    ASSUME IndInv, NEW c \in Clients, Free(c), NEW r, Begins(c, r)
    PROVE  /\ req'[c] = [r EXCEPT !.expect = Expected]
           /\ \A d \in Clients \ {c} : Live(req'[d]) => Live(req[d]) /\ Stamp(req'[d]) = Stamp(req[d])
<1>. DEFINE less(d) == [req[d] EXCEPT !.expect = @ \ {"quiet", "over"}]
            x == [r EXCEPT !.expect = Expected]
<1>1. req' = [d \in Clients |-> CASE d = c -> x
                                  [] d \in InFlight -> less(d)
                                  [] OTHER -> req[d]]
  BY DEF Begins
<1>2. c \notin InFlight
  BY DEF InFlight
<1>3. ASSUME NEW d \in Clients
      PROVE  (Live(less(d)) => Live(req[d])) /\ Stamp(less(d)) = Stamp(req[d])
  <2>. DEFINE q == req[d]
              e == q.expect \ {"quiet", "over"}
              y == [q EXCEPT !.expect = e]
  <2>1. q \in Request /\ e \in SUBSET {"quiet", "over", "locked"}
    BY RequestFacts DEF Request
  <2>2. less(d) = y
    OBVIOUS
  <2>. HIDE DEF q, e
  <2>3. y \in Request /\ y.pc = q.pc /\ y.at = q.at /\ y.opened = q.opened /\ y.count = q.count
    BY <2>1 DEF Request
  <2>. HIDE DEF y, less
  <2>4. (Live(y) => Live(q)) /\ Stamp(y) = Stamp(q)
    BY <2>1, <2>3, StampFacts DEF Live
  <2>. QED  BY <2>2, <2>4 DEF q
<1>. HIDE DEF less, x
<1>4. req'[c] = x
  BY <1>1, <1>2
<1>5. ASSUME NEW d \in Clients \ {c} PROVE req'[d] = less(d) \/ req'[d] = req[d]
  <2>1. CASE d \in InFlight
    BY <1>1, <1>2, <2>1
  <2>2. CASE d \notin InFlight
    BY <1>1, <2>2
  <2>. QED  BY <2>1, <2>2
<1>6. \A d \in Clients \ {c} : Live(req'[d]) => Live(req[d]) /\ Stamp(req'[d]) = Stamp(req[d])
  BY <1>3, <1>5
<1>. QED  BY <1>4, <1>6 DEF x

LEMMA RedisBeginBudget ==
    ASSUME IndInv, BudgetInv, NEW c \in Clients, RedisBegin(c)
    PROVE  BudgetInv'
<1>. DEFINE p == IF Lockout # 0 THEN "ttl" ELSE "incr"
            r == [Idle EXCEPT !.pc = p]
            x == [r EXCEPT !.expect = Expected]
<1>1. Free(c) /\ Begins(c, r) /\ UNCHANGED <<now, backend, mem, counter, opened, admitted>>
  BY DEF RedisBegin, stores
<1>2. /\ req'[c] = x
      /\ \A d \in Clients \ {c} : Live(req'[d]) => Live(req[d]) /\ Stamp(req'[d]) = Stamp(req[d])
  <2>. HIDE DEF r
  <2>. QED  BY <1>1, BeginsKeeps
<1>3. x.pc \in {"ttl", "incr"}
  BY DEF Idle
<1>. HIDE DEF x
<1>4. ~Live(req'[c])
  BY <1>2, <1>3 DEF Live
<1>. QED  BY <1>1, <1>2, <1>4, SameStoreInv

LEMMA ExpireBudget ==
    ASSUME IndInv, BudgetInv, NEW c \in Clients, Expire(c)
    PROVE  BudgetInv'
<1>. DEFINE q == req[c]
            p == AfterExpire(q.count)
            e == IF counter.count > 0 THEN WindowEnd ELSE 0
            x == [q EXCEPT !.pc = p]
<1>1. /\ q.pc = "expire" /\ counter' = [counter EXCEPT !.exp = e]
      /\ UNCHANGED <<now, backend, mem, opened, admitted>>
  BY DEF Expire
<1>2. q \in Request /\ c \in DOMAIN req /\ p \in {"lock", "decide"}
  BY RequestFacts, After
<1>3. req' = [req EXCEPT ![c] = x]
  BY <1>2 DEF Expire, Request
<1>4. counter \in [count : Nat, exp : Nat] /\ opened \in Nat /\ now \in Nat /\ opened <= now /\ Standing
  BY TimeFacts DEF IndInv, Shared, BudgetInv, Standing
<1>5. e \in Nat /\ (counter.count = 0 => e = 0) /\ (e # 0 => opened + Window <= e)
  BY <1>4, Consts DEF WindowEnd
<1>. HIDE DEF q, p, e
<1>6. counter'.count = counter.count /\ counter'.exp = e
  BY <1>1, <1>4
<1>7. Standing'
  BY <1>1, <1>4, <1>5, <1>6 DEF Standing
<1>8. \A y \in Tally : Placed(y)'
  BY <1>1, <1>6 DEF BudgetInv, Placed, StoreCount, Past
<1>9. x \in Request /\ x.at = q.at /\ x.opened = q.opened /\ x.count = q.count
  BY <1>2 DEF Request
<1>. HIDE DEF x
<1>10. (Live(x) => Live(q)) /\ Stamp(x) = Stamp(q)
  BY <1>1, <1>2, <1>9, StampFacts DEF Live
<1>11. \A d \in Clients : Live(req'[d]) => Live(req[d]) /\ Stamp(req'[d]) = Stamp(req[d])
  BY <1>3, <1>10 DEF q, IndInv
<1>. QED  BY <1>1, <1>7, <1>8, <1>11, KeepsInv

LEMMA TickBudget ==
    ASSUME IndInv, BudgetInv, Tick
    PROVE  BudgetInv'
<1>1. /\ now' = now + 1 /\ UNCHANGED <<backend, mem, req, admitted, opened>>
      /\ counter' = IF counter.exp = now + 1 THEN NoCounter ELSE counter
  BY DEF Tick, history
<1>2. NoCounter.count = 0 /\ NoCounter.exp = 0
  BY DEF NoCounter
<1>3. /\ counter \in [count : Nat, exp : Nat] /\ opened \in Nat /\ now \in Nat /\ Standing
      /\ mem.count \in Nat /\ backend \in {"memory", "redis"}
  BY TimeFacts DEF IndInv, Shared, BudgetInv
<1>4. Standing'
  BY <1>1, <1>2, <1>3 DEF Standing
<1>5. ASSUME NEW y \in Tally PROVE Placed(y)'
  <2>1. y.at \in Nat /\ y.opened \in Nat /\ y.count \in Nat /\ Placed(y)
    BY TallyType DEF BudgetInv
  <2>2. Past(y, now) => Past(y, now')
    BY <1>1, <1>3, <2>1, Consts DEF Past
  <2>3. CASE StoreCount' = StoreCount
    BY <1>1, <1>3, <2>1, <2>2, <2>3 DEF Placed, Past
  <2>4. CASE StoreCount' # StoreCount
    <3>1. backend = "redis" /\ counter.exp = now + 1 /\ counter' = NoCounter
      BY <1>1, <1>3, <2>4 DEF StoreCount
    <3>2. StoreCount' = 0 /\ StoreCount # 0
      BY <1>1, <1>2, <2>4, <3>1 DEF StoreCount
    <3>3. opened + Window <= now + 1
      BY <1>3, <3>1 DEF Standing
    <3>4. Past(y, now')
      BY <1>1, <1>3, <2>1, <3>2, <3>3, Consts DEF Placed, Past, Standing
    <3>. QED  BY <1>1, <1>3, <2>1, <3>1, <3>2, <3>4 DEF Placed
  <2>. QED  BY <2>3, <2>4
<1>. QED  BY <1>1, <1>4, <1>5, KeepsInv

LEMMA SweptBudget ==
    ASSUME IndInv, BudgetInv, Swept
    PROVE  BudgetInv'
<1>1. /\ backend = "memory" /\ mem # NoEntry /\ ~Unfinished(mem) /\ mem' = NoEntry
      /\ UNCHANGED <<now, backend, counter, req, admitted, opened>>
  BY DEF Swept, history
<1>2. mem.start \in Nat /\ opened \in Nat /\ now \in Nat /\ Standing
  BY TimeFacts DEF IndInv, Shared, BudgetInv
<1>3. now > opened + Window /\ mem.count # 0
  BY <1>1, <1>2, Consts DEF Unfinished, Standing
<1>4. Standing'
  BY <1>1, <1>2, EmptyEntry DEF Standing
<1>5. ASSUME NEW y \in Tally PROVE Placed(y)'
  <2>1. y.at \in Nat /\ y.opened \in Nat /\ y.count \in Nat /\ Placed(y)
    BY TallyType DEF BudgetInv
  <2>2. StoreCount' = 0 /\ StoreCount # 0
    BY <1>1, <1>3, EmptyEntry DEF StoreCount
  <2>3. Past(y, now)
    BY <1>1, <1>2, <1>3, <2>1, <2>2, Consts DEF Placed, Past
  <2>. QED  BY <1>1, <2>1, <2>2, <2>3, EmptyEntry DEF Placed, Past
<1>. QED  BY <1>1, <1>4, <1>5, KeepsInv

\* Decide turns what may be admitted into what is.
LEMMA DecideBudget ==
    ASSUME IndInv, BudgetInv, NEW c \in Clients, Decide(c)
    PROVE  BudgetInv'
<1>. DEFINE q == req[c]
            a == IF Admits(q) THEN "admitted" ELSE "refused"
            x == [Idle EXCEPT !.pc = "done", !.answer = a, !.expect = q.expect]
            s == Stamp(q)
<1>1. /\ q.pc = "decide" /\ UNCHANGED <<now, backend, mem, counter, opened>>
      /\ req' = [req EXCEPT ![c] = x]
  BY DEF Decide, Answers, stores
<1>2. \/ admitted' = admitted
      \/ admitted' = Append(admitted, s) /\ Live(q)
  BY <1>1 DEF Decide, Admits, Live, Stamp
<1>3. x.pc = "done"
  BY DEF Idle
<1>. HIDE DEF x
<1>4. ~Live(x)
  BY <1>3 DEF Live
<1>5. req'[c] = x /\ \A d \in Clients \ {c} : req'[d] = req[d]
  BY <1>1 DEF IndInv
<1>6. \A d \in Clients : Live(req'[d]) => d # c /\ Live(req[d]) /\ req'[d] = req[d]
  BY <1>4, <1>5
<1>7. CASE admitted' = admitted
  BY <1>1, <1>6, <1>7, SameStoreInv
<1>8. CASE admitted' = Append(admitted, s) /\ Live(q)
  <2>1. admitted \in Seq(Admission)
    BY DEF IndInv, Shared
  <2>. DEFINE n == Len(admitted) + 1
  <2>. HIDE DEF s, q
  <2>2. /\ DOMAIN admitted' = DOMAIN admitted \cup {n} /\ admitted'[n] = s /\ n \notin DOMAIN admitted
        /\ \A i \in DOMAIN admitted : admitted'[i] = admitted[i]
    BY <1>8, <2>1
  <2>. HIDE DEF n
  <2>3. s \in Tally
    BY <1>8, InTally DEF s, q
  <2>4. Tally' \subseteq Tally
    <3>1. ASSUME NEW y \in Tally' PROVE y \in Tally
      <4>1. \/ \E i \in DOMAIN admitted' : y = admitted'[i]
            \/ \E d \in Clients : Live(req'[d]) /\ y = Stamp(req'[d])
        BY DEF Tally
      <4>2. ASSUME NEW i \in DOMAIN admitted' PROVE admitted'[i] \in Tally
        BY <2>2, <2>3, InTally
      <4>3. \A d \in Clients : Live(req'[d]) => Stamp(req'[d]) \in Tally
        BY <1>6, InTally
      <4>. QED  BY <4>1, <4>2, <4>3
    <3>. QED  BY <3>1
  <2>5. \A y \in Tally' : Placed(y)'
    BY <1>1, <2>4 DEF BudgetInv, Placed, StoreCount, Past
  <2>6. \A y, z \in Tally' : Spaced(y, z)'
    BY <2>4 DEF BudgetInv, Spaced, Past
  <2>7. Distinct'
    <3>1. Distinct
      BY DEF BudgetInv
    <3>2. /\ \A i \in DOMAIN admitted : ~Same(admitted[i], s) /\ ~Same(s, admitted[i])
          /\ \A d \in Clients : Live(req'[d]) => ~Same(s, Stamp(req'[d]))
      <4>1. \A i \in DOMAIN admitted : ~Same(admitted[i], s)
        BY <1>8, <3>1 DEF Distinct, s, q
      <4>2. \A d \in Clients : Live(req'[d]) => ~Same(s, Stamp(req'[d]))
        BY <1>6, <1>8, <3>1 DEF Distinct, s, q
      <4>. QED  BY <4>1, <4>2 DEF Same
    <3>3. \A i, j \in DOMAIN admitted' : Same(admitted'[i], admitted'[j]) => i = j
      <4>1. \A i, j \in DOMAIN admitted : Same(admitted[i], admitted[j]) => i = j
        BY <3>1 DEF Distinct
      <4>. QED  BY <2>2, <3>2, <4>1
    <3>4. \A i \in DOMAIN admitted', d \in Clients : Live(req'[d]) => ~Same(admitted'[i], Stamp(req'[d]))
      <4>1. \A i \in DOMAIN admitted, d \in Clients : Live(req[d]) => ~Same(admitted[i], Stamp(req[d]))
        BY <3>1 DEF Distinct
      <4>. QED  BY <1>6, <2>2, <3>2, <4>1
    <3>5. \A d, e \in Clients : Live(req'[d]) /\ Live(req'[e]) /\ Same(Stamp(req'[d]), Stamp(req'[e])) => d = e
      BY <1>6, <3>1 DEF Distinct
    <3>. QED  BY <3>3, <3>4, <3>5 DEF Distinct
  <2>8. Standing'
    BY <1>1 DEF BudgetInv, Standing
  <2>. QED  BY <2>5, <2>6, <2>7, <2>8 DEF BudgetInv
<1>. QED  BY <1>2, <1>7, <1>8

\* How a counting step leaves the counter in use: one higher, or fresh, when
\* everything counted before it is past.
Higher == StoreCount # 0 /\ StoreCount' = StoreCount + 1 /\ opened' = opened
Fresh == StoreCount' = 1 /\ opened' = now /\ \A y \in Tally : Past(y, now)

LEMMA CountsPlaced ==
    ASSUME IndInv, BudgetInv, UNCHANGED <<now, backend>>, Higher \/ Fresh, NEW y \in Tally,
           mem'.until \in Nat, backend = "memory" /\ mem'.until # 0 => now < mem'.until
    PROVE  Placed(y)'
<1>1. y.at \in Nat /\ y.opened \in Nat /\ y.count \in Nat /\ Placed(y)
  BY TallyType DEF BudgetInv
<1>2. StoreCount \in Nat /\ now \in Nat
  BY TimeFacts DEF IndInv, Shared, StoreCount
<1>3. backend = "memory" => y.at <= y.opened + Window /\ (mem'.until # 0 => y.at < mem'.until)
  <2>1. y.at <= now /\ (backend = "memory" => y.at <= y.opened + Window)
    BY <1>1 DEF Placed
  <2>2. backend = "memory" /\ mem'.until # 0 => now < mem'.until
    OBVIOUS
  <2>. QED  BY <1>1, <1>2, <2>1, <2>2
<1>4. StoreCount' # 0 /\ ((y.opened = opened' /\ y.count <= StoreCount') \/ Past(y, opened'))
  <2>1. CASE Higher
    BY <1>1, <1>2, <2>1 DEF Higher, Placed
  <2>2. CASE Fresh
    BY <2>2 DEF Fresh
  <2>. QED  BY <2>1, <2>2
<1>. QED  BY <1>1, <1>3, <1>4 DEF Placed, Past

\* The request that counts is none of those counted before it.
LEMMA CountsNew ==
    ASSUME IndInv, BudgetInv, Higher \/ Fresh, NEW y \in Tally, NEW z,
           z.at = now, z.opened = opened', z.count = StoreCount'
    PROVE  Spaced(y, z) /\ ~Same(y, z)
<1>1. y.at \in Nat /\ y.opened \in Nat /\ y.count \in Nat /\ Placed(y)
  BY TallyType DEF BudgetInv
<1>2. StoreCount \in Nat /\ now \in Nat /\ opened \in Nat
  BY TimeFacts DEF IndInv, Shared, StoreCount
<1>3. CASE Higher
  <2>1. (y.opened = z.opened /\ y.count < z.count) \/ Past(y, z.opened)
    BY <1>1, <1>2, <1>3 DEF Higher, Placed
  <2>2. z.opened \in Nat /\ z.count \in Nat
    BY <1>2, <1>3 DEF Higher
  <2>. QED  BY <1>1, <2>1, <2>2, Consts DEF Spaced, Same, Past
<1>4. CASE Fresh
  <2>1. Past(y, z.opened) /\ z.opened \in Nat
    BY <1>2, <1>4 DEF Fresh
  <2>. QED  BY <1>1, <2>1, Consts DEF Spaced, Same, Past
<1>. QED  BY <1>3, <1>4

\* The counting request itself has its place.
LEMMA CountsItself ==
    ASSUME IndInv, BudgetInv, UNCHANGED <<now, backend>>, Higher \/ Fresh, NEW z,
           z.at = now, z.opened = opened', z.count = StoreCount', z.count <= MaxRequests,
           backend = "memory" => now <= opened' + Window /\ (mem'.until # 0 => now < mem'.until)
    PROVE  Placed(z)'
<1>1. StoreCount \in Nat /\ now \in Nat /\ opened \in Nat /\ opened <= now
  BY TimeFacts DEF IndInv, Shared, StoreCount, BudgetInv, Standing
<1>2. StoreCount' \in Nat /\ 1 <= StoreCount' /\ opened' \in Nat /\ opened' <= now
  <2>1. CASE Higher
    BY <1>1, <2>1 DEF Higher
  <2>2. CASE Fresh
    BY <1>1, <2>2 DEF Fresh
  <2>. QED  BY <2>1, <2>2
<1>. QED  BY <1>1, <1>2 DEF Placed

\* An INCR that Redis carries out.
LEMMA IncrCounts ==
    ASSUME IndInv, BudgetInv, backend = "redis", UNCHANGED <<now, backend>>,
           counter' = [counter EXCEPT !.count = counter.count + 1], opened' = Opening(counter.count + 1)
    PROVE  /\ Higher \/ Fresh
           /\ StoreCount' = counter.count + 1
           /\ Standing'
<1>1. /\ counter \in [count : Nat, exp : Nat] /\ Standing /\ opened \in Nat /\ now \in Nat
      /\ \A y \in Tally : Placed(y)
  BY TimeFacts DEF IndInv, Shared, BudgetInv
<1>2. counter'.count = counter.count + 1 /\ counter'.exp = counter.exp
  BY <1>1
<1>3. StoreCount = counter.count /\ StoreCount' = counter.count + 1
  BY <1>2 DEF StoreCount
<1>4. CASE counter.count = 0
  <2>1. opened' = now /\ counter.exp = 0 /\ StoreCount' = 1
    BY <1>1, <1>3, <1>4 DEF Opening, Standing
  <2>2. Fresh
    BY <1>1, <1>3, <1>4, <2>1 DEF Fresh, Placed
  <2>3. Standing'
    BY <1>1, <1>2, <2>1 DEF Standing
  <2>. QED  BY <1>3, <2>2, <2>3
<1>5. CASE counter.count # 0
  <2>1. opened' = opened /\ counter'.count # 0
    BY <1>1, <1>2, <1>5 DEF Opening
  <2>2. Higher
    BY <1>3, <1>5, <2>1 DEF Higher
  <2>3. Standing'
    BY <1>1, <1>2, <2>1 DEF Standing
  <2>. QED  BY <1>3, <2>2, <2>3
<1>. QED  BY <1>4, <1>5

LEMMA IncrBudget ==
    ASSUME IndInv, BudgetInv, NEW c \in Clients, Incr(c)
    PROVE  BudgetInv'
<1>. DEFINE q == req[c]
            n == counter.count + 1
            o == Opening(n)
            p == AfterIncr(n)
            x == [q EXCEPT !.pc = p, !.count = n, !.at = now, !.opened = o]
<1>1. /\ q.pc = "incr" /\ counter' = [counter EXCEPT !.count = n] /\ opened' = o
      /\ UNCHANGED <<now, backend, mem, admitted>>
  BY DEF Incr
<1>2. q \in Request /\ c \in DOMAIN req /\ backend = "redis" /\ mem.until \in Nat
  BY <1>1, RequestFacts, OnRedis DEF IndInv, Shared
<1>3. req' = [req EXCEPT ![c] = x]
  BY <1>2 DEF Incr, Request
<1>4. (Higher \/ Fresh) /\ StoreCount' = n /\ Standing'
  BY <1>1, <1>2, IncrCounts
<1>. HIDE DEF q, n, o, p
<1>5. x.count = n /\ x.at = now /\ x.opened = o
  BY <1>2 DEF Request
<1>. HIDE DEF x
<1>13. PICK z : z = Stamp(x)
  OBVIOUS
<1>6. z.count = StoreCount' /\ z.at = now /\ z.opened = opened' /\ z.count = x.count
  BY <1>1, <1>4, <1>5, <1>13 DEF Stamp
<1>7. req'[c] = x /\ \A d \in Clients \ {c} : req'[d] = req[d]
  BY <1>3 DEF IndInv
<1>8. z = Stamp(req'[c])
  BY <1>7, <1>13
<1>9. \A y \in Tally : Placed(y)'
  BY <1>1, <1>2, <1>4, CountsPlaced
<1>10. \A y \in Tally : Spaced(y, z) /\ ~Same(y, z)
  BY <1>4, <1>6, CountsNew
<1>11. Live(x) => Placed(z)'
  BY <1>1, <1>2, <1>4, <1>6, CountsItself DEF Live
<1>12. Keeps(c)
  BY <1>1, <1>7 DEF Keeps
<1>. QED  BY <1>4, <1>7, <1>8, <1>9, <1>10, <1>11, <1>12, JoinsInv

LEMMA StoreFailsBudget ==
    ASSUME IndInv, BudgetInv, NEW c \in Clients, StoreFails(c)
    PROVE  BudgetInv'
<1>. DEFINE q == req[c]
            a == IF FailMode = "open" THEN "admitted" ELSE "unavailable"
            x == [Idle EXCEPT !.pc = "done", !.answer = a, !.expect = q.expect]
<1>1. /\ q.pc \in {"ttl", "get", "incr"} /\ UNCHANGED <<now, backend, mem, admitted>>
      /\ req' = [req EXCEPT ![c] = x]
  BY DEF StoreFails, Answers
<1>2. backend = "redis" /\ mem.until \in Nat
  BY <1>1, OnRedis DEF IndInv, Shared
<1>3. x.pc = "done"
  BY DEF Idle
<1>. HIDE DEF x, q
<1>4. ~Live(x)
  BY <1>3 DEF Live
<1>5. CASE UNCHANGED <<counter, opened>>
  BY <1>1, <1>4, <1>5, OneInv
<1>6. CASE counter' = [counter EXCEPT !.count = counter.count + 1] /\ opened' = Opening(counter.count + 1)
  <2>1. (Higher \/ Fresh) /\ Standing'
    BY <1>1, <1>2, <1>6, IncrCounts
  <2>2. \A y \in Tally : Placed(y)'
    BY <1>1, <1>2, <2>1, CountsPlaced
  <2>3. \A d \in Clients : Live(req'[d]) => Live(req[d]) /\ Stamp(req'[d]) = Stamp(req[d])
    BY <1>1, <1>4 DEF IndInv
  <2>. QED  BY <1>1, <2>1, <2>2, <2>3, KeepsInv
<1>. QED  BY <1>5, <1>6 DEF StoreFails

\* The three ways of InMemoryStorage::increment: the key is locked out; the
\* entry counts on in its window; the entry starts a fresh window.
Locked(f) == f = mem /\ f.count > MaxRequests

CountsOn(f) ==
    /\ mem # NoEntry /\ mem.until = 0 /\ now <= mem.start + Window
    /\ f.count = mem.count + 1 /\ f.start = mem.start
    /\ f.until = IF f.count > MaxRequests /\ Lockout # 0 THEN now + Lockout ELSE 0

StartsAfresh(f) ==
    /\ f.count = 1 /\ f.start = now /\ f.until = 0
    /\ \/ mem = NoEntry
       \/ mem.until # 0 /\ mem.until <= now
       \/ mem.until = 0 /\ now > mem.start + Window

LEMMA EntryWays ==
    ASSUME IndInv, backend = "memory", NEW e, NEW f,
           e = IF mem = NoEntry THEN [NoEntry EXCEPT !.start = now] ELSE mem,
           f = IF e.until > now THEN e ELSE Counted(Restarted(e))
    PROVE  Locked(f) \/ CountsOn(f) \/ StartsAfresh(f)
<1>1. /\ now \in Nat /\ mem.count \in Nat /\ mem.start \in Nat /\ mem.until \in Nat
      /\ mem.until # 0 => mem.count > MaxRequests
      /\ mem.start <= now
  BY TimeFacts DEF IndInv, Shared, MemOK
<1>2. CASE mem = NoEntry
  <2>1. e.count = 0 /\ e.start = now /\ e.until = 0
    BY <1>2 DEF NoEntry
  <2>2. f = Counted(e)
    BY <1>1, <2>1 DEF Restarted
  <2>3. f.count = 1 /\ f.start = now /\ f.until = 0
    BY <1>1, <2>1, <2>2, Consts DEF Counted
  <2>. QED  BY <1>2, <2>3 DEF StartsAfresh
<1>3. CASE mem # NoEntry /\ mem.until > now
  BY <1>1, <1>3 DEF Locked
<1>4. CASE mem # NoEntry /\ mem.until # 0 /\ mem.until <= now
  <2>. DEFINE g == [count |-> 0, start |-> now, until |-> 0]
  <2>1. f = Counted(g)
    BY <1>1, <1>4 DEF Restarted
  <2>2. g.count = 0 /\ g.start = now
    OBVIOUS
  <2>. HIDE DEF g
  <2>3. f.count = 1 /\ f.start = now /\ f.until = 0
    BY <1>1, <2>1, <2>2, Consts DEF Counted
  <2>. QED  BY <1>4, <2>3 DEF StartsAfresh
<1>5. CASE mem # NoEntry /\ mem.until = 0
  <2>1. f = Counted(mem)
    BY <1>1, <1>5 DEF Restarted
  <2>2. CASE now > mem.start + Window
    <3>1. f.count = 1 /\ f.start = now /\ f.until = 0
      BY <1>1, <2>1, <2>2, Consts DEF Counted
    <3>. QED  BY <1>5, <2>2, <3>1 DEF StartsAfresh
  <2>3. CASE now <= mem.start + Window
    <3>1. ~(now - mem.start > Window)
      BY <1>1, <2>3, Consts
    <3>2. f.count = mem.count + 1 /\ f.start = mem.start
      BY <2>1, <3>1 DEF Counted
    <3>3. f.until = IF f.count > MaxRequests /\ Lockout # 0 THEN now + Lockout ELSE 0
      BY <2>1, <3>1 DEF Counted
    <3>. QED  BY <1>5, <2>3, <3>2, <3>3 DEF CountsOn
  <2>. QED  BY <1>1, <2>2, <2>3, Consts
<1>. QED  BY <1>1, <1>2, <1>3, <1>4, <1>5

\* A fresh window of the in-memory store opens when every admission is past.
LEMMA EntryPast ==
    ASSUME IndInv, BudgetInv, backend = "memory", NEW y \in Tally,
           \/ mem = NoEntry
           \/ mem.until # 0 /\ mem.until <= now
           \/ mem.until = 0 /\ now > mem.start + Window
    PROVE  Past(y, now)
<1>1. y.at \in Nat /\ y.opened \in Nat /\ y.count \in Nat /\ Placed(y)
  BY TallyType DEF BudgetInv
<1>2. /\ now \in Nat /\ opened \in Nat /\ mem.count \in Nat /\ mem.start \in Nat /\ mem.until \in Nat
      /\ Standing
  BY TimeFacts DEF IndInv, Shared, BudgetInv
<1>3. CASE mem = NoEntry
  BY <1>1, <1>3, EmptyEntry DEF Placed, StoreCount
<1>4. CASE mem # NoEntry
  <2>1. StoreCount # 0 /\ opened = mem.start
    BY <1>2, <1>4 DEF Standing, StoreCount
  <2>2. y.opened = opened \/ Past(y, opened)
    BY <1>1, <2>1 DEF Placed
  <2>3. y.at <= y.opened + Window /\ (mem.until # 0 => y.at < mem.until /\ opened + Window <= mem.until)
    BY <1>1, <1>2 DEF Placed, Standing
  <2>. QED  BY <1>1, <1>2, <1>4, <2>1, <2>2, <2>3, Consts DEF Past
<1>. QED  BY <1>3, <1>4

LEMMA MemIncrementBudget ==
    ASSUME IndInv, BudgetInv, Lockout = 0 \/ Window <= Lockout, NEW c \in Clients, MemIncrement(c)
    PROVE  BudgetInv'
<1>. DEFINE e == IF mem = NoEntry THEN [NoEntry EXCEPT !.start = now] ELSE mem
            f == IF e.until > now THEN e ELSE Counted(Restarted(e))
            o == Opening(f.count)
            r == [Idle EXCEPT !.pc = "decide", !.count = f.count, !.until = f.until, !.at = now, !.opened = o]
            x == [r EXCEPT !.expect = Expected]
<1>1. /\ backend = "memory" /\ Free(c) /\ mem' = f /\ Begins(c, r) /\ opened' = o
      /\ UNCHANGED <<now, backend, counter, admitted>>
  BY DEF MemIncrement
<1>2. /\ f \in [count : Nat, start : Times, until : Nat]
      /\ f.until # 0 => f.count > MaxRequests
  BY <1>1, EntryFacts
<1>3. Locked(f) \/ CountsOn(f) \/ StartsAfresh(f)
  BY <1>1, EntryWays
<1>. HIDE DEF e, f
<1>4. /\ req'[c] = x
      /\ \A d \in Clients \ {c} : Live(req'[d]) => Live(req[d]) /\ Stamp(req'[d]) = Stamp(req[d])
  <2>. HIDE DEF r
  <2>. QED  BY <1>1, BeginsKeeps
<1>5. x.count = f.count /\ x.at = now /\ x.opened = o
  <2>. HIDE DEF o
  <2>. QED  BY DEF Idle
<1>. HIDE DEF x, r
<1>6. /\ now \in Nat /\ opened \in Nat /\ mem.count \in Nat /\ mem.start \in Nat /\ mem.until \in Nat
      /\ f.count \in Nat /\ f.until \in Nat /\ Standing /\ opened <= now
  BY <1>2, TimeFacts DEF IndInv, Shared, BudgetInv, Standing
<1>7. StoreCount = mem.count /\ StoreCount' = f.count
  BY <1>1 DEF StoreCount
<1>8. CASE Locked(f)
  <2>1. opened' = opened /\ mem' = mem
    BY <1>1, <1>6, <1>8, Consts DEF Opening, Locked
  <2>2. ~Live(req'[c])
    BY <1>4, <1>5, <1>6, <1>8, Consts DEF Live, Locked
  <2>3. \A d \in Clients : Live(req'[d]) => Live(req[d]) /\ Stamp(req'[d]) = Stamp(req[d])
    BY <1>4, <2>2
  <2>. QED  BY <1>1, <2>1, <2>3, SameStoreInv
<1>9. ASSUME Higher \/ Fresh, Standing', f.until # 0 => now < f.until, now <= opened' + Window
      PROVE  BudgetInv'
  <2>1. PICK z : z = Stamp(x)
    OBVIOUS
  <2>2. z.count = StoreCount' /\ z.at = now /\ z.opened = opened' /\ z.count = x.count
    BY <1>1, <1>5, <1>7, <2>1 DEF Stamp
  <2>3. \A y \in Tally : Placed(y)'
    BY <1>1, <1>6, <1>9, CountsPlaced
  <2>4. \A y \in Tally : Spaced(y, z) /\ ~Same(y, z)
    BY <1>9, <2>2, CountsNew
  <2>5. Live(x) => Placed(z)'
    BY <1>1, <1>6, <1>9, <2>2, CountsItself DEF Live
  <2>6. Keeps(c)
    BY <1>1, <1>4 DEF Keeps
  <2>. QED  BY <1>4, <1>9, <2>1, <2>3, <2>4, <2>5, <2>6, JoinsInv
<1>10. CASE CountsOn(f)
  <2>1. mem.count > 0 /\ opened = mem.start
    BY <1>1, <1>6, <1>10 DEF Standing, CountsOn
  <2>2. opened' = opened
    BY <1>1, <1>6, <1>10, <2>1 DEF Opening, CountsOn
  <2>3. Higher
    BY <1>6, <1>7, <1>10, <2>1, <2>2 DEF Higher, CountsOn
  <2>4. f.until # 0 => now < f.until /\ opened + Window <= f.until
    BY <1>6, <1>10, Consts DEF CountsOn
  <2>5. Standing'
    BY <1>1, <1>6, <1>10, <2>1, <2>2, <2>4 DEF Standing, CountsOn
  <2>. QED  BY <1>9, <1>10, <2>1, <2>2, <2>3, <2>4, <2>5 DEF CountsOn
<1>11. CASE StartsAfresh(f)
  <2>1. opened' = now
    BY <1>1, <1>11 DEF Opening, StartsAfresh
  <2>2. \A y \in Tally : Past(y, now)
    BY <1>1, <1>11, EntryPast DEF StartsAfresh
  <2>3. Fresh
    BY <1>7, <1>11, <2>1, <2>2 DEF Fresh, StartsAfresh
  <2>4. Standing'
    BY <1>1, <1>6, <1>11, <2>1 DEF Standing, StartsAfresh
  <2>5. now <= opened' + Window
    BY <1>6, <2>1, Consts
  <2>. QED  BY <1>9, <1>11, <2>3, <2>4, <2>5 DEF StartsAfresh
<1>. QED  BY <1>3, <1>8, <1>10, <1>11

-----------------------------------------------------------------------------
(* Theorems.                                                                *)

LEMMA InitInv ==
    ASSUME Init
    PROVE  IndInv
<1>1. NoCounter \in [count : Nat, exp : Nat] /\ NoCounter.exp = 0
  BY DEF NoCounter
<1>2. backend \in {"memory", "redis"}
  BY DEF Init, Build
<1>3. Shared
  BY <1>1, <1>2, EmptyEntry, Consts DEF Init, Shared, MemOK, RedisOK, Times
<1>4. req \in [Clients -> Request] /\ \A c \in Clients : req[c] = Idle
  BY IdleType DEF Init
<1>5. \A c \in Clients : Knows(backend, req[c])
  BY <1>4, IdleKnows
<1>6. \A c \in Clients : Alone(c)
  BY <1>4, IdleType DEF Alone
<1>. QED  BY <1>3, <1>4, <1>5, <1>6 DEF IndInv

LEMMA NextInv ==
    ASSUME IndInv, Next
    PROVE  IndInv'
<1>1. ASSUME NEW c \in Clients, Redis(c) PROVE IndInv'
  BY <1>1, ReadTtlInv, GetCountInv, IncrInv, ExpireInv, SetLockInv, DelLockInv, IgnoredErrorInv,
     DroppedInv, StoreFailsInv DEF Redis
<1>2. ASSUME NEW c \in Clients,
             MemIncrement(c) \/ RedisBegin(c) \/ Decide(c) \/ DelCounter(c) \/ DelCounterFails(c)
      PROVE  IndInv'
  BY <1>2, MemIncrementInv, RedisBeginInv, DecideInv, DelCounterInv, DelCounterFailsInv
<1>. QED  BY <1>1, <1>2, TickInv, MemResetInv, SweptInv DEF Next

LEMMA StutterInv ==
    ASSUME IndInv, UNCHANGED vars
    PROVE  IndInv'
<1>1. UNCHANGED <<now, backend, mem, counter, lock, req, admitted, opened, last, lockEnd, faults, resets>>
  BY DEF vars, stores, history, bounds
<1>2. Shared'
  BY <1>1, SharedInv DEF IndInv, Shared, RedisOK
<1>3. req' \in [Clients -> Request] /\ \A d \in Clients : Rests(backend, req[d], req'[d])
  BY <1>1, StaysRests DEF IndInv
<1>. QED  BY <1>1, <1>2, <1>3, RestInv

LEMMA InitBudget ==
    ASSUME Init
    PROVE  BudgetInv
<1>1. NoCounter.exp = 0
  BY DEF NoCounter
<1>2. Standing
  BY <1>1, EmptyEntry DEF Init, Standing
<1>3. \A c \in Clients : req[c] = Idle
  BY DEF Init
<1>4. \A c \in Clients : ~Live(req[c])
  BY <1>3, IdleType DEF Live
<1>5. admitted = <<>>
  BY DEF Init
<1>6. Tally = {} /\ Distinct
  BY <1>4, <1>5 DEF Tally, Distinct
<1>. QED  BY <1>2, <1>6 DEF BudgetInv

LEMMA NextBudget ==
    ASSUME IndInv, BudgetInv, Lockout = 0 \/ Window <= Lockout, Next
    PROVE  BudgetInv'
<1>1. ASSUME NEW c \in Clients, Redis(c) PROVE BudgetInv'
  BY <1>1, ReadTtlBudget, GetCountBudget, IncrBudget, ExpireBudget, SetLockBudget, FreeBudget,
     IgnoredErrorBudget, StoreFailsBudget DEF Redis
<1>2. ASSUME NEW c \in Clients,
             MemIncrement(c) \/ RedisBegin(c) \/ Decide(c) \/ DelCounter(c) \/ DelCounterFails(c)
      PROVE  BudgetInv'
  BY <1>2, MemIncrementBudget, RedisBeginBudget, DecideBudget, ResetBudget, FreeBudget
<1>. QED  BY <1>1, <1>2, TickBudget, ResetBudget, SweptBudget DEF Next

LEMMA StutterBudget ==
    ASSUME BudgetInv, UNCHANGED vars
    PROVE  BudgetInv'
<1>1. UNCHANGED <<now, backend, mem, counter, req, admitted, opened>>
  BY DEF vars, stores, history
<1>. QED  BY <1>1, SameStoreInv

\* The inductive invariant: what the stores know of the key, what each request
\* knows at its place in increment, and that a request which expects a quiet
\* key has the key to itself.
THEOREM Inductive == Spec => []IndInv
<1>1. Init => IndInv
  BY InitInv
<1>2. IndInv /\ [Next]_vars => IndInv'
  BY NextInv, StutterInv
<1>. QED  BY <1>1, <1>2, PTL DEF Spec

\* Every variable keeps its type, and a counter or lock in Redis that has an
\* expiry has not reached it: Redis drops the key in the tick that reaches it.
THEOREM TypeCorrect == Spec => []TypeOK
<1>1. IndInv => TypeOK
  BY DEF IndInv, Shared, TypeOK
<1>. QED  BY <1>1, Inductive, PTL

\* The in-memory store (InMemoryStorage::increment) refuses every request of a
\* lockout until it ends, and admits the first one after it, for every limit,
\* window and lockout and although new keys sweep the map.
THEOREM LockoutHolds == Spec => []LockoutIsExact
<1>1. IndInv => LockoutIsExact
  BY DEF IndInv, Knows, LockoutIsExact, Answered
<1>. QED  BY <1>1, Inductive, PTL

\* Neither store refuses the first request of a key that was left alone for
\* more than a window and is not locked out, whatever commands were lost,
\* interleaved or reset before it, except the EXPIRE of the counter.
THEOREM QuietIsAdmitted == Spec => []QuietKeyIsAdmitted
<1>1. IndInv => QuietKeyIsAdmitted
  BY DEF IndInv, Knows, QuietKeyIsAdmitted, Answered
<1>. QED  BY <1>1, Inductive, PTL

\* For every limit, window, number of requests in flight, failure and reset,
\* with no lockout or one that is not shorter than the window, neither store
\* admits more than twice max_requests of the requests it counts in
\* window_seconds + 1 seconds: each counter admits every count once
\* (RedisStorage::increment, InMemoryStorage::increment), and the counters
\* that such a stretch meets are at most two, because a counter ends a window
\* after it opened at the earliest.
THEOREM BudgetHolds ==
    ASSUME Lockout = 0 \/ Window <= Lockout
    PROVE  Spec => []AdmittedBudget
<1>1. Init => IndInv /\ BudgetInv
  BY InitInv, InitBudget
<1>2. IndInv /\ BudgetInv /\ [Next]_vars => IndInv' /\ BudgetInv'
  BY NextInv, StutterInv, NextBudget, StutterBudget
<1>3. IndInv /\ BudgetInv => AdmittedBudget
  BY BudgetCounts
<1>. QED  BY <1>1, <1>2, <1>3, PTL DEF Spec
=============================================================================
