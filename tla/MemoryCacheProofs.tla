-------------------------- MODULE MemoryCacheProofs --------------------------
(***************************************************************************)
(* Proofs about MemoryCache for every number of tasks, keys, calls and     *)
(* every capacity.                                                         *)
(***************************************************************************)
EXTENDS MemoryCache, TLAPS

\* A set whose value is not in the map yet.
Pending(q) == q.op = "set" /\ q.phase \in {"cleanup", "swept", "evict", "insert"}

\* A get between its two looks at the map: it has a copy to write back.
Holds(q) == q.phase = "writeback"

(***************************************************************************)
(* A value has one key, in the map and in the hands of the gets that copied*)
(* it; a value that waits to be set is nowhere else.                       *)
(***************************************************************************)
OneKey ==
    /\ \A j, k \in Keys : j # k /\ entries[j].value # 0 => entries[j].value # entries[k].value
    /\ \A t \in Tasks : Holds(task[t]) =>
          /\ task[t].copy.value # 0
          /\ \A k \in Keys : entries[k].value = task[t].copy.value => k = task[t].key
    /\ \A s, t \in Tasks : Holds(task[s]) /\ Holds(task[t]) /\ task[s].copy.value = task[t].copy.value =>
          task[s].key = task[t].key

Fresh ==
    \A t \in Tasks : Pending(task[t]) =>
        /\ task[t].value # 0 /\ task[t].value \notin gone
        /\ \A k \in Keys : entries[k].value # task[t].value
        /\ \A s \in Tasks : Holds(task[s]) => task[s].copy.value # task[t].value
        /\ \A s \in Tasks : s # t /\ Pending(task[s]) => task[s].value # task[t].value

\* No value is used before its call.
Numbered ==
    /\ \A k \in Keys : entries[k].value <= calls
    /\ \A t \in Tasks : task[t].copy.value <= calls /\ task[t].value <= calls
    /\ \A v \in gone : v <= calls

\* What went and is still to be found, or may come back, was copied in time.
HeldOrGone ==
    /\ \A k \in Keys : entries[k].value # 0 /\ entries[k].deadline # "past" /\ entries[k].value \in gone =>
          entries[k].value \in held
    /\ \A t \in Tasks : Holds(task[t]) /\ task[t].copy.value \in gone => task[t].copy.value \in held

IndInv == TypeOK /\ OneKey /\ Fresh /\ Numbered /\ HeldOrGone /\ GoneStaysGone

-----------------------------------------------------------------------------
(* Records.                                                                 *)

LEMMA AbsentType == Absent \in Entry /\ Absent.value = 0 /\ Absent.deadline = "never"
BY CacheAssumption DEF Absent, Entry, Values

LEMMA IdleType ==
    /\ Idle \in Task /\ Idle.phase = "idle" /\ Idle.op = "none" /\ Idle.copy = Absent /\ Idle.value = 0
BY AbsentType, CacheAssumption DEF Idle, Task, Phases, Values

LEMMA PassType ==
    ASSUME NEW e \in Entry
    PROVE  /\ Pass(e) \in Entry /\ Pass(e).value = e.value
           /\ e.deadline = "later" => Pass(e).deadline = "past"
           /\ e.deadline # "later" => Pass(e) = e
<1>. DEFINE f == [e EXCEPT !.deadline = "past"]
<1>1. f \in Entry /\ f.value = e.value /\ f.deadline = "past"
  BY DEF Entry
<1>2. Pass(e) = IF e.deadline = "later" THEN f ELSE e
  BY DEF Pass
<1>. HIDE DEF f
<1>. QED  BY <1>1, <1>2

LEMMA TypeFacts ==
    ASSUME IndInv
    PROVE  /\ \A k \in Keys : entries[k] \in Entry /\ entries[k].value \in Nat
           /\ \A t \in Tasks : task[t] \in Task /\ task[t].copy.value \in Nat /\ task[t].value \in Nat
           /\ calls \in Nat /\ MaxCalls \in Nat /\ gone \subseteq Nat
<1>1. \A e \in Entry : e.value \in Nat
  BY DEF Entry, Values
<1>2. \A q \in Task : q.copy \in Entry /\ q.value \in Nat
  BY DEF Task, Values
<1>. QED  BY <1>1, <1>2, CacheAssumption DEF IndInv, TypeOK, Values

-----------------------------------------------------------------------------
(* Task t goes on as x, which waits to set nothing new and holds no copy.   *)

Plain(x, q) ==
    /\ x \in Task /\ ~Holds(x)
    /\ x.phase # "idle" => x.key \in Keys
    /\ x.phase \in {"cleanup", "swept"} => x.op \in Sweeping
    /\ x.phase \in {"evict", "insert"} => x.op = "set"
    /\ x.copy.value <= calls /\ x.value <= calls
    /\ Pending(x) => Pending(q) /\ x.value = q.value

LocksOK(el, sl, sr) == el \in Tasks \cup {Nobody} /\ sl \in Tasks \cup {Nobody} /\ sr \subseteq Tasks

\* Task t goes on, the map and the history stay but for what a hit finds.
LEMMA LocalInv ==
    ASSUME IndInv, NEW t \in Tasks, NEW x \in Task, task' = [task EXCEPT ![t] = x],
           UNCHANGED <<entries, gone, held>>, late' \subseteq held, calls' \in Values, calls <= calls',
           LocksOK(entriesLock', statsLock', statsReaders'),
           x.phase # "idle" => x.key \in Keys,
           x.phase \in {"cleanup", "swept"} => x.op \in Sweeping,
           x.phase \in {"evict", "insert"} => x.op = "set",
           x.copy.value <= calls' /\ x.value <= calls',
           Holds(x) => /\ x.copy.value # 0
                       /\ \A k \in Keys : entries[k].value = x.copy.value => k = x.key
                       /\ \A s \in Tasks \ {t} : Holds(task[s]) /\ task[s].copy.value = x.copy.value =>
                             task[s].key = x.key
                       /\ x.copy.value \in gone => x.copy.value \in held
                       /\ \A s \in Tasks \ {t} : Pending(task[s]) => task[s].value # x.copy.value,
           Pending(x) => /\ x.value # 0 /\ x.value \notin gone
                         /\ \A k \in Keys : entries[k].value # x.value
                         /\ \A s \in Tasks \ {t} : Holds(task[s]) => task[s].copy.value # x.value
                         /\ \A s \in Tasks \ {t} : Pending(task[s]) => task[s].value # x.value
    PROVE  IndInv'
<1>0. TypeOK /\ OneKey /\ Fresh /\ Numbered /\ HeldOrGone
  BY DEF IndInv
<1>1. /\ task' \in [Tasks -> Task] /\ task'[t] = x
      /\ \A s \in Tasks \ {t} : task'[s] = task[s]
  BY <1>0 DEF TypeOK
<1>2. ~(Holds(x) /\ Pending(x))
  BY DEF Holds, Pending
<1>3. TypeOK'
  <2>1. \A s \in Tasks : /\ ~At(s, "idle")' => task'[s].key \in Keys
                         /\ At(s, "cleanup")' \/ At(s, "swept")' => task'[s].op \in Sweeping
                         /\ At(s, "evict")' \/ At(s, "insert")' => task'[s].op = "set"
    BY <1>0, <1>1 DEF TypeOK, At
  <2>2. late' \subseteq Values
    BY <1>0 DEF TypeOK
  <2>. QED  BY <1>0, <1>1, <2>1, <2>2 DEF TypeOK, LocksOK
<1>4. OneKey'
  <2>1. \A j, k \in Keys : j # k /\ entries'[j].value # 0 => entries'[j].value # entries'[k].value
    BY <1>0 DEF OneKey
  <2>2. \A s \in Tasks : Holds(task'[s]) =>
          /\ task'[s].copy.value # 0
          /\ \A k \in Keys : entries'[k].value = task'[s].copy.value => k = task'[s].key
    BY <1>0, <1>1 DEF OneKey
  <2>3. \A s, p \in Tasks : Holds(task'[s]) /\ Holds(task'[p]) /\ task'[s].copy.value = task'[p].copy.value =>
          task'[s].key = task'[p].key
    BY <1>0, <1>1 DEF OneKey
  <2>. QED  BY <2>1, <2>2, <2>3 DEF OneKey
<1>5. Fresh'
  <2>. SUFFICES ASSUME NEW s \in Tasks, Pending(task'[s])
                PROVE  /\ task'[s].value # 0 /\ task'[s].value \notin gone
                       /\ \A k \in Keys : entries[k].value # task'[s].value
                       /\ \A p \in Tasks : Holds(task'[p]) => task'[p].copy.value # task'[s].value
                       /\ \A p \in Tasks : p # s /\ Pending(task'[p]) => task'[p].value # task'[s].value
    BY DEF Fresh
  <2>1. CASE s = t
    BY <1>1, <1>2, <2>1
  <2>2. CASE s # t
    BY <1>0, <1>1, <2>2 DEF Fresh
  <2>. QED  BY <2>1, <2>2
<1>6. Numbered'
  <2>1. calls \in Nat /\ calls' \in Nat /\ gone \subseteq Nat
    BY TypeFacts DEF Values
  <2>2. \A k \in Keys : entries[k].value \in Nat /\ entries[k].value <= calls
    BY <1>0, TypeFacts DEF Numbered
  <2>3. \A s \in Tasks : /\ task[s].copy.value \in Nat /\ task[s].value \in Nat
                         /\ task[s].copy.value <= calls /\ task[s].value <= calls
    BY <1>0, TypeFacts DEF Numbered
  <2>4. \A v \in gone : v <= calls /\ v \in Nat
    BY <1>0, <2>1 DEF Numbered
  <2>5. \A s \in Tasks : task'[s].copy.value <= calls' /\ task'[s].value <= calls'
    BY <1>1, <2>1, <2>3
  <2>. QED  BY <2>1, <2>2, <2>4, <2>5 DEF Numbered
<1>7. HeldOrGone'
  BY <1>0, <1>1 DEF HeldOrGone
<1>8. GoneStaysGone'
  BY DEF GoneStaysGone
<1>. QED  BY <1>3, <1>4, <1>5, <1>6, <1>7, <1>8 DEF IndInv

\* A task that goes on without touching the map.
LEMMA PlainInv ==
    ASSUME IndInv, NEW t \in Tasks, NEW x, Plain(x, task[t]), task' = [task EXCEPT ![t] = x],
           UNCHANGED <<entries, history, calls>>, LocksOK(entriesLock', statsLock', statsReaders')
    PROVE  IndInv'
<1>1. /\ x \in Task /\ ~Holds(x)
      /\ x.phase # "idle" => x.key \in Keys
      /\ x.phase \in {"cleanup", "swept"} => x.op \in Sweeping
      /\ x.phase \in {"evict", "insert"} => x.op = "set"
      /\ x.copy.value <= calls /\ x.value <= calls
  BY DEF Plain
<1>2. UNCHANGED <<entries, gone, held, late, calls>>
  BY DEF history
<1>3. late' \subseteq held /\ calls' \in Values /\ calls <= calls'
  BY <1>2, TypeFacts DEF IndInv, TypeOK, GoneStaysGone
<1>4. Pending(x) => Pending(task[t]) /\ x.value = task[t].value
  BY DEF Plain
<1>5. Pending(x) => /\ x.value # 0 /\ x.value \notin gone
                    /\ \A k \in Keys : entries[k].value # x.value
                    /\ \A s \in Tasks \ {t} : Holds(task[s]) => task[s].copy.value # x.value
                    /\ \A s \in Tasks \ {t} : Pending(task[s]) => task[s].value # x.value
  BY <1>4 DEF IndInv, Fresh
<1>. QED  BY <1>1, <1>2, <1>3, <1>5, LocalInv

\* The entries of ks are taken out of the map.
LEMMA TakeInv ==
    ASSUME IndInv, NEW t \in Tasks, NEW x, Plain(x, task[t]), task' = [task EXCEPT ![t] = x],
           NEW ks \in SUBSET Keys, Take(ks), UNCHANGED calls,
           LocksOK(entriesLock', statsLock', statsReaders')
    PROVE  IndInv'
<1>. DEFINE vs == {entries[k].value : k \in ks} \ {0}
<1>0. TypeOK /\ OneKey /\ Fresh /\ Numbered /\ HeldOrGone
  BY DEF IndInv
<1>1. /\ task' \in [Tasks -> Task] /\ task'[t] = x
      /\ \A s \in Tasks \ {t} : task'[s] = task[s]
  BY <1>0 DEF TypeOK, Plain
<1>2. /\ entries' = [k \in Keys |-> IF k \in ks THEN Absent ELSE entries[k]]
      /\ gone' = gone \cup vs /\ late' = late
      /\ held' = held \cup {v \in vs : \E s \in Tasks : At(s, "writeback") /\ task[s].copy.value = v}
  BY DEF Take, Go
<1>3. /\ entries' \in [Keys -> Entry]
      /\ \A k \in ks : entries'[k] = Absent
      /\ \A k \in Keys \ ks : entries'[k] = entries[k]
  BY <1>0, <1>2, AbsentType DEF TypeOK
<1>4. /\ \A v \in vs : v # 0 /\ \E k \in ks : v = entries[k].value
      /\ \A k \in ks : entries[k].value # 0 => entries[k].value \in vs
  OBVIOUS
<1>5. vs \subseteq Values
  BY <1>0 DEF TypeOK, Entry
<1>6. \A s \in Tasks : Holds(task[s]) /\ task[s].copy.value \in vs => task[s].copy.value \in held'
  BY <1>2 DEF Holds, At
<1>7. held \subseteq held' /\ held' \subseteq held \cup vs /\ gone \subseteq gone'
  BY <1>2
<1>. HIDE DEF vs
<1>8. TypeOK'
  <2>1. \A s \in Tasks : /\ ~At(s, "idle")' => task'[s].key \in Keys
                         /\ At(s, "cleanup")' \/ At(s, "swept")' => task'[s].op \in Sweeping
                         /\ At(s, "evict")' \/ At(s, "insert")' => task'[s].op = "set"
    BY <1>0, <1>1 DEF TypeOK, At, Plain
  <2>2. gone' \subseteq Values /\ held' \subseteq Values /\ late' \subseteq Values
    BY <1>0, <1>2, <1>5, <1>7 DEF TypeOK
  <2>. QED  BY <1>0, <1>1, <1>3, <2>1, <2>2 DEF TypeOK, LocksOK
<1>9. OneKey'
  <2>1. \A j, k \in Keys : j # k /\ entries'[j].value # 0 => entries'[j].value # entries'[k].value
    BY <1>0, <1>3, AbsentType DEF OneKey
  <2>2. \A s \in Tasks : Holds(task'[s]) =>
          /\ task'[s].copy.value # 0
          /\ \A k \in Keys : entries'[k].value = task'[s].copy.value => k = task'[s].key
    BY <1>0, <1>1, <1>3, AbsentType DEF OneKey, Plain
  <2>3. \A s, p \in Tasks : Holds(task'[s]) /\ Holds(task'[p]) /\ task'[s].copy.value = task'[p].copy.value =>
          task'[s].key = task'[p].key
    BY <1>0, <1>1 DEF OneKey, Plain
  <2>. QED  BY <2>1, <2>2, <2>3 DEF OneKey
<1>10. Fresh'
  <2>. SUFFICES ASSUME NEW s \in Tasks, Pending(task'[s])
                PROVE  /\ task'[s].value # 0 /\ task'[s].value \notin gone'
                       /\ \A k \in Keys : entries'[k].value # task'[s].value
                       /\ \A p \in Tasks : Holds(task'[p]) => task'[p].copy.value # task'[s].value
                       /\ \A p \in Tasks : p # s /\ Pending(task'[p]) => task'[p].value # task'[s].value
    BY DEF Fresh
  <2>1. Pending(task[s]) /\ task'[s].value = task[s].value
    BY <1>1 DEF Plain
  <2>2. /\ task[s].value # 0 /\ task[s].value \notin gone
        /\ \A k \in Keys : entries[k].value # task[s].value
        /\ \A p \in Tasks : Holds(task[p]) => task[p].copy.value # task[s].value
        /\ \A p \in Tasks : p # s /\ Pending(task[p]) => task[p].value # task[s].value
    BY <1>0, <2>1 DEF Fresh
  <2>3. task[s].value \notin gone'
    BY <1>2, <1>4, <2>2
  <2>4. \A k \in Keys : entries'[k].value # task[s].value
    BY <1>3, <2>2, AbsentType
  <2>5. \A p \in Tasks : Holds(task'[p]) => task'[p].copy.value # task[s].value
    BY <1>1, <2>2 DEF Plain
  <2>6. \A p \in Tasks : p # s /\ Pending(task'[p]) => task'[p].value # task[s].value
    BY <1>1, <2>2 DEF Plain
  <2>. QED  BY <2>1, <2>2, <2>3, <2>4, <2>5, <2>6
<1>11. Numbered'
  <2>0. calls' = calls /\ calls \in Nat
    BY TypeFacts
  <2>1. \A k \in Keys : entries'[k].value <= calls
    BY <1>0, <1>3, <2>0, AbsentType DEF Numbered
  <2>2. \A v \in gone' : v <= calls
    BY <1>0, <1>2, <1>4 DEF Numbered
  <2>3. \A s \in Tasks : task'[s].copy.value <= calls /\ task'[s].value <= calls
    BY <1>0, <1>1 DEF Numbered, Plain
  <2>. QED  BY <2>0, <2>1, <2>2, <2>3 DEF Numbered
<1>12. HeldOrGone'
  <2>1. ASSUME NEW k \in Keys, entries'[k].value # 0, entries'[k].deadline # "past", entries'[k].value \in gone'
        PROVE  entries'[k].value \in held'
    <3>1. k \notin ks /\ entries'[k] = entries[k]
      BY <1>3, <2>1, AbsentType
    <3>2. entries[k].value \notin vs
      BY <1>0, <1>4, <2>1, <3>1 DEF OneKey
    <3>. QED  BY <1>0, <1>2, <1>7, <2>1, <3>1, <3>2 DEF HeldOrGone
  <2>2. ASSUME NEW s \in Tasks, Holds(task'[s]), task'[s].copy.value \in gone'
        PROVE  task'[s].copy.value \in held'
    <3>1. Holds(task[s]) /\ task'[s] = task[s]
      BY <1>1, <2>2 DEF Plain
    <3>. QED  BY <1>0, <1>2, <1>6, <1>7, <2>2, <3>1 DEF HeldOrGone
  <2>. QED  BY <2>1, <2>2 DEF HeldOrGone
<1>13. GoneStaysGone'
  BY <1>2, <1>7 DEF IndInv, GoneStaysGone
<1>. QED  BY <1>8, <1>9, <1>10, <1>11, <1>12, <1>13 DEF IndInv

-----------------------------------------------------------------------------
(* The steps.                                                               *)

LEMMA TaskFacts ==
    ASSUME IndInv, NEW t \in Tasks
    PROVE  /\ task[t] \in Task /\ t \in DOMAIN task
           /\ ~At(t, "idle") => task[t].key \in Keys
           /\ At(t, "cleanup") \/ At(t, "swept") => task[t].op \in Sweeping
           /\ At(t, "evict") \/ At(t, "insert") => task[t].op = "set"
           /\ task[t].copy.value <= calls /\ task[t].value <= calls
           /\ LocksOK(entriesLock, statsLock, statsReaders)
BY DEF IndInv, TypeOK, Numbered, LocksOK

\* A task that returns.
LEMMA ReturnFacts ==
    ASSUME IndInv, NEW t \in Tasks
    PROVE  Plain(Idle, task[t])
<1>1. 0 <= calls
  BY TypeFacts
<1>. QED  BY <1>1, IdleType, AbsentType DEF Plain, Holds, Pending

\* A task that goes on to phase p.
LEMMA GotoFacts ==
    ASSUME IndInv, NEW t \in Tasks, NEW p \in Phases \ {"writeback", "idle"}, Goto(t, p), ~At(t, "idle"),
           p \in {"cleanup", "swept"} => task[t].op \in Sweeping,
           p \in {"evict", "insert"} => task[t].op = "set",
           p \in {"cleanup", "swept", "evict", "insert"} /\ task[t].op = "set" => Pending(task[t])
    PROVE  \E x : Plain(x, task[t]) /\ task' = [task EXCEPT ![t] = x]
<1>. DEFINE q == task[t]
            x == [q EXCEPT !.phase = p]
<1>1. task' = [task EXCEPT ![t] = x]
  BY DEF Goto
<1>2. q \in Task /\ q.key \in Keys /\ q.copy.value <= calls /\ q.value <= calls
  BY TaskFacts
<1>. HIDE DEF q
<1>3. x \in Task /\ x.phase = p /\ x.op = q.op /\ x.key = q.key /\ x.copy = q.copy /\ x.value = q.value
  BY <1>2 DEF Task
<1>. HIDE DEF x
<1>4. Plain(x, q)
  BY <1>2, <1>3 DEF Plain, Holds, Pending, q
<1>. QED  BY <1>1, <1>4 DEF q

LEMMA LocksKept ==
    ASSUME IndInv, UNCHANGED locks
    PROVE  LocksOK(entriesLock', statsLock', statsReaders')
BY DEF locks, LocksOK, IndInv, TypeOK

LEMMA CallInv ==
    ASSUME IndInv, NEW t \in Tasks, Call(t)
    PROVE  IndInv'
<1>1. PICK op \in Ops, k \in Keys :
        task' = [task EXCEPT ![t] = [Idle EXCEPT !.phase = IF op \in Sweeping THEN "cleanup" ELSE op,
                                                 !.op = op, !.key = k, !.value = calls + 1]]
  BY DEF Call
<1>. DEFINE n == calls + 1
            p == IF op \in Sweeping THEN "cleanup" ELSE op
            x == [Idle EXCEPT !.phase = p, !.op = op, !.key = k, !.value = n]
<1>2. task' = [task EXCEPT ![t] = x]
  BY <1>1
<1>3. /\ calls \in Nat /\ n \in Values /\ calls' = n /\ calls <= calls' /\ 0 <= n /\ n <= n /\ n # 0
      /\ UNCHANGED <<entries, locks, history>> /\ calls < n
  BY TypeFacts DEF Call, Values
<1>4. /\ p \in Phases /\ p # "idle" /\ p # "writeback" /\ p \notin {"evict", "insert"}
      /\ p \in {"cleanup", "swept"} => op \in Sweeping
  BY DEF Phases, Ops, Sweeping
<1>. HIDE DEF n, p
<1>5. x \in Task /\ x.phase = p /\ x.op = op /\ x.key = k /\ x.copy = Absent /\ x.value = n
  BY <1>3, <1>4, IdleType DEF Task
<1>. HIDE DEF x
<1>6. ~Holds(x)
  BY <1>4, <1>5 DEF Holds
<1>7. /\ \A v \in gone : v < n
      /\ \A j \in Keys : entries[j].value < n
      /\ \A s \in Tasks : task[s].copy.value < n /\ task[s].value < n
  <2>1. Numbered
    BY DEF IndInv
  <2>. QED  BY <1>3, <2>1, TypeFacts DEF Numbered, n
<1>8. /\ n \notin gone
      /\ \A j \in Keys : entries[j].value # n
      /\ \A s \in Tasks : task[s].copy.value # n /\ task[s].value # n
  <2>1. ~(n < n)
    BY <1>3 DEF Values
  <2>. QED  BY <1>7, <2>1
<1>9. UNCHANGED <<entries, gone, held>> /\ late' \subseteq held
  BY <1>3 DEF history, IndInv, GoneStaysGone
<1>. QED  BY <1>2, <1>3, <1>4, <1>5, <1>6, <1>8, <1>9, AbsentType, LocksKept, LocalInv

LEMMA AfterCleanupFacts ==
    ASSUME NEW op \in Sweeping
    PROVE  /\ AfterCleanup(op) \in Phases \ {"writeback", "idle", "cleanup", "swept", "insert"}
           /\ AfterCleanup(op) = "evict" => op = "set"
BY DEF AfterCleanup, Sweeping, Phases, Ops

LEMMA CleanupInv ==
    ASSUME IndInv, NEW t \in Tasks, Cleanup(t)
    PROVE  IndInv'
<1>. DEFINE op == task[t].op
<1>1. At(t, "cleanup") /\ Take(Expired) /\ UNCHANGED <<statsLock, statsReaders, calls>>
  BY DEF Cleanup
<1>2. op \in Sweeping /\ ~At(t, "idle") /\ Expired \in SUBSET Keys
  BY <1>1, TaskFacts DEF At, Expired, Present
<1>3. op = "set" => Pending(task[t])
  BY <1>1 DEF Pending, At
<1>4. LocksOK(entriesLock', statsLock', statsReaders')
  BY <1>1, TaskFacts DEF Cleanup, LocksOK
<1>5. \E p \in Phases \ {"writeback", "idle"} :
         /\ Goto(t, p)
         /\ p \in {"cleanup", "swept"} => op \in Sweeping
         /\ p \in {"evict", "insert"} => op = "set"
  <2>1. /\ AfterCleanup(op) \in Phases \ {"writeback", "idle"} /\ "swept" \in Phases \ {"writeback", "idle"}
        /\ AfterCleanup(op) \in {"evict", "insert"} => op = "set"
    BY <1>2, AfterCleanupFacts DEF Phases
  <2>. QED  BY <1>2, <2>1 DEF Cleanup
<1>6. PICK x : Plain(x, task[t]) /\ task' = [task EXCEPT ![t] = x]
  BY <1>2, <1>3, <1>5, GotoFacts
<1>. QED  BY <1>1, <1>2, <1>4, <1>6, TakeInv

LEMMA SweptInv ==
    ASSUME IndInv, NEW t \in Tasks, Swept(t)
    PROVE  IndInv'
<1>. DEFINE op == task[t].op
            p == AfterCleanup(op)
<1>1. At(t, "swept") /\ Goto(t, p) /\ UNCHANGED <<entries, statsLock, statsReaders, calls, history>>
  BY DEF Swept
<1>2. op \in Sweeping /\ ~At(t, "idle")
  BY <1>1, TaskFacts DEF At
<1>3. op = "set" => Pending(task[t])
  BY <1>1 DEF Pending, At
<1>4. LocksOK(entriesLock', statsLock', statsReaders')
  BY <1>1, TaskFacts DEF Swept, LocksOK
<1>5. p \in Phases \ {"writeback", "idle"} /\ (p \in {"evict", "insert"} => op = "set")
  BY <1>2, AfterCleanupFacts
<1>6. PICK x : Plain(x, task[t]) /\ task' = [task EXCEPT ![t] = x]
  BY <1>1, <1>2, <1>3, <1>5, GotoFacts
<1>. QED  BY <1>1, <1>4, <1>6, PlainInv

LEMMA EvictInv ==
    ASSUME IndInv, NEW t \in Tasks, Evict(t)
    PROVE  IndInv'
<1>1. At(t, "evict") /\ Goto(t, "insert") /\ UNCHANGED <<locks, calls>>
  BY DEF Evict
<1>2. ~At(t, "idle") /\ "insert" \in Phases \ {"writeback", "idle"}
  BY <1>1 DEF At, Phases
<1>3. task[t].op = "set" /\ Pending(task[t])
  BY <1>1, TaskFacts DEF Pending, At
<1>4. PICK x : Plain(x, task[t]) /\ task' = [task EXCEPT ![t] = x]
  BY <1>1, <1>2, <1>3, GotoFacts
<1>5. CASE UNCHANGED <<entries, history>>
  BY <1>1, <1>4, <1>5, LocksKept, PlainInv
<1>6. CASE \E k \in Present : Take({k})
  <2>1. PICK k \in Present : Take({k})
    BY <1>6
  <2>2. {k} \in SUBSET Keys
    BY DEF Present
  <2>. QED  BY <1>1, <1>4, <2>1, <2>2, LocksKept, TakeInv
<1>. QED  BY <1>5, <1>6 DEF Evict

LEMMA LockStatsInv ==
    ASSUME IndInv, NEW t \in Tasks, LockStats(t)
    PROVE  IndInv'
<1>1. At(t, "stats") /\ Goto(t, "count") /\ UNCHANGED <<entries, entriesLock, calls, history>>
  BY DEF LockStats
<1>2. ~At(t, "idle") /\ "count" \in Phases \ {"writeback", "idle"}
  BY <1>1 DEF At, Phases
<1>3. LocksOK(entriesLock', statsLock', statsReaders')
  BY <1>1, TaskFacts DEF LockStats, LocksOK
<1>4. PICK x : Plain(x, task[t]) /\ task' = [task EXCEPT ![t] = x]
  BY <1>1, <1>2, GotoFacts
<1>. QED  BY <1>1, <1>3, <1>4, PlainInv

\* The steps after which the call returns, and the map is as it was.
LEMMA ReturnInv ==
    ASSUME IndInv, NEW t \in Tasks, Count(t) \/ Tally(t) \/ Peek(t) \/ Cancel(t)
    PROVE  IndInv'
<1>1. task' = [task EXCEPT ![t] = Idle] /\ UNCHANGED <<entries, calls, history>>
  BY DEF Count, Tally, Peek, Cancel, Return
<1>2. LocksOK(entriesLock', statsLock', statsReaders')
  BY TaskFacts DEF Count, Tally, Peek, Cancel, LocksOK, locks
<1>. QED  BY <1>1, <1>2, ReturnFacts, PlainInv

LEMMA ClearInv ==
    ASSUME IndInv, NEW t \in Tasks, Clear(t)
    PROVE  IndInv'
<1>1. At(t, "clear") /\ Goto(t, "tally") /\ Take(Keys) /\ UNCHANGED <<locks, calls>>
  BY DEF Clear
<1>2. ~At(t, "idle") /\ "tally" \in Phases \ {"writeback", "idle"} /\ Keys \in SUBSET Keys
  BY <1>1 DEF At, Phases
<1>3. PICK x : Plain(x, task[t]) /\ task' = [task EXCEPT ![t] = x]
  BY <1>1, <1>2, GotoFacts
<1>. QED  BY <1>1, <1>2, <1>3, LocksKept, TakeInv

LEMMA DeleteInv ==
    ASSUME IndInv, NEW t \in Tasks, Delete(t)
    PROVE  IndInv'
<1>1. /\ At(t, "delete") /\ Take({task[t].key}) /\ UNCHANGED <<locks, calls>>
      /\ Goto(t, "stats") \/ Return(t)
  BY DEF Delete
<1>2. ~At(t, "idle") /\ "stats" \in Phases \ {"writeback", "idle"}
  BY <1>1 DEF At, Phases, Ops, Sweeping
<1>3. {task[t].key} \in SUBSET Keys
  BY <1>2, TaskFacts
<1>4. CASE Goto(t, "stats")
  <2>1. PICK x : Plain(x, task[t]) /\ task' = [task EXCEPT ![t] = x]
    BY <1>2, <1>4, GotoFacts
  <2>. QED  BY <1>1, <1>3, <2>1, LocksKept, TakeInv
<1>5. CASE Return(t)
  <2>1. task' = [task EXCEPT ![t] = Idle]
    BY <1>5 DEF Return
  <2>. QED  BY <1>1, <1>3, <2>1, LocksKept, ReturnFacts, TakeInv
<1>. QED  BY <1>1, <1>4, <1>5

\* Entry e, in the hands of task t, may take the place of what key holds.
Suits(t, key, e) ==
    /\ key \in Keys /\ e \in Entry /\ e.value # 0 /\ e.value <= calls
    /\ \A k \in Keys : entries[k].value = e.value => k = key
    /\ \A s \in Tasks \ {t} : Holds(task[s]) /\ task[s].copy.value = e.value => task[s].key = key
    /\ \A s \in Tasks \ {t} : Pending(task[s]) => task[s].value # e.value
    /\ e.value \in gone => e.value \in held

Puts(key, e) ==
    /\ entries' = [entries EXCEPT ![key] = e]
    /\ Go({entries[key].value} \ {0, e.value})
    /\ UNCHANGED <<locks, calls>>

LEMMA PutInv ==
    ASSUME IndInv, NEW t \in Tasks, NEW key, NEW e, Suits(t, key, e), Puts(key, e),
           NEW x, Plain(x, task[t]), ~Pending(x), task' = [task EXCEPT ![t] = x]
    PROVE  IndInv'
<1>. DEFINE old == entries[key].value
            vs == {old} \ {0, e.value}
<1>. USE DEF Suits, Puts
<1>0. TypeOK /\ OneKey /\ Fresh /\ Numbered /\ HeldOrGone
  BY DEF IndInv
<1>1. /\ task' \in [Tasks -> Task] /\ task'[t] = x
      /\ \A s \in Tasks \ {t} : task'[s] = task[s]
  BY <1>0 DEF TypeOK, Plain
<1>2. /\ gone' = gone \cup vs /\ late' = late
      /\ held' = held \cup {v \in vs : \E s \in Tasks : At(s, "writeback") /\ task[s].copy.value = v}
  BY DEF Go
<1>3. entries' \in [Keys -> Entry] /\ entries'[key] = e /\ \A k \in Keys \ {key} : entries'[k] = entries[k]
  BY <1>0 DEF TypeOK
<1>4. \A v \in vs : v # 0 /\ v # e.value /\ v = old
  OBVIOUS
<1>5. old \in Values
  BY <1>0 DEF TypeOK, Entry
<1>6. \A s \in Tasks : Holds(task[s]) /\ task[s].copy.value \in vs => task[s].copy.value \in held'
  BY <1>2 DEF Holds, At
<1>7. held \subseteq held' /\ held' \subseteq held \cup vs /\ gone \subseteq gone'
  BY <1>2
<1>8. old <= calls
  BY <1>0 DEF Numbered
<1>9. \A k \in Keys \ {key} : entries[k].value \notin vs
  <2>. SUFFICES ASSUME NEW k \in Keys \ {key}, entries[k].value \in vs PROVE FALSE
    OBVIOUS
  <2>1. entries[k].value = entries[key].value /\ entries[k].value # 0
    BY <1>4
  <2>. QED  BY <1>0, <2>1 DEF OneKey
<1>10. \A s \in Tasks : Pending(task[s]) => task[s].value \notin vs
  BY <1>0, <1>4 DEF Fresh
<1>. HIDE DEF vs
<1>11. TypeOK'
  <2>1. \A s \in Tasks : /\ ~At(s, "idle")' => task'[s].key \in Keys
                         /\ At(s, "cleanup")' \/ At(s, "swept")' => task'[s].op \in Sweeping
                         /\ At(s, "evict")' \/ At(s, "insert")' => task'[s].op = "set"
    BY <1>0, <1>1 DEF TypeOK, At, Plain
  <2>2. gone' \subseteq Values /\ held' \subseteq Values /\ late' \subseteq Values
    BY <1>0, <1>2, <1>4, <1>5, <1>7 DEF TypeOK
  <2>. QED  BY <1>0, <1>1, <1>3, <2>1, <2>2 DEF TypeOK, locks
<1>12. OneKey'
  <2>1. \A j, k \in Keys : j # k /\ entries'[j].value # 0 => entries'[j].value # entries'[k].value
    BY <1>0, <1>3 DEF OneKey
  <2>2. \A s \in Tasks : Holds(task'[s]) =>
          /\ task'[s].copy.value # 0
          /\ \A k \in Keys : entries'[k].value = task'[s].copy.value => k = task'[s].key
    BY <1>0, <1>1, <1>3 DEF OneKey, Plain
  <2>3. \A s, p \in Tasks : Holds(task'[s]) /\ Holds(task'[p]) /\ task'[s].copy.value = task'[p].copy.value =>
          task'[s].key = task'[p].key
    BY <1>0, <1>1 DEF OneKey, Plain
  <2>. QED  BY <2>1, <2>2, <2>3 DEF OneKey
<1>13. Fresh'
  <2>. SUFFICES ASSUME NEW s \in Tasks, Pending(task'[s])
                PROVE  /\ task'[s].value # 0 /\ task'[s].value \notin gone'
                       /\ \A k \in Keys : entries'[k].value # task'[s].value
                       /\ \A p \in Tasks : Holds(task'[p]) => task'[p].copy.value # task'[s].value
                       /\ \A p \in Tasks : p # s /\ Pending(task'[p]) => task'[p].value # task'[s].value
    BY DEF Fresh
  <2>1. s # t /\ Pending(task[s]) /\ task'[s] = task[s]
    BY <1>1
  <2>2. /\ task[s].value # 0 /\ task[s].value \notin gone
        /\ \A k \in Keys : entries[k].value # task[s].value
        /\ \A p \in Tasks : Holds(task[p]) => task[p].copy.value # task[s].value
        /\ \A p \in Tasks : p # s /\ Pending(task[p]) => task[p].value # task[s].value
    BY <1>0, <2>1 DEF Fresh
  <2>3. task[s].value \notin gone'
    BY <1>2, <1>10, <2>1, <2>2
  <2>4. \A k \in Keys : entries'[k].value # task[s].value
    BY <1>3, <2>1, <2>2
  <2>5. \A p \in Tasks : Holds(task'[p]) => task'[p].copy.value # task[s].value
    BY <1>1, <2>2 DEF Plain
  <2>6. \A p \in Tasks : p # s /\ Pending(task'[p]) => task'[p].value # task[s].value
    BY <1>1, <2>2
  <2>. QED  BY <2>1, <2>2, <2>3, <2>4, <2>5, <2>6
<1>14. Numbered'
  <2>1. \A k \in Keys : entries'[k].value <= calls
    BY <1>0, <1>3 DEF Numbered
  <2>2. \A v \in gone' : v <= calls
    BY <1>0, <1>2, <1>4, <1>8 DEF Numbered
  <2>3. \A s \in Tasks : task'[s].copy.value <= calls /\ task'[s].value <= calls
    BY <1>0, <1>1 DEF Numbered, Plain
  <2>. QED  BY <2>1, <2>2, <2>3 DEF Numbered
<1>15. HeldOrGone'
  <2>1. ASSUME NEW k \in Keys, entries'[k].value # 0, entries'[k].deadline # "past", entries'[k].value \in gone'
        PROVE  entries'[k].value \in held'
    <3>1. CASE k = key
      <4>1. entries'[k].value = e.value /\ e.value \notin vs
        BY <1>3, <1>4, <3>1
      <4>. QED  BY <1>2, <1>7, <2>1, <4>1
    <3>2. CASE k # key
      <4>1. entries'[k] = entries[k] /\ entries[k].value \notin vs
        BY <1>3, <1>9, <3>2
      <4>. QED  BY <1>0, <1>2, <1>7, <2>1, <4>1 DEF HeldOrGone
    <3>. QED  BY <3>1, <3>2
  <2>2. ASSUME NEW s \in Tasks, Holds(task'[s]), task'[s].copy.value \in gone'
        PROVE  task'[s].copy.value \in held'
    <3>1. Holds(task[s]) /\ task'[s] = task[s]
      BY <1>1, <2>2 DEF Plain
    <3>. QED  BY <1>0, <1>2, <1>6, <1>7, <2>2, <3>1 DEF HeldOrGone
  <2>. QED  BY <2>1, <2>2 DEF HeldOrGone
<1>16. GoneStaysGone'
  BY <1>2, <1>7 DEF IndInv, GoneStaysGone
<1>. QED  BY <1>11, <1>12, <1>13, <1>14, <1>15, <1>16 DEF IndInv

LEMMA InsertInv ==
    ASSUME IndInv, NEW t \in Tasks, Insert(t)
    PROVE  IndInv'
<1>. DEFINE key == task[t].key
            v == task[t].value
<1>1. At(t, "insert") /\ Goto(t, "stats") /\ Go({entries[key].value} \ {0}) /\ UNCHANGED <<locks, calls>>
  BY DEF Insert
<1>2. PICK d \in {"never", "later"} : entries' = [entries EXCEPT ![key] = [value |-> v, deadline |-> d]]
  BY DEF Insert
<1>3. Pending(task[t]) /\ ~At(t, "idle") /\ "stats" \in Phases \ {"writeback", "idle"}
  BY <1>1, TaskFacts DEF Pending, At, Phases, Ops, Sweeping
<1>4. /\ v # 0 /\ v \notin gone
      /\ \A k \in Keys : entries[k].value # v
      /\ \A s \in Tasks : Holds(task[s]) => task[s].copy.value # v
      /\ \A s \in Tasks : s # t /\ Pending(task[s]) => task[s].value # v
  BY <1>3 DEF IndInv, Fresh
<1>5. key \in Keys /\ v \in Values /\ v <= calls
  BY <1>3, TaskFacts DEF Task
<1>. DEFINE e == [value |-> v, deadline |-> d]
<1>6. e \in Entry /\ e.value = v
  BY <1>5 DEF Entry
<1>7. entries' = [entries EXCEPT ![key] = e]
  BY <1>2
<1>8. PICK x : Plain(x, task[t]) /\ task' = [task EXCEPT ![t] = x]
  BY <1>1, <1>3, GotoFacts
<1>9. ~Pending(x)
  <2>1. task'[t].phase = "stats" /\ task'[t] = x
    BY <1>1, <1>8, TaskFacts DEF Goto, Task
  <2>. QED  BY <2>1 DEF Pending
<1>10. {entries[key].value} \ {0} = {entries[key].value} \ {0, e.value}
  BY <1>4, <1>5, <1>6
<1>. HIDE DEF e, v, key
<1>11. Puts(key, e)
  BY <1>1, <1>7, <1>10 DEF Puts
<1>12. Suits(t, key, e)
  BY <1>4, <1>5, <1>6 DEF Suits
<1>. QED  BY <1>8, <1>9, <1>11, <1>12, PutInv

LEMMA WriteBackInv ==
    ASSUME IndInv, NEW t \in Tasks, WriteBack(t)
    PROVE  IndInv'
<1>. DEFINE key == task[t].key
            e == task[t].copy
<1>1. /\ At(t, "writeback") /\ Goto(t, "tally") /\ UNCHANGED <<locks, calls>>
      /\ entries' = [entries EXCEPT ![key] = e] /\ Go({entries[key].value} \ {0, e.value})
  BY DEF WriteBack
<1>2. Holds(task[t]) /\ ~At(t, "idle") /\ "tally" \in Phases \ {"writeback", "idle"}
  BY <1>1 DEF Holds, At, Phases
<1>3. key \in Keys /\ e \in Entry /\ e.value <= calls
  BY <1>2, TaskFacts DEF Task
<1>4. /\ e.value # 0
      /\ \A k \in Keys : entries[k].value = e.value => k = key
      /\ \A s \in Tasks \ {t} : Holds(task[s]) /\ task[s].copy.value = e.value => task[s].key = key
  BY <1>2 DEF IndInv, OneKey
<1>5. \A s \in Tasks \ {t} : Pending(task[s]) => task[s].value # e.value
  BY <1>2 DEF IndInv, Fresh
<1>6. e.value \in gone => e.value \in held
  BY <1>2 DEF IndInv, HeldOrGone
<1>7. PICK x : Plain(x, task[t]) /\ task' = [task EXCEPT ![t] = x]
  BY <1>1, <1>2, GotoFacts
<1>8. ~Pending(x)
  <2>1. task'[t].phase = "tally" /\ task'[t] = x
    BY <1>1, <1>7, TaskFacts DEF Goto, Task
  <2>. QED  BY <2>1 DEF Pending
<1>. HIDE DEF e, key
<1>9. Puts(key, e)
  BY <1>1 DEF Puts
<1>10. Suits(t, key, e)
  BY <1>3, <1>4, <1>5, <1>6 DEF Suits
<1>. QED  BY <1>7, <1>8, <1>9, <1>10, PutInv

LEMMA ReadInv ==
    ASSUME IndInv, NEW t \in Tasks, Read(t)
    PROVE  IndInv'
<1>. DEFINE q == task[t]
            e == entries[q.key]
            past == e.deadline = "past"
            hit == e.value # 0 /\ ~past
            p == IF hit THEN "writeback" ELSE IF past THEN "delete" ELSE "tally"
            c == IF hit THEN e ELSE q.copy
            x == [q EXCEPT !.copy = c, !.phase = p]
<1>1. /\ q.phase = "read" /\ task' = [task EXCEPT ![t] = x]
      /\ late' = IF hit /\ e.value \in gone THEN late \cup {e.value} ELSE late
      /\ UNCHANGED <<entries, locks, calls, gone, held>>
  <2>1. task' = [task EXCEPT ![t].copy = IF hit THEN e ELSE @, ![t].phase = p]
    BY DEF Read
  <2>2. task' = [task EXCEPT ![t] = x]
    BY <2>1, TaskFacts DEF Task
  <2>. QED  BY <2>2 DEF Read, At
<1>2. q \in Task /\ q.key \in Keys /\ q.copy.value <= calls /\ q.value <= calls /\ q.copy \in Entry
  BY <1>1, TaskFacts DEF At, Task
<1>3. e \in Entry /\ e.value <= calls
  BY <1>2, TypeFacts DEF IndInv, Numbered
<1>4. /\ hit => \A k \in Keys : entries[k].value = e.value => k = q.key
      /\ hit => \A s \in Tasks : Holds(task[s]) /\ task[s].copy.value = e.value => task[s].key = q.key
      /\ \A s \in Tasks : Pending(task[s]) => task[s].value # e.value
      /\ hit /\ e.value \in gone => e.value \in held
  <2>1. OneKey /\ Fresh /\ HeldOrGone
    BY DEF IndInv
  <2>2. hit => \A k \in Keys : entries[k].value = e.value => k = q.key
    BY <1>2, <2>1 DEF OneKey
  <2>3. \A s \in Tasks : Holds(task[s]) /\ task[s].copy.value = e.value => task[s].key = q.key
    BY <1>2, <2>1 DEF OneKey
  <2>4. \A s \in Tasks : Pending(task[s]) => task[s].value # e.value
    BY <1>2, <2>1 DEF Fresh
  <2>5. hit /\ e.value \in gone => e.value \in held
    BY <1>2, <2>1 DEF HeldOrGone
  <2>. QED  BY <2>2, <2>3, <2>4, <2>5
<1>5. hit => e.value # 0
  OBVIOUS
<1>6. late' \subseteq held
  BY <1>1, <1>4 DEF IndInv, GoneStaysGone
<1>7. /\ hit => p = "writeback" /\ c = e
      /\ ~hit => p \in {"delete", "tally"} /\ c = q.copy
      /\ p \in Phases
  BY DEF Phases, Ops
<1>. HIDE DEF q, e, hit, p, c
<1>8. c \in Entry /\ c.value <= calls
  BY <1>2, <1>3, <1>7
<1>9. x \in Task /\ x.phase = p /\ x.copy = c /\ x.key = q.key /\ x.value = q.value /\ x.op = q.op
  BY <1>2, <1>7, <1>8 DEF Task
<1>. HIDE DEF x
<1>10. ~Pending(x) /\ (Holds(x) => hit) /\ x.phase \notin {"cleanup", "swept", "evict", "insert"}
  BY <1>7, <1>9 DEF Pending, Holds
<1>11. calls' \in Values /\ calls <= calls'
  BY <1>1, TypeFacts DEF IndInv, TypeOK
<1>12. LocksOK(entriesLock', statsLock', statsReaders')
  BY <1>1, LocksKept
<1>13. Holds(x) => /\ x.copy.value # 0
                   /\ \A k \in Keys : entries[k].value = x.copy.value => k = x.key
                   /\ \A s \in Tasks \ {t} : Holds(task[s]) /\ task[s].copy.value = x.copy.value =>
                         task[s].key = x.key
                   /\ x.copy.value \in gone => x.copy.value \in held
                   /\ \A s \in Tasks \ {t} : Pending(task[s]) => task[s].value # x.copy.value
  BY <1>4, <1>5, <1>7, <1>9, <1>10
<1>14. x.copy.value <= calls' /\ x.value <= calls' /\ x.key \in Keys
  BY <1>1, <1>2, <1>8, <1>9
<1>. QED  BY <1>1, <1>6, <1>9, <1>10, <1>11, <1>12, <1>13, <1>14, LocalInv

LEMMA ExpireInv ==
    ASSUME IndInv, NEW t \in Tasks, Expire(t)
    PROVE  IndInv'
<1>. DEFINE key == task[t].key
            v == entries[key].value
            e == [entries[key] EXCEPT !.deadline = "later"]
<1>0. TypeOK /\ OneKey /\ Fresh /\ Numbered /\ HeldOrGone
  BY DEF IndInv
<1>1. /\ At(t, "expire") /\ task' = [task EXCEPT ![t] = Idle] /\ UNCHANGED <<locks, calls, held, late>>
      /\ gone' = gone \ {v}
      /\ entries' = IF key \in Present THEN [entries EXCEPT ![key] = e] ELSE entries
  BY DEF Expire, Return
<1>2. key \in Keys /\ entries[key] \in Entry
  BY <1>1, TaskFacts, TypeFacts DEF At
<1>3. e \in Entry /\ e.value = v
  BY <1>2 DEF Entry
<1>. HIDE DEF e
<1>4. /\ entries' \in [Keys -> Entry]
      /\ \A k \in Keys : entries'[k].value = entries[k].value
      /\ \A k \in Keys \ {key} : entries'[k] = entries[k]
  BY <1>0, <1>1, <1>2, <1>3 DEF TypeOK
<1>5. /\ task' \in [Tasks -> Task] /\ task'[t] = Idle
      /\ \A s \in Tasks \ {t} : task'[s] = task[s]
  BY <1>0, <1>1, IdleType DEF TypeOK
<1>6. ~Holds(Idle) /\ ~Pending(Idle)
  BY IdleType DEF Holds, Pending
<1>. HIDE DEF v
<1>7. TypeOK'
  <2>1. \A s \in Tasks : /\ ~At(s, "idle")' => task'[s].key \in Keys
                         /\ At(s, "cleanup")' \/ At(s, "swept")' => task'[s].op \in Sweeping
                         /\ At(s, "evict")' \/ At(s, "insert")' => task'[s].op = "set"
    BY <1>0, <1>5, IdleType DEF TypeOK, At
  <2>. QED  BY <1>0, <1>1, <1>4, <1>5, <2>1 DEF TypeOK, locks
<1>8. OneKey'
  <2>1. \A j, k \in Keys : j # k /\ entries'[j].value # 0 => entries'[j].value # entries'[k].value
    BY <1>0, <1>4 DEF OneKey
  <2>2. \A s \in Tasks : Holds(task'[s]) =>
          /\ task'[s].copy.value # 0
          /\ \A k \in Keys : entries'[k].value = task'[s].copy.value => k = task'[s].key
    BY <1>0, <1>4, <1>5, <1>6 DEF OneKey
  <2>3. \A s, p \in Tasks : Holds(task'[s]) /\ Holds(task'[p]) /\ task'[s].copy.value = task'[p].copy.value =>
          task'[s].key = task'[p].key
    BY <1>0, <1>5, <1>6 DEF OneKey
  <2>. QED  BY <2>1, <2>2, <2>3 DEF OneKey
<1>9. Fresh'
  BY <1>0, <1>1, <1>4, <1>5, <1>6 DEF Fresh
<1>10. Numbered'
  <2>1. 0 <= calls
    BY TypeFacts
  <2>. QED  BY <1>0, <1>1, <1>4, <1>5, <2>1, IdleType, AbsentType DEF Numbered
<1>11. HeldOrGone'
  <2>1. ASSUME NEW k \in Keys, entries'[k].value # 0, entries'[k].deadline # "past", entries'[k].value \in gone'
        PROVE  entries'[k].value \in held'
    <3>1. k # key
      BY <1>1, <1>4, <2>1 DEF v
    <3>. QED  BY <1>0, <1>1, <1>4, <2>1, <3>1 DEF HeldOrGone
  <2>2. ASSUME NEW s \in Tasks, Holds(task'[s]), task'[s].copy.value \in gone'
        PROVE  task'[s].copy.value \in held'
    BY <1>0, <1>1, <1>5, <1>6, <2>2 DEF HeldOrGone
  <2>. QED  BY <2>1, <2>2 DEF HeldOrGone
<1>12. GoneStaysGone'
  BY <1>1 DEF IndInv, GoneStaysGone
<1>. QED  BY <1>7, <1>8, <1>9, <1>10, <1>11, <1>12 DEF IndInv

LEMMA TickInv ==
    ASSUME IndInv, Tick
    PROVE  IndInv'
<1>. DEFINE due == {j \in Keys : entries[j].deadline = "later"}
            vs == {entries[k].value : k \in due}
<1>0. TypeOK /\ OneKey /\ Fresh /\ Numbered /\ HeldOrGone
  BY DEF IndInv
<1>1. /\ entries' = [k \in Keys |-> Pass(entries[k])]
      /\ task' = [t \in Tasks |-> [task[t] EXCEPT !.copy = Pass(task[t].copy)]]
      /\ UNCHANGED <<locks, calls>>
  BY <1>0 DEF Tick, TypeOK, Task
<1>2. /\ gone' = gone \cup vs /\ late' = late
      /\ held' = held \cup {v \in vs : \E s \in Tasks : At(s, "writeback") /\ task[s].copy.value = v}
  BY DEF Tick, Go
<1>3. \A k \in Keys : /\ entries'[k] \in Entry /\ entries'[k].value = entries[k].value
                      /\ k \in due => entries'[k].deadline = "past"
                      /\ k \notin due => entries'[k] = entries[k]
  <2>. SUFFICES ASSUME NEW k \in Keys
                PROVE  /\ entries'[k] \in Entry /\ entries'[k].value = entries[k].value
                       /\ k \in due => entries'[k].deadline = "past"
                       /\ k \notin due => entries'[k] = entries[k]
    OBVIOUS
  <2>1. entries[k] \in Entry /\ entries'[k] = Pass(entries[k])
    BY <1>0, <1>1 DEF TypeOK
  <2>. QED  BY <2>1, PassType
<1>4. \A t \in Tasks : /\ task'[t] \in Task /\ task'[t].phase = task[t].phase /\ task'[t].op = task[t].op
                       /\ task'[t].key = task[t].key /\ task'[t].value = task[t].value
                       /\ task'[t].copy.value = task[t].copy.value
  <2>. SUFFICES ASSUME NEW t \in Tasks
                PROVE  /\ task'[t] \in Task /\ task'[t].phase = task[t].phase /\ task'[t].op = task[t].op
                       /\ task'[t].key = task[t].key /\ task'[t].value = task[t].value
                       /\ task'[t].copy.value = task[t].copy.value
    OBVIOUS
  <2>. DEFINE q == task[t]
              c == Pass(q.copy)
  <2>1. q \in Task /\ q.copy \in Entry /\ task'[t] = [q EXCEPT !.copy = c]
    BY <1>0, <1>1 DEF TypeOK, Task
  <2>2. c \in Entry /\ c.value = q.copy.value
    BY <2>1, PassType
  <2>. HIDE DEF q, c
  <2>3. /\ task'[t] \in Task /\ task'[t].phase = q.phase /\ task'[t].op = q.op
        /\ task'[t].key = q.key /\ task'[t].value = q.value /\ task'[t].copy = c
    BY <2>1, <2>2 DEF Task
  <2>. QED  BY <2>2, <2>3 DEF q
<1>5. entries' = [k \in Keys |-> entries'[k]] /\ task' = [t \in Tasks |-> task'[t]]
  BY <1>1
<1>6. \A v \in vs : \E k \in due : v = entries[k].value
  OBVIOUS
<1>7. vs \subseteq Values /\ due \subseteq Keys /\ \A v \in vs : v <= calls
  BY <1>0 DEF TypeOK, Entry, Numbered
<1>8. \A s \in Tasks : Holds(task[s]) /\ task[s].copy.value \in vs => task[s].copy.value \in held'
  BY <1>2 DEF Holds, At
<1>9. held \subseteq held' /\ held' \subseteq held \cup vs
  BY <1>2
<1>. HIDE DEF vs, due
<1>10. \A t \in Tasks : (Holds(task'[t]) <=> Holds(task[t])) /\ (Pending(task'[t]) <=> Pending(task[t]))
  BY <1>4 DEF Holds, Pending
<1>11. TypeOK'
  <2>1. \A s \in Tasks : /\ ~At(s, "idle")' => task'[s].key \in Keys
                         /\ At(s, "cleanup")' \/ At(s, "swept")' => task'[s].op \in Sweeping
                         /\ At(s, "evict")' \/ At(s, "insert")' => task'[s].op = "set"
    BY <1>0, <1>4 DEF TypeOK, At
  <2>2. entries' \in [Keys -> Entry] /\ task' \in [Tasks -> Task]
    BY <1>3, <1>4, <1>5
  <2>3. gone' \subseteq Values /\ held' \subseteq Values /\ late' \subseteq Values
    BY <1>0, <1>2, <1>7, <1>9 DEF TypeOK
  <2>. QED  BY <1>0, <1>1, <2>1, <2>2, <2>3 DEF TypeOK, locks
<1>12. OneKey'
  <2>1. \A j, k \in Keys : j # k /\ entries'[j].value # 0 => entries'[j].value # entries'[k].value
    BY <1>0, <1>3 DEF OneKey
  <2>2. \A s \in Tasks : Holds(task'[s]) =>
          /\ task'[s].copy.value # 0
          /\ \A k \in Keys : entries'[k].value = task'[s].copy.value => k = task'[s].key
    BY <1>0, <1>3, <1>4, <1>10 DEF OneKey
  <2>3. \A s, p \in Tasks : Holds(task'[s]) /\ Holds(task'[p]) /\ task'[s].copy.value = task'[p].copy.value =>
          task'[s].key = task'[p].key
    BY <1>0, <1>4, <1>10 DEF OneKey
  <2>. QED  BY <2>1, <2>2, <2>3 DEF OneKey
<1>13. Fresh'
  <2>. SUFFICES ASSUME NEW s \in Tasks, Pending(task[s])
                PROVE  /\ task[s].value # 0 /\ task[s].value \notin gone'
                       /\ \A k \in Keys : entries'[k].value # task[s].value
                       /\ \A p \in Tasks : Holds(task[p]) => task[p].copy.value # task[s].value
                       /\ \A p \in Tasks : p # s /\ Pending(task[p]) => task[p].value # task[s].value
    BY <1>4, <1>10 DEF Fresh
  <2>1. /\ task[s].value # 0 /\ task[s].value \notin gone
        /\ \A k \in Keys : entries[k].value # task[s].value
        /\ \A p \in Tasks : Holds(task[p]) => task[p].copy.value # task[s].value
        /\ \A p \in Tasks : p # s /\ Pending(task[p]) => task[p].value # task[s].value
    BY <1>0 DEF Fresh
  <2>2. task[s].value \notin vs
    BY <1>6, <1>7, <2>1
  <2>. QED  BY <1>2, <1>3, <2>1, <2>2
<1>14. Numbered'
  <2>1. \A k \in Keys : entries'[k].value <= calls
    BY <1>0, <1>3 DEF Numbered
  <2>2. \A v \in gone' : v <= calls
    BY <1>0, <1>2, <1>7 DEF Numbered
  <2>3. \A s \in Tasks : task'[s].copy.value <= calls /\ task'[s].value <= calls
    BY <1>0, <1>4 DEF Numbered
  <2>. QED  BY <1>1, <2>1, <2>2, <2>3 DEF Numbered
<1>15. HeldOrGone'
  <2>1. ASSUME NEW k \in Keys, entries'[k].value # 0, entries'[k].deadline # "past", entries'[k].value \in gone'
        PROVE  entries'[k].value \in held'
    <3>1. k \notin due /\ entries'[k] = entries[k]
      BY <1>3, <2>1
    <3>2. entries[k].value \notin vs
      BY <1>0, <1>6, <1>7, <2>1, <3>1 DEF OneKey
    <3>. QED  BY <1>0, <1>2, <1>9, <2>1, <3>1, <3>2 DEF HeldOrGone
  <2>2. ASSUME NEW s \in Tasks, Holds(task'[s]), task'[s].copy.value \in gone'
        PROVE  task'[s].copy.value \in held'
    <3>1. Holds(task[s]) /\ task'[s].copy.value = task[s].copy.value
      BY <1>4, <1>10, <2>2
    <3>. QED  BY <1>0, <1>2, <1>8, <1>9, <2>2, <3>1 DEF HeldOrGone
  <2>. QED  BY <2>1, <2>2 DEF HeldOrGone
<1>16. GoneStaysGone'
  BY <1>2, <1>9 DEF IndInv, GoneStaysGone
<1>. QED  BY <1>11, <1>12, <1>13, <1>14, <1>15, <1>16 DEF IndInv

-----------------------------------------------------------------------------
(* The invariant.                                                           *)

LEMMA InitInv == Init => IndInv
<1>. SUFFICES ASSUME Init PROVE IndInv
  OBVIOUS
<1>1. /\ entries = [k \in Keys |-> Absent] /\ task = [t \in Tasks |-> Idle] /\ calls = 0
      /\ entriesLock = Nobody /\ statsLock = Nobody /\ statsReaders = {}
      /\ gone = {} /\ held = {} /\ late = {}
  BY DEF Init
<1>2. \A k \in Keys : entries[k] \in Entry /\ entries[k].value = 0
  BY <1>1, AbsentType
<1>3. \A t \in Tasks : task[t] = Idle
  BY <1>1
<1>4. ~Holds(Idle) /\ ~Pending(Idle)
  BY IdleType DEF Holds, Pending
<1>5. TypeOK
  <2>1. entries \in [Keys -> Entry] /\ task \in [Tasks -> Task] /\ calls \in Values
    BY <1>1, AbsentType, IdleType, CacheAssumption DEF Values
  <2>2. \A t \in Tasks : /\ ~At(t, "idle") => task[t].key \in Keys
                         /\ At(t, "cleanup") \/ At(t, "swept") => task[t].op \in Sweeping
                         /\ At(t, "evict") \/ At(t, "insert") => task[t].op = "set"
    BY <1>3, IdleType DEF At
  <2>. QED  BY <1>1, <2>1, <2>2 DEF TypeOK
<1>6. OneKey /\ Fresh /\ HeldOrGone
  BY <1>1, <1>2, <1>3, <1>4 DEF OneKey, Fresh, HeldOrGone
<1>7. Numbered
  BY <1>1, <1>2, <1>3, IdleType, AbsentType DEF Numbered
<1>. QED  BY <1>1, <1>5, <1>6, <1>7 DEF IndInv, GoneStaysGone

LEMMA NextInv == IndInv /\ [Next]_vars => IndInv'
<1>. SUFFICES ASSUME IndInv, [Next]_vars PROVE IndInv'
  OBVIOUS
<1>1. CASE UNCHANGED vars
  <2>1. UNCHANGED <<entries, entriesLock, statsLock, statsReaders, task, calls, gone, held, late>>
    BY <1>1 DEF vars
  <2>. QED  BY <2>1 DEF IndInv, TypeOK, At, OneKey, Fresh, Numbered, HeldOrGone, GoneStaysGone
<1>2. ASSUME NEW t \in Tasks, Step(t) PROVE IndInv'
  BY <1>2, CleanupInv, SweptInv, EvictInv, InsertInv, LockStatsInv, ReturnInv, ReadInv, WriteBackInv,
     DeleteInv, ExpireInv, ClearInv DEF Step
<1>3. ASSUME NEW t \in Tasks, Call(t) PROVE IndInv'
  BY <1>3, CallInv
<1>4. ASSUME NEW t \in Tasks, Cancel(t) PROVE IndInv'
  BY <1>4, ReturnInv
<1>. QED  BY <1>1, <1>2, <1>3, <1>4, TickInv DEF Next

\* In every reachable state a value belongs to one key, and what has gone and
\* may come back was in a get's hands when it went.
THEOREM Inductive == Spec => []IndInv
BY InitInv, NextInv, PTL DEF Spec

\* Entries, deadlines and the copies tasks hold keep their types, and each
\* task is at a lock of the call it is in (set, get, clear and the others).
THEOREM TypeCorrect == Spec => []TypeOK
<1>1. IndInv => TypeOK
  BY DEF IndInv
<1>. QED  BY <1>1, Inductive, PTL

\* No get of the cache answers with a value that was removed, replaced or past
\* its deadline, but by the write-back of a copy another get had in hand at
\* that moment; whatever is called, cancelled, evicted or swept meanwhile.
THEOREM NoRevival == Spec => []GoneStaysGone
<1>1. IndInv => GoneStaysGone
  BY DEF IndInv
<1>. QED  BY <1>1, Inductive, PTL
=============================================================================
