----------------------------- MODULE MemoryCache -----------------------------
(***************************************************************************)
(* The in-memory cache (backbone-cache): a map of entries and a block of   *)
(* statistics, each behind a tokio RwLock.  Tasks await a lock, work and   *)
(* release it in one step; only cleanup_expired (entries, then stats) and  *)
(* the counting of entries (stats, then entries) hold one lock while they  *)
(* wait for the other.  A hit writes the copy it read back to mark it      *)
(* accessed.  mget, mset and mdelete are such calls one after the other.   *)
(* The numbers in the statistics and redis.rs are left out.                *)
(*                                                                         *)
(* Every set stores a value of its own.  Time is the state of a deadline:  *)
(* never, later or past.  evict_if_needed takes the entry with the oldest  *)
(* time stamp; any entry may be that one here.                             *)
(***************************************************************************)
EXTENDS Integers, FiniteSets

CONSTANTS Tasks, Keys,
          MaxEntries,   \* max_entries
          MaxCalls,     \* bound: calls of all tasks
          Nobody        \* holds a free lock

ASSUME CacheAssumption ==
    /\ MaxEntries \in Nat \ {0} /\ MaxCalls \in Nat /\ Nobody \notin Tasks
    /\ IsFiniteSet(Keys)

VARIABLES entries,      \* the map; value 0 is no entry
          entriesLock,  \* who holds entries for writing while it waits for stats
          statsLock,    \* who holds stats for writing while it waits for entries
          statsReaders, \* who holds stats for reading while it waits for entries
          task,         \* what each task is doing
          calls,        \* calls so far; numbers the values that are set
          gone,         \* history: values removed, or past their deadline
          held,         \* history: those of which a get had a copy at that moment
          late          \* history: values that a get found after they had gone

vars == <<entries, entriesLock, statsLock, statsReaders, task, calls, gone, held, late>>
locks == <<entriesLock, statsLock, statsReaders>>
history == <<gone, held, late>>

Absent == [value |-> 0, deadline |-> "never"]
Idle == [phase |-> "idle", op |-> "none", key |-> "none", copy |-> Absent, value |-> 0]
Sweeping == {"set", "get", "peek", "stats"}       \* calls that start with cleanup_expired
Ops == Sweeping \cup {"delete", "expire", "clear"}
Phases == Ops \cup {"idle", "cleanup", "swept", "evict", "insert", "count", "read", "writeback", "tally"}
Values == 0..MaxCalls
Entry == [value : Values, deadline : {"never", "later", "past"}]
Task == [phase : Phases, op : Ops \cup {"none"}, key : Keys \cup {"none"}, copy : Entry, value : Values]

Present == {k \in Keys : entries[k].value # 0}
Expired == {k \in Present : entries[k].deadline = "past"}

Init ==
    /\ entries = [k \in Keys |-> Absent]
    /\ entriesLock = Nobody /\ statsLock = Nobody /\ statsReaders = {}
    /\ task = [t \in Tasks |-> Idle] /\ calls = 0
    /\ gone = {} /\ held = {} /\ late = {}

At(t, phase) == task[t].phase = phase
Goto(t, phase) == task' = [task EXCEPT ![t].phase = phase]
Return(t) == task' = [task EXCEPT ![t] = Idle]
EntriesFree == entriesLock = Nobody
StatsFree == statsLock = Nobody /\ statsReaders = {}

\* The values of vs go.
Go(vs) ==
    /\ gone' = gone \cup vs
    /\ held' = held \cup {v \in vs : \E t \in Tasks : At(t, "writeback") /\ task[t].copy.value = v}
    /\ UNCHANGED late

Take(ks) ==
    /\ entries' = [k \in Keys |-> IF k \in ks THEN Absent ELSE entries[k]]
    /\ Go({entries[k].value : k \in ks} \ {0})

\* A call of the cache.
Call(t) ==
    /\ At(t, "idle") /\ calls < MaxCalls
    /\ calls' = calls + 1
    /\ \E op \in Ops, k \in Keys :
           task' = [task EXCEPT ![t] = [Idle EXCEPT
                       !.phase = IF op \in Sweeping THEN "cleanup" ELSE op,
                       !.op = op, !.key = k, !.value = calls + 1]]
    /\ UNCHANGED <<entries, locks, history>>

\* The passing of time brings every pending deadline.
Pass(e) == IF e.deadline = "later" THEN [e EXCEPT !.deadline = "past"] ELSE e
Tick ==
    /\ \E k \in Keys : entries[k].deadline = "later"
    /\ entries' = [k \in Keys |-> Pass(entries[k])]
    /\ task' = [t \in Tasks |-> [task[t] EXCEPT !.copy = Pass(@)]]
    /\ Go({entries[k].value : k \in {j \in Keys : entries[j].deadline = "later"}})
    /\ UNCHANGED <<locks, calls>>

(***************************************************************************)
(* cleanup_expired.                                                        *)
(***************************************************************************)

AfterCleanup(op) == CASE op = "set" -> "evict" [] op = "get" -> "read" [] OTHER -> op

\* Entries are swept; if some were, entries stays locked for the next step.
Cleanup(t) ==
    /\ At(t, "cleanup") /\ EntriesFree
    /\ Take(Expired)
    /\ IF Expired = {} THEN Goto(t, AfterCleanup(task[t].op)) /\ UNCHANGED entriesLock
       ELSE Goto(t, "swept") /\ entriesLock' = t
    /\ UNCHANGED <<statsLock, statsReaders, calls>>

\* stats is locked and reset, both locks are released.
Swept(t) ==
    /\ At(t, "swept") /\ StatsFree
    /\ entriesLock' = Nobody
    /\ Goto(t, AfterCleanup(task[t].op))
    /\ UNCHANGED <<entries, statsLock, statsReaders, calls, history>>

(***************************************************************************)
(* set.                                                                    *)
(***************************************************************************)

\* evict_if_needed, which looks at the size before this key is inserted.
Evict(t) ==
    /\ At(t, "evict") /\ EntriesFree
    /\ IF Cardinality(Present) < MaxEntries THEN UNCHANGED <<entries, history>>
       ELSE \E k \in Present : Take({k})
    /\ Goto(t, "insert")
    /\ UNCHANGED <<locks, calls>>

\* Mutant: entries stays locked while the statistics are updated.
InsertHolding(t) ==
    /\ At(t, "insert") /\ EntriesFree
    /\ \E d \in {"never", "later"} :
           entries' = [entries EXCEPT ![task[t].key] = [value |-> task[t].value, deadline |-> d]]
    /\ Go({entries[task[t].key].value} \ {0})
    /\ Goto(t, "stats") /\ entriesLock' = t
    /\ UNCHANGED <<statsLock, statsReaders, calls>>

Insert(t) ==
    /\ At(t, "insert") /\ EntriesFree
    /\ \E d \in {"never", "later"} :
           entries' = [entries EXCEPT ![task[t].key] = [value |-> task[t].value, deadline |-> d]]
    /\ Go({entries[task[t].key].value} \ {0})
    /\ Goto(t, "stats")
    /\ UNCHANGED <<locks, calls>>

\* stats is locked, for writing but for a call of stats().
LockStats(t) ==
    /\ At(t, "stats")
    /\ IF task[t].op = "stats"
       THEN statsLock = Nobody /\ statsReaders' = statsReaders \cup {t} /\ UNCHANGED statsLock
       ELSE StatsFree /\ statsLock' = t /\ UNCHANGED statsReaders
    /\ Goto(t, "count")
    /\ UNCHANGED <<entries, entriesLock, calls, history>>

\* entries is locked for reading and counted, and everything is released.
Count(t) ==
    /\ At(t, "count") /\ EntriesFree
    /\ statsLock' = IF statsLock = t THEN Nobody ELSE statsLock
    /\ statsReaders' = statsReaders \ {t}
    /\ Return(t)
    /\ UNCHANGED <<entries, entriesLock, calls, history>>

(***************************************************************************)
(* get.                                                                    *)
(***************************************************************************)

\* Mutant: get relies on cleanup_expired.
ReadUnchecked(t) ==
    LET e == entries[task[t].key] IN
    /\ At(t, "read") /\ EntriesFree
    /\ task' = [task EXCEPT ![t].copy = e,
                            ![t].phase = IF e.value = 0 THEN "tally" ELSE "writeback"]
    /\ late' = IF e.value \in gone THEN late \cup {e.value} ELSE late
    /\ UNCHANGED <<entries, locks, calls, gone, held>>

\* A miss, an entry that expired since the sweep, or a copy to answer with.
Read(t) ==
    LET e == entries[task[t].key]
        past == e.deadline = "past"
        hit == e.value # 0 /\ ~past
    IN  /\ At(t, "read") /\ EntriesFree
        /\ task' = [task EXCEPT ![t].copy = IF hit THEN e ELSE @,
                                ![t].phase = IF hit THEN "writeback" ELSE IF past THEN "delete" ELSE "tally"]
        /\ late' = IF hit /\ e.value \in gone THEN late \cup {e.value} ELSE late
        /\ UNCHANGED <<entries, locks, calls, gone, held>>

\* The copy, marked as accessed, takes the place of what is there now.
WriteBack(t) ==
    LET key == task[t].key IN
    /\ At(t, "writeback") /\ EntriesFree
    /\ entries' = [entries EXCEPT ![key] = task[t].copy]
    /\ Go({entries[key].value} \ {0, task[t].copy.value})
    /\ Goto(t, "tally")
    /\ UNCHANGED <<locks, calls>>

\* record_hit, record_miss, and the reset of clear.
Tally(t) ==
    /\ At(t, "tally") /\ StatsFree
    /\ Return(t)
    /\ UNCHANGED <<entries, locks, calls, history>>

(***************************************************************************)
(* The other calls.                                                        *)
(***************************************************************************)

\* delete, and the removal by get of an entry that it found expired.
Delete(t) ==
    LET key == task[t].key IN
    /\ At(t, "delete") /\ EntriesFree
    /\ Take({key})
    /\ IF key \in Present \/ task[t].op = "get" THEN Goto(t, "stats") ELSE Return(t)
    /\ UNCHANGED <<locks, calls>>

\* exists and ttl.
Peek(t) ==
    /\ At(t, "peek") /\ EntriesFree
    /\ Return(t)
    /\ UNCHANGED <<entries, locks, calls, history>>

\* expire does not sweep: it gives an entry that is past its deadline, and not
\* removed yet, a new one.
Expire(t) ==
    LET key == task[t].key IN
    /\ At(t, "expire") /\ EntriesFree
    /\ entries' = IF key \in Present THEN [entries EXCEPT ![key].deadline = "later"] ELSE entries
    /\ gone' = gone \ {entries[key].value}
    /\ Return(t)
    /\ UNCHANGED <<locks, calls, held, late>>

Clear(t) ==
    /\ At(t, "clear") /\ EntriesFree
    /\ Take(Keys)
    /\ Goto(t, "tally")
    /\ UNCHANGED <<locks, calls>>

\* The caller's future is dropped while it waits for a lock; its guards
\* release what it held.
Cancel(t) ==
    /\ ~At(t, "idle")
    /\ Return(t)
    /\ entriesLock' = IF entriesLock = t THEN Nobody ELSE entriesLock
    /\ statsLock' = IF statsLock = t THEN Nobody ELSE statsLock
    /\ statsReaders' = statsReaders \ {t}
    /\ UNCHANGED <<entries, calls, history>>

Step(t) ==
    \/ Cleanup(t) \/ Swept(t) \/ Evict(t) \/ Insert(t) \/ LockStats(t) \/ Count(t)
    \/ Read(t) \/ WriteBack(t) \/ Tally(t)
    \/ Delete(t) \/ Peek(t) \/ Expire(t) \/ Clear(t)

Next == Tick \/ \E t \in Tasks : Call(t) \/ Step(t) \/ Cancel(t)

Spec == Init /\ [][Next]_vars

\* A task whose lock is free runs on: tokio's locks are first come first
\* served.
FairSpec == Spec /\ \A t \in Tasks : WF_vars(Step(t))

(***************************************************************************)
(* Properties.                                                             *)
(***************************************************************************)

\* Variables hold what they should.
TypeOK ==
    /\ entries \in [Keys -> Entry]
    /\ entriesLock \in Tasks \cup {Nobody} /\ statsLock \in Tasks \cup {Nobody}
    /\ statsReaders \subseteq Tasks
    /\ task \in [Tasks -> Task] /\ calls \in Values
    /\ \A t \in Tasks : /\ ~At(t, "idle") => task[t].key \in Keys
                        /\ At(t, "cleanup") \/ At(t, "swept") => task[t].op \in Sweeping
                        /\ At(t, "evict") \/ At(t, "insert") => task[t].op = "set"
    /\ gone \subseteq Values /\ held \subseteq Values /\ late \subseteq Values

\* cleanup_expired waits for stats, with entries locked, while another call
\* waits for entries, with stats locked: neither goes on unless it is dropped.
LocksCross ==
    \E s, t \in Tasks : At(s, "swept") /\ entriesLock = s /\ At(t, "count")

\* Every call returns, but for the one way in which the two locks can wait for
\* each other: a sweep that removed something meets a call that counts.
ReturnsUnlessLocksCross ==
    \A t \in Tasks : ~At(t, "idle") ~> (At(t, "idle") \/ LocksCross)

\* A value that was removed, replaced or whose deadline passed is not found
\* again, unless expire gave it a new deadline, or a get had its copy in hand
\* at that moment and wrote it back.
GoneStaysGone == late \subseteq held
=============================================================================
