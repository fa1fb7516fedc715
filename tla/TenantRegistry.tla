--------------------------- MODULE TenantRegistry ---------------------------
(***************************************************************************)
(* The cache of per-tenant runtimes (backbone-tenant).  A request finds or *)
(* makes its tenant's cell under the lock, builds the runtime in the cell  *)
(* without the lock (tokio's OnceCell: one caller builds, the others wait  *)
(* and take over when it fails or is dropped), then takes the lock again   *)
(* to forget a failure or to mark the tenant used and trim the cache to    *)
(* its capacity.  The request may be dropped at each of these awaits, and  *)
(* evict, evict_all and evict_idle may come in between.                    *)
(***************************************************************************)
EXTENDS Integers, FiniteSets

CONSTANTS Requests, Tenants,
          MaxTenants,   \* the capacity given to new, which panics on 0
          Keeps,        \* what evict_idle is called with
          MaxCalls      \* bound: calls of get_or_build

ASSUME TenantAssumption ==
    /\ MaxTenants \in Nat \ {0} /\ MaxCalls \in Nat /\ Keeps \subseteq Nat
    /\ IsFiniteSet(Requests) /\ IsFiniteSet(Tenants)

\* Cells are allocated and freed with their last reference; 0 is no cell.
Cells == 1..Cardinality(Requests) + Cardinality(Tenants)

VARIABLES entries,    \* the cell of each tenant's entry
          last,       \* its access tick
          tick,       \* the access counter
          full,       \* cells that hold a runtime
          req,        \* each request's place in get_or_build
          calls,      \* calls so far
          fresh,      \* history: cells filled since the last touch
          released,   \* history: cells evicted, or forgotten after a failure
          orphaned    \* history: cells from which a request was dropped

vars == <<entries, last, tick, full, req, calls, fresh, released, orphaned>>

NoTenant == "none"
Idle == [phase |-> "idle", tenant |-> NoTenant, cell |-> 0]
Phases == {"idle", "cell", "building", "forget", "touch"}

Registered == {t \in Tenants : entries[t] # 0}
Resident == {t \in Registered : entries[t] \in full}
Holders(c) == {r \in Requests : req[r].cell = c}
Free == {c \in Cells : Holders(c) = {} /\ \A t \in Tenants : entries[t] # c}
Builders(c) == {r \in Holders(c) : req[r].phase = "building"}

Init ==
    /\ entries = [t \in Tenants |-> 0] /\ last = [t \in Tenants |-> 0]
    /\ tick = 0 /\ full = {} /\ calls = 0
    /\ req = [r \in Requests |-> Idle]
    /\ fresh = {} /\ released = {} /\ orphaned = {}

Goto(r, phase) == req' = [req EXCEPT ![r].phase = phase]
Return(r) == req' = [req EXCEPT ![r] = Idle]

(***************************************************************************)
(* get_or_build.                                                           *)
(***************************************************************************)

\* A cell nobody refers to any more is used again for a new one.
NewCell(r, t) ==
    \E c \in Free :
        /\ \A d \in Free : c <= d
        /\ entries' = [entries EXCEPT ![t] = c]
        /\ last' = [last EXCEPT ![t] = tick]
        /\ req' = [req EXCEPT ![r] = [phase |-> "cell", tenant |-> t, cell |-> c]]
        /\ full' = full \ {c} /\ fresh' = fresh \ {c}
        /\ released' = released \ {c} /\ orphaned' = orphaned \ {c}

\* Mutant: an entry that is not built yet is replaced.
FindCellEager(r, t) ==
    /\ req[r].phase = "idle" /\ calls < MaxCalls
    /\ calls' = calls + 1
    /\ \/ entries[t] \notin full /\ NewCell(r, t)
       \/ /\ entries[t] \in full
          /\ req' = [req EXCEPT ![r] = [phase |-> "cell", tenant |-> t, cell |-> entries[t]]]
          /\ UNCHANGED <<entries, last, full, fresh, released, orphaned>>
    /\ UNCHANGED tick

\* Phase 1: find the tenant's cell, or make one.
FindCell(r, t) ==
    /\ req[r].phase = "idle" /\ calls < MaxCalls
    /\ calls' = calls + 1
    /\ \/ entries[t] = 0 /\ NewCell(r, t)
       \/ /\ entries[t] # 0
          /\ req' = [req EXCEPT ![r] = [phase |-> "cell", tenant |-> t, cell |-> entries[t]]]
          /\ UNCHANGED <<entries, last, full, fresh, released, orphaned>>
    /\ UNCHANGED tick

\* Phase 2: the runtime is there already.
Found(r) ==
    /\ req[r].phase = "cell" /\ req[r].cell \in full
    /\ Goto(r, "touch")
    /\ UNCHANGED <<entries, last, tick, full, calls, fresh, released, orphaned>>

\* The caller becomes the one that builds: the first, or a waiter whose
\* predecessor failed or was dropped.
Build(r) ==
    /\ req[r].phase = "cell" /\ req[r].cell \notin full
    /\ Builders(req[r].cell) = {}
    /\ Goto(r, "building")
    /\ UNCHANGED <<entries, last, tick, full, calls, fresh, released, orphaned>>

Built(r) ==
    /\ req[r].phase = "building"
    /\ full' = full \cup {req[r].cell} /\ fresh' = fresh \cup {req[r].cell}
    /\ Goto(r, "touch")
    /\ UNCHANGED <<entries, last, tick, calls, released, orphaned>>

BuildFailed(r) ==
    /\ req[r].phase = "building"
    /\ Goto(r, "forget")
    /\ UNCHANGED <<entries, last, tick, full, calls, fresh, released, orphaned>>

\* Mutant: an entry that another caller has built meanwhile goes too.
ForgetFailedBuilt(r) ==
    LET t == req[r].tenant
        ours == entries[t] = req[r].cell
    IN  /\ req[r].phase = "forget"
        /\ entries' = IF ours THEN [entries EXCEPT ![t] = 0] ELSE entries
        /\ released' = IF ours THEN released \cup {req[r].cell} ELSE released
        /\ Return(r)
        /\ UNCHANGED <<last, tick, full, calls, fresh, orphaned>>

\* Mutant: a failed build is left behind for the next caller.
ForgetFailedKeeps(r) ==
    /\ req[r].phase = "forget"
    /\ Return(r)
    /\ UNCHANGED <<entries, last, tick, full, calls, fresh, released, orphaned>>

\* forget_failed: the entry goes unless it was replaced or built meanwhile.
ForgetFailed(r) ==
    LET t == req[r].tenant
        ours == entries[t] = req[r].cell /\ entries[t] \notin full
    IN  /\ req[r].phase = "forget"
        /\ entries' = IF ours THEN [entries EXCEPT ![t] = 0] ELSE entries
        /\ released' = IF ours THEN released \cup {req[r].cell} ELSE released
        /\ Return(r)
        /\ UNCHANGED <<last, tick, full, calls, fresh, orphaned>>

\* Mutant: the bound is compared with what was resident before this tenant.
VictimsOff(t, resident, ticks) ==
    {v \in SUBSET (resident \ {t}) :
        /\ Cardinality(v) = IF Cardinality(resident) > MaxTenants + 1
                            THEN Cardinality(resident) - MaxTenants - 1 ELSE 0
        /\ \A x \in v, y \in resident \ (v \cup {t}) : ticks[x] <= ticks[y]}

\* The least recently used residents other than t, as many as are too many;
\* min_by_key takes any of those that are equally old.
Victims(t, resident, ticks) ==
    {v \in SUBSET (resident \ {t}) :
        /\ Cardinality(v) = IF Cardinality(resident) > MaxTenants
                            THEN Cardinality(resident) - MaxTenants ELSE 0
        /\ \A x \in v, y \in resident \ (v \cup {t}) : ticks[x] <= ticks[y]}

\* Phase 3, touch_and_evict: put the entry back if it is gone, mark it used,
\* trim the cache.
TouchAndEvict(r) ==
    LET t == req[r].tenant
        with == IF entries[t] = 0 THEN [entries EXCEPT ![t] = req[r].cell] ELSE entries
        ticks == [last EXCEPT ![t] = tick + 1]
        resident == {x \in Tenants : with[x] \in full}
    IN  /\ req[r].phase = "touch"
        /\ tick' = tick + 1
        /\ last' = ticks
        /\ \E v \in Victims(t, resident, ticks) :
               entries' = [x \in Tenants |-> IF x \in v THEN 0 ELSE with[x]]
        /\ fresh' = {}
        /\ Return(r)
        /\ UNCHANGED <<full, calls, released, orphaned>>

\* The request's future is dropped at an await.
Drop(r) ==
    /\ req[r].phase # "idle"
    /\ orphaned' = orphaned \cup {req[r].cell}
    /\ Return(r)
    /\ UNCHANGED <<entries, last, tick, full, calls, fresh, released>>

(***************************************************************************)
(* Evictions.                                                              *)
(***************************************************************************)

Remove(gone) ==
    /\ entries' = [t \in Tenants |-> IF t \in gone THEN 0 ELSE entries[t]]
    /\ released' = released \cup {entries[t] : t \in gone}
    /\ UNCHANGED <<last, tick, full, req, calls, fresh, orphaned>>

Evict(t) == t \in Registered /\ Remove({t})

EvictAll == Registered # {} /\ Remove(Registered)

\* evict_idle: entries more than keep ticks behind the newest access, those
\* being built included.
EvictIdle(keep) ==
    LET idle == {t \in Registered : last[t] < tick - keep} IN
    /\ idle # {}
    /\ Remove(idle)

Step(r) ==
    \/ \E t \in Tenants : FindCell(r, t)
    \/ Found(r) \/ Build(r) \/ Built(r) \/ BuildFailed(r)
    \/ ForgetFailed(r) \/ TouchAndEvict(r) \/ Drop(r)

Next ==
    \/ \E r \in Requests : Step(r)
    \/ \E t \in Tenants : Evict(t)
    \/ EvictAll
    \/ \E keep \in Keeps : EvictIdle(keep)

Spec == Init /\ [][Next]_vars

(***************************************************************************)
(* Properties.                                                             *)
(***************************************************************************)

\* Variables hold what they should; no two tenants share a cell.
TypeOK ==
    /\ entries \in [Tenants -> Cells \cup {0}]
    /\ last \in [Tenants -> Nat] /\ tick \in Nat
    /\ full \subseteq Cells
    /\ req \in [Requests -> [phase : Phases, tenant : Tenants \cup {NoTenant}, cell : Cells \cup {0}]]
    /\ calls \in 0..MaxCalls
    /\ fresh \subseteq Cells /\ released \subseteq Cells /\ orphaned \subseteq Cells
    /\ \A t, u \in Registered : entries[t] = entries[u] => t = u

\* "Bounded": max_tenants caps the built runtimes, but for those whose build
\* ended after the last successful resolve.  A request that is dropped before
\* its touch leaves the excess to the next one.
ResidentBound == Cardinality(Resident) <= MaxTenants + Cardinality(fresh)

\* "Concurrent first-callers for the same tenant share one build": whoever
\* builds does so in the registered cell, unless that cell was evicted, or
\* forgotten by a request whose build in it failed, since it was found (build:
\* "retried only after a failure or an eviction").  Trimming never takes a
\* cell that is being built.
SharedBuild ==
    \A r \in Requests : req[r].phase \in {"cell", "building"} /\ req[r].cell \notin full =>
        entries[req[r].tenant] = req[r].cell \/ req[r].cell \in released

\* What the code does not keep ("Two simultaneous first requests for the same
\* tenant build the runtime exactly once"): two builds of a tenant may run at
\* once, after an eviction of the cell that is being built, and without one
\* when a build failed, a waiter builds again in the same cell, the failed
\* request then forgets that cell and a new request makes another.
OneBuildAtATime ==
    \A r, q \in Requests :
        req[r].phase = "building" /\ req[q].phase = "building" /\ req[r].tenant = req[q].tenant => r = q

\* "an entry mid-build is transient (it is either built or removed when its
\* build ends)": an entry that holds no runtime and that no request is
\* working on is what a dropped request left behind.
TransientIsWorkedOn ==
    \A t \in Registered \ Resident :
        Holders(entries[t]) # {} \/ entries[t] \in orphaned

\* "requests for unknown tenants cannot push established tenants out": a built
\* entry goes only by an eviction, or by the successful resolve of another
\* tenant that makes one too many, never by a failed build, be it one of an
\* earlier cell or one that others waited for.
EstablishedStays ==
    [][\A t \in Resident : entries'[t] # entries[t] =>
          \/ req' = req
          \/ \E r \in Requests :
                /\ req[r].phase = "touch" /\ req'[r].phase = "idle"
                /\ req[r].tenant # t
                /\ Cardinality(Resident \cup {req[r].tenant}) > MaxTenants]_vars

=============================================================================
