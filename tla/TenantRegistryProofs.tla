------------------------ MODULE TenantRegistryProofs ------------------------
(***************************************************************************)
(* Proofs about TenantRegistry for every finite set of requests and        *)
(* tenants, every capacity and every number of calls.                      *)
(***************************************************************************)
EXTENDS TenantRegistry, FiniteSetTheorems, TLAPS

ReqType == [phase : Phases, tenant : Tenants \cup {NoTenant}, cell : Cells \cup {0}]

(***************************************************************************)
(* The inductive invariant.  A cell belongs to one tenant, whoever refers  *)
(* to it (Owned); one request at a time builds in a cell, and only while   *)
(* it is empty (OneBuilder); the runtimes that are not fresh keep to the   *)
(* capacity (SettledBound, which unlike ResidentBound survives the reuse   *)
(* of a fresh cell nobody refers to any more).                             *)
(***************************************************************************)
Owned ==
    /\ \A r \in Requests : req[r].phase # "idle" => req[r].cell # 0 /\ req[r].tenant \in Tenants
    /\ \A r \in Requests : req[r].phase = "idle" => req[r].cell = 0
    /\ \A r \in Requests, t \in Tenants :
          entries[t] = req[r].cell /\ req[r].cell # 0 => req[r].tenant = t
    /\ \A r, q \in Requests :
          req[r].cell = req[q].cell /\ req[r].cell # 0 => req[r].tenant = req[q].tenant

OneBuilder ==
    /\ \A r \in Requests : req[r].phase = "touch" => req[r].cell \in full
    /\ \A r \in Requests : req[r].phase = "building" => req[r].cell \notin full
    /\ \A r, q \in Requests :
          req[r].phase = "building" /\ req[q].phase = "building" /\ req[r].cell = req[q].cell
             => r = q

Settled == {t \in Tenants : entries[t] \in full \ fresh}
SettledBound == Cardinality(Settled) <= MaxTenants

IndInv ==
    /\ TypeOK
    /\ Owned
    /\ OneBuilder
    /\ fresh \subseteq full
    /\ SettledBound
    /\ SharedBuild
    /\ TransientIsWorkedOn

-----------------------------------------------------------------------------
LEMMA CellsAre == 0 \notin Cells /\ IsFiniteSet(Cells)
<1>1. Cardinality(Requests) \in Nat /\ Cardinality(Tenants) \in Nat
  BY TenantAssumption, FS_CardinalityType
<1>. QED  BY <1>1, FS_Interval DEF Cells

LEMMA TenantSets ==
    ASSUME NEW S \in SUBSET Tenants, NEW T \in SUBSET S
    PROVE  /\ IsFiniteSet(S) /\ Cardinality(S) \in Nat
           /\ Cardinality(T) \in Nat /\ Cardinality(T) <= Cardinality(S)
<1>1. IsFiniteSet(S)
  BY TenantAssumption, FS_Subset
<1>2. IsFiniteSet(T) /\ Cardinality(T) <= Cardinality(S)
  BY <1>1, FS_Subset
<1>. QED  BY <1>1, <1>2, FS_CardinalityType

\* A step that settles no runtime keeps the bound.
LEMMA NoneSettles ==
    ASSUME SettledBound, Settled' \subseteq Settled PROVE SettledBound'
<1>1. Settled \in SUBSET Tenants
  BY DEF Settled
<1>2. Cardinality(Settled') <= Cardinality(Settled) /\ Cardinality(Settled) \in Nat
      /\ Cardinality(Settled') \in Nat
  BY <1>1, TenantSets
<1>. QED  BY <1>2, TenantAssumption DEF SettledBound

LEMMA InitInv == Init => IndInv
<1>. SUFFICES ASSUME Init PROVE IndInv
  OBVIOUS
<1>1. Idle \in ReqType /\ Idle.phase = "idle" /\ Idle.cell = 0
  BY DEF Idle, ReqType, Phases
<1>2. req \in [Requests -> ReqType] /\ \A r \in Requests : req[r].phase = "idle" /\ req[r].cell = 0
  BY <1>1 DEF Init
<1>3. TypeOK
  <2>1. calls \in 0..MaxCalls
    BY TenantAssumption DEF Init
  <2>2. entries \in [Tenants -> Cells \cup {0}] /\ last \in [Tenants -> Nat] /\ tick \in Nat
    BY DEF Init
  <2>3. full \subseteq Cells /\ fresh \subseteq Cells /\ released \subseteq Cells
        /\ orphaned \subseteq Cells
    BY DEF Init
  <2>4. Registered = {}
    BY DEF Init, Registered
  <2>. QED  BY <1>2, <2>1, <2>2, <2>3, <2>4 DEF TypeOK, ReqType
<1>4. SettledBound
  <2>1. Settled = {}
    BY DEF Init, Settled
  <2>. QED  BY <2>1, FS_EmptySet, TenantAssumption DEF SettledBound
<1>5. Owned /\ OneBuilder /\ SharedBuild
  BY <1>2 DEF Owned, OneBuilder, SharedBuild
<1>6. TransientIsWorkedOn /\ fresh \subseteq full
  BY DEF Init, TransientIsWorkedOn, Registered
<1>. QED  BY <1>3, <1>4, <1>5, <1>6 DEF IndInv

(***************************************************************************)
(* What a step of a request does to its record.                            *)
(***************************************************************************)
Others(r) == \A q \in Requests \ {r} : req'[q] = req[q]

LEMMA GotoReq ==
    ASSUME TypeOK, NEW r \in Requests, NEW phase \in Phases, Goto(r, phase)
    PROVE  /\ req' \in [Requests -> ReqType] /\ Others(r)
           /\ req'[r].phase = phase
           /\ req'[r].tenant = req[r].tenant /\ req'[r].cell = req[r].cell
<1>. DEFINE x == [req[r] EXCEPT !.phase = phase]
<1>1. req \in [Requests -> ReqType]
  BY DEF TypeOK, ReqType
<1>2. x \in ReqType /\ x.phase = phase /\ x.tenant = req[r].tenant /\ x.cell = req[r].cell
  BY <1>1 DEF ReqType
<1>3. req' = [req EXCEPT ![r] = x]
  BY DEF Goto
<1>. HIDE DEF x
<1>. QED  BY <1>1, <1>2, <1>3 DEF Others

LEMMA ReturnReq ==
    ASSUME TypeOK, NEW r \in Requests, Return(r)
    PROVE  /\ req' \in [Requests -> ReqType] /\ Others(r)
           /\ req'[r].phase = "idle" /\ req'[r].cell = 0
<1>1. req \in [Requests -> ReqType]
  BY DEF TypeOK, ReqType
<1>2. Idle \in ReqType /\ Idle.phase = "idle" /\ Idle.cell = 0
  BY DEF Idle, ReqType, Phases
<1>. QED  BY <1>1, <1>2 DEF Others, Return

LEMMA NewReq ==
    ASSUME TypeOK, NEW r \in Requests, NEW t \in Tenants, NEW c \in Cells,
           req' = [req EXCEPT ![r] = [phase |-> "cell", tenant |-> t, cell |-> c]]
    PROVE  /\ req' \in [Requests -> ReqType] /\ Others(r)
           /\ req'[r].phase = "cell" /\ req'[r].cell = c /\ req'[r].tenant = t
<1>. DEFINE x == [phase |-> "cell", tenant |-> t, cell |-> c]
<1>1. req \in [Requests -> ReqType]
  BY DEF TypeOK, ReqType
<1>2. x \in ReqType /\ x.phase = "cell" /\ x.tenant = t /\ x.cell = c
  BY DEF ReqType, Phases
<1>3. req' = [req EXCEPT ![r] = x]
  OBVIOUS
<1>. HIDE DEF x
<1>. QED  BY <1>1, <1>2, <1>3 DEF Others

(***************************************************************************)
(* One lemma per group of actions.                                         *)
(***************************************************************************)
LEMMA FindInv ==
    ASSUME IndInv, NEW r \in Requests, NEW t \in Tenants, FindCell(r, t) PROVE IndInv'
<1>. USE CellsAre DEF Others
<1>a. TypeOK /\ Owned /\ OneBuilder /\ SharedBuild /\ TransientIsWorkedOn
  BY DEF IndInv
<1>0. calls' \in 0..MaxCalls
  BY <1>a, TenantAssumption DEF FindCell, TypeOK
<1>b. calls' \in 0..MaxCalls /\ UNCHANGED tick /\ req[r].phase = "idle" /\ req[r].cell = 0
  BY <1>a, <1>0 DEF FindCell, Owned
<1>1. CASE entries[t] = 0 /\ NewCell(r, t)
  <2>1. PICK c \in Free :
           /\ entries' = [entries EXCEPT ![t] = c]
           /\ last' = [last EXCEPT ![t] = tick]
           /\ req' = [req EXCEPT ![r] = [phase |-> "cell", tenant |-> t, cell |-> c]]
           /\ full' = full \ {c} /\ fresh' = fresh \ {c}
           /\ released' = released \ {c} /\ orphaned' = orphaned \ {c}
    BY <1>1 DEF NewCell
  <2>2. c \in Cells /\ (\A q \in Requests : req[q].cell # c) /\ \A u \in Tenants : entries[u] # c
    BY DEF Free, Holders
  <2>3. /\ req' \in [Requests -> ReqType] /\ (\A q \in Requests \ {r} : req'[q] = req[q])
        /\ req'[r].phase = "cell" /\ req'[r].cell = c /\ req'[r].tenant = t
    BY <1>a, <2>1, <2>2, NewReq
  <2>4. entries'[t] = c /\ \A u \in Tenants \ {t} : entries'[u] = entries[u]
    BY <1>a, <2>1 DEF TypeOK
  <2>5. TypeOK'
    <3>1. entries' \in [Tenants -> Cells \cup {0}] /\ last' \in [Tenants -> Nat]
      BY <1>a, <2>1, <2>2 DEF TypeOK
    <3>2. \A x, u \in Tenants : entries'[x] = entries'[u] /\ entries'[x] # 0 => x = u
      BY <1>a, <2>2, <2>4 DEF TypeOK, Registered
    <3>. QED  BY <1>a, <1>b, <2>1, <2>3, <3>1, <3>2 DEF TypeOK, ReqType, Registered
  <2>6. Owned'
    BY <1>a, <1>1, <2>2, <2>3, <2>4 DEF Owned
  <2>7. OneBuilder'
    BY <1>a, <2>1, <2>2, <2>3 DEF OneBuilder
  <2>8. SettledBound'
    <3>1. Settled' \subseteq Settled
      BY <2>1, <2>2, <2>4 DEF Settled
    <3>. QED  BY <3>1, NoneSettles DEF IndInv
  <2>9. SharedBuild'
    <3>1. ASSUME NEW q \in Requests, q # r, req'[q].phase \in {"cell", "building"},
                 req'[q].cell \notin full'
          PROVE  entries'[req'[q].tenant] = req'[q].cell \/ req'[q].cell \in released'
      <4>1. req'[q] = req[q] /\ req[q].cell # c /\ req[q].cell \notin full /\ req[q].cell # 0
            /\ req[q].tenant \in Tenants
        BY <1>a, <2>1, <2>2, <2>3, <3>1 DEF Owned
      <4>2. entries[req[q].tenant] = req[q].cell \/ req[q].cell \in released
        BY <1>a, <3>1, <4>1 DEF SharedBuild
      <4>. QED  BY <1>1, <2>1, <2>4, <4>1, <4>2
    <3>. QED  BY <2>3, <2>4, <3>1 DEF SharedBuild
  <2>10. TransientIsWorkedOn'
    <3>1. ASSUME NEW u \in Tenants \ {t}, entries'[u] # 0, entries'[u] \notin full'
          PROVE  (\E q \in Requests : req'[q].cell = entries'[u]) \/ entries'[u] \in orphaned'
      <4>1. entries'[u] = entries[u] /\ entries[u] # c /\ entries[u] \notin full /\ entries[u] # 0
        BY <2>1, <2>2, <2>4, <3>1
      <4>2. (\E q \in Requests : req[q].cell = entries[u]) \/ entries[u] \in orphaned
        BY <1>a, <4>1 DEF TransientIsWorkedOn, Registered, Resident, Holders
      <4>. QED  BY <1>b, <2>1, <2>3, <4>1, <4>2
    <3>. QED  BY <2>3, <2>4, <3>1 DEF TransientIsWorkedOn, Registered, Resident, Holders
  <2>. QED  BY <2>1, <2>5, <2>6, <2>7, <2>8, <2>9, <2>10 DEF IndInv
<1>2. CASE /\ entries[t] # 0
           /\ req' = [req EXCEPT ![r] = [phase |-> "cell", tenant |-> t, cell |-> entries[t]]]
           /\ UNCHANGED <<entries, last, full, fresh, released, orphaned>>
  <2>1. PICK c \in Cells : c = entries[t]
    BY <1>a, <1>2 DEF TypeOK
  <2>3. /\ req' \in [Requests -> ReqType] /\ (\A q \in Requests \ {r} : req'[q] = req[q])
        /\ req'[r].phase = "cell" /\ req'[r].cell = c /\ req'[r].tenant = t
    BY <1>a, <1>2, <2>1, NewReq
  <2>5. TypeOK'
    BY <1>a, <1>b, <1>2, <2>3 DEF TypeOK, ReqType, Registered
  <2>6. Owned'
    BY <1>a, <1>2, <2>1, <2>3 DEF Owned, TypeOK, Registered
  <2>7. OneBuilder'
    BY <1>a, <1>2, <2>3 DEF OneBuilder
  <2>8. SettledBound'
    BY <1>2, NoneSettles DEF IndInv, Settled
  <2>9. SharedBuild'
    BY <1>a, <1>2, <2>1, <2>3 DEF SharedBuild
  <2>10. TransientIsWorkedOn'
    <3>1. ASSUME NEW u \in Tenants, entries[u] # 0, entries[u] \notin full
          PROVE  (\E q \in Requests : req'[q].cell = entries[u]) \/ entries[u] \in orphaned
      <4>2. (\E q \in Requests : req[q].cell = entries[u]) \/ entries[u] \in orphaned
        BY <1>a, <3>1 DEF TransientIsWorkedOn, Registered, Resident, Holders
      <4>. QED  BY <1>b, <2>3, <3>1, <4>2
    <3>. QED  BY <1>2, <3>1 DEF TransientIsWorkedOn, Registered, Resident, Holders
  <2>. QED  BY <1>2, <2>5, <2>6, <2>7, <2>8, <2>9, <2>10 DEF IndInv
<1>. QED  BY <1>1, <1>2 DEF FindCell

\* The build in the cell: found, taken up, done or failed.
LEMMA BuildInv ==
    ASSUME IndInv, NEW r \in Requests, Found(r) \/ Build(r) \/ Built(r) \/ BuildFailed(r)
    PROVE  IndInv'
<1>. USE CellsAre DEF Others
<1>a. TypeOK /\ Owned /\ OneBuilder /\ SharedBuild /\ TransientIsWorkedOn /\ fresh \subseteq full
  BY DEF IndInv
<1>. DEFINE c == req[r].cell
<1>b. c \in Cells /\ req[r].phase \in {"cell", "building"} /\ req[r].tenant \in Tenants
  BY <1>a DEF Found, Build, Built, BuildFailed, Owned, TypeOK
<1>1. /\ req' \in [Requests -> ReqType] /\ (\A q \in Requests \ {r} : req'[q] = req[q])
      /\ req'[r].phase \in {"building", "touch", "forget"}
      /\ req'[r].tenant = req[r].tenant /\ req'[r].cell = c
      /\ UNCHANGED <<entries, last, tick, calls, released, orphaned>>
  BY <1>a, GotoReq DEF Found, Build, Built, BuildFailed, Phases
<1>2. /\ req'[r].phase = "touch" => c \in full'
      /\ req'[r].phase = "building" => c \notin full' /\ Builders(c) = {}
      /\ \/ full' = full /\ fresh' = fresh
         \/ /\ req[r].phase = "building"
            /\ full' = full \cup {c} /\ fresh' = fresh \cup {c}
            /\ req'[r].phase = "touch"
  BY <1>a, GotoReq DEF Found, Build, Built, BuildFailed, Phases
<1>. HIDE DEF c
<1>c. c = req[r].cell
  BY DEF c
<1>3. TypeOK'
  BY <1>a, <1>b, <1>1, <1>2 DEF TypeOK, ReqType, Registered
<1>d. \A q \in Requests : req'[q].cell = req[q].cell /\ req'[q].tenant = req[q].tenant
  BY <1>1, <1>c
<1>4. Owned'
  BY <1>a, <1>b, <1>c, <1>d, <1>1 DEF Owned
<1>5. OneBuilder'
  BY <1>a, <1>c, <1>d, <1>1, <1>2 DEF OneBuilder, Builders, Holders
<1>6. SettledBound'
  <2>1. full' \ fresh' \subseteq full \ fresh
    BY <1>2
  <2>. QED  BY <1>1, <2>1, NoneSettles DEF IndInv, Settled
<1>7. SharedBuild'
  BY <1>a, <1>b, <1>c, <1>d, <1>1, <1>2 DEF SharedBuild
<1>8. TransientIsWorkedOn'
  BY <1>a, <1>d, <1>1, <1>2 DEF TransientIsWorkedOn, Registered, Resident, Holders
<1>. QED  BY <1>a, <1>2, <1>3, <1>4, <1>5, <1>6, <1>7, <1>8 DEF IndInv

\* forget_failed, and a future that is dropped.
LEMMA LeaveInv ==
    ASSUME IndInv, NEW r \in Requests, ForgetFailed(r) \/ Drop(r)
    PROVE  IndInv'
<1>. USE CellsAre DEF Others
<1>a. TypeOK /\ Owned /\ OneBuilder /\ SharedBuild /\ TransientIsWorkedOn /\ fresh \subseteq full
  BY DEF IndInv
<1>b. PICK c \in Cells : c = req[r].cell
  BY <1>a DEF ForgetFailed, Drop, Owned, TypeOK
<1>c. PICK t \in Tenants : t = req[r].tenant
  BY <1>a DEF ForgetFailed, Drop, Owned
<1>1. /\ req' \in [Requests -> ReqType] /\ (\A q \in Requests \ {r} : req'[q] = req[q])
      /\ req'[r].phase = "idle" /\ req'[r].cell = 0
      /\ UNCHANGED <<last, tick, full, calls, fresh>>
  BY <1>a, ReturnReq DEF ForgetFailed, Drop
<1>2. \/ /\ entries[t] = c /\ c \notin full /\ entries' = [entries EXCEPT ![t] = 0]
         /\ released' = released \cup {c} /\ orphaned' = orphaned
      \/ /\ entries[t] # c \/ c \in full \/ orphaned' = orphaned \cup {c}
         /\ orphaned \subseteq orphaned' /\ orphaned' \subseteq orphaned \cup {c}
         /\ UNCHANGED <<entries, released>>
  BY <1>b, <1>c DEF ForgetFailed, Drop
<1>3. /\ entries' \in [Tenants -> Cells \cup {0}] /\ released \subseteq released'
      /\ released' \subseteq Cells /\ orphaned \subseteq orphaned' /\ orphaned' \subseteq Cells
      /\ \A u \in Tenants : entries'[u] # 0 => entries'[u] = entries[u]
      /\ \A u \in Tenants : entries'[u] # entries[u] => entries[u] \in released'
  BY <1>a, <1>2 DEF TypeOK
<1>4. TypeOK'
  BY <1>a, <1>1, <1>3 DEF TypeOK, ReqType, Registered
<1>5. Owned'
  BY <1>a, <1>1, <1>3 DEF Owned
<1>6. OneBuilder'
  BY <1>a, <1>1 DEF OneBuilder
<1>7. SettledBound'
  <2>1. 0 \notin full
    BY <1>a DEF TypeOK
  <2>2. Settled' \subseteq Settled
    BY <1>1, <1>3, <2>1 DEF Settled
  <2>. QED  BY <2>2, NoneSettles DEF IndInv
<1>8. SharedBuild'
  BY <1>a, <1>1, <1>3 DEF SharedBuild, Owned
<1>9. TransientIsWorkedOn'
  <2>1. ASSUME NEW u \in Tenants, entries'[u] # 0, entries'[u] \notin full
        PROVE  (\E q \in Requests : req'[q].cell = entries'[u]) \/ entries'[u] \in orphaned'
    <3>1. entries'[u] = entries[u]
      BY <1>3, <2>1
    <3>2. CASE entries[u] = c
      <4>1. u = t
        BY <1>a, <1>b, <1>c, <3>2 DEF Owned
      <4>. QED  BY <1>a, <1>2, <2>1, <3>1, <3>2, <4>1 DEF TypeOK
    <3>3. CASE entries[u] # c
      <4>1. (\E q \in Requests : req[q].cell = entries[u]) \/ entries[u] \in orphaned
        BY <1>a, <2>1, <3>1 DEF TransientIsWorkedOn, Registered, Resident, Holders
      <4>. QED  BY <1>b, <1>1, <1>3, <3>1, <3>3, <4>1
    <3>. QED  BY <3>2, <3>3
  <2>. QED  BY <1>1, <2>1 DEF TransientIsWorkedOn, Registered, Resident, Holders
<1>. QED  BY <1>a, <1>1, <1>4, <1>5, <1>6, <1>7, <1>8, <1>9 DEF IndInv

\* As many victims as there are residents above the capacity.
LEMMA VictimsTrim ==
    ASSUME NEW t \in Tenants, NEW resident \in SUBSET Tenants, NEW ticks,
           NEW v \in Victims(t, resident, ticks)
    PROVE  /\ v \subseteq resident /\ t \notin v
           /\ Cardinality(resident \ v) <= MaxTenants
           /\ v # {} => Cardinality(resident) > MaxTenants
<1>1. /\ v \subseteq resident /\ t \notin v
      /\ Cardinality(v) = IF Cardinality(resident) > MaxTenants
                          THEN Cardinality(resident) - MaxTenants ELSE 0
  BY DEF Victims
<1>2. IsFiniteSet(resident) /\ Cardinality(resident) \in Nat
  BY TenantSets
<1>3. IsFiniteSet(v)
  BY <1>1, <1>2, FS_Subset
<1>4. Cardinality(resident \ v) = Cardinality(resident) - Cardinality(resident \cap v)
  BY <1>2, FS_Difference
<1>5. resident \cap v = v
  BY <1>1
<1>a. Cardinality(resident \ v) = Cardinality(resident) - Cardinality(v)
  BY <1>4, <1>5
<1>6. Cardinality(resident \ v) <= MaxTenants
  <2>. DEFINE n == Cardinality(resident)
              m == Cardinality(resident \ v)
              k == Cardinality(v)
  <2>1. n \in Nat /\ m = n - k /\ k = (IF n > MaxTenants THEN n - MaxTenants ELSE 0)
    BY <1>1, <1>2, <1>a
  <2>. HIDE DEF n, m, k
  <2>2. m <= MaxTenants
    BY <2>1, TenantAssumption
  <2>. QED  BY <2>2 DEF m
<1>7. v # {} => Cardinality(v) # 0
  BY <1>3, FS_EmptySet
<1>. QED  BY <1>1, <1>6, <1>7

\* What touch_and_evict leaves of the entries.
LEMMA TouchEntries ==
    ASSUME IndInv, NEW r \in Requests, TouchAndEvict(r)
    PROVE  \E t \in Tenants, c \in Cells, v \in SUBSET Tenants :
              /\ t = req[r].tenant /\ c = req[r].cell /\ c \in full
              /\ req[r].phase = "touch"
              /\ t \notin v /\ \A x \in v : entries[x] \in full
              /\ entries' \in [Tenants -> Cells \cup {0}]
              /\ \A x \in v : entries'[x] = 0
              /\ \A x \in Tenants \ (v \cup {t}) : entries'[x] = entries[x]
              /\ entries'[t] = IF entries[t] = 0 THEN c ELSE entries[t]
              /\ Cardinality({x \in Tenants : entries'[x] \in full}) <= MaxTenants
              /\ v # {} => Cardinality(Resident \cup {t}) > MaxTenants
<1>. USE CellsAre
<1>a. TypeOK /\ Owned /\ OneBuilder
  BY DEF IndInv
<1>b. PICK c \in Cells : c = req[r].cell
  BY <1>a DEF TouchAndEvict, Owned, TypeOK
<1>c. PICK t \in Tenants : t = req[r].tenant
  BY <1>a DEF TouchAndEvict, Owned
<1>. DEFINE with == IF entries[t] = 0 THEN [entries EXCEPT ![t] = c] ELSE entries
            ticks == [last EXCEPT ![t] = tick + 1]
            resident == {x \in Tenants : with[x] \in full}
<1>1. PICK v \in Victims(t, resident, ticks) :
         entries' = [x \in Tenants |-> IF x \in v THEN 0 ELSE with[x]]
  <2>. DEFINE withr == IF entries[req[r].tenant] = 0
                       THEN [entries EXCEPT ![req[r].tenant] = req[r].cell] ELSE entries
  <2>1. \E v \in Victims(req[r].tenant, {x \in Tenants : withr[x] \in full},
                          [last EXCEPT ![req[r].tenant] = tick + 1]) :
           entries' = [x \in Tenants |-> IF x \in v THEN 0 ELSE withr[x]]
    BY Zenon DEF TouchAndEvict
  <2>2. with = withr /\ ticks = [last EXCEPT ![req[r].tenant] = tick + 1]
    BY <1>b, <1>c
  <2>. HIDE DEF with, withr, ticks
  <2>. QED  BY <1>c, <2>1, <2>2
<1>2. c \in full /\ req[r].phase = "touch"
  BY <1>a, <1>b DEF TouchAndEvict, OneBuilder
<1>3. /\ with \in [Tenants -> Cells \cup {0}]
      /\ \A x \in Tenants \ {t} : with[x] = entries[x]
      /\ with[t] = IF entries[t] = 0 THEN c ELSE entries[t]
  BY <1>a DEF TypeOK
<1>. HIDE DEF with, ticks
<1>d. resident \in SUBSET Tenants
  OBVIOUS
<1>4. /\ v \subseteq resident /\ t \notin v
      /\ Cardinality(resident \ v) <= MaxTenants
      /\ v # {} => Cardinality(resident) > MaxTenants
  <2>. HIDE DEF resident
  <2>. QED  BY <1>1, <1>d, VictimsTrim
<1>5. {x \in Tenants : entries'[x] \in full} = resident \ v
  BY <1>a, <1>1, <1>4 DEF TypeOK
<1>6. v # {} => Cardinality(Resident \cup {t}) > MaxTenants
  <2>1. resident \subseteq Resident \cup {t} /\ Resident \cup {t} \subseteq Tenants
    BY <1>a, <1>3 DEF Resident, Registered, TypeOK
  <2>2. /\ Cardinality(resident) <= Cardinality(Resident \cup {t})
        /\ Cardinality(resident) \in Nat /\ Cardinality(Resident \cup {t}) \in Nat
    BY <2>1, TenantSets
  <2>. QED  BY <1>4, <2>2, TenantAssumption
<1>7. /\ entries' \in [Tenants -> Cells \cup {0}]
      /\ \A x \in v : entries'[x] = 0 /\ entries[x] \in full /\ x \in Tenants
      /\ \A x \in Tenants \ (v \cup {t}) : entries'[x] = entries[x]
      /\ entries'[t] = IF entries[t] = 0 THEN c ELSE entries[t]
  BY <1>1, <1>3, <1>4
<1>. QED  BY <1>b, <1>c, <1>2, <1>4, <1>5, <1>6, <1>7

LEMMA TouchInv ==
    ASSUME IndInv, NEW r \in Requests, TouchAndEvict(r) PROVE IndInv'
<1>. USE CellsAre DEF Others
<1>a. TypeOK /\ Owned /\ OneBuilder /\ SharedBuild /\ TransientIsWorkedOn /\ fresh \subseteq full
  BY DEF IndInv
<1>b. PICK t \in Tenants, c \in Cells, v \in SUBSET Tenants :
         /\ t = req[r].tenant /\ c = req[r].cell /\ c \in full
         /\ req[r].phase = "touch"
         /\ t \notin v /\ \A x \in v : entries[x] \in full
         /\ entries' \in [Tenants -> Cells \cup {0}]
         /\ \A x \in v : entries'[x] = 0
         /\ \A x \in Tenants \ (v \cup {t}) : entries'[x] = entries[x]
         /\ entries'[t] = IF entries[t] = 0 THEN c ELSE entries[t]
         /\ Cardinality({x \in Tenants : entries'[x] \in full}) <= MaxTenants
         /\ v # {} => Cardinality(Resident \cup {t}) > MaxTenants
  BY TouchEntries, Zenon
<1>1. /\ req' \in [Requests -> ReqType] /\ (\A q \in Requests \ {r} : req'[q] = req[q])
      /\ req'[r].phase = "idle" /\ req'[r].cell = 0
      /\ fresh' = {} /\ UNCHANGED <<full, calls, released, orphaned>>
  BY <1>a, ReturnReq DEF TouchAndEvict
<1>2. tick' \in Nat /\ last' \in [Tenants -> Nat]
  <2>1. tick' = tick + 1 /\ last' = [last EXCEPT ![req[r].tenant] = tick + 1]
    BY DEF TouchAndEvict
  <2>2. tick \in Nat /\ last \in [Tenants -> Nat]
    BY <1>a DEF TypeOK
  <2>. DEFINE n == tick + 1
  <2>3. n \in Nat /\ tick' = n /\ last' = [last EXCEPT ![req[r].tenant] = n]
    BY <2>1, <2>2
  <2>. HIDE DEF n
  <2>. QED  BY <2>2, <2>3
<1>3. \A u \in Tenants : entries'[u] # 0 => entries'[u] = entries[u] \/ (u = t /\ entries'[u] = c)
  BY <1>b
<1>4. TypeOK'
  <2>1. \A x, u \in Tenants : entries'[x] = entries'[u] /\ entries'[x] # 0 => x = u
    BY <1>a, <1>b, <1>3 DEF Owned, TypeOK, Registered
  <2>. QED  BY <1>a, <1>b, <1>1, <1>2, <2>1 DEF TypeOK, ReqType, Registered
<1>5. Owned'
  BY <1>a, <1>b, <1>1, <1>3 DEF Owned
<1>6. OneBuilder'
  BY <1>a, <1>1 DEF OneBuilder
<1>7. SettledBound'
  <2>1. Settled' = {x \in Tenants : entries'[x] \in full}
    BY <1>1 DEF Settled
  <2>. QED  BY <1>b, <2>1 DEF SettledBound
<1>8. SharedBuild'
  <2>1. ASSUME NEW q \in Requests, req'[q].phase \in {"cell", "building"}, req'[q].cell \notin full
        PROVE  entries'[req'[q].tenant] = req'[q].cell \/ req'[q].cell \in released
    <3>1. q # r /\ req'[q] = req[q] /\ req[q].tenant \in Tenants /\ req[q].cell # 0
      BY <1>a, <1>1, <2>1 DEF Owned
    <3>2. entries[req[q].tenant] = req[q].cell \/ req[q].cell \in released
      BY <1>a, <2>1, <3>1 DEF SharedBuild
    <3>. QED  BY <1>b, <2>1, <3>1, <3>2
  <2>. QED  BY <1>1, <2>1 DEF SharedBuild
<1>9. TransientIsWorkedOn'
  <2>1. ASSUME NEW u \in Tenants, entries'[u] # 0, entries'[u] \notin full
        PROVE  (\E q \in Requests : req'[q].cell = entries'[u]) \/ entries'[u] \in orphaned
    <3>1. entries'[u] = entries[u] /\ entries[u] # c
      BY <1>b, <1>3, <2>1
    <3>2. (\E q \in Requests : req[q].cell = entries[u]) \/ entries[u] \in orphaned
      BY <1>a, <2>1, <3>1 DEF TransientIsWorkedOn, Registered, Resident, Holders
    <3>. QED  BY <1>b, <1>1, <3>1, <3>2
  <2>. QED  BY <1>1, <2>1 DEF TransientIsWorkedOn, Registered, Resident, Holders
<1>. QED  BY <1>1, <1>4, <1>5, <1>6, <1>7, <1>8, <1>9 DEF IndInv

\* evict, evict_all and evict_idle.
LEMMA RemoveInv ==
    ASSUME IndInv, NEW gone \in SUBSET Registered, Remove(gone) PROVE IndInv'
<1>. USE CellsAre
<1>a. TypeOK /\ Owned /\ OneBuilder /\ SharedBuild /\ TransientIsWorkedOn
  BY DEF IndInv
<1>1. /\ entries' \in [Tenants -> Cells \cup {0}]
      /\ \A u \in Tenants : entries'[u] # 0 => entries'[u] = entries[u]
      /\ \A u \in Tenants : entries'[u] # entries[u] => entries[u] \in released'
      /\ released \subseteq released' /\ released' \subseteq Cells
  BY <1>a DEF Remove, Registered, TypeOK
<1>2. UNCHANGED <<last, tick, full, req, calls, fresh, orphaned>>
  BY DEF Remove
<1>3. TypeOK'
  BY <1>a, <1>1, <1>2 DEF TypeOK, Registered
<1>4. Owned' /\ OneBuilder'
  BY <1>a, <1>1, <1>2 DEF Owned, OneBuilder
<1>5. SettledBound'
  <2>1. Settled' \subseteq Settled
    BY <1>a, <1>1, <1>2 DEF Settled, TypeOK
  <2>. QED  BY <2>1, NoneSettles DEF IndInv
<1>6. SharedBuild'
  BY <1>a, <1>1, <1>2 DEF SharedBuild, Owned
<1>7. TransientIsWorkedOn'
  BY <1>a, <1>1, <1>2 DEF TransientIsWorkedOn, Registered, Resident, Holders
<1>. QED  BY <1>2, <1>3, <1>4, <1>5, <1>6, <1>7 DEF IndInv

LEMMA NextInv == IndInv /\ [Next]_vars => IndInv'
<1>. SUFFICES ASSUME IndInv, [Next]_vars PROVE IndInv'
  OBVIOUS
<1>1. ASSUME NEW r \in Requests, Step(r) PROVE IndInv'
  BY <1>1, FindInv, BuildInv, LeaveInv, TouchInv DEF Step
<1>2. ASSUME NEW t \in Tenants, Evict(t) PROVE IndInv'
  <2>1. {t} \in SUBSET Registered /\ Remove({t})
    BY <1>2 DEF Evict
  <2>. QED  BY <2>1, RemoveInv
<1>3. CASE EvictAll
  BY <1>3, RemoveInv DEF EvictAll
<1>4. ASSUME NEW keep \in Keeps, EvictIdle(keep) PROVE IndInv'
  BY <1>4, RemoveInv DEF EvictIdle
<1>5. CASE UNCHANGED vars
  BY <1>5 DEF vars, IndInv, TypeOK, Owned, OneBuilder, Settled, SettledBound, SharedBuild,
              TransientIsWorkedOn, Registered, Resident, Holders
<1>. QED  BY <1>1, <1>2, <1>3, <1>4, <1>5 DEF Next

\* The inductive invariant holds of every behaviour of the registry.
THEOREM Inductive == Spec => []IndInv
BY InitInv, NextInv, PTL DEF Spec

\* No two tenants' entries share a runtime's cell, and every reference is to
\* an allocated cell, however requests, drops and evictions interleave.
THEOREM TypeCorrect == Spec => []TypeOK
<1>1. IndInv => TypeOK
  BY DEF IndInv
<1>. QED  BY <1>1, Inductive, PTL

\* Every build of get_or_build runs in the registered cell of its tenant, or
\* in one that was evicted or forgotten since it was found.  A second build of
\* the tenant can only start next to one of the latter: after an eviction, or
\* after forget_failed removed the cell in which a waiter builds again.
THEOREM OneBuildPerTenant == Spec => []SharedBuild
<1>1. IndInv => SharedBuild
  BY DEF IndInv
<1>. QED  BY <1>1, Inductive, PTL

\* An entry without a runtime is being worked on, or was left behind by a
\* request that was dropped at one of get_or_build's awaits.
THEOREM NoAbandonedEntry == Spec => []TransientIsWorkedOn
<1>1. IndInv => TransientIsWorkedOn
  BY DEF IndInv
<1>. QED  BY <1>1, Inductive, PTL

\* touch_and_evict keeps the built runtimes to max_tenants, apart from those
\* whose build ended after the last touch.
THEOREM Bounded == Spec => []ResidentBound
<1>1. ASSUME IndInv PROVE ResidentBound
  <2>. DEFINE New == {t \in Resident : entries[t] \in fresh}
              f == [t \in New |-> entries[t]]
  <2>a. TypeOK /\ SettledBound
    BY <1>1 DEF IndInv
  <2>1. Resident \subseteq Settled \cup New /\ New \subseteq Tenants /\ Settled \subseteq Tenants
        /\ Resident \subseteq Tenants
    BY DEF Settled, Resident, Registered
  <2>2. IsFiniteSet(fresh) /\ Cardinality(fresh) \in Nat
    <3>1. fresh \in SUBSET Cells
      BY <2>a DEF TypeOK
    <3>2. IsFiniteSet(fresh)
      BY <3>1, CellsAre, FS_Subset
    <3>. QED  BY <3>2, FS_CardinalityType
  <2>3. f \in Injection(New, fresh)
    <3>1. f \in [New -> fresh]
      OBVIOUS
    <3>2. \A x, y \in New : f[x] = f[y] => x = y
      BY <2>a DEF TypeOK, Resident
    <3>. HIDE DEF f, New
    <3>. QED  BY <3>1, <3>2 DEF Injection, IsInjective
  <2>4. Cardinality(New) <= Cardinality(fresh)
    BY <2>2, <2>3, FS_Injection
  <2>. HIDE DEF New
  <2>5. /\ IsFiniteSet(New) /\ IsFiniteSet(Settled) /\ IsFiniteSet(Settled \cup New)
        /\ Cardinality(New) \in Nat /\ Cardinality(Settled) \in Nat
        /\ Cardinality(Settled \cup New) \in Nat
        /\ Cardinality(Resident) \in Nat
        /\ Cardinality(Resident) <= Cardinality(Settled \cup New)
    <3>1. Settled \cup New \in SUBSET Tenants
      BY <2>1
    <3>. QED  BY <2>1, <3>1, TenantSets
  <2>6. Cardinality(Settled \cup New) =
           Cardinality(Settled) + Cardinality(New) - Cardinality(Settled \cap New)
        /\ Cardinality(Settled \cap New) \in Nat
    <3>1. Settled \cap New \in SUBSET Tenants
      BY <2>1
    <3>. QED  BY <2>5, <3>1, FS_Union, TenantSets
  <2>. QED  BY <2>a, <2>2, <2>4, <2>5, <2>6, TenantAssumption DEF SettledBound, ResidentBound
<1>. QED  BY <1>1, Inductive, PTL

\* A failed build, an unknown tenant or a dropped request never pushes out a
\* built runtime: only an eviction call or another tenant's successful
\* resolve beyond the capacity does.
THEOREM Established == Spec => EstablishedStays
<1>. DEFINE Stays(t) ==
        entries'[t] # entries[t] =>
          \/ req' = req
          \/ \E r \in Requests :
                /\ req[r].phase = "touch" /\ req'[r].phase = "idle"
                /\ req[r].tenant # t
                /\ Cardinality(Resident \cup {req[r].tenant}) > MaxTenants
<1>1. ASSUME IndInv, Next, NEW t \in Resident PROVE Stays(t)
  <2>a. TypeOK /\ t \in Tenants /\ entries[t] \in full /\ entries[t] # 0
    BY <1>1 DEF IndInv, Resident, Registered
  <2>1. ASSUME NEW r \in Requests, Step(r) PROVE Stays(t)
    <3>1. CASE UNCHANGED entries
      BY <3>1
    <3>2. ASSUME NEW u \in Tenants, FindCell(r, u) PROVE Stays(t)
      BY <2>a, <3>2 DEF FindCell, NewCell, TypeOK
    <3>3. CASE ForgetFailed(r)
      BY <2>a, <3>3 DEF ForgetFailed, TypeOK
    <3>4. CASE TouchAndEvict(r)
      <4>1. PICK u \in Tenants, v \in SUBSET Tenants :
               /\ u = req[r].tenant /\ req[r].phase = "touch" /\ u \notin v
               /\ \A x \in Tenants \ (v \cup {u}) : entries'[x] = entries[x]
               /\ entries[u] # 0 => entries'[u] = entries[u]
               /\ v # {} => Cardinality(Resident \cup {u}) > MaxTenants
        BY <1>1, <3>4, TouchEntries
      <4>2. req'[r].phase = "idle"
        BY <2>a, <3>4, ReturnReq DEF TouchAndEvict
      <4>. QED  BY <2>a, <4>1, <4>2
    <3>. QED  BY <2>1, <3>1, <3>2, <3>3, <3>4 DEF Step, Found, Build, Built, BuildFailed, Drop
  <2>2. CASE UNCHANGED req
    BY <2>2
  <2>. QED  BY <1>1, <2>1, <2>2 DEF Next, Evict, EvictAll, EvictIdle, Remove
<1>2. ASSUME IndInv, [Next]_vars PROVE [\A t \in Resident : Stays(t)]_vars
  BY <1>1, <1>2
<1>. QED  BY <1>2, Inductive, PTL DEF Spec, EstablishedStays
=============================================================================
