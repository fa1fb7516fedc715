------------------------ MODULE WorkflowEngineProofs ------------------------
(***************************************************************************)
(* Proofs about WorkflowEngine for every workflow graph, every set of      *)
(* instances, drivers, sweepers and answers, and every number of crashes.  *)
(* CompensatedIsUndone asks that nobody calls compensate on an instance    *)
(* that is still running or waiting; nothing else does.                    *)
(***************************************************************************)
EXTENDS WorkflowEngine, FiniteSetTheorems, TLAPS

CompensatesEnded == CompensateOn \cap {"running", "waiting"} = {}

Undoing == {"compensating", "failed", "compensated"}
Closed == {"compensating"} \cup Final

(***************************************************************************)
(* The inductive invariant.  CompensatedMeansUndone is not inductive: a    *)
(* driver ends the compensation on what it knows from its own loop, while  *)
(* others compensate, cancel and crash (Knows); that knowledge lasts       *)
(* because the steps that completed are settled once the instance is       *)
(* closed.  A driver that carries a failure or a place in the loop into    *)
(* its next transaction carries one that makes sense there (DriverOK).     *)
(***************************************************************************)
RowOK(i) ==
    /\ inst[i].status # "new" => inst[i].step \in Steps
    /\ inst[i].status = "waiting" =>
          /\ Kind[inst[i].step] = "wait"
          /\ inst[i].due # "no" <=> inst[i].step \in WaitTimeout
    /\ \A c \in Comps : /\ log[i].undone[c] <= 1
                        /\ log[i].undone[c] > 0 => CompFor[c] \in Completed(i)
    /\ CompensatesEnded /\ inst[i].status = "compensated" =>
          \A c \in Comps : CompFor[c] \in Completed(i) => log[i].undone[c] = 1

DriverOK(d) ==
    /\ drv[d].pc = "failed" =>
          \/ drv[d].fail.step \in Steps /\ drv[d].n < MaxSteps
          \/ drv[d].fail.step = Runaway /\ drv[d].fail.kind = "business"
    /\ drv[d].pc = "compfailed" => drv[d].k > 0 /\ drv[d].bad

Knows(d, i) ==
    CompensatesEnded /\ drv[d].pc \in {"comp", "compfailed"} /\ drv[d].on = i =>
        /\ inst[i].status \in Closed
        /\ inst[i].status \in Undoing /\ ~drv[d].bad =>
              \A c \in Comps : c > drv[d].k /\ CompFor[c] \in Completed(i) => log[i].undone[c] = 1

IndInv ==
    /\ TypeOK
    /\ \A i \in Instances : RowOK(i)
    /\ \A d \in Drivers : DriverOK(d)
    /\ \A d \in Drivers, i \in Instances : Knows(d, i)
    /\ IsFiniteSet(claimed) /\ OneResumePerAnswer

(***************************************************************************)
(* What a step of the engine keeps of an instance: a closed one stays      *)
(* closed, completes nothing and is not moved; an undoing stays done.      *)
(***************************************************************************)
RowStep(i) ==
    /\ inst[i].status \in Closed =>
          /\ inst'[i].status \in Closed
          /\ inst'[i].status \in Undoing => inst[i].status \in Undoing
          /\ inst[i].status \in Final =>
                \/ inst'[i].status = inst[i].status
                \/ inst[i].status = "failed" /\ inst'[i].status = "compensated"
          /\ log'[i].ran = log[i].ran /\ log'[i].routed = log[i].routed
          /\ inst'[i].step = inst[i].step
    /\ \A c \in Comps : log[i].undone[c] = 1 => log'[i].undone[c] = 1

-----------------------------------------------------------------------------
(* The records the engine writes.                                           *)

LEMMA AdvancedRow ==
    ASSUME NEW r \in InstType, NEW s \in Steps
    PROVE  /\ Advanced(r, s) \in InstType
           /\ Advanced(r, s).status = "running" /\ Advanced(r, s).step = s
BY DEF Advanced, InstType, Status, Live, Clock

LEMMA EndedRow ==
    ASSUME NEW r \in InstType, NEW st \in Status
    PROVE  /\ Ended(r, st) \in InstType
           /\ Ended(r, st).status = st /\ Ended(r, st).step = r.step
BY DEF Ended, InstType, Clock

LEMMA LogRanRow ==
    ASSUME TypeOK, NEW i \in Instances, NEW s \in Steps, LogRan(i, s)
    PROVE  /\ log' \in [Instances -> LogType]
           /\ \A j \in Instances \ {i} : log'[j] = log[j]
           /\ log'[i].undone = log[i].undone /\ log'[i].resumed = log[i].resumed
           /\ log[i].ran \subseteq log'[i].ran
<1>. DEFINE m == log[i].ran \cup {s}
            l == [log[i] EXCEPT !.ran = m]
<1>1. log \in [Instances -> LogType] /\ log[i].ran \subseteq Steps
  BY DEF TypeOK, LogType
<1>2. m \subseteq Steps /\ log[i].ran \subseteq m
  BY <1>1
<1>3. log' = [log EXCEPT ![i] = l]
  BY DEF LogRan
<1>. HIDE DEF m
<1>4. l \in LogType /\ l.ran = m /\ l.undone = log[i].undone /\ l.resumed = log[i].resumed
  BY <1>1, <1>2 DEF LogType
<1>. HIDE DEF l
<1>. QED  BY <1>1, <1>2, <1>3, <1>4

LEMMA IdleDriverType == IdleDriver \in DrvType /\ IdleDriver.pc = "idle" /\ IdleDriver.queue = {}
<1>1. NoFailure \in [step : Steps \cup {NoStep, Runaway},
                     kind : {"none", "business", "transient", "timed_out"}]
  BY DEF NoFailure
<1>2. 0 \in 0..MaxSteps /\ 0 \in 0..LastComp
  BY EngineAssumption, CompAssumption
<1>. QED  BY <1>1, <1>2 DEF IdleDriver, DrvType

\* What the driver d becomes; the others stay.
DrvStep(d) == /\ drv' \in [Drivers -> DrvType]
              /\ \A q \in Drivers \ {d} : drv'[q] = drv[q]

LEMMA StartsDrivingDrv ==
    ASSUME TypeOK, NEW d \in Drivers, NEW i \in Instances, StartsDriving(d, i)
    PROVE  DrvStep(d) /\ drv'[d].pc = "step"
<1>. DEFINE q == drv[d].queue \ {i}
            x == [IdleDriver EXCEPT !.pc = "step", !.on = i, !.queue = q]
<1>1. drv \in [Drivers -> DrvType] /\ q \subseteq Instances
  BY DEF TypeOK, DrvType
<1>2. drv' = [drv EXCEPT ![d] = x]
  BY DEF StartsDriving
<1>. HIDE DEF q
<1>3. x \in DrvType /\ x.pc = "step"
  BY <1>1, IdleDriverType DEF DrvType
<1>. HIDE DEF x
<1>. QED  BY <1>1, <1>2, <1>3 DEF DrvStep

LEMMA StartsCompensatingDrv ==
    ASSUME TypeOK, NEW d \in Drivers, NEW i \in Instances, StartsCompensating(d, i)
    PROVE  /\ DrvStep(d) /\ drv'[d].pc = "comp"
           /\ drv'[d].on = i /\ drv'[d].k = LastComp
<1>. DEFINE q == drv[d].queue
            x == [IdleDriver EXCEPT !.pc = "comp", !.on = i, !.k = LastComp, !.queue = q]
<1>1. drv \in [Drivers -> DrvType] /\ q \subseteq Instances /\ LastComp \in 0..LastComp
  BY CompAssumption DEF TypeOK, DrvType
<1>2. drv' = [drv EXCEPT ![d] = x]
  BY DEF StartsCompensating
<1>. HIDE DEF q
<1>3. x \in DrvType /\ x.pc = "comp" /\ x.on = i /\ x.k = LastComp
  BY <1>1, IdleDriverType DEF DrvType
<1>. HIDE DEF x
<1>. QED  BY <1>1, <1>2, <1>3 DEF DrvStep

LEMMA DrivesOnDrv ==
    ASSUME TypeOK, NEW d \in Drivers, DrivesOn(d), drv[d].n < MaxSteps
    PROVE  DrvStep(d) /\ drv'[d].pc = "step"
<1>. DEFINE n == drv[d].n + 1
            x == [drv[d] EXCEPT !.pc = "step", !.n = n, !.fail = NoFailure]
<1>1. drv \in [Drivers -> DrvType] /\ n \in 0..MaxSteps
  BY EngineAssumption DEF TypeOK, DrvType
<1>2. drv' = [drv EXCEPT ![d] = x]
  BY DEF DrivesOn
<1>. HIDE DEF n
<1>3. NoFailure \in [step : Steps \cup {NoStep, Runaway},
                     kind : {"none", "business", "transient", "timed_out"}]
  BY DEF NoFailure
<1>4. x \in DrvType /\ x.pc = "step"
  BY <1>1, <1>3, ZenonT(30) DEF DrvType
<1>. HIDE DEF x
<1>. QED  BY <1>1, <1>2, <1>4 DEF DrvStep

LEMMA LetsGoDrv ==
    ASSUME TypeOK, NEW d \in Drivers, LetsGo(d)
    PROVE  DrvStep(d) /\ drv'[d].pc = "idle"
<1>. DEFINE q == drv[d].queue
            x == [IdleDriver EXCEPT !.queue = q]
<1>1. drv \in [Drivers -> DrvType] /\ q \subseteq Instances
  BY DEF TypeOK, DrvType
<1>2. drv' = [drv EXCEPT ![d] = x]
  BY DEF LetsGo
<1>. HIDE DEF q
<1>3. x \in DrvType /\ x.pc = "idle"
  BY <1>1, IdleDriverType DEF DrvType
<1>. HIDE DEF x
<1>. QED  BY <1>1, <1>2, <1>3 DEF DrvStep

-----------------------------------------------------------------------------
(* What a step has to show: of the rows it writes and of the drivers it     *)
(* moves.  The knowledge of the other drivers survives every row step.      *)

LEMMA KnowsKept ==
    ASSUME TypeOK, TypeOK', NEW d \in Drivers, NEW i \in Instances,
           Knows(d, i), drv'[d] = drv[d], RowStep(i)
    PROVE  Knows(d, i)'
<1>. SUFFICES ASSUME CompensatesEnded, drv[d].pc \in {"comp", "compfailed"}, drv[d].on = i
              PROVE  /\ inst'[i].status \in Closed
                     /\ inst'[i].status \in Undoing /\ ~drv[d].bad =>
                          \A c \in Comps : c > drv[d].k /\ CompFor[c] \in Completed(i)' =>
                                            log'[i].undone[c] = 1
  BY DEF Knows
<1>1. inst[i].status \in Closed
  BY DEF Knows
<1>2. inst'[i].status \in Closed /\ (inst'[i].status \in Undoing => inst[i].status \in Undoing)
      /\ log'[i].ran = log[i].ran
  BY <1>1 DEF RowStep
<1>3. Completed(i)' = Completed(i)
  BY <1>2 DEF Completed
<1>4. \A c \in Comps : log[i].undone[c] = 1 => log'[i].undone[c] = 1
  BY DEF RowStep
<1>. QED  BY <1>2, <1>3, <1>4 DEF Knows

LEMMA SameRow ==
    ASSUME NEW i \in Instances, RowOK(i), inst'[i] = inst[i], log'[i] = log[i]
    PROVE  RowOK(i)' /\ RowStep(i)
<1>1. Completed(i)' = Completed(i)
  BY DEF Completed
<1>2. RowOK(i)'
  BY <1>1 DEF RowOK
<1>3. RowStep(i)
  BY DEF RowStep
<1>. QED  BY <1>2, <1>3

LEMMA KeepsInv ==
    ASSUME IndInv, TypeOK',
           \A i \in Instances : \/ inst'[i] = inst[i] /\ log'[i] = log[i]
                                \/ RowOK(i)' /\ RowStep(i),
           \A d \in Drivers : \/ drv'[d] = drv[d]
                              \/ DriverOK(d)' /\ \A i \in Instances : Knows(d, i)',
           IsFiniteSet(claimed)', OneResumePerAnswer'
    PROVE  IndInv' /\ \A i \in Instances : RowStep(i)
<1>1. \A i \in Instances : RowOK(i)' /\ RowStep(i)
  BY SameRow DEF IndInv
<1>2. \A d \in Drivers : DriverOK(d)'
  <2>. SUFFICES ASSUME NEW d \in Drivers, drv'[d] = drv[d] PROVE DriverOK(d)'
    OBVIOUS
  <2>. QED  BY DEF IndInv, DriverOK
<1>3. \A d \in Drivers, i \in Instances : Knows(d, i)'
  <2>. SUFFICES ASSUME NEW d \in Drivers, NEW i \in Instances, drv'[d] = drv[d] PROVE Knows(d, i)'
    OBVIOUS
  <2>. QED  BY <1>1, KnowsKept DEF IndInv
<1>. QED  BY <1>1, <1>2, <1>3 DEF IndInv

\* The same for a step that claims no answer and resumes nobody.
LEMMA KeepsInvUnclaimed ==
    ASSUME IndInv, TypeOK',
           \A i \in Instances : \/ inst'[i] = inst[i] /\ log'[i] = log[i]
                                \/ RowOK(i)' /\ RowStep(i),
           \A d \in Drivers : \/ drv'[d] = drv[d]
                              \/ DriverOK(d)' /\ \A i \in Instances : Knows(d, i)',
           claimed' = claimed, \A i \in Instances : log'[i].resumed = log[i].resumed
    PROVE  IndInv' /\ \A i \in Instances : RowStep(i)
<1>1. IsFiniteSet(claimed)'
  BY DEF IndInv
<1>2. OneResumePerAnswer'
  <2>. SUFFICES ASSUME NEW i \in Instances
                PROVE  log'[i].resumed <= Cardinality({e \in claimed' : i \in Matches[e]})
    BY DEF OneResumePerAnswer
  <2>. QED  BY DEF IndInv, OneResumePerAnswer
<1>. QED  BY <1>1, <1>2, KeepsInv

\* A driver that is not in the middle of a compensation or a failure.
LEMMA PlainDriver ==
    ASSUME NEW d \in Drivers, drv'[d].pc \in {"idle", "step"}
    PROVE  DriverOK(d)' /\ \A i \in Instances : Knows(d, i)'
BY DEF DriverOK, Knows

\* One that starts the loop knows nothing yet.
LEMMA CompensatingDriver ==
    ASSUME NEW d \in Drivers, NEW i \in Instances, drv'[d].pc = "comp", drv'[d].on = i,
           drv'[d].k = LastComp, CompensatesEnded => inst'[i].status \in Closed
    PROVE  DriverOK(d)' /\ \A j \in Instances : Knows(d, j)'
<1>1. \A c \in Comps : ~(c > LastComp)
  BY CompAssumption DEF Comps
<1>2. DriverOK(d)'
  BY DEF DriverOK
<1>3. ASSUME NEW j \in Instances PROVE Knows(d, j)'
  BY <1>1 DEF Knows
<1>. QED  BY <1>2, <1>3

(* What a step has to show of the one row it writes.                         *)

\* An open instance moves on, or to a wait.
LEMMA MovedRow ==
    ASSUME TypeOK, TypeOK', NEW i \in Instances, RowOK(i), inst[i].status \notin Closed,
           inst'[i].status = "running", inst'[i].step \in Steps,
           log'[i].undone = log[i].undone, log[i].ran \subseteq log'[i].ran
    PROVE  RowOK(i)' /\ RowStep(i)
<1>1. Completed(i) \subseteq Completed(i)'
  BY DEF Completed
<1>2. \A c \in Comps : CompFor[c] \in Completed(i) => CompFor[c] \in Completed(i)'
  BY <1>1
<1>3. RowOK(i)'
  BY <1>2 DEF RowOK
<1>4. RowStep(i)
  BY DEF RowStep
<1>. QED  BY <1>3, <1>4

\* A live instance closes, or a compensating one is cancelled.
LEMMA ClosedRow ==
    ASSUME NEW i \in Instances, RowOK(i), log'[i] = log[i], inst'[i].step = inst[i].step,
           \/ inst[i].status \in {"running", "waiting"} /\ inst'[i].status \in Closed
           \/ inst[i].status \in {"compensating", "failed"} /\ inst'[i].status = "failed"
           \/ inst[i].status = "compensating" /\ inst'[i].status \in {"compensating", "cancelled"}
           \/ inst[i].status \in {"compensating", "failed"} /\ inst'[i].status = "compensated",
           CompensatesEnded /\ inst'[i].status = "compensated" =>
              \A c \in Comps : CompFor[c] \in Completed(i) => log[i].undone[c] = 1
    PROVE  RowOK(i)' /\ RowStep(i)
<1>1. Completed(i)' = Completed(i)
  BY DEF Completed
<1>2. RowOK(i)'
  BY <1>1 DEF RowOK, Closed, Final
<1>3. RowStep(i)
  BY DEF RowStep, Closed, Final, Undoing
<1>. QED  BY <1>2, <1>3

-----------------------------------------------------------------------------
(* The shapes of the steps: one row, one driver, or both.                   *)

Settled == IndInv' /\ \A i \in Instances : RowStep(i)

LEMMA RowInv ==
    ASSUME IndInv, NEW i \in Instances, NEW r \in InstType, inst' = [inst EXCEPT ![i] = r],
           drv' \in [Drivers -> DrvType],
           log' \in [Instances -> LogType], log'[i].resumed = log[i].resumed,
           \A j \in Instances \ {i} : log'[j] = log[j],
           UNCHANGED <<claimed, crashes>>,
           RowOK(i)', RowStep(i),
           \A d \in Drivers : \/ drv'[d] = drv[d]
                              \/ DriverOK(d)' /\ \A j \in Instances : Knows(d, j)'
    PROVE  Settled
<1>1. TypeOK'
  BY DEF IndInv, TypeOK
<1>2. \A j \in Instances : \/ inst'[j] = inst[j] /\ log'[j] = log[j]
                           \/ RowOK(j)' /\ RowStep(j)
  <2>. SUFFICES ASSUME NEW j \in Instances, j # i PROVE inst'[j] = inst[j] /\ log'[j] = log[j]
    OBVIOUS
  <2>. QED  BY DEF IndInv, TypeOK
<1>3. \A j \in Instances : log'[j].resumed = log[j].resumed
  OBVIOUS
<1>. QED  BY <1>1, <1>2, <1>3, KeepsInvUnclaimed DEF Settled

\* An open instance moves on, and its driver with it or away from it.
LEMMA MovedInv ==
    ASSUME IndInv, NEW i \in Instances, NEW d \in Drivers, NEW r \in InstType,
           inst[i].status \notin Closed,
           inst' = [inst EXCEPT ![i] = r], r.status = "running", r.step \in Steps,
           log' \in [Instances -> LogType], \A j \in Instances \ {i} : log'[j] = log[j],
           log'[i].resumed = log[i].resumed, log'[i].undone = log[i].undone,
           log[i].ran \subseteq log'[i].ran,
           DrvStep(d), drv'[d].pc \in {"idle", "step"},
           UNCHANGED <<claimed, crashes>>
    PROVE  Settled
<1>1. TypeOK /\ RowOK(i)
  BY DEF IndInv
<1>2. inst'[i] = r /\ TypeOK'
  BY <1>1 DEF TypeOK, DrvStep
<1>3. RowOK(i)' /\ RowStep(i)
  BY <1>1, <1>2, MovedRow
<1>4. \A q \in Drivers : drv'[q] = drv[q] \/ (DriverOK(q)' /\ \A j \in Instances : Knows(q, j)')
  BY PlainDriver DEF DrvStep
<1>5. drv' \in [Drivers -> DrvType]
  BY DEF DrvStep
<1>. QED  BY <1>3, <1>4, <1>5, RowInv

\* The log as it was: what MovedInv asks of it.
LEMMA LogKept ==
    ASSUME TypeOK, log' = log, NEW i \in Instances
    PROVE  /\ log' \in [Instances -> LogType] /\ \A j \in Instances \ {i} : log'[j] = log[j]
           /\ log'[i].resumed = log[i].resumed /\ log'[i].undone = log[i].undone
           /\ log[i].ran \subseteq log'[i].ran
BY DEF TypeOK

\* Only a driver takes a step, and it keeps its instance.
LEMMA DriverInv ==
    ASSUME IndInv, NEW d \in Drivers, DrvStep(d), UNCHANGED <<inst, log, claimed>>,
           crashes' \in 0..MaxCrashes, DriverOK(d)', \A j \in Instances : Knows(d, j)'
    PROVE  Settled
<1>1. TypeOK'
  BY DEF IndInv, TypeOK, DrvStep
<1>2. \A q \in Drivers : drv'[q] = drv[q] \/ (DriverOK(q)' /\ \A j \in Instances : Knows(q, j)')
  BY DEF DrvStep
<1>3. /\ \A j \in Instances : inst'[j] = inst[j] /\ log'[j] = log[j]
      /\ \A j \in Instances : log'[j].resumed = log[j].resumed
  OBVIOUS
<1>. QED  BY <1>1, <1>2, <1>3, KeepsInvUnclaimed DEF Settled

-----------------------------------------------------------------------------
(* One step of the workflow.                                                *)

LEMMA RowFacts ==
    ASSUME IndInv, NEW i \in Instances
    PROVE  /\ TypeOK /\ RowOK(i) /\ inst[i] \in InstType
           /\ inst[i].status # "new" => inst[i].step \in Steps
BY DEF IndInv, TypeOK, RowOK

LEMMA SkipStepInv ==
    ASSUME IndInv, NEW d \in Drivers, NEW i \in Instances, SkipStep(d, i)
    PROVE  Settled
<1>. DEFINE r == Advanced(inst[i], OnSuccess[inst[i].step])
<1>1. inst[i].status = "running" /\ drv[d].n < MaxSteps /\ DrivesOn(d)
  BY DEF SkipStep, Runs, AtStep
<1>2. TypeOK /\ inst[i] \in InstType /\ inst[i].step \in Steps /\ OnSuccess[inst[i].step] \in Steps
  BY <1>1, RowFacts, GraphAssumption
<1>3. r \in InstType /\ r.status = "running" /\ r.step \in Steps
  BY <1>2, AdvancedRow
<1>4. inst' = [inst EXCEPT ![i] = r] /\ UNCHANGED <<log, claimed, crashes>>
  BY DEF SkipStep
<1>5. DrvStep(d) /\ drv'[d].pc = "step"
  BY <1>1, <1>2, DrivesOnDrv
<1>6. inst[i].status \notin Closed
  BY <1>1 DEF Closed, Final
<1>. HIDE DEF r
<1>. QED  BY <1>2, <1>3, <1>4, <1>5, <1>6, LogKept, MovedInv

LEMMA StepOkInv ==
    ASSUME IndInv, NEW d \in Drivers, NEW i \in Instances, StepOk(d, i)
    PROVE  Settled
<1>. DEFINE s == inst[i].step
<1>1. inst[i].status = "running" /\ drv[d].n < MaxSteps /\ DrivesOn(d) /\ LogRan(i, s)
  BY DEF StepOk, Runs, AtStep
<1>2. TypeOK /\ inst[i] \in InstType /\ s \in Steps
  BY <1>1, RowFacts
<1>3. PICK next \in Steps : inst' = [inst EXCEPT ![i] = Advanced(@, next)]
  <2>1. OnSuccess[s] \in Steps /\ Branches[s] \subseteq Steps
    BY <1>2, GraphAssumption
  <2>2. \E next \in IF Kind[s] = "action" THEN {OnSuccess[s]}
                     ELSE IF Kind[s] = "condition" THEN Branches[s] ELSE {} :
           inst' = [inst EXCEPT ![i] = Advanced(@, next)]
    BY DEF StepOk
  <2>. QED  BY <2>1, <2>2
<1>. DEFINE r == Advanced(inst[i], next)
<1>4. r \in InstType /\ r.status = "running" /\ r.step \in Steps
  BY <1>2, AdvancedRow
<1>5. inst' = [inst EXCEPT ![i] = r] /\ UNCHANGED <<claimed, crashes>>
  BY <1>3 DEF StepOk
<1>6. DrvStep(d) /\ drv'[d].pc = "step"
  BY <1>1, <1>2, DrivesOnDrv
<1>7. inst[i].status \notin Closed
  BY <1>1 DEF Closed, Final
<1>8. /\ log' \in [Instances -> LogType] /\ \A j \in Instances \ {i} : log'[j] = log[j]
      /\ log'[i].resumed = log[i].resumed /\ log'[i].undone = log[i].undone
      /\ log[i].ran \subseteq log'[i].ran
  BY <1>1, <1>2, LogRanRow
<1>. HIDE DEF r
<1>. QED  BY <1>4, <1>5, <1>6, <1>7, <1>8, MovedInv

LEMMA EnterWaitInv ==
    ASSUME IndInv, NEW d \in Drivers, NEW i \in Instances, EnterWait(d, i)
    PROVE  Settled
<1>. DEFINE s == inst[i].step
            due == IF s \in WaitTimeout THEN "later" ELSE "no"
            r == [inst[i] EXCEPT !.status = "waiting", !.attempts = 0, !.stale = FALSE, !.due = due]
<1>1. inst[i].status = "running" /\ LetsGo(d) /\ Kind[s] = "wait"
  BY DEF EnterWait, Runs
<1>2. TypeOK /\ RowOK(i) /\ inst[i] \in InstType /\ s \in Steps
  BY <1>1, RowFacts
<1>3. due \in Clock /\ (due # "no" <=> s \in WaitTimeout)
  BY DEF Clock
<1>4. inst' = [inst EXCEPT ![i] = r] /\ UNCHANGED <<log, claimed, crashes>>
  BY DEF EnterWait
<1>. HIDE DEF due
<1>5. r \in InstType /\ r.status = "waiting" /\ r.due = due /\ r.step = s
  BY <1>2, <1>3 DEF InstType, Status, Live
<1>. HIDE DEF r
<1>6. inst'[i] = r /\ log'[i] = log[i]
  BY <1>2, <1>4 DEF TypeOK
<1>7. Completed(i)' = Completed(i)
  BY <1>4 DEF Completed
<1>8. RowOK(i)'
  BY <1>1, <1>2, <1>3, <1>5, <1>6, <1>7 DEF RowOK
<1>9. RowStep(i)
  BY <1>1, <1>6 DEF RowStep, Closed, Final
<1>10. DrvStep(d) /\ drv'[d].pc = "idle"
  BY <1>1, <1>2, LetsGoDrv
<1>11. \A q \in Drivers : drv'[q] = drv[q] \/ (DriverOK(q)' /\ \A j \in Instances : Knows(q, j)')
  BY <1>10, PlainDriver DEF DrvStep
<1>12. drv' \in [Drivers -> DrvType] /\ log' \in [Instances -> LogType]
  BY <1>2, <1>4, <1>10 DEF DrvStep, TypeOK
<1>. QED  BY <1>4, <1>5, <1>6, <1>8, <1>9, <1>11, <1>12, RowInv

\* An instance closes: r is its new row, and the driver lets it go or starts
\* to compensate it.
LEMMA ClosesInv ==
    ASSUME IndInv, NEW i \in Instances, NEW r \in InstType,
           inst' = [inst EXCEPT ![i] = r], r.step = inst[i].step,
           \/ inst[i].status \in {"running", "waiting"} /\ r.status \in Closed
           \/ inst[i].status \in {"compensating", "failed"} /\ r.status = "failed"
           \/ inst[i].status = "compensating" /\ r.status \in {"compensating", "cancelled"}
           \/ inst[i].status \in {"compensating", "failed"} /\ r.status = "compensated",
           CompensatesEnded /\ r.status = "compensated" =>
              \A c \in Comps : CompFor[c] \in Completed(i) => log[i].undone[c] = 1,
           UNCHANGED <<log, claimed, crashes>>,
           \/ drv' = drv
           \/ \E d \in Drivers : DrvStep(d) /\ drv'[d].pc \in {"idle", "step"}
           \/ \E d \in Drivers : /\ DrvStep(d) /\ drv'[d].pc = "comp" /\ drv'[d].on = i
                                 /\ drv'[d].k = LastComp /\ r.status \in Closed
    PROVE  Settled
<1>1. TypeOK /\ RowOK(i)
  BY DEF IndInv
<1>2. inst'[i] = r /\ log'[i] = log[i]
  BY <1>1 DEF TypeOK
<1>3. RowOK(i)' /\ RowStep(i)
  BY <1>1, <1>2, ClosedRow
<1>4. drv' \in [Drivers -> DrvType] /\ log' \in [Instances -> LogType]
  BY <1>1 DEF DrvStep, TypeOK
<1>5. \A q \in Drivers : drv'[q] = drv[q] \/ (DriverOK(q)' /\ \A j \in Instances : Knows(q, j)')
  <2>1. CASE drv' = drv
    BY <2>1
  <2>2. CASE \E d \in Drivers : DrvStep(d) /\ drv'[d].pc \in {"idle", "step"}
    BY <2>2, PlainDriver DEF DrvStep
  <2>3. CASE \E d \in Drivers : /\ DrvStep(d) /\ drv'[d].pc = "comp" /\ drv'[d].on = i
                                /\ drv'[d].k = LastComp /\ r.status \in Closed
    BY <2>3, <1>2, CompensatingDriver DEF DrvStep
  <2>. QED  BY <2>1, <2>2, <2>3
<1>. QED  BY <1>2, <1>3, <1>4, <1>5, RowInv

LEMMA EndStepInv ==
    ASSUME IndInv, NEW d \in Drivers, NEW i \in Instances, EndStep(d, i)
    PROVE  Settled
<1>. DEFINE s == inst[i].step
            undo == s \in Undo /\ End[s] = "failed" /\ LastComp > 0
            st == IF undo THEN "compensating" ELSE End[s]
            r == Ended(inst[i], st)
<1>1. inst[i].status = "running" /\ Kind[s] = "end" /\ (LetsGo(d) \/ StartsCompensating(d, i))
  BY DEF EndStep, Runs
<1>2. TypeOK /\ inst[i] \in InstType /\ s \in Steps
  BY <1>1, RowFacts
<1>3. st \in Closed \ {"compensated"} /\ st \in Status
  BY <1>2, GraphAssumption DEF Closed, Final, Status, Live
<1>4. inst' = [inst EXCEPT ![i] = r] /\ UNCHANGED <<log, claimed, crashes>>
  BY DEF EndStep
<1>. HIDE DEF st
<1>5. r \in InstType /\ r.status = st /\ r.step = s
  BY <1>2, <1>3, EndedRow
<1>. HIDE DEF r
<1>6. \/ DrvStep(d) /\ drv'[d].pc = "idle"
      \/ DrvStep(d) /\ drv'[d].pc = "comp" /\ drv'[d].on = i /\ drv'[d].k = LastComp
  BY <1>1, <1>2, LetsGoDrv, StartsCompensatingDrv
<1>. QED  BY <1>1, <1>3, <1>4, <1>5, <1>6, ClosesInv

LEMMA NotRunningInv ==
    ASSUME IndInv, NEW d \in Drivers, LetsGo(d), UNCHANGED <<inst, log, claimed, crashes>>
    PROVE  Settled
<1>1. TypeOK /\ crashes' \in 0..MaxCrashes
  BY DEF IndInv, TypeOK
<1>. QED  BY <1>1, LetsGoDrv, PlainDriver, DriverInv

LEMMA FailedInv ==
    ASSUME IndInv, NEW d \in Drivers,
           NEW f \in [step : Steps \cup {NoStep, Runaway},
                      kind : {"none", "business", "transient", "timed_out"}],
           \/ f.step \in Steps /\ drv[d].n < MaxSteps
           \/ f.step = Runaway /\ f.kind = "business",
           drv' = [drv EXCEPT ![d].pc = "failed", ![d].fail = f],
           UNCHANGED <<inst, log, claimed, crashes>>
    PROVE  Settled
<1>. DEFINE x == [drv[d] EXCEPT !.pc = "failed", !.fail = f]
<1>1. TypeOK /\ drv \in [Drivers -> DrvType] /\ crashes' \in 0..MaxCrashes
  BY DEF IndInv, TypeOK
<1>2. drv' = [drv EXCEPT ![d] = x]
  OBVIOUS
<1>3. x \in DrvType /\ x.pc = "failed" /\ x.fail = f /\ x.n = drv[d].n
  BY <1>1, ZenonT(30) DEF DrvType
<1>. HIDE DEF x
<1>4. DrvStep(d) /\ drv'[d] = x
  BY <1>1, <1>2, <1>3, ZenonT(30) DEF DrvStep
<1>5. DriverOK(d)' /\ \A j \in Instances : Knows(d, j)'
  BY <1>3, <1>4 DEF DriverOK, Knows
<1>. QED  BY <1>1, <1>4, <1>5, DriverInv

LEMMA StepFailsInv ==
    ASSUME IndInv, NEW d \in Drivers, NEW i \in Instances, StepFails(d, i)
    PROVE  Settled
<1>1. inst[i].status = "running" /\ drv[d].n < MaxSteps
  BY DEF StepFails, Runs, AtStep
<1>2. inst[i].step \in Steps
  BY <1>1, RowFacts
<1>3. PICK kind \in FailKinds(inst[i].step) :
        drv' = [drv EXCEPT ![d].pc = "failed", ![d].fail = [step |-> inst[i].step, kind |-> kind]]
  BY DEF StepFails
<1>4. kind \in {"none", "business", "transient", "timed_out"}
  BY DEF FailKinds
<1>. DEFINE f == [step |-> inst[i].step, kind |-> kind]
<1>5. f \in [step : Steps \cup {NoStep, Runaway},
             kind : {"none", "business", "transient", "timed_out"}] /\ f.step \in Steps
  BY <1>2, <1>4
<1>6. drv' = [drv EXCEPT ![d].pc = "failed", ![d].fail = f] /\ UNCHANGED <<inst, log, claimed, crashes>>
  BY <1>3 DEF StepFails
<1>. HIDE DEF f
<1>. QED  BY <1>1, <1>5, <1>6, FailedInv

LEMMA FailRunawayInv ==
    ASSUME IndInv, NEW d \in Drivers, NEW i \in Instances, FailRunaway(d, i)
    PROVE  Settled
<1>. DEFINE f == [step |-> Runaway, kind |-> "business"]
<1>1. f \in [step : Steps \cup {NoStep, Runaway},
             kind : {"none", "business", "transient", "timed_out"}]
      /\ f.step = Runaway /\ f.kind = "business"
  OBVIOUS
<1>2. drv' = [drv EXCEPT ![d].pc = "failed", ![d].fail = f] /\ UNCHANGED <<inst, log, claimed, crashes>>
  BY DEF FailRunaway
<1>. HIDE DEF f
<1>. QED  BY <1>1, <1>2, FailedInv

-----------------------------------------------------------------------------
(* After a failure.                                                         *)

LEMMA FailureRetriesInv ==
    ASSUME IndInv, NEW d \in Drivers, NEW i \in Instances, FailureRetries(d, i)
    PROVE  Settled
<1>. DEFINE n == inst[i].attempts + 1
            r == [inst[i] EXCEPT !.attempts = n, !.due = "later", !.stale = FALSE]
<1>1. inst[i].status = "running" /\ LetsGo(d)
  BY DEF FailureRetries, Fails
<1>2. TypeOK /\ inst[i] \in InstType /\ inst[i].step \in Steps
  BY <1>1, RowFacts
<1>3. n \in Nat
  BY <1>2 DEF InstType
<1>4. inst' = [inst EXCEPT ![i] = r] /\ UNCHANGED <<log, claimed, crashes>>
  BY DEF FailureRetries
<1>. HIDE DEF n
<1>5. r \in InstType /\ r.status = "running" /\ r.step \in Steps
  BY <1>1, <1>2, <1>3 DEF InstType, Clock
<1>. HIDE DEF r
<1>6. DrvStep(d) /\ drv'[d].pc = "idle"
  BY <1>1, <1>2, LetsGoDrv
<1>7. inst[i].status \notin Closed
  BY <1>1 DEF Closed, Final
<1>. QED  BY <1>2, <1>4, <1>5, <1>6, <1>7, LogKept, MovedInv

\* A step whose failure is routed is a step of the workflow.
LEMMA RouteType ==
    ASSUME IndInv, NEW d \in Drivers, drv[d].pc = "failed", Route(drv[d].fail) # NoStep
    PROVE  Route(drv[d].fail) \in Steps /\ drv[d].fail.step \in Steps /\ drv[d].n < MaxSteps
<1>1. drv[d].fail.step \in Steps \/ drv[d].fail.step = Runaway
  BY DEF IndInv, DriverOK
<1>2. drv[d].fail.step # Runaway
  BY DEF Route
<1>. DEFINE s == drv[d].fail.step
<1>3. s \in Steps /\ drv[d].n < MaxSteps
  BY <1>1, <1>2 DEF IndInv, DriverOK
<1>4. OnTimeout[s] \in Steps \cup {NoStep} /\ OnExhausted[s] \in Steps \cup {NoStep}
      /\ OnFailure[s] \in Steps \cup {NoStep}
  BY <1>3, GraphAssumption
<1>5. Route(drv[d].fail) \in {OnTimeout[s], OnExhausted[s], OnFailure[s]}
  BY <1>2 DEF Route
<1>. HIDE DEF s
<1>. QED  BY <1>3, <1>4, <1>5 DEF s

LEMMA FailureRoutedInv ==
    ASSUME IndInv, NEW d \in Drivers, NEW i \in Instances, FailureRouted(d, i)
    PROVE  Settled
<1>. DEFINE to == Route(drv[d].fail)
            r == Advanced(inst[i], to)
            routed == log[i].routed \cup {drv[d].fail.step}
            l == [log[i] EXCEPT !.routed = routed]
<1>1. inst[i].status = "running" /\ DrivesOn(d) /\ drv[d].pc = "failed"
  BY DEF FailureRouted, Fails, AtFailure
<1>2. TypeOK /\ inst[i] \in InstType /\ log \in [Instances -> LogType]
  BY <1>1, RowFacts DEF TypeOK
<1>3. to \in Steps /\ drv[d].fail.step \in Steps /\ drv[d].n < MaxSteps
  <2>1. Route(drv[d].fail) # NoStep
    BY DEF FailureRouted
  <2>. QED  BY <2>1, <1>1, RouteType
<1>4. inst' = [inst EXCEPT ![i] = r] /\ log' = [log EXCEPT ![i] = l] /\ UNCHANGED <<claimed, crashes>>
  BY DEF FailureRouted
<1>. HIDE DEF to
<1>5. r \in InstType /\ r.status = "running" /\ r.step \in Steps
  BY <1>2, <1>3, AdvancedRow
<1>. HIDE DEF r
<1>6. routed \subseteq Steps
  BY <1>2, <1>3 DEF LogType
<1>. HIDE DEF routed
<1>7. l \in LogType /\ l.ran = log[i].ran /\ l.undone = log[i].undone /\ l.resumed = log[i].resumed
  BY <1>2, <1>6 DEF LogType
<1>. HIDE DEF l
<1>8. /\ log' \in [Instances -> LogType] /\ \A j \in Instances \ {i} : log'[j] = log[j]
      /\ log'[i].resumed = log[i].resumed /\ log'[i].undone = log[i].undone
      /\ log[i].ran \subseteq log'[i].ran
  <2>1. log'[i] = l
    BY <1>2, <1>4
  <2>. QED  BY <2>1, <1>2, <1>4, <1>7
<1>9. DrvStep(d) /\ drv'[d].pc = "step"
  BY <1>1, <1>2, <1>3, DrivesOnDrv
<1>10. inst[i].status \notin Closed
  BY <1>1 DEF Closed, Final
<1>. QED  BY <1>4, <1>5, <1>8, <1>9, <1>10, MovedInv

LEMMA FailureEndsInv ==
    ASSUME IndInv, NEW d \in Drivers, NEW i \in Instances, FailureEnds(d, i)
    PROVE  Settled
<1>. DEFINE st == IF LastComp = 0 THEN "failed" ELSE "compensating"
            e == Ended(inst[i], st)
            n == inst[i].attempts + 1
            r == [e EXCEPT !.attempts = n]
<1>1. inst[i].status = "running" /\ (LetsGo(d) \/ StartsCompensating(d, i))
  BY DEF FailureEnds, Fails
<1>2. TypeOK /\ inst[i] \in InstType
  BY <1>1, RowFacts
<1>3. st \in {"failed", "compensating"} /\ st \in Status
  BY DEF Status, Live, Final
<1>4. inst' = [inst EXCEPT ![i] = r] /\ UNCHANGED <<log, claimed, crashes>>
  BY DEF FailureEnds
<1>. HIDE DEF st
<1>5. e \in InstType /\ e.status = st /\ e.step = inst[i].step
  BY <1>2, <1>3, EndedRow
<1>. HIDE DEF e
<1>6. n \in Nat
  BY <1>2 DEF InstType
<1>. HIDE DEF n
<1>7. r \in InstType /\ r.status = st /\ r.step = inst[i].step
  BY <1>5, <1>6 DEF InstType
<1>. HIDE DEF r
<1>8. \/ DrvStep(d) /\ drv'[d].pc = "idle"
      \/ DrvStep(d) /\ drv'[d].pc = "comp" /\ drv'[d].on = i /\ drv'[d].k = LastComp
  BY <1>1, <1>2, LetsGoDrv, StartsCompensatingDrv
<1>9. st \in Closed
  BY <1>3 DEF Closed, Final
<1>. QED  BY <1>1, <1>3, <1>4, <1>7, <1>8, <1>9, ClosesInv

-----------------------------------------------------------------------------
(* Compensation.                                                            *)

LEMMA NextCompDrv ==
    ASSUME TypeOK, NEW d \in Drivers, NextComp(d), drv[d].k > 0
    PROVE  /\ DrvStep(d) /\ drv'[d].pc = "comp" /\ drv'[d].on = drv[d].on
           /\ drv'[d].k = drv[d].k - 1 /\ drv'[d].bad = drv[d].bad
<1>. DEFINE m == drv[d].k - 1
            x == [drv[d] EXCEPT !.pc = "comp", !.k = m]
<1>1. drv \in [Drivers -> DrvType] /\ m \in 0..LastComp
  BY CompAssumption DEF TypeOK, DrvType
<1>2. drv' = [drv EXCEPT ![d] = x]
  BY DEF NextComp
<1>. HIDE DEF m
<1>3. x \in DrvType /\ x.pc = "comp" /\ x.on = drv[d].on /\ x.k = m /\ x.bad = drv[d].bad
  BY <1>1, ZenonT(30) DEF DrvType
<1>. HIDE DEF x
<1>4. DrvStep(d) /\ drv'[d] = x
  BY <1>1, <1>2, <1>3 DEF DrvStep
<1>. QED  BY <1>3, <1>4 DEF m

\* One more compensation is known to be done, or not needed.
LEMMA KnowsMore ==
    ASSUME IndInv, NEW d \in Drivers, NEW i \in Instances, drv[d].on = i,
           drv[d].pc \in {"comp", "compfailed"}, drv[d].k > 0,
           drv'[d].pc = "comp", drv'[d].on = i, drv'[d].k = drv[d].k - 1, drv'[d].bad = drv[d].bad,
           RowStep(i),
           inst'[i].status \in Undoing /\ ~drv[d].bad /\ CompFor[drv[d].k] \in Completed(i) =>
               log'[i].undone[drv[d].k] = 1
    PROVE  DriverOK(d)' /\ \A j \in Instances : Knows(d, j)'
<1>1. DriverOK(d)'
  BY DEF DriverOK
<1>2. ASSUME NEW j \in Instances, j # i PROVE Knows(d, j)'
  BY <1>2 DEF Knows
<1>3. ASSUME CompensatesEnded PROVE Knows(d, i)'
  <2>1. inst[i].status \in Closed /\ Knows(d, i)
    BY <1>3 DEF IndInv, Knows
  <2>2. /\ inst'[i].status \in Closed /\ log'[i].ran = log[i].ran
        /\ inst'[i].status \in Undoing => inst[i].status \in Undoing
        /\ \A c \in Comps : log[i].undone[c] = 1 => log'[i].undone[c] = 1
    BY <2>1 DEF RowStep
  <2>3. Completed(i)' = Completed(i)
    BY <2>2 DEF Completed
  <2>4. \A c \in Comps : c > drv[d].k - 1 => c = drv[d].k \/ c > drv[d].k
    <3>1. drv[d].k \in Nat
      BY CompAssumption DEF IndInv, TypeOK, DrvType
    <3>. QED  BY <3>1 DEF Comps
  <2>5. ASSUME inst'[i].status \in Undoing, ~drv[d].bad, NEW c \in Comps,
               c > drv[d].k - 1, CompFor[c] \in Completed(i)
        PROVE  log'[i].undone[c] = 1
    BY <1>3, <2>1, <2>2, <2>4, <2>5 DEF Knows
  <2>. QED  BY <2>2, <2>3, <2>5 DEF Knows
<1>4. ASSUME ~CompensatesEnded PROVE Knows(d, i)'
  BY <1>4 DEF Knows
<1>. QED  BY <1>1, <1>2, <1>3, <1>4

LEMMA CompSkippedInv ==
    ASSUME IndInv, NEW d \in Drivers, NEW i \in Instances, CompSkipped(d, i)
    PROVE  Settled
<1>. DEFINE k == drv[d].k
<1>1. /\ drv[d].pc = "comp" /\ drv[d].on = i /\ k > 0 /\ ~NeedsUndo(i, k) /\ NextComp(d)
      /\ UNCHANGED <<inst, log, claimed, crashes>>
  BY DEF CompSkipped, AtComp, Driving
<1>2. TypeOK /\ RowOK(i) /\ crashes' \in 0..MaxCrashes
  BY <1>1 DEF IndInv, TypeOK
<1>3. k \in Comps /\ log[i].undone[k] \in Nat
  <2>1. k \in 0..LastComp /\ log[i].undone \in [Comps -> Nat]
    BY <1>2 DEF TypeOK, DrvType, LogType
  <2>2. k \in Comps
    BY <1>1, <2>1, CompAssumption DEF Comps
  <2>. QED  BY <2>1, <2>2
<1>4. RowStep(i)
  BY <1>1, <1>2, SameRow
<1>5. inst[i].status \in Undoing /\ CompFor[k] \in Completed(i) => log[i].undone[k] = 1
  <2>1. log[i].undone[k] <= 1
    BY <1>2, <1>3 DEF RowOK
  <2>. QED  BY <1>1, <1>3, <2>1 DEF NeedsUndo, Undoing
<1>6. /\ DrvStep(d) /\ drv'[d].pc = "comp" /\ drv'[d].on = i
      /\ drv'[d].k = k - 1 /\ drv'[d].bad = drv[d].bad
  BY <1>1, <1>2, NextCompDrv
<1>7. DriverOK(d)' /\ \A j \in Instances : Knows(d, j)'
  BY <1>1, <1>4, <1>5, <1>6, KnowsMore
<1>. QED  BY <1>1, <1>2, <1>6, <1>7, DriverInv

LEMMA CompDoneInv ==
    ASSUME IndInv, NEW d \in Drivers, NEW i \in Instances, CompDone(d, i)
    PROVE  Settled
<1>. DEFINE k == drv[d].k
            u == [log[i].undone EXCEPT ![k] = @ + 1]
            l == [log[i] EXCEPT !.undone = u]
<1>1. /\ drv[d].pc = "comp" /\ drv[d].on = i /\ k > 0 /\ NeedsUndo(i, k) /\ NextComp(d)
      /\ UNCHANGED <<inst, claimed, crashes>>
  BY DEF CompDone, AtComp, Driving
<1>2. TypeOK /\ RowOK(i) /\ inst[i] \in InstType /\ log \in [Instances -> LogType]
  BY <1>1 DEF IndInv, TypeOK
<1>3. k \in Comps /\ log[i].undone \in [Comps -> Nat]
  <2>1. k \in 0..LastComp /\ log[i].undone \in [Comps -> Nat]
    BY <1>2 DEF TypeOK, DrvType, LogType
  <2>2. k \in Comps
    BY <1>1, <2>1, CompAssumption DEF Comps
  <2>. QED  BY <2>1, <2>2
<1>4. log' = [log EXCEPT ![i] = l]
  BY DEF CompDone
<1>5. log[i].undone[k] = 0 /\ CompFor[k] \in Completed(i) /\ inst[i].status \in Closed
  BY <1>1 DEF NeedsUndo, Closed, Final
<1>6. /\ u \in [Comps -> Nat] /\ u[k] = 1
      /\ \A c \in Comps : c # k => u[c] = log[i].undone[c]
  BY <1>3, <1>5
<1>. HIDE DEF u
<1>7. /\ l \in LogType /\ l.ran = log[i].ran /\ l.routed = log[i].routed
      /\ l.undone = u /\ l.resumed = log[i].resumed
  BY <1>2, <1>6 DEF LogType
<1>. HIDE DEF l
<1>8. /\ log' \in [Instances -> LogType] /\ log'[i] = l
      /\ \A j \in Instances \ {i} : log'[j] = log[j]
  BY <1>2, <1>4, <1>7
<1>9. Completed(i)' = Completed(i)
  BY <1>7, <1>8 DEF Completed
<1>10. \A c \in Comps : u[c] <= 1 /\ (u[c] > 0 => CompFor[c] \in Completed(i))
                       /\ (log[i].undone[c] = 1 => u[c] = 1)
  <2>. SUFFICES ASSUME NEW c \in Comps
                PROVE  u[c] <= 1 /\ (u[c] > 0 => CompFor[c] \in Completed(i))
                       /\ (log[i].undone[c] = 1 => u[c] = 1)
    OBVIOUS
  <2>1. CASE c = k
    BY <2>1, <1>5, <1>6
  <2>2. CASE c # k
    BY <2>2, <1>2, <1>6 DEF RowOK
  <2>. QED  BY <2>1, <2>2
<1>11. RowOK(i)'
  BY <1>1, <1>2, <1>7, <1>8, <1>9, <1>10 DEF RowOK
<1>12. RowStep(i)
  BY <1>1, <1>7, <1>8, <1>10 DEF RowStep
<1>13. /\ DrvStep(d) /\ drv'[d].pc = "comp" /\ drv'[d].on = i
       /\ drv'[d].k = k - 1 /\ drv'[d].bad = drv[d].bad
  BY <1>1, <1>2, NextCompDrv
<1>14. log'[i].undone[k] = 1
  BY <1>6, <1>7, <1>8
<1>15. DriverOK(d)' /\ \A j \in Instances : Knows(d, j)'
  BY <1>1, <1>12, <1>13, <1>14, KnowsMore
<1>16. inst' = [inst EXCEPT ![i] = inst[i]]
  BY <1>1, <1>2 DEF TypeOK
<1>17. drv' \in [Drivers -> DrvType] /\ \A q \in Drivers :
          drv'[q] = drv[q] \/ (DriverOK(q)' /\ \A j \in Instances : Knows(q, j)')
  BY <1>13, <1>15 DEF DrvStep
<1>18. log'[i].resumed = log[i].resumed
  BY <1>7, <1>8
<1>. QED  BY <1>1, <1>2, <1>8, <1>11, <1>12, <1>16, <1>17, <1>18, RowInv

LEMMA CompFailsInv ==
    ASSUME IndInv, NEW d \in Drivers, NEW i \in Instances, CompFails(d, i)
    PROVE  Settled
<1>. DEFINE x == [drv[d] EXCEPT !.pc = "compfailed", !.bad = TRUE]
<1>1. /\ drv[d].pc = "comp" /\ drv[d].on = i /\ drv[d].k > 0
      /\ drv' = [drv EXCEPT ![d] = x]
      /\ UNCHANGED <<inst, log, claimed, crashes>>
  BY DEF CompFails, AtComp, Driving
<1>2. TypeOK /\ drv \in [Drivers -> DrvType] /\ crashes' \in 0..MaxCrashes
  BY <1>1 DEF IndInv, TypeOK
<1>3. x \in DrvType /\ x.pc = "compfailed" /\ x.bad = TRUE /\ x.k = drv[d].k /\ x.on = i
  BY <1>1, <1>2 DEF DrvType
<1>. HIDE DEF x
<1>4. DrvStep(d) /\ drv'[d] = x
  BY <1>1, <1>2, <1>3 DEF DrvStep
<1>5. CompensatesEnded => inst'[i].status \in Closed
  BY <1>1 DEF IndInv, Knows
<1>6. DriverOK(d)'
  BY <1>1, <1>3, <1>4 DEF DriverOK
<1>7. ASSUME NEW j \in Instances PROVE Knows(d, j)'
  BY <1>3, <1>4, <1>5 DEF Knows
<1>. QED  BY <1>1, <1>2, <1>4, <1>6, <1>7, DriverInv

LEMMA CompFailureLoggedInv ==
    ASSUME IndInv, NEW d \in Drivers, NEW i \in Instances, CompFailureLogged(d, i)
    PROVE  Settled
<1>. DEFINE nu == log[i].notUndone \cup {drv[d].k}
            l == [log[i] EXCEPT !.notUndone = nu]
<1>1. drv[d].pc = "compfailed" /\ drv[d].on = i /\ NextComp(d) /\ UNCHANGED <<inst, claimed>>
  BY DEF CompFailureLogged, Driving
<1>2. TypeOK /\ RowOK(i) /\ log \in [Instances -> LogType] /\ inst[i] \in InstType
  BY DEF IndInv, TypeOK
<1>3. drv[d].k > 0 /\ drv[d].bad
  BY <1>1 DEF IndInv, DriverOK
<1>4. drv[d].k \in Comps
  <2>1. drv[d].k \in 0..LastComp
    BY <1>2 DEF TypeOK, DrvType
  <2>. QED  BY <1>3, <2>1, CompAssumption DEF Comps
<1>5. /\ DrvStep(d) /\ drv'[d].pc = "comp" /\ drv'[d].on = i
      /\ drv'[d].k = drv[d].k - 1 /\ drv'[d].bad = drv[d].bad
  BY <1>1, <1>2, <1>3, NextCompDrv
<1>6. nu \subseteq Comps
  BY <1>2, <1>4 DEF LogType
<1>7. CASE log' = [log EXCEPT ![i].notUndone = @ \cup {drv[d].k}] /\ UNCHANGED crashes
  <2>1. log' = [log EXCEPT ![i] = l]
    BY <1>7
  <2>. HIDE DEF nu
  <2>2. /\ l \in LogType /\ l.ran = log[i].ran /\ l.routed = log[i].routed
        /\ l.undone = log[i].undone /\ l.resumed = log[i].resumed
    BY <1>2, <1>6 DEF LogType
  <2>. HIDE DEF l
  <2>3. /\ log' \in [Instances -> LogType] /\ log'[i] = l
        /\ \A j \in Instances \ {i} : log'[j] = log[j]
    BY <1>2, <2>1, <2>2
  <2>4. Completed(i)' = Completed(i)
    BY <2>2, <2>3 DEF Completed
  <2>5. RowOK(i)'
    BY <1>1, <1>2, <2>2, <2>3, <2>4 DEF RowOK
  <2>6. RowStep(i)
    BY <1>1, <2>2, <2>3 DEF RowStep
  <2>7. DriverOK(d)' /\ \A j \in Instances : Knows(d, j)'
    BY <1>1, <1>3, <1>5, <2>6, KnowsMore
  <2>8. inst' = [inst EXCEPT ![i] = inst[i]]
    BY <1>1, <1>2 DEF TypeOK
  <2>9. drv' \in [Drivers -> DrvType] /\ \A q \in Drivers :
          drv'[q] = drv[q] \/ (DriverOK(q)' /\ \A j \in Instances : Knows(q, j)')
    BY <1>5, <2>7 DEF DrvStep
  <2>10. log'[i].resumed = log[i].resumed
    BY <2>2, <2>3
  <2>. QED  BY <1>1, <1>2, <1>7, <2>3, <2>5, <2>6, <2>8, <2>9, <2>10, RowInv, ZenonT(30)
<1>8. CASE crashes < MaxCrashes /\ crashes' = crashes + 1 /\ UNCHANGED log
  <2>1. crashes' \in 0..MaxCrashes
    BY <1>2, <1>8, EngineAssumption DEF TypeOK
  <2>2. RowStep(i)
    BY <1>1, <1>2, <1>8, SameRow
  <2>3. DriverOK(d)' /\ \A j \in Instances : Knows(d, j)'
    BY <1>1, <1>3, <1>5, <2>2, KnowsMore
  <2>. QED  BY <1>1, <1>5, <1>8, <2>1, <2>3, DriverInv
<1>. QED  BY <1>7, <1>8 DEF CompFailureLogged

LEMMA CompEndsInv ==
    ASSUME IndInv, NEW d \in Drivers, NEW i \in Instances, CompEnds(d, i)
    PROVE  Settled
<1>. DEFINE st == IF LeftUndone(d, i) THEN "failed" ELSE "compensated"
            r == [inst[i] EXCEPT !.status = st, !.stale = FALSE]
<1>1. /\ drv[d].pc = "comp" /\ drv[d].on = i /\ drv[d].k = 0 /\ LetsGo(d)
      /\ UNCHANGED <<log, claimed, crashes>>
  BY DEF CompEnds, AtComp, Driving
<1>2. TypeOK /\ inst[i] \in InstType
  BY DEF IndInv, TypeOK
<1>3. CASE inst[i].status \in {"compensating", "failed"}
  <2>1. inst' = [inst EXCEPT ![i] = r]
    BY <1>3 DEF CompEnds
  <2>2. st \in {"failed", "compensated"} /\ (st = "compensated" => ~drv[d].bad)
    BY DEF LeftUndone
  <2>. HIDE DEF st
  <2>3. r \in InstType /\ r.status = st /\ r.step = inst[i].step
    BY <1>2, <2>2 DEF InstType, Status, Live, Final
  <2>. HIDE DEF r
  <2>4. ASSUME CompensatesEnded, st = "compensated", NEW c \in Comps, CompFor[c] \in Completed(i)
        PROVE  log[i].undone[c] = 1
    <3>1. c > drv[d].k
      BY <1>1, CompAssumption DEF Comps
    <3>. QED  BY <3>1, <2>4, <2>2, <1>1, <1>3 DEF IndInv, Knows, Undoing
  <2>5. DrvStep(d) /\ drv'[d].pc = "idle"
    BY <1>1, <1>2, LetsGoDrv
  <2>. QED  BY <1>1, <1>3, <2>1, <2>2, <2>3, <2>4, <2>5, ClosesInv
<1>4. CASE inst[i].status \notin {"compensating", "failed"}
  <2>1. inst' = inst
    BY <1>4 DEF CompEnds
  <2>. QED  BY <1>1, <2>1, NotRunningInv
<1>. QED  BY <1>3, <1>4

-----------------------------------------------------------------------------
(* The timer sweep.                                                         *)

LEMMA SweepTimedOutInv ==
    ASSUME IndInv, NEW d \in Drivers, NEW i \in Instances, SweepTimedOut(d, i)
    PROVE  Settled
<1>. DEFINE s == inst[i].step
            r == Advanced(inst[i], OnTimeout[s])
<1>1. /\ inst[i].status = "waiting" /\ OnTimeout[s] # NoStep /\ StartsDriving(d, i) /\ LogRan(i, s)
      /\ inst' = [inst EXCEPT ![i] = r] /\ UNCHANGED <<claimed, crashes>>
  BY DEF SweepTimedOut, WaitIsDue
<1>2. TypeOK /\ inst[i] \in InstType /\ s \in Steps
  BY <1>1, RowFacts
<1>3. OnTimeout[s] \in Steps
  BY <1>1, <1>2, GraphAssumption
<1>4. r \in InstType /\ r.status = "running" /\ r.step \in Steps
  BY <1>2, <1>3, AdvancedRow
<1>. HIDE DEF r
<1>5. DrvStep(d) /\ drv'[d].pc = "step"
  BY <1>1, <1>2, StartsDrivingDrv
<1>6. inst[i].status \notin Closed
  BY <1>1 DEF Closed, Final
<1>7. /\ log' \in [Instances -> LogType] /\ \A j \in Instances \ {i} : log'[j] = log[j]
      /\ log'[i].resumed = log[i].resumed /\ log'[i].undone = log[i].undone
      /\ log[i].ran \subseteq log'[i].ran
  BY <1>1, <1>2, LogRanRow
<1>. QED  BY <1>1, <1>4, <1>5, <1>6, <1>7, MovedInv

LEMMA SweepExpiredInv ==
    ASSUME IndInv, NEW d \in Drivers, NEW i \in Instances, SweepExpired(d, i)
    PROVE  Settled
<1>. DEFINE r == Ended(inst[i], "expired")
<1>1. /\ inst[i].status = "waiting"
      /\ inst' = [inst EXCEPT ![i] = r] /\ UNCHANGED <<log, claimed, drv, crashes>>
  BY DEF SweepExpired, WaitIsDue
<1>2. inst[i] \in InstType /\ "expired" \in Status /\ "expired" \in Closed
  BY DEF IndInv, TypeOK, Status, Closed, Final
<1>3. r \in InstType /\ r.status = "expired" /\ r.step = inst[i].step
  BY <1>2, EndedRow
<1>. HIDE DEF r
<1>. QED  BY <1>1, <1>2, <1>3, ClosesInv

LEMMA SweepRunningInv ==
    ASSUME IndInv, NEW d \in Drivers, NEW i \in Instances, SweepRunning(d, i)
    PROVE  Settled
<1>. DEFINE r == [inst[i] EXCEPT !.due = "no", !.stale = FALSE]
<1>1. /\ inst[i].status = "running" /\ StartsDriving(d, i)
      /\ inst' = [inst EXCEPT ![i] = r] /\ UNCHANGED <<log, claimed, crashes>>
  BY DEF SweepRunning
<1>2. TypeOK /\ inst[i] \in InstType /\ inst[i].step \in Steps
  BY <1>1, RowFacts
<1>3. r \in InstType /\ r.status = "running" /\ r.step \in Steps
  BY <1>1, <1>2 DEF InstType, Clock
<1>. HIDE DEF r
<1>4. DrvStep(d) /\ drv'[d].pc = "step"
  BY <1>1, <1>2, StartsDrivingDrv
<1>5. inst[i].status \notin Closed
  BY <1>1 DEF Closed, Final
<1>. QED  BY <1>1, <1>2, <1>3, <1>4, <1>5, LogKept, MovedInv

LEMMA SweepCompensatingInv ==
    ASSUME IndInv, NEW d \in Drivers, NEW i \in Instances, SweepCompensating(d, i)
    PROVE  Settled
<1>. DEFINE r == [inst[i] EXCEPT !.stale = FALSE]
<1>1. /\ inst[i].status = "compensating" /\ StartsCompensating(d, i)
      /\ inst' = [inst EXCEPT ![i] = r] /\ UNCHANGED <<log, claimed, crashes>>
  BY DEF SweepCompensating
<1>2. TypeOK /\ inst[i] \in InstType
  BY <1>1, RowFacts
<1>3. r \in InstType /\ r.status = "compensating" /\ r.step = inst[i].step
  BY <1>1, <1>2 DEF InstType
<1>. HIDE DEF r
<1>4. DrvStep(d) /\ drv'[d].pc = "comp" /\ drv'[d].on = i /\ drv'[d].k = LastComp
  BY <1>1, <1>2, StartsCompensatingDrv
<1>5. "compensating" \in Closed
  BY DEF Closed
<1>. QED  BY <1>1, <1>3, <1>4, <1>5, ClosesInv

-----------------------------------------------------------------------------
(* The operator, time, and crashes.                                         *)

LEMMA CancelInv ==
    ASSUME IndInv, NEW i \in Instances, Cancel(i)
    PROVE  Settled
<1>. DEFINE r == Ended(inst[i], "cancelled")
<1>1. /\ inst[i].status \in {"running", "waiting", "compensating"}
      /\ inst' = [inst EXCEPT ![i] = r] /\ UNCHANGED <<log, claimed, drv, crashes>>
  BY DEF Cancel, Live
<1>2. inst[i] \in InstType /\ "cancelled" \in Status /\ "cancelled" \in Closed
  BY DEF IndInv, TypeOK, Status, Closed, Final
<1>3. r \in InstType /\ r.status = "cancelled" /\ r.step = inst[i].step
  BY <1>1, <1>2, EndedRow
<1>. HIDE DEF r
<1>. QED  BY <1>1, <1>2, <1>3, ClosesInv

\* Time moves the clocks of a row and nothing else.
LEMMA TickInv ==
    ASSUME IndInv, NEW i \in Instances, NEW r \in InstType, inst' = [inst EXCEPT ![i] = r],
           r.status = inst[i].status, r.step = inst[i].step,
           r.due # "no" <=> inst[i].due # "no",
           UNCHANGED <<log, claimed, drv, crashes>>
    PROVE  Settled
<1>1. TypeOK /\ RowOK(i)
  BY DEF IndInv
<1>2. inst'[i] = r /\ log'[i] = log[i]
  BY <1>1 DEF TypeOK
<1>3. Completed(i)' = Completed(i)
  BY <1>2 DEF Completed
<1>4. RowOK(i)'
  BY <1>1, <1>2, <1>3 DEF RowOK
<1>5. RowStep(i)
  BY <1>2 DEF RowStep
<1>6. drv' \in [Drivers -> DrvType] /\ log' \in [Instances -> LogType]
  BY <1>1 DEF TypeOK
<1>7. \A d \in Drivers : drv'[d] = drv[d]
  OBVIOUS
<1>. QED  BY <1>2, <1>4, <1>5, <1>6, <1>7, RowInv

LEMMA TimeInv ==
    ASSUME IndInv, NEW i \in Instances, Time(i)
    PROVE  Settled
<1>0. inst[i] \in InstType
  BY DEF IndInv, TypeOK
<1>1. CASE WaitElapses(i)
  <2>. DEFINE r == [inst[i] EXCEPT !.due = "past"]
  <2>1. inst' = [inst EXCEPT ![i] = r] /\ UNCHANGED <<log, claimed, drv, crashes>> /\ inst[i].due = "later"
    BY <1>1 DEF WaitElapses
  <2>2. /\ r \in InstType /\ r.status = inst[i].status /\ r.step = inst[i].step
        /\ r.due = "past"
    BY <1>0 DEF InstType, Clock
  <2>. HIDE DEF r
  <2>. QED  BY <2>1, <2>2, TickInv
<1>2. CASE DeadlinePasses(i)
  <2>. DEFINE r == [inst[i] EXCEPT !.deadline = "past"]
  <2>1. inst' = [inst EXCEPT ![i] = r] /\ UNCHANGED <<log, claimed, drv, crashes>>
    BY <1>2 DEF DeadlinePasses
  <2>2. /\ r \in InstType /\ r.status = inst[i].status /\ r.step = inst[i].step
        /\ r.due = inst[i].due
    BY <1>0 DEF InstType, Clock
  <2>. HIDE DEF r
  <2>. QED  BY <2>1, <2>2, TickInv
<1>3. CASE GoesStale(i)
  <2>. DEFINE r == [inst[i] EXCEPT !.stale = TRUE]
  <2>1. inst' = [inst EXCEPT ![i] = r] /\ UNCHANGED <<log, claimed, drv, crashes>>
    BY <1>3 DEF GoesStale
  <2>2. /\ r \in InstType /\ r.status = inst[i].status /\ r.step = inst[i].step
        /\ r.due = inst[i].due
    BY <1>0 DEF InstType, Clock
  <2>. HIDE DEF r
  <2>. QED  BY <2>1, <2>2, TickInv
<1>. QED  BY <1>1, <1>2, <1>3 DEF Time

LEMMA CrashInv ==
    ASSUME IndInv, NEW d \in Drivers, Crash(d)
    PROVE  Settled
<1>1. /\ crashes < MaxCrashes /\ crashes' = crashes + 1 /\ drv' = [drv EXCEPT ![d] = IdleDriver]
      /\ UNCHANGED <<inst, log, claimed>>
  BY DEF Crash
<1>2. TypeOK
  BY DEF IndInv
<1>3. crashes' \in 0..MaxCrashes
  BY <1>1, <1>2, EngineAssumption DEF TypeOK
<1>4. DrvStep(d) /\ drv'[d].pc = "idle"
  BY <1>1, <1>2, IdleDriverType DEF DrvStep, TypeOK
<1>. QED  BY <1>1, <1>3, <1>4, PlainDriver, DriverInv

-----------------------------------------------------------------------------
(* Events and callers.                                                      *)

LEMMA PickInv ==
    ASSUME IndInv, NEW d \in Drivers, NEW i \in Instances, StartsDriving(d, i),
           UNCHANGED <<inst, log, claimed, crashes>>
    PROVE  Settled
<1>1. TypeOK /\ crashes' \in 0..MaxCrashes
  BY DEF IndInv, TypeOK
<1>. QED  BY <1>1, StartsDrivingDrv, PlainDriver, DriverInv

LEMMA CompensateInv ==
    ASSUME IndInv, NEW d \in Drivers, NEW i \in Instances, Compensate(d, i)
    PROVE  Settled
<1>1. /\ inst[i].status \in CompensateOn \ {"new"} /\ StartsCompensating(d, i)
      /\ UNCHANGED <<inst, log, claimed, crashes>>
  BY DEF Compensate
<1>2. TypeOK /\ crashes' \in 0..MaxCrashes
  BY <1>1 DEF IndInv, TypeOK
<1>3. CompensatesEnded => inst[i].status \in Closed
  BY <1>1, EngineAssumption DEF CompensatesEnded, Status, Live, Closed
<1>4. DrvStep(d) /\ drv'[d].pc = "comp" /\ drv'[d].on = i /\ drv'[d].k = LastComp
  BY <1>1, <1>2, StartsCompensatingDrv
<1>5. DriverOK(d)' /\ \A j \in Instances : Knows(d, j)'
  BY <1>1, <1>3, <1>4, CompensatingDriver
<1>. QED  BY <1>1, <1>2, <1>4, <1>5, DriverInv

\* An idle driver that is given instances to drive stays idle.
LEMMA QueuesDrv ==
    ASSUME TypeOK, NEW d \in Drivers, Free(d), NEW S \in SUBSET Instances,
           drv' = [drv EXCEPT ![d].queue = S]
    PROVE  DrvStep(d) /\ drv'[d].pc = "idle"
<1>. DEFINE x == [drv[d] EXCEPT !.queue = S]
<1>1. drv \in [Drivers -> DrvType] /\ drv[d].pc = "idle"
  BY DEF TypeOK, Free
<1>2. drv' = [drv EXCEPT ![d] = x]
  OBVIOUS
<1>3. x \in DrvType /\ x.pc = "idle"
  BY <1>1 DEF DrvType
<1>. HIDE DEF x
<1>. QED  BY <1>1, <1>2, <1>3 DEF DrvStep

LEMMA StartInv ==
    ASSUME IndInv, NEW d \in Drivers, NEW i \in Instances, Start(d, i)
    PROVE  Settled
<1>. DEFINE dl == IF HasDeadline THEN "later" ELSE "no"
            r == [inst[i] EXCEPT !.status = "running", !.step = First, !.deadline = dl]
<1>1. /\ inst[i].status = "new" /\ Free(d) /\ drv' = [drv EXCEPT ![d].queue = {i}]
      /\ inst' = [inst EXCEPT ![i] = r] /\ UNCHANGED <<log, claimed, crashes>>
  BY DEF Start
<1>2. TypeOK /\ inst[i] \in InstType
  BY RowFacts
<1>3. dl \in Clock
  BY DEF Clock
<1>. HIDE DEF dl
<1>4. r \in InstType /\ r.status = "running" /\ r.step \in Steps
  BY <1>2, <1>3, GraphAssumption DEF InstType, Status, Live
<1>. HIDE DEF r
<1>5. DrvStep(d) /\ drv'[d].pc = "idle"
  <2>1. {i} \in SUBSET Instances
    OBVIOUS
  <2>. QED  BY <1>1, <1>2, <2>1, QueuesDrv, Zenon
<1>6. inst[i].status \notin Closed
  BY <1>1 DEF Closed, Final
<1>. QED  BY <1>1, <1>2, <1>4, <1>5, <1>6, LogKept, MovedInv

\* The rows an answer moves on.
LEMMA ResumedRow ==
    ASSUME IndInv, NEW d \in Drivers, NEW e \in Answers, Resume(d, e), NEW i \in Resumable(e)
    PROVE  /\ i \in Instances /\ e \notin claimed /\ i \in Matches[e]
           /\ inst[i].status = "waiting"
           /\ inst'[i] \in InstType /\ inst'[i].status = "running" /\ inst'[i].step \in Steps
           /\ log'[i] \in LogType /\ log'[i].resumed = log[i].resumed + 1
           /\ log'[i].undone = log[i].undone /\ log[i].ran \subseteq log'[i].ran
<1>. DEFINE s == inst[i].step
            m == log[i].ran \cup {s}
            n == log[i].resumed + 1
            l == [log[i] EXCEPT !.ran = m, !.resumed = n]
<1>1. i \in Instances /\ e \notin claimed /\ i \in Matches[e] /\ inst[i].status = "waiting"
  BY EngineAssumption DEF Resumable, WaitingFor
<1>2. TypeOK /\ inst[i] \in InstType /\ s \in Steps /\ log[i] \in LogType
  BY <1>1, RowFacts DEF TypeOK
<1>3. inst'[i] = Advanced(inst[i], OnSuccess[s]) /\ log'[i] = l
  BY <1>1 DEF Resume
<1>4. OnSuccess[s] \in Steps
  BY <1>2, GraphAssumption
<1>5. inst'[i] \in InstType /\ inst'[i].status = "running" /\ inst'[i].step \in Steps
  BY <1>2, <1>3, <1>4, AdvancedRow
<1>6. m \subseteq Steps /\ log[i].ran \subseteq m /\ n \in Nat
  BY <1>2 DEF LogType
<1>. HIDE DEF m, n
<1>7. l \in LogType /\ l.ran = m /\ l.resumed = n /\ l.undone = log[i].undone
  BY <1>2, <1>6 DEF LogType
<1>. HIDE DEF l
<1>. QED  BY <1>1, <1>3, <1>5, <1>6, <1>7 DEF n

LEMMA ResumeInv ==
    ASSUME IndInv, NEW d \in Drivers, NEW e \in Answers, Resume(d, e)
    PROVE  Settled
<1>1. TypeOK /\ Resumable(e) \in SUBSET Instances
  BY EngineAssumption DEF IndInv, Resumable, WaitingFor
<1>2. /\ Free(d) /\ claimed' = claimed \cup {e} /\ UNCHANGED crashes
      /\ drv' = [drv EXCEPT ![d].queue = Resumable(e)]
  BY DEF Resume
<1>3. \A i \in Instances : i \notin Resumable(e) => inst'[i] = inst[i] /\ log'[i] = log[i]
  BY DEF Resume
<1>4. DrvStep(d) /\ drv'[d].pc = "idle"
  BY <1>1, <1>2, QueuesDrv, Zenon
<1>5. TypeOK'
  <2>1. inst' \in [Instances -> InstType]
    <3>1. inst' = [i \in Instances |-> inst'[i]]
      BY DEF Resume
    <3>2. \A i \in Instances : inst'[i] \in InstType
      BY <1>1, <1>3, ResumedRow DEF TypeOK
    <3>. QED  BY <3>1, <3>2
  <2>2. log' \in [Instances -> LogType]
    <3>1. log' = [i \in Instances |-> log'[i]]
      BY DEF Resume
    <3>2. \A i \in Instances : log'[i] \in LogType
      BY <1>1, <1>3, ResumedRow DEF TypeOK
    <3>. QED  BY <3>1, <3>2
  <2>. QED  BY <1>1, <1>2, <1>4, <2>1, <2>2 DEF TypeOK, DrvStep
<1>6. \A i \in Instances : \/ inst'[i] = inst[i] /\ log'[i] = log[i]
                           \/ RowOK(i)' /\ RowStep(i)
  <2>. SUFFICES ASSUME NEW i \in Instances, i \in Resumable(e) PROVE RowOK(i)' /\ RowStep(i)
    BY <1>3
  <2>1. inst[i].status \notin Closed
    BY ResumedRow DEF Closed, Final
  <2>2. RowOK(i)
    BY DEF IndInv
  <2>. QED  BY <1>1, <1>5, <2>1, <2>2, ResumedRow, MovedRow
<1>7. \A q \in Drivers : drv'[q] = drv[q] \/ (DriverOK(q)' /\ \A j \in Instances : Knows(q, j)')
  BY <1>4, PlainDriver DEF DrvStep
<1>8. IsFiniteSet(claimed)'
  BY <1>2, FS_AddElement DEF IndInv
<1>9. OneResumePerAnswer'
  <2>. SUFFICES ASSUME NEW i \in Instances
                PROVE  log'[i].resumed <= Cardinality({a \in claimed' : i \in Matches[a]})
    BY DEF OneResumePerAnswer
  <2>. DEFINE A == {a \in claimed : i \in Matches[a]}
              B == {a \in claimed' : i \in Matches[a]}
  <2>1. log[i].resumed <= Cardinality(A) /\ log[i].resumed \in Nat
    BY <1>1 DEF IndInv, OneResumePerAnswer, TypeOK, LogType
  <2>2. IsFiniteSet(A) /\ IsFiniteSet(B)
    BY <1>8, FS_Subset DEF IndInv
  <2>3. Cardinality(A) \in Nat /\ Cardinality(B) \in Nat
    BY <2>2, FS_CardinalityType
  <2>4. CASE i \in Resumable(e)
    <3>1. e \notin claimed /\ i \in Matches[e] /\ log'[i].resumed = log[i].resumed + 1
      BY <2>4, ResumedRow
    <3>2. B = A \cup {e} /\ e \notin A
      BY <1>2, <3>1
    <3>3. Cardinality(B) = Cardinality(A) + 1
      BY <2>2, <3>2, FS_AddElement
    <3>. HIDE DEF A, B
    <3>4. log'[i].resumed <= Cardinality(B)
      BY <2>1, <2>3, <3>1, <3>3
    <3>. QED  BY <3>4 DEF B
  <2>5. CASE i \notin Resumable(e)
    <3>1. log'[i].resumed = log[i].resumed
      BY <2>5, <1>3
    <3>2. A \subseteq B
      BY <1>2
    <3>3. Cardinality(A) <= Cardinality(B)
      BY <2>2, <3>2, FS_Subset
    <3>. HIDE DEF A, B
    <3>4. log'[i].resumed <= Cardinality(B)
      BY <2>1, <2>3, <3>1, <3>3
    <3>. QED  BY <3>4 DEF B
  <2>. QED  BY <2>4, <2>5
<1>. QED  BY <1>5, <1>6, <1>7, <1>8, <1>9, KeepsInv DEF Settled

-----------------------------------------------------------------------------
(* The theorems.                                                            *)

LEMMA InitInv == Init => IndInv
<1>. SUFFICES ASSUME Init PROVE IndInv
  OBVIOUS
<1>1. \A i \in Instances :
        /\ inst[i] \in InstType /\ inst[i].status = "new"
        /\ log[i] \in LogType /\ log[i].resumed = 0 /\ log[i].undone = [c \in Comps |-> 0]
  <2>. SUFFICES ASSUME NEW i \in Instances
                PROVE  /\ inst[i] \in InstType /\ inst[i].status = "new"
                       /\ log[i] \in LogType /\ log[i].resumed = 0
                       /\ log[i].undone = [c \in Comps |-> 0]
    OBVIOUS
  <2>1. inst[i] \in InstType /\ inst[i].status = "new"
    BY DEF Init, InstType, Status, Clock
  <2>. DEFINE u == [c \in Comps |-> 0]
  <2>2. u \in [Comps -> Nat]
    OBVIOUS
  <2>3. log[i] = [ran |-> {}, resumed |-> 0, routed |-> {}, undone |-> u, notUndone |-> {}]
    BY DEF Init
  <2>. HIDE DEF u
  <2>4. log[i] \in LogType /\ log[i].resumed = 0 /\ log[i].undone = u
    BY <2>2, <2>3 DEF LogType
  <2>. QED  BY <2>1, <2>4 DEF u
<1>2. TypeOK
  <2>1. inst = [i \in Instances |-> inst[i]] /\ log = [i \in Instances |-> log[i]]
    BY DEF Init
  <2>2. drv \in [Drivers -> DrvType]
    BY IdleDriverType DEF Init
  <2>3. crashes \in 0..MaxCrashes
    BY EngineAssumption DEF Init
  <2>4. inst \in [Instances -> InstType] /\ log \in [Instances -> LogType]
    BY <1>1, <2>1
  <2>5. claimed \subseteq Answers
    BY DEF Init
  <2>. QED  BY <2>2, <2>3, <2>4, <2>5 DEF TypeOK
<1>3. \A i \in Instances : RowOK(i)
  BY <1>1 DEF RowOK
<1>4. (\A d \in Drivers : DriverOK(d)) /\ \A d \in Drivers, i \in Instances : Knows(d, i)
  <2>1. \A d \in Drivers : drv[d].pc = "idle"
    BY IdleDriverType DEF Init
  <2>. QED  BY <2>1 DEF DriverOK, Knows
<1>5. IsFiniteSet(claimed) /\ OneResumePerAnswer
  <2>1. claimed = {} /\ IsFiniteSet(claimed)
    BY FS_EmptySet DEF Init
  <2>2. ASSUME NEW i \in Instances PROVE Cardinality({e \in claimed : i \in Matches[e]}) = 0
    <3>1. {e \in claimed : i \in Matches[e]} = {}
      BY <2>1
    <3>. QED  BY <3>1, FS_EmptySet
  <2>. QED  BY <1>1, <2>1, <2>2 DEF OneResumePerAnswer
<1>. QED  BY <1>2, <1>3, <1>4, <1>5 DEF IndInv

LEMMA StutterInv ==
    ASSUME IndInv, UNCHANGED vars
    PROVE  Settled
<1>1. /\ inst' = inst /\ log' = log /\ claimed' = claimed /\ drv' = drv /\ crashes' = crashes
  BY DEF vars
<1>2. TypeOK'
  BY <1>1 DEF IndInv, TypeOK
<1>. QED  BY <1>1, <1>2, KeepsInvUnclaimed DEF Settled

LEMMA NextInv ==
    ASSUME IndInv, Next
    PROVE  Settled
<1>1. ASSUME NEW d \in Drivers, Work(d) PROVE Settled
  <2>1. PICK i \in Instances : Pick(d, i) \/ Step(d, i) \/ AfterFailure(d, i) \/ Compensation(d, i)
    BY <1>1 DEF Work
  <2>2. CASE Pick(d, i)
    BY <2>2, PickInv DEF Pick
  <2>3. CASE Step(d, i)
    BY <2>3, NotRunningInv, SkipStepInv, StepOkInv, EnterWaitInv, EndStepInv, StepFailsInv,
       FailRunawayInv DEF Step, NotRunning
  <2>4. CASE AfterFailure(d, i)
    BY <2>4, NotRunningInv, FailureRetriesInv, FailureRoutedInv, FailureEndsInv
       DEF AfterFailure, FailureOvertaken
  <2>5. CASE Compensation(d, i)
    BY <2>5, CompSkippedInv, CompDoneInv, CompFailsInv, CompFailureLoggedInv, CompEndsInv
       DEF Compensation
  <2>. QED  BY <2>1, <2>2, <2>3, <2>4, <2>5
<1>2. ASSUME NEW d \in Drivers, Calls(d) PROVE Settled
  BY <1>2, StartInv, PickInv, CompensateInv, ResumeInv DEF Calls, Run
<1>3. ASSUME NEW d \in Sweepers, NEW i \in Instances, Sweep(d, i) PROVE Settled
  <2>1. d \in Drivers
    BY EngineAssumption
  <2>. QED  BY <2>1, <1>3, SweepTimedOutInv, SweepExpiredInv, SweepRunningInv, SweepCompensatingInv DEF Sweep
<1>. QED  BY <1>1, <1>2, <1>3, CrashInv, TimeInv, CancelInv DEF Next

\* The facts the engine's transactions rest on hold in every reachable state.
THEOREM Inductive == Spec => []IndInv
<1>1. IndInv /\ [Next]_vars => IndInv'
  BY NextInv, StutterInv DEF Settled
<1>. QED  BY <1>1, InitInv, PTL DEF Spec

\* The instance rows, the step log and what every driver carries between its
\* transactions (run, after_failure, compensate) keep their types.
THEOREM TypeCorrect == Spec => []TypeOK
<1>1. IndInv => TypeOK
  BY DEF IndInv
<1>. QED  BY <1>1, Inductive, PTL

\* However many drivers are in compensate for an instance, a step is undone at
\* most once, and only if it completed.
THEOREM UndoneOnce == Spec => []CompensatedOnce
<1>1. IndInv => CompensatedOnce
  BY DEF IndInv, RowOK, CompensatedOnce
<1>. QED  BY <1>1, Inductive, PTL

\* An instance that reads compensated has been undone completely, although
\* its drivers fail, crash, overlap and are cancelled.
THEOREM CompensatedIsUndone ==
    ASSUME CompensatesEnded
    PROVE  Spec => []CompensatedMeansUndone
<1>1. IndInv => CompensatedMeansUndone
  BY DEF IndInv, RowOK, CompensatedMeansUndone
<1>. QED  BY <1>1, Inductive, PTL

\* An event moves an instance on at most once, however often the relay
\* delivers it to on_event.
THEOREM ResumesOnce == Spec => []OneResumePerAnswer
<1>1. IndInv => OneResumePerAnswer
  BY DEF IndInv
<1>. QED  BY <1>1, Inductive, PTL

\* A waiting instance is on a wait step and carries that step's timer, whatever
\* resume, sweep_due and slow drivers did to it.
THEOREM WaitsWhereItWaits == Spec => []WaitsOnWaitStep
<1>1. IndInv => WaitsOnWaitStep
  BY DEF IndInv, RowOK, WaitsOnWaitStep
<1>. QED  BY <1>1, Inductive, PTL

\* No late driver (run, after_failure), sweep or cancel brings an ended
\* instance back.
THEOREM FinalStays == Spec => FinalIsFinal
<1>1. IndInv /\ [Next]_vars =>
        [\A i \in Instances : inst[i].status \in Final =>
          \/ inst'[i].status = inst[i].status
          \/ inst[i].status = "failed" /\ inst'[i].status = "compensated"]_vars
  <2>. SUFFICES ASSUME IndInv, Next, NEW i \in Instances, inst[i].status \in Final
                PROVE  \/ inst'[i].status = inst[i].status
                       \/ inst[i].status = "failed" /\ inst'[i].status = "compensated"
    OBVIOUS
  <2>1. RowStep(i)
    BY NextInv DEF Settled
  <2>. QED  BY <2>1 DEF RowStep, Closed
<1>. QED  BY <1>1, Inductive, PTL DEF Spec, FinalIsFinal

\* A driver that still holds an ended instance runs no further step of it: run
\* reads the status again under the row lock.
THEOREM EndedIsLeftAlone == Spec => EndedRunsNothing
<1>1. IndInv /\ [Next]_vars =>
        [\A i \in Instances : inst[i].status \in Final \cup {"compensating"} =>
          /\ log'[i].ran = log[i].ran /\ log'[i].routed = log[i].routed
          /\ inst'[i].step = inst[i].step]_vars
  <2>. SUFFICES ASSUME IndInv, Next, NEW i \in Instances, inst[i].status \in Final \cup {"compensating"}
                PROVE  /\ log'[i].ran = log[i].ran /\ log'[i].routed = log[i].routed
                       /\ inst'[i].step = inst[i].step
    OBVIOUS
  <2>1. RowStep(i)
    BY NextInv DEF Settled
  <2>. QED  BY <2>1 DEF RowStep, Closed
<1>. QED  BY <1>1, Inductive, PTL DEF Spec, EndedRunsNothing
=============================================================================
