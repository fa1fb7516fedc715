--------------------------- MODULE WorkflowEngine ---------------------------
(***************************************************************************)
(* The durable workflow engine of backbone-core: instances of one compiled *)
(* workflow whose rows live in bb_workflow_instances and whose step log    *)
(* lives in bb_workflow_steps, moved on by any number of drivers.  A       *)
(* driver is a task of the process: a relay delivering an event, the timer *)
(* sweep, or a caller of run or compensate.                                *)
(*                                                                         *)
(* Every transaction of the engine first takes the row lock of its         *)
(* instance, so a transaction is one action; what a driver carries from    *)
(* one transaction to the next (a failure, its place in the compensation)  *)
(* is the driver's own state, and may be stale by then.                    *)
(*                                                                         *)
(* The workflow is a graph of steps.  Expressions, templates and contexts  *)
(* are left out: a guard, a branch and the answer of an action are         *)
(* choices.                                                                *)
(***************************************************************************)
EXTENDS Naturals, FiniteSets

CONSTANTS
    Instances,      \* instances, each named by the event that triggers it
    Answers,        \* events that waits are waiting for
    Matches,        \* Matches[e]: the instances whose wait key event e matches
    Drivers,        \* tasks that may drive an instance
    Sweepers,       \* the drivers that are runs of the timer sweep
    Steps,          \* the steps of the workflow
    First,          \* the first of them
    Kind,           \* action (or transition), condition, wait or end
    Guarded,        \* action steps with a guard
    TimedCall,      \* action steps with a call_timeout
    OnSuccess,      \* on_success.next of an action, on_event.next of a wait
    Branches,       \* Branches[s]: the successors of a condition
    OnFailure,      \* on_failure.next
    OnExhausted,    \* on_failure.on_exhausted.next
    OnTimeout,      \* on_timeout.next of an action or of a wait
    WaitEvent,      \* wait steps that name an event (the others are timers)
    WaitTimeout,    \* wait steps with a timeout
    MaxAttempts,    \* retry.max_attempts of a step
    End,            \* the status an end step gives
    Undo,           \* end steps with compensate: true
    LastComp,       \* number of compensation steps
    CompFor,        \* CompFor[c]: the step whose completion compensation c undoes
    HasDeadline,    \* the workflow has a timeout
    MaxSteps,       \* EngineConfig::max_steps
    CompensateOn,   \* the statuses in which somebody calls compensate
    MaxCrashes      \* bound: drivers lost to a crash or a database error

NoStep == "none"
Runaway == "(runaway)"
NoInst == "none"
NoFailure == [step |-> NoStep, kind |-> "none"]
Comps == 1..LastComp

Live == {"running", "waiting", "compensating"}
Final == {"completed", "failed", "expired", "compensated", "cancelled"}
Status == {"new"} \cup Live \cup Final
Clock == {"no", "later", "past"}

ASSUME GraphAssumption ==
    /\ First \in Steps /\ NoStep \notin Steps /\ Runaway \notin Steps
    /\ NoInst \notin Instances
    /\ Kind \in [Steps -> {"action", "condition", "wait", "end"}]
    /\ Guarded \cup TimedCall \subseteq Steps 
    /\ WaitEvent \cup WaitTimeout \subseteq Steps /\ Undo \subseteq Steps
    /\ OnSuccess \in [Steps -> Steps] /\ Branches \in [Steps -> SUBSET Steps]
    /\ OnFailure \in [Steps -> Steps \cup {NoStep}]
    /\ OnExhausted \in [Steps -> Steps \cup {NoStep}]
    /\ OnTimeout \in [Steps -> Steps \cup {NoStep}]
    /\ MaxAttempts \in [Steps -> Nat]
    /\ End \in [Steps -> {"completed", "failed", "expired", "cancelled"}]
ASSUME CompAssumption == LastComp \in Nat /\ CompFor \in [1..LastComp -> Steps]
ASSUME EngineAssumption ==
    /\ Sweepers \subseteq Drivers /\ Matches \in [Answers -> SUBSET Instances]
    /\ MaxSteps \in Nat \ {0} /\ MaxCrashes \in Nat
    /\ HasDeadline \in BOOLEAN
    /\ CompensateOn \subseteq Status

VARIABLES
    inst,       \* rows of bb_workflow_instances
    log,        \* what bb_workflow_steps says of each instance
    claimed,    \* inbox_consumed: answers already claimed by this workflow
    drv,        \* the drivers
    crashes     \* drivers lost so far

vars == <<inst, log, claimed, drv, crashes>>

(***************************************************************************)
(* due is wait_due_at (the timeout of a wait, the backoff of a failed      *)
(* step), deadline is deadline_at, stale says that updated_at is older     *)
(* than stall_after, each as the database's now() sees it.  ran holds the  *)
(* steps that completed() reads (ok, resumed, timed_out), resumed counts   *)
(* the resumes; routed holds the steps whose failure sent the instance on; *)
(* undone counts the rows compensated and notUndone holds the rows         *)
(* compensation_failed.                                                    *)
(***************************************************************************)
InstType == [status : Status, step : Steps \cup {NoStep}, attempts : Nat,
             due : Clock, deadline : Clock, stale : BOOLEAN]
LogType == [ran : SUBSET Steps, resumed : Nat, routed : SUBSET Steps,
            undone : [Comps -> Nat], notUndone : SUBSET Comps]
DrvType == [pc : {"idle", "step", "failed", "comp", "compfailed"},
            on : Instances \cup {NoInst}, queue : SUBSET Instances, n : 0..MaxSteps,
            fail : [step : Steps \cup {NoStep, Runaway},
                    kind : {"none", "business", "transient", "timed_out"}],
            k : 0..LastComp, bad : BOOLEAN]

TypeOK ==
    /\ inst \in [Instances -> InstType]
    /\ log \in [Instances -> LogType]
    /\ claimed \subseteq Answers
    /\ drv \in [Drivers -> DrvType]
    /\ crashes \in 0..MaxCrashes

IdleDriver == [pc |-> "idle", on |-> NoInst, queue |-> {}, n |-> 0,
               fail |-> NoFailure, k |-> 0, bad |-> FALSE]

Init ==
    /\ inst = [i \in Instances |->
                 [status |-> "new", step |-> NoStep, attempts |-> 0,
                  due |-> "no", deadline |-> "no", stale |-> FALSE]]
    /\ log = [i \in Instances |->
                [ran |-> {}, resumed |-> 0, routed |-> {},
                 undone |-> [c \in Comps |-> 0], notUndone |-> {}]]
    /\ claimed = {}
    /\ drv = [d \in Drivers |-> IdleDriver]
    /\ crashes = 0

Completed(i) == log[i].ran

Free(d) == drv[d].pc = "idle" /\ drv[d].queue = {}
Driving(d, i) == drv[d].on = i

(***************************************************************************)
(* What a driver does next.                                                *)
(***************************************************************************)
StartsDriving(d, i) ==
    drv' = [drv EXCEPT ![d] = [IdleDriver EXCEPT !.pc = "step", !.on = i,
                                                 !.queue = drv[d].queue \ {i}]]

StartsCompensating(d, i) ==
    drv' = [drv EXCEPT ![d] = [IdleDriver EXCEPT !.pc = "comp", !.on = i, !.k = LastComp,
                                                 !.queue = drv[d].queue]]

\* StepEnd::Advanced: the loop of drive goes on.
DrivesOn(d) ==
    drv' = [drv EXCEPT ![d].pc = "step", ![d].n = @ + 1, ![d].fail = NoFailure]

\* StepEnd::Paused, Finished or Gone: on to the next instance of the event.
LetsGo(d) ==
    drv' = [drv EXCEPT ![d] = [IdleDriver EXCEPT !.queue = drv[d].queue]]

(***************************************************************************)
(* Changes of an instance's row.                                           *)
(***************************************************************************)

\* advance, and the UPDATE of leave_wait.
Advanced(r, s) ==
    [r EXCEPT !.status = "running", !.step = s, !.attempts = 0, !.due = "no", !.stale = FALSE]

Ended(r, st) == [r EXCEPT !.status = st, !.due = "no", !.stale = FALSE]

LogRan(i, s) == log' = [log EXCEPT ![i].ran = @ \cup {s}]

(***************************************************************************)
(* Events (handle_event).  An event that already started an instance or    *)
(* was already claimed changes nothing.                                    *)
(***************************************************************************)
Start(d, i) ==
    /\ Free(d) /\ d \notin Sweepers
    /\ inst[i].status = "new"       \* ON CONFLICT (workflow, trigger_event_id) DO NOTHING
    /\ inst' = [inst EXCEPT ![i].status = "running", ![i].step = First,
                            ![i].deadline = IF HasDeadline THEN "later" ELSE "no"]
    /\ drv' = [drv EXCEPT ![d].queue = {i}]
    /\ UNCHANGED <<log, claimed, crashes>>

\* The instances an event takes out of their wait.
WaitingFor(e) ==
    {i \in Matches[e] : inst[i].status = "waiting" /\ inst[i].step \in WaitEvent}

\* Mutant of Resumable: the claim of the inbox is not looked at.
ResumableUnclaimed(e) == WaitingFor(e)

Resumable(e) == IF e \in claimed THEN {} ELSE WaitingFor(e)

\* All of them resume in one transaction with the claim.
Resume(d, e) ==
    /\ Free(d) /\ d \notin Sweepers
    /\ claimed' = claimed \cup {e}
    /\ inst' = [i \in Instances |-> IF i \in Resumable(e)
                                    THEN Advanced(inst[i], OnSuccess[inst[i].step])
                                    ELSE inst[i]]
    /\ log' = [i \in Instances |-> IF i \in Resumable(e)
                                   THEN [log[i] EXCEPT !.ran = @ \cup {inst[i].step},
                                                       !.resumed = @ + 1]
                                   ELSE log[i]]
    /\ drv' = [drv EXCEPT ![d].queue = Resumable(e)]
    /\ UNCHANGED crashes

\* The next of the instances the event started or resumed.
Pick(d, i) ==
    /\ drv[d].pc = "idle" /\ i \in drv[d].queue
    /\ StartsDriving(d, i)
    /\ UNCHANGED <<inst, log, claimed, crashes>>

\* run: somebody drives an instance, whoever else may be driving it.
Run(d, i) ==
    /\ Free(d) /\ d \notin Sweepers
    /\ inst[i].status # "new"
    /\ StartsDriving(d, i)
    /\ UNCHANGED <<inst, log, claimed, crashes>>

(***************************************************************************)
(* One step (run_one), in one transaction.                                 *)
(***************************************************************************)
AtStep(d, i) == drv[d].pc = "step" /\ Driving(d, i) /\ drv[d].n < MaxSteps

\* Mutant of Runs: the step looks at the instance it read before.
RunsWhatever(d, i) == AtStep(d, i) /\ inst[i].status # "new"

\* The driver's transaction holds the row and finds the instance running.
Runs(d, i) == AtStep(d, i) /\ inst[i].status = "running"

\* Somebody else moved the instance on to a pause or an end.
NotRunning(d, i) ==
    /\ AtStep(d, i) /\ inst[i].status # "running"
    /\ LetsGo(d)
    /\ UNCHANGED <<inst, log, claimed, crashes>>

\* A guard that does not hold: no effect, not completed.
SkipStep(d, i) ==
    LET s == inst[i].step IN
    /\ Runs(d, i) /\ s \in Guarded /\ Kind[s] = "action"
    /\ inst' = [inst EXCEPT ![i] = Advanced(@, OnSuccess[s])]
    /\ DrivesOn(d)
    /\ UNCHANGED <<log, claimed, crashes>>

\* An action, a transition or a condition succeeds.
StepOk(d, i) ==
    LET s == inst[i].step IN
    /\ Runs(d, i)
    /\ \E next \in IF Kind[s] = "action" THEN {OnSuccess[s]}
                    ELSE IF Kind[s] = "condition" THEN Branches[s] ELSE {} :
          inst' = [inst EXCEPT ![i] = Advanced(@, next)]
    /\ LogRan(i, s)
    /\ DrivesOn(d)
    /\ UNCHANGED <<claimed, crashes>>

EnterWait(d, i) ==
    LET s == inst[i].step IN
    /\ Runs(d, i) /\ Kind[s] = "wait"
    /\ inst' = [inst EXCEPT ![i].status = "waiting", ![i].attempts = 0, ![i].stale = FALSE,
                            ![i].due = IF s \in WaitTimeout THEN "later" ELSE "no"]
    /\ LetsGo(d)
    /\ UNCHANGED <<log, claimed, crashes>>

\* An end step; a failed one may hand over to compensation.
EndStep(d, i) ==
    LET s == inst[i].step
        undo == s \in Undo /\ End[s] = "failed" /\ LastComp > 0 IN
    /\ Runs(d, i) /\ Kind[s] = "end"
    /\ inst' = [inst EXCEPT ![i] = Ended(@, IF undo THEN "compensating" ELSE End[s])]
    /\ IF undo THEN StartsCompensating(d, i) ELSE LetsGo(d)
    /\ UNCHANGED <<log, claimed, crashes>>

\* How a step may fail: an expression, a refused call, an unreachable
\* service, or a call that outlasts its timeout.
FailKinds(s) ==
    {"business"}
      \cup (IF Kind[s] \in {"action", "end"} THEN {"transient"} ELSE {})
      \cup (IF Kind[s] = "action" /\ s \in TimedCall THEN {"timed_out"} ELSE {})

\* The step's transaction rolls back; the driver is left with the failure.
StepFails(d, i) ==
    /\ Runs(d, i)
    /\ \E kind \in FailKinds(inst[i].step) :
          drv' = [drv EXCEPT ![d].pc = "failed",
                             ![d].fail = [step |-> inst[i].step, kind |-> kind]]
    /\ UNCHANGED <<inst, log, claimed, crashes>>

\* The loop of drive is used up: the cycle counts as a failure.
FailRunaway(d, i) ==
    /\ drv[d].pc = "step" /\ Driving(d, i) /\ drv[d].n = MaxSteps
    /\ drv' = [drv EXCEPT ![d].pc = "failed",
                          ![d].fail = [step |-> Runaway, kind |-> "business"]]
    /\ UNCHANGED <<inst, log, claimed, crashes>>

(***************************************************************************)
(* after_failure: the failure is recorded and decided in a transaction of  *)
(* its own, which looks at the status of the instance, not at its step.    *)
(***************************************************************************)
\* A call that outlasted its timeout and has an on_timeout does not retry.
TakesTimeout(f) == f.kind = "timed_out" /\ OnTimeout[f.step] # NoStep

RetriesLater(f, attempts) ==
    /\ f.kind \in {"transient", "timed_out"} /\ ~TakesTimeout(f)
    /\ attempts + 1 < MaxAttempts[f.step]

Route(f) ==
    IF f.step = Runaway THEN NoStep
    ELSE IF TakesTimeout(f) THEN OnTimeout[f.step]
    ELSE IF f.kind # "business" /\ OnExhausted[f.step] # NoStep THEN OnExhausted[f.step]
    ELSE OnFailure[f.step]

AtFailure(d, i) == drv[d].pc = "failed" /\ Driving(d, i)

\* Mutant of Fails: the status of the instance is not read again.
FailsWhatever(d, i) == AtFailure(d, i) /\ inst[i].status # "new"

Fails(d, i) == AtFailure(d, i) /\ inst[i].status = "running"

FailureOvertaken(d, i) ==
    /\ AtFailure(d, i) /\ inst[i].status # "running"
    /\ LetsGo(d)
    /\ UNCHANGED <<inst, log, claimed, crashes>>

FailureRetries(d, i) ==
    /\ Fails(d, i) /\ RetriesLater(drv[d].fail, inst[i].attempts)
    /\ inst' = [inst EXCEPT ![i].attempts = @ + 1, ![i].due = "later", ![i].stale = FALSE]
    /\ LetsGo(d)
    /\ UNCHANGED <<log, claimed, crashes>>

FailureRouted(d, i) ==
    LET f == drv[d].fail IN
    /\ Fails(d, i) /\ ~RetriesLater(f, inst[i].attempts)
    /\ Route(f) # NoStep
    /\ inst' = [inst EXCEPT ![i] = Advanced(@, Route(f))]
    /\ log' = [log EXCEPT ![i].routed = @ \cup {f.step}]
    /\ DrivesOn(d)
    /\ UNCHANGED <<claimed, crashes>>

\* Nowhere to go: the instance fails, and compensates what completed.
FailureEnds(d, i) ==
    LET f == drv[d].fail
        row == Ended(inst[i], IF LastComp = 0 THEN "failed" ELSE "compensating") IN
    /\ Fails(d, i) /\ ~RetriesLater(f, inst[i].attempts)
    /\ Route(f) = NoStep
    /\ inst' = [inst EXCEPT ![i] = [row EXCEPT !.attempts = inst[i].attempts + 1]]
    /\ IF LastComp = 0 THEN LetsGo(d) ELSE StartsCompensating(d, i)
    /\ UNCHANGED <<log, claimed, crashes>>

(***************************************************************************)
(* Compensation (compensate_company): the steps last declared first, each  *)
(* in a transaction of its own, then one that decides how it ended.        *)
(***************************************************************************)

\* compensate: somebody asks for the compensation of an instance.
Compensate(d, i) ==
    /\ Free(d) /\ d \notin Sweepers
    /\ inst[i].status \in CompensateOn \ {"new"}
    /\ StartsCompensating(d, i)
    /\ UNCHANGED <<inst, log, claimed, crashes>>

AtComp(d, i) == drv[d].pc = "comp" /\ Driving(d, i)

\* The loop goes on with the compensation declared before.
NextComp(d) == drv' = [drv EXCEPT ![d].pc = "comp", ![d].k = @ - 1]

\* Mutant of NeedsUndo: the log is not asked whether it was done already.
NeedsUndoAgain(i, c) ==
    /\ inst[i].status \in {"compensating", "failed", "compensated"}
    /\ CompFor[c] \in Completed(i)

\* Mutant of NeedsUndo: a dropped condition undoes what never happened.
NeedsUndoUnconditionally(i, c) ==
    /\ inst[i].status \in {"compensating", "failed", "compensated"}
    /\ log[i].undone[c] = 0

NeedsUndo(i, c) ==
    /\ inst[i].status \in {"compensating", "failed", "compensated"}
    /\ log[i].undone[c] = 0
    /\ CompFor[c] \in Completed(i)

CompSkipped(d, i) ==
    /\ AtComp(d, i) /\ drv[d].k > 0
    /\ ~NeedsUndo(i, drv[d].k)
    /\ NextComp(d)
    /\ UNCHANGED <<inst, log, claimed, crashes>>

\* The undoing action and its row compensated commit together.
CompDone(d, i) ==
    /\ AtComp(d, i) /\ drv[d].k > 0
    /\ NeedsUndo(i, drv[d].k)
    /\ log' = [log EXCEPT ![i].undone[drv[d].k] = @ + 1]
    /\ NextComp(d)
    /\ UNCHANGED <<inst, claimed, crashes>>

CompFails(d, i) ==
    /\ AtComp(d, i) /\ drv[d].k > 0
    /\ NeedsUndo(i, drv[d].k)
    /\ drv' = [drv EXCEPT ![d].pc = "compfailed", ![d].bad = TRUE]
    /\ UNCHANGED <<inst, log, claimed, crashes>>

\* The failure is logged in a transaction of its own, whose own failure is
\* ignored.
CompFailureLogged(d, i) ==
    /\ drv[d].pc = "compfailed" /\ Driving(d, i)
    /\ \/ /\ log' = [log EXCEPT ![i].notUndone = @ \cup {drv[d].k}]
          /\ UNCHANGED crashes
       \/ /\ crashes < MaxCrashes /\ crashes' = crashes + 1
          /\ UNCHANGED log
    /\ NextComp(d)
    /\ UNCHANGED <<inst, claimed>>

\* Mutant of LeftUndone: only the log is asked, and its write may have failed.
LeftUndoneByLog(d, i) == \E c \in log[i].notUndone : log[i].undone[c] = 0

\* Something this run, or an earlier one, could not undo.
LeftUndone(d, i) ==
    drv[d].bad \/ \E c \in log[i].notUndone : log[i].undone[c] = 0

CompEnds(d, i) ==
    /\ AtComp(d, i) /\ drv[d].k = 0
    /\ inst' = IF inst[i].status \in {"compensating", "failed"}
               THEN [inst EXCEPT ![i].status = IF LeftUndone(d, i) THEN "failed" ELSE "compensated",
                                 ![i].stale = FALSE]
               ELSE inst
    /\ LetsGo(d)
    /\ UNCHANGED <<log, claimed, crashes>>

(***************************************************************************)
(* The timer sweep (sweep_due, claim_due).  An instance is claimed when    *)
(* the due predicate holds of the row the claim locks.                     *)
(*                                                                         *)
(* Two clocks decide what becomes of a wait: the database's now() selects  *)
(* the row, the application's Utc::now() then says whether the timeout of  *)
(* the wait passed.  They need not agree, so either answer is possible for *)
(* a wait with a timeout.                                                  *)
(***************************************************************************)
WaitIsDue(i) ==
    inst[i].status = "waiting" /\ (inst[i].due = "past" \/ inst[i].deadline = "past")

\* The application's clock calls the wait timed out: it takes its on_timeout.
\* Without one the claim fails, is logged and changes nothing.
SweepTimedOut(d, i) ==
    LET s == inst[i].step IN
    /\ Free(d) /\ WaitIsDue(i) /\ inst[i].due # "no"
    /\ OnTimeout[s] # NoStep
    /\ inst' = [inst EXCEPT ![i] = Advanced(@, OnTimeout[s])]
    /\ LogRan(i, s)
    /\ StartsDriving(d, i)
    /\ UNCHANGED <<claimed, crashes>>

\* It does not, or the wait has no timeout: the instance expires.  The
\* deadline itself is not looked at.
SweepExpired(d, i) ==
    /\ Free(d) /\ WaitIsDue(i)
    /\ inst' = [inst EXCEPT ![i] = Ended(@, "expired")]
    /\ UNCHANGED <<log, claimed, drv, crashes>>

\* Mutant of SweepRunning: an instance nobody drives is not looked for.
SweepRetriesOnly(d, i) ==
    /\ Free(d) /\ inst[i].status = "running" /\ inst[i].due = "past"
    /\ inst' = [inst EXCEPT ![i].due = "no", ![i].stale = FALSE]
    /\ StartsDriving(d, i)
    /\ UNCHANGED <<log, claimed, crashes>>

\* The backoff of a failed step passed, or nobody drives the instance.
SweepRunning(d, i) ==
    /\ Free(d) /\ inst[i].status = "running"
    /\ \/ inst[i].due = "past"
       \/ inst[i].due = "no" /\ inst[i].stale
    /\ inst' = [inst EXCEPT ![i].due = "no", ![i].stale = FALSE]
    /\ StartsDriving(d, i)
    /\ UNCHANGED <<log, claimed, crashes>>

SweepCompensating(d, i) ==
    /\ Free(d) /\ inst[i].status = "compensating" /\ inst[i].stale
    /\ inst' = [inst EXCEPT ![i].stale = FALSE]
    /\ StartsCompensating(d, i)
    /\ UNCHANGED <<log, claimed, crashes>>

Sweep(d, i) ==
    SweepTimedOut(d, i) \/ SweepExpired(d, i) \/ SweepRunning(d, i) \/ SweepCompensating(d, i)

(***************************************************************************)
(* The operator, time, and what ends a driver early.                       *)
(***************************************************************************)
Cancel(i) ==
    /\ inst[i].status \in Live
    /\ inst' = [inst EXCEPT ![i] = Ended(@, "cancelled")]
    /\ UNCHANGED <<log, claimed, drv, crashes>>

WaitElapses(i) ==
    /\ inst[i].due = "later"
    /\ inst' = [inst EXCEPT ![i].due = "past"]
    /\ UNCHANGED <<log, claimed, drv, crashes>>

\* The deadline only matters where the due predicate reads deadline_at.
DeadlinePasses(i) ==
    /\ inst[i].status = "waiting" /\ inst[i].deadline = "later"
    /\ inst' = [inst EXCEPT ![i].deadline = "past"]
    /\ UNCHANGED <<log, claimed, drv, crashes>>

\* And time to stall only where it reads updated_at.
GoesStale(i) ==
    /\ inst[i].status \in {"running", "compensating"} /\ ~inst[i].stale
    /\ inst' = [inst EXCEPT ![i].stale = TRUE]
    /\ UNCHANGED <<log, claimed, drv, crashes>>

\* The process dies, or a database error is returned to the caller: what the
\* driver held is lost, its open transaction rolls back.
Crash(d) ==
    /\ ~Free(d) /\ crashes < MaxCrashes
    /\ crashes' = crashes + 1
    /\ drv' = [drv EXCEPT ![d] = IdleDriver]
    /\ UNCHANGED <<inst, log, claimed>>

Step(d, i) ==
    \/ NotRunning(d, i) \/ SkipStep(d, i) \/ StepOk(d, i) \/ EnterWait(d, i)
    \/ EndStep(d, i) \/ StepFails(d, i) \/ FailRunaway(d, i)

AfterFailure(d, i) ==
    \/ FailureOvertaken(d, i) \/ FailureRetries(d, i)
    \/ FailureRouted(d, i) \/ FailureEnds(d, i)

Compensation(d, i) ==
    \/ CompSkipped(d, i) \/ CompDone(d, i) \/ CompFails(d, i)
    \/ CompFailureLogged(d, i) \/ CompEnds(d, i)

\* What a driver that has something to do does.
Work(d) ==
    \E i \in Instances : Pick(d, i) \/ Step(d, i) \/ AfterFailure(d, i) \/ Compensation(d, i)

Calls(d) ==
    \/ \E i \in Instances : Start(d, i) \/ Run(d, i) \/ Compensate(d, i)
    \/ \E e \in Answers : Resume(d, e)

Time(i) == WaitElapses(i) \/ DeadlinePasses(i) \/ GoesStale(i)

Next ==
    \/ \E d \in Drivers : Work(d) \/ Calls(d) \/ Crash(d)
    \/ \E d \in Sweepers, i \in Instances : Sweep(d, i)
    \/ \E i \in Instances : Time(i) \/ Cancel(i)

Spec == Init /\ [][Next]_vars

(***************************************************************************)
(* Fairness: a task that is running goes on; time passes; the sweep runs   *)
(* every minute and claims every due instance it lists (as long as no more *)
(* than sweep_batch are due), so an instance that keeps being due is       *)
(* claimed.  Nothing is assumed of events and operators.                   *)
(***************************************************************************)
Fairness ==
    /\ \A d \in Drivers : WF_vars(Work(d))
    /\ \A i \in Instances :
          /\ SF_vars(\E d \in Sweepers : Sweep(d, i))
          /\ WF_vars(WaitElapses(i)) /\ WF_vars(DeadlinePasses(i)) /\ WF_vars(GoesStale(i))

FairSpec == Spec /\ Fairness

(***************************************************************************)
(* Properties.                                                             *)
(***************************************************************************)

\* However many drivers compensate an instance at the same time, and however
\* often compensation is started again, a step is undone at most once, and
\* only if it completed (compensate: "skipping any already compensated").
CompensatedOnce ==
    \A i \in Instances, c \in Comps :
        /\ log[i].undone[c] <= 1
        /\ log[i].undone[c] > 0 => CompFor[c] \in Completed(i)

\* An instance that reads compensated has been undone completely, although
\* its drivers fail, crash and overlap (compensate: "Ends compensated, or
\* failed with the reason when a step could not be undone").
CompensatedMeansUndone ==
    \A i \in Instances : inst[i].status = "compensated" =>
        \A c \in Comps : CompFor[c] \in Completed(i) => log[i].undone[c] = 1

\* No late driver, sweep or operator brings an ended instance back: a final
\* status never changes, except that a failed instance may be compensated.
FinalIsFinal ==
    [][\A i \in Instances : inst[i].status \in Final =>
          \/ inst'[i].status = inst[i].status
          \/ inst[i].status = "failed" /\ inst'[i].status = "compensated"]_vars

\* A driver that still holds an instance somebody else has ended, or failed,
\* runs no further step of it and routes no failure of it.
EndedRunsNothing ==
    [][\A i \in Instances : inst[i].status \in Final \cup {"compensating"} =>
          /\ log'[i].ran = log[i].ran /\ log'[i].routed = log[i].routed
          /\ inst'[i].step = inst[i].step]_vars

\* An event moves an instance on at most once, however often it is delivered
\* and however many waits of the instance it matches (on_event: "a resume
\* already claimed does nothing").
OneResumePerAnswer ==
    \A i \in Instances :
        log[i].resumed <= Cardinality({e \in claimed : i \in Matches[e]})

\* A waiting instance is on a wait step and its timer is the one of that step:
\* the errors claim_due reports otherwise cannot happen, whatever failures
\* stale drivers still route.
WaitsOnWaitStep ==
    \A i \in Instances : inst[i].status = "waiting" =>
        /\ Kind[inst[i].step] = "wait"
        /\ inst[i].due # "no" <=> inst[i].step \in WaitTimeout

Active(i) == inst[i].status \in {"running", "compensating"}
BacksOff(i) == inst[i].status = "running" /\ inst[i].due # "no"

\* An instance that runs or compensates comes to rest, in a wait or at its
\* end, although drivers crash between any two transactions, steps are
\* retried and the workflow has a cycle (sweep: "an instance found running or
\* compensating with nobody driving it is driven on").  The one exception is
\* an instance that is backed off again and again for ever: max_steps counts
\* the steps of one drive, and each retry is a new one.
ComesToRest ==
    \A i \in Instances :
        \/ Active(i) ~> ~Active(i)
        \/ []<>BacksOff(i) /\ []<>~BacksOff(i)

\* What the code does not keep: the same without the exception.  A cycle
\* whose call fails transiently once per turn never ends.
AlwaysRests == \A i \in Instances : Active(i) ~> ~Active(i)

\* What the code does not keep: the sweep expires an instance in a wait only
\* past its deadline (sweep: "instances past their deadline expire").  The
\* database's clock may call a wait due that the application's does not.
ExpiresOnlyPastDeadline ==
    \A i \in Instances :
        inst[i].status = "expired" /\ Kind[inst[i].step] = "wait" => inst[i].deadline = "past"

\* Either a step completes or its failure is routed, never both, although
\* several drivers run the instance (run: "Safe to call for an instance
\* somebody else is driving").  Stated of workflows without cycles.
StepOrFallback ==
    \A i \in Instances : Completed(i) \cap log[i].routed = {}
=============================================================================
