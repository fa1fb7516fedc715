---------------------------- MODULE JobScheduler ----------------------------
(***************************************************************************)
(* The job scheduler of backbone-jobs: background loops that poll the job  *)
(* storage and execute what is due, and callers that trigger, pause,       *)
(* resume, cancel or unschedule a job at the same time.                    *)
(*                                                                         *)
(* Storage calls are atomic; between two of them a task works on its own   *)
(* copy of the job and writes the whole copy back.                         *)
(***************************************************************************)
EXTENDS Naturals, FiniteSets

CONSTANTS
    Jobs,         \* job ids, each scheduled at most once
    Loops,        \* background tasks start may spawn
    Callers,      \* tasks that call the scheduler's operations
    Ops,          \* the operations they call
    MaxAttempts,  \* Job::max_attempts
    Slots,        \* max_concurrent_jobs
    MaxOps        \* bound: calls of operations, start and stop included

Tasks == Loops \cup Callers
NoJob == "none"
AllOps == {"trigger", "pause", "resume", "cancel", "update", "unschedule", "stop"}

ASSUME SchedulerAssumption ==
    /\ Loops \cap Callers = {} /\ Ops \subseteq AllOps /\ NoJob \notin Jobs
    /\ MaxAttempts \in Nat /\ Slots \in Nat \ {0} /\ MaxOps \in Nat

VARIABLES
    store,      \* the job storage
    gone,       \* history: jobs that were deleted
    abandoned,  \* history: entries of active_jobs a dropped call left behind
    active,     \* SchedulerState::active_jobs
    running,    \* SchedulerState::is_running
    task,       \* the tasks
    ops         \* calls so far

vars == <<store, gone, abandoned, active, running, task, ops>>

JobStatus == {"scheduled", "running", "completed", "failed", "cancelled", "paused"}

\* next_run_time is "later" or "past"; failures is failure_count.
JobType == [status : JobStatus \cup {"absent"}, next : {"later", "past"}, failures : Nat]
Absent == [status |-> "absent", next |-> "later", failures |-> 0]

TaskType ==
    [pc : {"off", "check", "tick", "next", "begin", "enter", "work", "settle", "again", "leave",
           "free", "write", "delete"},
     list : SUBSET Jobs,            \* jobs of the poll still to execute
     copies : [Jobs -> JobType],    \* as the poll read them
     job : Jobs \cup {NoJob},
     copy : JobType,                \* the copy the task works on
     ok : BOOLEAN]                  \* the answer of the executor

TypeOK ==
    /\ store \in [Jobs -> JobType]
    /\ gone \subseteq Jobs /\ abandoned \subseteq Jobs /\ active \subseteq Jobs /\ running \in BOOLEAN
    /\ task \in [Tasks -> TaskType]
    /\ ops \in 0..MaxOps

NewTask(pc) == [pc |-> pc, list |-> {}, copies |-> [j \in Jobs |-> Absent],
                job |-> NoJob, copy |-> Absent, ok |-> FALSE]

Init ==
    /\ store = [j \in Jobs |-> Absent]
    /\ gone = {} /\ abandoned = {} /\ active = {} /\ running = FALSE
    /\ task = [t \in Tasks |-> NewTask(IF t \in Loops THEN "off" ELSE "free")]
    /\ ops = 0

Exists(j) == store[j].status # "absent"
Goto(t, pc) == task' = [task EXCEPT ![t].pc = pc]

\* Where a task goes when execute_single_job returns.
Return(t) ==
    task' = [task EXCEPT ![t] = IF t \in Loops
                                THEN [@ EXCEPT !.pc = "next", !.job = NoJob, !.copy = Absent, !.ok = FALSE]
                                ELSE NewTask("free")]

(***************************************************************************)
(* schedule_job, and the passing of a next_run_time.                       *)
(***************************************************************************)
ScheduleJob(j) ==
    /\ ~Exists(j) /\ j \notin gone
    /\ store' = [store EXCEPT ![j] = [status |-> "scheduled", next |-> "later", failures |-> 0]]
    /\ UNCHANGED <<gone, abandoned, active, running, task, ops>>

TimePasses(j) ==
    /\ Exists(j) /\ store[j].next = "later"
    /\ store' = [store EXCEPT ![j].next = "past"]
    /\ UNCHANGED <<gone, abandoned, active, running, task, ops>>

(***************************************************************************)
(* start, stop and the background loop.                                    *)
(***************************************************************************)
StartScheduler(t) ==
    /\ ~running /\ t \in Loops /\ task[t].pc = "off"
    /\ running' = TRUE
    /\ Goto(t, "check")
    /\ UNCHANGED <<store, gone, abandoned, active, ops>>

\* stop clears the flag; the loops notice it when they check it next.
StopScheduler ==
    /\ running /\ "stop" \in Ops /\ ops < MaxOps
    /\ running' = FALSE /\ ops' = ops + 1
    /\ UNCHANGED <<store, gone, abandoned, active, task>>

CheckRunning(t) ==
    /\ task[t].pc = "check"
    /\ Goto(t, IF running THEN "tick" ELSE "off")
    /\ UNCHANGED <<store, gone, abandoned, active, running, ops>>

Pending == {j \in Jobs : store[j].status = "scheduled" /\ store[j].next = "past"}

\* process_pending_jobs: as many of the pending jobs as there are free slots,
\* in the order of the storage.
Poll(t) ==
    LET free == IF Cardinality(active) >= Slots THEN 0 ELSE Slots - Cardinality(active)
        take == IF Cardinality(Pending) < free THEN Cardinality(Pending) ELSE free IN
    /\ task[t].pc = "tick"
    /\ \E list \in SUBSET Pending :
          /\ Cardinality(list) = take
          /\ task' = [task EXCEPT ![t].pc = "next", ![t].list = list,
                                  ![t].copies = [j \in Jobs |-> IF j \in list THEN store[j] ELSE Absent]]
    /\ UNCHANGED <<store, gone, abandoned, active, running, ops>>

\* The next job of the list, or back to the check of the loop.
NextOfPoll(t) ==
    /\ task[t].pc = "next"
    /\ \/ /\ task[t].list = {}
          /\ task' = [task EXCEPT ![t] = NewTask("check")]
       \/ \E j \in task[t].list :
             task' = [task EXCEPT ![t] = [task[t] EXCEPT
                        !.pc = "begin", !.job = j, !.copy = task[t].copies[j],
                        !.list = task[t].list \ {j}, !.copies = [task[t].copies EXCEPT ![j] = Absent]]]
    /\ UNCHANGED <<store, gone, abandoned, active, running, ops>>

(***************************************************************************)
(* execute_single_job.                                                     *)
(***************************************************************************)

\* The task has put its job into active_jobs and is still to take it out.
Executing(t) == task[t].pc \in {"work", "settle", "again", "leave"}

\* Mutant of Saved: the storage inserts what it does not find.
SavedAnyway(t, c) == store' = [store EXCEPT ![task[t].job] = c]

\* storage.update_job succeeds: the job still exists.
Saved(t, c) == Exists(task[t].job) /\ store' = [store EXCEPT ![task[t].job] = c]

\* It fails and the error is returned at once.
SaveFails(t) ==
    /\ task[t].pc \in {"begin", "settle", "again"} /\ ~Exists(task[t].job)
    /\ Return(t)
    /\ UNCHANGED <<store, gone, abandoned, active, running, ops>>

MarkRunning(t) ==
    LET c == [task[t].copy EXCEPT !.status = "running"] IN
    /\ task[t].pc = "begin" /\ task[t].copy.status = "scheduled"
    /\ Saved(t, c)
    /\ task' = [task EXCEPT ![t].pc = "enter", ![t].copy = c]
    /\ UNCHANGED <<gone, abandoned, active, running, ops>>

EnterActive(t) ==
    /\ task[t].pc = "enter"
    /\ active' = active \cup {task[t].job}
    /\ Goto(t, "work")
    /\ UNCHANGED <<store, gone, abandoned, running, ops>>

\* The executor hands the job to the queue, or fails to.
Execute(t) ==
    /\ task[t].pc = "work"
    /\ \E ok \in BOOLEAN : task' = [task EXCEPT ![t].pc = "settle", ![t].ok = ok]
    /\ UNCHANGED <<store, gone, abandoned, active, running, ops>>

\* mark_as_completed or mark_as_failed, written back as a whole.
Settle(t) ==
    LET c == [task[t].copy EXCEPT !.status = IF task[t].ok THEN "completed" ELSE "failed",
                                  !.failures = IF task[t].ok THEN @ ELSE @ + 1] IN
    /\ task[t].pc = "settle"
    /\ Saved(t, c)
    /\ task' = [task EXCEPT ![t].pc = "again", ![t].copy = c]
    /\ UNCHANGED <<gone, abandoned, active, running, ops>>

CanRetry(c) == c.status = "failed" /\ c.failures < MaxAttempts

\* The next run time of a completed job, or the retry of a failed one.
RunAgain(t) ==
    LET c == task[t].copy IN
    /\ task[t].pc = "again"
    /\ \/ task[t].ok /\ Saved(t, [c EXCEPT !.next = "later"])
       \/ CanRetry(c) /\ Saved(t, [c EXCEPT !.next = "later", !.status = "scheduled"])
       \/ ~task[t].ok /\ ~CanRetry(c) /\ UNCHANGED store
    /\ Goto(t, "leave")
    /\ UNCHANGED <<gone, abandoned, active, running, ops>>

\* Mutant of LeaveActive: the slot is only given back by a job that worked.
LeaveActiveIfOk(t) ==
    /\ task[t].pc = "leave"
    /\ active' = IF task[t].ok THEN active \ {task[t].job} ELSE active
    /\ abandoned' = IF task[t].ok THEN abandoned \ {task[t].job} ELSE abandoned
    /\ Return(t)
    /\ UNCHANGED <<store, gone, running, ops>>

LeaveActive(t) ==
    /\ task[t].pc = "leave"
    /\ active' = active \ {task[t].job} /\ abandoned' = abandoned \ {task[t].job}
    /\ Return(t)
    /\ UNCHANGED <<store, gone, running, ops>>

(***************************************************************************)
(* Operations: the job is read, changed and written back.                  *)
(***************************************************************************)
Calls(t, op, j) ==
    /\ t \in Callers /\ task[t].pc = "free" /\ op \in Ops /\ ops < MaxOps
    /\ Exists(j)
    /\ ops' = ops + 1

Trigger(t, j) ==
    /\ Calls(t, "trigger", j) /\ store[j].status = "scheduled"
    /\ task' = [task EXCEPT ![t].pc = "begin", ![t].job = j, ![t].copy = store[j]]
    /\ UNCHANGED <<store, gone, abandoned, active, running>>

\* pause, resume and cancel of Job, with their guards; update_job writes what
\* its caller read, with other fields of no interest here.
Changed(op, c) ==
    CASE op = "pause" -> [c EXCEPT !.status = "paused"]
      [] op = "cancel" -> [c EXCEPT !.status = "cancelled"]
      [] op = "resume" -> [c EXCEPT !.status = "scheduled", !.next = "later"]
      [] op = "update" -> c

Allowed(op, c) ==
    /\ op = "resume" => c.status = "paused"
    /\ op \in {"pause", "cancel"} => c.status \notin {"completed", "cancelled"}

ReadForChange(t, op, j) ==
    /\ op \in {"pause", "resume", "cancel", "update"} /\ Calls(t, op, j)
    /\ Allowed(op, store[j])
    /\ op = "update" => j \notin active
    /\ task' = [task EXCEPT ![t].pc = "write", ![t].job = j, ![t].copy = Changed(op, store[j])]
    /\ UNCHANGED <<store, gone, abandoned, active, running>>

WriteChange(t) ==
    /\ task[t].pc = "write"
    /\ IF Exists(task[t].job) THEN Saved(t, task[t].copy) ELSE UNCHANGED store
    /\ Return(t)
    /\ UNCHANGED <<gone, abandoned, active, running, ops>>

\* unschedule_job looks at active_jobs, then deletes.
ReadForDelete(t, j) ==
    /\ Calls(t, "unschedule", j) /\ j \notin active
    /\ task' = [task EXCEPT ![t].pc = "delete", ![t].job = j]
    /\ UNCHANGED <<store, gone, abandoned, active, running>>

Delete(t) ==
    /\ task[t].pc = "delete"
    /\ store' = [store EXCEPT ![task[t].job] = Absent]
    /\ gone' = gone \cup {task[t].job}
    /\ Return(t)
    /\ UNCHANGED <<abandoned, active, running, ops>>

\* The caller's future is dropped at an await.  trigger_job executes the job
\* in it, and no guard takes the job out of active_jobs again.
Drop(t) ==
    /\ t \in Callers /\ task[t].pc # "free"
    /\ abandoned' = IF Executing(t) THEN abandoned \cup (active \cap {task[t].job}) ELSE abandoned
    /\ task' = [task EXCEPT ![t] = NewTask("free")]
    /\ UNCHANGED <<store, gone, active, running, ops>>

ExecuteJob(t) ==
    \/ MarkRunning(t) \/ EnterActive(t) \/ Execute(t) \/ Settle(t) \/ RunAgain(t)
    \/ LeaveActive(t) \/ SaveFails(t)

Work(t) == CheckRunning(t) \/ Poll(t) \/ NextOfPoll(t) \/ ExecuteJob(t)
           \/ WriteChange(t) \/ Delete(t)

Operation(t) ==
    \E j \in Jobs : \/ Trigger(t, j) \/ ReadForDelete(t, j)
                    \/ \E op \in Ops : ReadForChange(t, op, j)

Next ==
    \/ \E j \in Jobs : ScheduleJob(j) \/ TimePasses(j)
    \/ \E t \in Loops : StartScheduler(t)
    \/ StopScheduler
    \/ \E t \in Tasks : Work(t) \/ Operation(t) \/ Drop(t)

Spec == Init /\ [][Next]_vars

\* Spawned loops are scheduled, a call goes on or is dropped, and time passes;
\* whether something is called is free.
FairSpec ==
    /\ Spec
    /\ \A t \in Loops : WF_vars(Work(t))
    /\ \A t \in Callers : WF_vars(Work(t) \/ Drop(t))
    /\ \A j \in Jobs : WF_vars(TimePasses(j))

(***************************************************************************)
(* Properties.                                                             *)
(***************************************************************************)
\* A job that was unscheduled is never brought back by a task that still
\* holds a copy of it (a late status update, a pause, a retry).
DeletedStaysDeleted == \A j \in gone : ~Exists(j)

\* Entries of active_jobs that no execution gives back: of a job deleted under
\* its execution, whose next update fails, and of a trigger_job that was dropped.
Leaked == active \cap (gone \cup abandoned)

\* active_jobs, which limits what a poll may take and guards deletion, holds
\* no job that nobody executes, whatever executions fail, overlap, are retried
\* or are paused and cancelled meanwhile.  The entries of Leaked are the
\* exception.
SlotsAreHeld ==
    \A j \in active \ Leaked : \E t \in Tasks : Executing(t) /\ task[t].job = j

\* What the code does not keep: the same without the exception.
NothingLeaks == \A j \in active : \E t \in Tasks : Executing(t) /\ task[t].job = j

\* A due job is picked up, or taken out of the schedule, although others run,
\* fail and retry and calls are dropped, unless the scheduler is stopped or a
\* leaked entry keeps a slot (Leaked).
DueJobIsPickedUp ==
    \A j \in Jobs : j \in Pending ~> j \notin Pending \/ ~running \/ Leaked # {}

\* A job with a cron expression runs again after it completed, unless it is
\* taken out of the schedule (README: cron "Every minute"; Job::reset_for_retry
\* allows "completion for the next cron tick").
CompletedRunsAgain ==
    \A j \in Jobs : store[j].status = "completed" /\ running
                      ~> store[j].status # "completed" \/ ~running
=============================================================================
