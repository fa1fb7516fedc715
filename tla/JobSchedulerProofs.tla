------------------------- MODULE JobSchedulerProofs -------------------------
(***************************************************************************)
(* Proofs about JobScheduler for every set of jobs, loops and callers,     *)
(* every number of attempts and slots and every number of calls.           *)
(***************************************************************************)
EXTENDS JobScheduler, TLAPS

(***************************************************************************)
(* The inductive invariant.  Neither property is inductive: a write of a   *)
(* copy keeps a job in existence only if the copy itself is of a job, and  *)
(* a task that gives up its job without leaving active_jobs (its update    *)
(* finds no job) may do so only because the job was deleted.               *)
(***************************************************************************)
HasJob == {"begin", "enter", "work", "settle", "again", "leave", "write", "delete"}

\* What a task was given to do: jobs that were in the storage at some time.
Holds(t) ==
    /\ \A j \in task[t].list : Exists(j) \/ j \in gone
    /\ task[t].job # NoJob => Exists(task[t].job) \/ task[t].job \in gone
    /\ task[t].pc \in HasJob => task[t].job \in Jobs
    /\ task[t].pc \in {"again", "write"} => task[t].copy.status # "absent"

IndInv ==
    /\ TypeOK
    /\ \A t \in Tasks : Holds(t)
    /\ DeletedStaysDeleted
    /\ SlotsAreHeld

-----------------------------------------------------------------------------
\* A task record that is built from nothing has the type of a task.
LEMMA NewTaskType ==
    ASSUME NEW pc \in {"off", "check", "free"}
    PROVE  /\ NewTask(pc) \in TaskType
           /\ NewTask(pc).pc = pc /\ NewTask(pc).list = {} /\ NewTask(pc).job = NoJob
<1>1. Absent \in JobType
  BY DEF Absent, JobType
<1>2. [j \in Jobs |-> Absent] \in [Jobs -> JobType]
  BY <1>1
<1>. QED  BY <1>1, <1>2 DEF NewTask, TaskType

LEMMA InitInv == Init => IndInv
<1>. SUFFICES ASSUME Init PROVE IndInv
  OBVIOUS
<1>1. Absent \in JobType /\ Absent.status = "absent"
  BY DEF Absent, JobType
<1>2. store \in [Jobs -> JobType] /\ \A j \in Jobs : ~Exists(j)
  BY <1>1 DEF Init, Exists
<1>3. ASSUME NEW t \in Tasks
      PROVE  /\ task[t] \in TaskType /\ task[t].pc \in {"off", "free"}
             /\ task[t].list = {} /\ task[t].job = NoJob
  <2>1. task[t] = NewTask(IF t \in Loops THEN "off" ELSE "free")
    BY DEF Init
  <2>. QED  BY <2>1, NewTaskType
<1>4. task \in [Tasks -> TaskType]
  BY <1>3 DEF Init
<1>a. ops \in 0..MaxOps
  BY SchedulerAssumption DEF Init
<1>b. gone \subseteq Jobs /\ abandoned \subseteq Jobs /\ active \subseteq Jobs /\ running \in BOOLEAN
  BY DEF Init
<1>5. TypeOK
  BY <1>2, <1>4, <1>a, <1>b DEF TypeOK
<1>6. \A t \in Tasks : Holds(t)
  BY <1>3 DEF Holds, HasJob
<1>. QED  BY <1>2, <1>5, <1>6 DEF Init, IndInv, DeletedStaysDeleted, SlotsAreHeld, Leaked

(***************************************************************************)
(* What a step of one task has to keep.                                    *)
(***************************************************************************)
Executes(pc) == pc \in {"work", "settle", "again", "leave"}

LEMMA TaskStep ==
    ASSUME IndInv, TypeOK', NEW t \in Tasks,
           \A u \in Tasks \ {t} : task'[u] = task[u],
           Holds(t)',
           gone \subseteq gone',
           \A j \in abandoned : j \in abandoned' \/ j \notin active',
           \A j \in Jobs : Exists(j) => Exists(j)' \/ j \in gone',
           \A j \in gone' : ~Exists(j)',
           \A j \in active' : j \in active \/ (Executes(task'[t].pc) /\ task'[t].job = j),
           Executing(t) /\ task[t].job \in active' \ (gone' \cup abandoned')
              => Executes(task'[t].pc) /\ task'[t].job = task[t].job
    PROVE  IndInv'
<1>1. ASSUME NEW u \in Tasks, u # t PROVE Holds(u)'
  <2>1. task'[u] = task[u] /\ Holds(u) /\ task[u] \in TaskType
    BY <1>1 DEF IndInv, TypeOK
  <2>2. task[u].list \subseteq Jobs /\ (task[u].job # NoJob => task[u].job \in Jobs)
    BY <2>1 DEF TaskType
  <2>. QED  BY <2>1, <2>2 DEF Holds
<1>2. \A u \in Tasks : Holds(u)'
  BY <1>1
<1>3. DeletedStaysDeleted'
  BY DEF DeletedStaysDeleted
<1>4. ASSUME NEW j \in active' \ (gone' \cup abandoned')
      PROVE  \E u \in Tasks : Executing(u)' /\ task'[u].job = j
  <2>1. CASE j \in active
    <3>1. PICK u \in Tasks : Executing(u) /\ task[u].job = j
      BY <1>4, <2>1 DEF IndInv, SlotsAreHeld, Leaked
    <3>2. CASE u = t
      BY <1>4, <3>1, <3>2 DEF Executing, Executes
    <3>3. CASE u # t
      BY <3>1, <3>3 DEF Executing
    <3>. QED  BY <3>2, <3>3
  <2>2. CASE j \notin active
    BY <1>4, <2>2 DEF Executing, Executes
  <2>. QED  BY <2>1, <2>2
<1>5. SlotsAreHeld'
  BY <1>4 DEF SlotsAreHeld, Leaked
<1>. QED  BY <1>2, <1>3, <1>5 DEF IndInv

\* execute_single_job returns: the task holds no job any more.
LEMMA ReturnTask ==
    ASSUME TypeOK, NEW t \in Tasks, Return(t)
    PROVE  /\ task' \in [Tasks -> TaskType]
           /\ \A u \in Tasks \ {t} : task'[u] = task[u]
           /\ task'[t].pc \in {"next", "free"} /\ task'[t].job = NoJob
           /\ task'[t].list \in {task[t].list, {}}
<1>. DEFINE r == [task[t] EXCEPT !.pc = "next", !.job = NoJob, !.copy = Absent, !.ok = FALSE]
<1>1. Absent \in JobType /\ task[t] \in TaskType
  BY DEF Absent, JobType, TypeOK
<1>2. r \in TaskType /\ r.pc = "next" /\ r.job = NoJob /\ r.list = task[t].list
  BY <1>1 DEF TaskType
<1>3. task' = [task EXCEPT ![t] = IF t \in Loops THEN r ELSE NewTask("free")]
  BY DEF Return
<1>. HIDE DEF r
<1>. QED  BY <1>2, <1>3, NewTaskType DEF TypeOK

\* A step outside every task: the storage gains or changes jobs.
LEMMA StorageStep ==
    ASSUME IndInv, TypeOK', UNCHANGED <<gone, abandoned, active, task>>,
           \A j \in Jobs : Exists(j) => Exists(j)',
           \A j \in gone : ~Exists(j)'
    PROVE  IndInv'
<1>1. ASSUME NEW u \in Tasks PROVE Holds(u)'
  <2>1. task'[u] = task[u] /\ Holds(u) /\ task[u] \in TaskType
    BY DEF IndInv, TypeOK
  <2>2. task[u].list \subseteq Jobs /\ (task[u].job # NoJob => task[u].job \in Jobs)
    BY <2>1 DEF TaskType
  <2>. QED  BY <2>1, <2>2 DEF Holds
<1>. QED  BY <1>1 DEF IndInv, DeletedStaysDeleted, SlotsAreHeld, Leaked, Executing

\* storage.update_job writes the whole copy of a job that still exists.
LEMMA SavedStore ==
    ASSUME IndInv, NEW t \in Tasks, NEW c \in JobType, Saved(t, c), c.status # "absent"
    PROVE  /\ store' \in [Jobs -> JobType]
           /\ \A j \in Jobs : Exists(j)' <=> Exists(j)
BY DEF IndInv, TypeOK, Saved, Exists

(***************************************************************************)
(* One step per action.                                                    *)
(***************************************************************************)
LEMMA NextInv == IndInv /\ [Next]_vars => IndInv'
<1>. SUFFICES ASSUME IndInv, [Next]_vars PROVE IndInv'
  OBVIOUS
<1>. USE SchedulerAssumption
<1>a. TypeOK /\ \A u \in Tasks : Holds(u) /\ task[u] \in TaskType
  BY DEF IndInv, TypeOK
<1>b. \A j \in gone : ~Exists(j)
  BY DEF IndInv, DeletedStaysDeleted
<1>1. ASSUME NEW j \in Jobs, ScheduleJob(j) PROVE IndInv'
  <2>. DEFINE c == [status |-> "scheduled", next |-> "later", failures |-> 0]
  <2>1. c \in JobType /\ c.status = "scheduled"
    BY DEF JobType, JobStatus
  <2>2. /\ j \notin gone
        /\ store' = [store EXCEPT ![j] = c]
        /\ UNCHANGED <<gone, abandoned, active, running, task, ops>>
    BY <1>1 DEF ScheduleJob
  <2>. HIDE DEF c
  <2>3. TypeOK'
    BY <2>1, <2>2, <1>a DEF TypeOK
  <2>4. \A i \in Jobs : (i # j => (Exists(i)' <=> Exists(i))) /\ Exists(j)'
    BY <2>1, <2>2, <1>a DEF TypeOK, Exists
  <2>. QED  BY <2>2, <2>3, <2>4, <1>a, <1>b, StorageStep DEF TypeOK
<1>2. ASSUME NEW j \in Jobs, TimePasses(j) PROVE IndInv'
  <2>. DEFINE c == [store[j] EXCEPT !.next = "past"]
  <2>1. c \in JobType /\ c.status = store[j].status
    BY <1>a DEF TypeOK, JobType
  <2>2. /\ store' = [store EXCEPT ![j] = c]
        /\ UNCHANGED <<gone, abandoned, active, running, task, ops>>
    BY <1>2 DEF TimePasses
  <2>. HIDE DEF c
  <2>3. TypeOK'
    BY <2>1, <2>2, <1>a DEF TypeOK
  <2>4. \A i \in Jobs : Exists(i)' <=> Exists(i)
    BY <2>1, <2>2, <1>a DEF TypeOK, Exists
  <2>. QED  BY <2>2, <2>3, <2>4, <1>a, <1>b, StorageStep DEF TypeOK
<1>3. CASE StopScheduler
  <2>a. ops' \in 0..MaxOps
    BY <1>3, <1>a DEF StopScheduler, TypeOK
  <2>2. UNCHANGED <<store, gone, abandoned, active, task>> /\ running' = FALSE
    BY <1>3 DEF StopScheduler
  <2>1. TypeOK'
    BY <2>2, <2>a, <1>a DEF TypeOK
  <2>. QED  BY <2>1, <2>2, <1>b, StorageStep DEF Exists
<1>4. CASE UNCHANGED vars
  <2>1. UNCHANGED <<store, gone, abandoned, active, task>> /\ TypeOK'
    BY <1>4, <1>a DEF vars, TypeOK
  <2>. QED  BY <2>1, <1>b, StorageStep DEF Exists
<1>5. ASSUME NEW t \in Tasks, Work(t) \/ Operation(t) PROVE IndInv'
  <2>1. CASE CheckRunning(t)
    <3>. DEFINE r == [task[t] EXCEPT !.pc = IF running THEN "tick" ELSE "off"]
    <3>1. r \in TaskType /\ r.pc \in {"tick", "off"} /\ r.job = task[t].job /\ r.list = task[t].list
          /\ task[t].pc = "check"
      BY <1>a, <2>1 DEF TaskType, CheckRunning
    <3>2. task' = [task EXCEPT ![t] = r] /\ UNCHANGED <<store, gone, abandoned, active, running, ops>>
      BY <2>1 DEF CheckRunning, Goto
    <3>. HIDE DEF r
    <3>3. TypeOK' /\ task'[t] = r /\ \A u \in Tasks \ {t} : task'[u] = task[u]
      BY <1>a, <3>1, <3>2 DEF TypeOK
    <3>4. Holds(t)'
      BY <1>a, <3>1, <3>2, <3>3 DEF Holds, HasJob, Exists
    <3>. QED  BY <1>a, <1>b, <3>1, <3>2, <3>3, <3>4, TaskStep DEF Executing, Executes, Exists
  <2>2. CASE EnterActive(t)
    <3>. DEFINE r == [task[t] EXCEPT !.pc = "work"]
    <3>1. r \in TaskType /\ r.pc = "work" /\ r.job = task[t].job /\ r.list = task[t].list
          /\ task[t].pc = "enter" /\ task[t].job \in Jobs
      BY <1>a, <2>2 DEF TaskType, EnterActive, Holds, HasJob
    <3>2. task' = [task EXCEPT ![t] = r] /\ active' = active \cup {task[t].job}
          /\ UNCHANGED <<store, gone, abandoned, running, ops>>
      BY <2>2 DEF EnterActive, Goto
    <3>. HIDE DEF r
    <3>3. TypeOK' /\ task'[t] = r /\ \A u \in Tasks \ {t} : task'[u] = task[u]
      BY <1>a, <3>1, <3>2 DEF TypeOK
    <3>4. Holds(t)'
      BY <1>a, <3>1, <3>2, <3>3 DEF Holds, HasJob, Exists
    <3>. QED  BY <1>a, <1>b, <3>1, <3>2, <3>3, <3>4, TaskStep DEF Executing, Executes, Exists
  <2>3. CASE Execute(t)
    <3>0. PICK ok \in BOOLEAN : task' = [task EXCEPT ![t].pc = "settle", ![t].ok = ok]
      BY <2>3 DEF Execute
    <3>. DEFINE r == [task[t] EXCEPT !.pc = "settle", !.ok = ok]
    <3>1. r \in TaskType /\ r.pc = "settle" /\ r.job = task[t].job /\ r.list = task[t].list
          /\ task[t].pc = "work" /\ task[t].job \in Jobs
      BY <1>a, <2>3 DEF TaskType, Execute, Holds, HasJob
    <3>2. task' = [task EXCEPT ![t] = r] /\ UNCHANGED <<store, gone, abandoned, active, running, ops>>
      BY <2>3, <3>0 DEF Execute
    <3>. HIDE DEF r
    <3>3. TypeOK' /\ task'[t] = r /\ \A u \in Tasks \ {t} : task'[u] = task[u]
      BY <1>a, <3>1, <3>2 DEF TypeOK
    <3>4. Holds(t)'
      BY <1>a, <3>1, <3>2, <3>3 DEF Holds, HasJob, Exists
    <3>. QED  BY <1>a, <1>b, <3>1, <3>2, <3>3, <3>4, TaskStep DEF Executing, Executes, Exists
  <2>4. CASE Poll(t)
    <3>0. PICK list \in SUBSET Pending :
             task' = [task EXCEPT ![t].pc = "next", ![t].list = list,
                        ![t].copies = [j \in Jobs |-> IF j \in list THEN store[j] ELSE Absent]]
      BY <2>4 DEF Poll
    <3>. DEFINE cs == [j \in Jobs |-> IF j \in list THEN store[j] ELSE Absent]
                r == [task[t] EXCEPT !.pc = "next", !.list = list, !.copies = cs]
    <3>a. cs \in [Jobs -> JobType] /\ list \subseteq Jobs /\ \A j \in list : Exists(j)
      BY <1>a DEF TypeOK, Pending, Exists, Absent, JobType
    <3>2. task' = [task EXCEPT ![t] = r] /\ UNCHANGED <<store, gone, abandoned, active, running, ops>>
          /\ task[t].pc = "tick"
      BY <2>4, <3>0 DEF Poll
    <3>. HIDE DEF cs
    <3>1. r \in TaskType /\ r.pc = "next" /\ r.job = task[t].job /\ r.list = list
      BY <1>a, <3>a DEF TaskType
    <3>. HIDE DEF r
    <3>3. TypeOK' /\ task'[t] = r /\ \A u \in Tasks \ {t} : task'[u] = task[u]
      BY <1>a, <3>1, <3>2 DEF TypeOK
    <3>4. Holds(t)'
      BY <1>a, <3>a, <3>1, <3>2, <3>3 DEF Holds, HasJob, Exists
    <3>. QED  BY <1>a, <1>b, <3>1, <3>2, <3>3, <3>4, TaskStep DEF Executing, Executes, Exists
  <2>5. CASE NextOfPoll(t)
    <3>. DEFINE r(j) == [task[t] EXCEPT !.pc = "begin", !.job = j, !.copy = task[t].copies[j],
                                         !.list = task[t].list \ {j},
                                         !.copies = [task[t].copies EXCEPT ![j] = Absent]]
    <3>a. UNCHANGED <<store, gone, abandoned, active, running, ops>> /\ task[t].pc = "next"
      BY <2>5 DEF NextOfPoll
    <3>b. CASE task' = [task EXCEPT ![t] = NewTask("check")]
      <4>1. TypeOK' /\ task'[t] = NewTask("check") /\ \A u \in Tasks \ {t} : task'[u] = task[u]
        BY <1>a, <3>a, <3>b, NewTaskType DEF TypeOK
      <4>2. Holds(t)'
        BY <4>1, NewTaskType DEF Holds, HasJob
      <4>. QED  BY <1>b, <3>a, <4>1, <4>2, TaskStep DEF Executing, Executes, Exists
    <3>c. CASE \E j \in task[t].list : task' = [task EXCEPT ![t] = r(j)]
      <4>0. PICK j \in task[t].list : task' = [task EXCEPT ![t] = r(j)]
        BY <3>c
      <4>. DEFINE cs == [task[t].copies EXCEPT ![j] = Absent]
                  cp == task[t].copies[j]
                  ls == task[t].list \ {j}
      <4>a. j \in Jobs /\ task[t].copies \in [Jobs -> JobType] /\ Absent \in JobType
        BY <1>a DEF TaskType, Absent, JobType
      <4>b. cs \in [Jobs -> JobType] /\ cp \in JobType /\ ls \subseteq task[t].list
            /\ ls \subseteq Jobs
        BY <1>a, <4>a DEF TaskType
      <4>1. r(j) = [task[t] EXCEPT !.pc = "begin", !.job = j, !.copy = cp, !.list = ls, !.copies = cs]
        OBVIOUS
      <4>. HIDE DEF cs, cp, ls, r
      <4>2. r(j) \in TaskType /\ r(j).pc = "begin" /\ r(j).job = j /\ r(j).list = ls
        BY <1>a, <4>a, <4>b, <4>1, ZenonT(30) DEF TaskType
      <4>3. TypeOK' /\ task'[t] = r(j) /\ \A u \in Tasks \ {t} : task'[u] = task[u]
        BY <1>a, <3>a, <4>0, <4>2 DEF TypeOK
      <4>4. Holds(t)'
        BY <1>a, <3>a, <4>a, <4>b, <4>2, <4>3 DEF Holds, HasJob, Exists
      <4>. QED  BY <1>b, <3>a, <4>3, <4>4, TaskStep DEF Executing, Executes, Exists
    <3>. QED  BY <2>5, <3>b, <3>c DEF NextOfPoll
  <2>6. CASE MarkRunning(t)
    <3>. DEFINE c == [task[t].copy EXCEPT !.status = "running"]
                r == [task[t] EXCEPT !.pc = "enter", !.copy = c]
    <3>a. c \in JobType /\ c.status = "running"
      BY <1>a DEF TaskType, JobType, JobStatus
    <3>2. task' = [task EXCEPT ![t] = r] /\ UNCHANGED <<gone, abandoned, active, running, ops>>
          /\ Saved(t, c) /\ task[t].pc = "begin"
      BY <2>6 DEF MarkRunning
    <3>. HIDE DEF c
    <3>1. r \in TaskType /\ r.pc = "enter" /\ r.job = task[t].job /\ r.list = task[t].list
      BY <1>a, <3>a DEF TaskType
    <3>. HIDE DEF r
    <3>b. store' \in [Jobs -> JobType] /\ \A j \in Jobs : Exists(j)' <=> Exists(j)
      BY <3>a, <3>2, SavedStore
    <3>3. TypeOK' /\ task'[t] = r /\ \A u \in Tasks \ {t} : task'[u] = task[u]
      BY <1>a, <3>1, <3>2, <3>b DEF TypeOK
    <3>4. Holds(t)'
      BY <1>a, <3>1, <3>2, <3>3, <3>b DEF Holds, HasJob, TaskType
    <3>. QED  BY <1>a, <1>b, <3>1, <3>2, <3>3, <3>4, <3>b, TaskStep DEF Executing, Executes, TypeOK
  <2>7. CASE Settle(t)
    <3>. DEFINE st == IF task[t].ok THEN "completed" ELSE "failed"
                n == IF task[t].ok THEN task[t].copy.failures ELSE task[t].copy.failures + 1
                c == [task[t].copy EXCEPT !.status = st, !.failures = n]
                r == [task[t] EXCEPT !.pc = "again", !.copy = c]
    <3>c. st \in {"completed", "failed"} /\ n \in Nat
      BY <1>a DEF TaskType, JobType
    <3>2. task' = [task EXCEPT ![t] = r] /\ UNCHANGED <<gone, abandoned, active, running, ops>>
          /\ Saved(t, c) /\ task[t].pc = "settle"
      BY <2>7 DEF Settle
    <3>. HIDE DEF st, n
    <3>a. c \in JobType /\ c.status = st
      BY <1>a, <3>c DEF TaskType, JobType, JobStatus
    <3>. HIDE DEF c
    <3>1. r \in TaskType /\ r.pc = "again" /\ r.job = task[t].job /\ r.list = task[t].list
          /\ r.copy = c
      BY <1>a, <3>a DEF TaskType
    <3>. HIDE DEF r
    <3>b. store' \in [Jobs -> JobType] /\ \A j \in Jobs : Exists(j)' <=> Exists(j)
      BY <3>a, <3>c, <3>2, SavedStore
    <3>3. TypeOK' /\ task'[t] = r /\ \A u \in Tasks \ {t} : task'[u] = task[u]
      BY <1>a, <3>1, <3>2, <3>b DEF TypeOK
    <3>4. Holds(t)'
      BY <1>a, <3>a, <3>c, <3>1, <3>2, <3>3, <3>b DEF Holds, HasJob, TaskType
    <3>. QED  BY <1>a, <1>b, <3>1, <3>2, <3>3, <3>4, <3>b, TaskStep DEF Executing, Executes, TypeOK
  <2>8. CASE RunAgain(t)
    <3>. DEFINE r == [task[t] EXCEPT !.pc = "leave"]
                c1 == [task[t].copy EXCEPT !.next = "later"]
                c2 == [task[t].copy EXCEPT !.next = "later", !.status = "scheduled"]
    <3>1. r \in TaskType /\ r.pc = "leave" /\ r.job = task[t].job /\ r.list = task[t].list
      BY <1>a DEF TaskType
    <3>2. task' = [task EXCEPT ![t] = r] /\ UNCHANGED <<gone, abandoned, active, running, ops>>
          /\ (Saved(t, c1) \/ Saved(t, c2) \/ UNCHANGED store) /\ task[t].pc = "again"
      BY <2>8 DEF RunAgain, Goto
    <3>. HIDE DEF r
    <3>a. task[t].copy \in JobType /\ task[t].copy.status # "absent"
      BY <1>a, <3>2 DEF TaskType, Holds
    <3>c. c1 \in JobType /\ c2 \in JobType /\ c1.status # "absent" /\ c2.status # "absent"
      BY <3>a DEF JobType, JobStatus
    <3>. HIDE DEF c1, c2
    <3>b. store' \in [Jobs -> JobType] /\ \A j \in Jobs : Exists(j)' <=> Exists(j)
      <4>1. CASE UNCHANGED store
        BY <1>a, <4>1 DEF TypeOK, Exists
      <4>. QED  BY <4>1, <3>c, <3>2, SavedStore
    <3>3. TypeOK' /\ task'[t] = r /\ \A u \in Tasks \ {t} : task'[u] = task[u]
      BY <1>a, <3>1, <3>2, <3>b DEF TypeOK
    <3>4. Holds(t)'
      BY <1>a, <3>1, <3>2, <3>3, <3>b DEF Holds, HasJob, TaskType
    <3>. QED  BY <1>a, <1>b, <3>1, <3>2, <3>3, <3>4, <3>b, TaskStep DEF Executing, Executes, TypeOK
  <2>9. CASE LeaveActive(t)
    <3>1. /\ UNCHANGED <<store, gone, running, ops>> /\ active' = active \ {task[t].job}
          /\ abandoned' = abandoned \ {task[t].job} /\ Return(t)
      BY <2>9 DEF LeaveActive
    <3>2. TypeOK'
      BY <1>a, <3>1, ReturnTask DEF TypeOK
    <3>3. Holds(t)'
      BY <1>a, <3>1, ReturnTask DEF Holds, HasJob, Exists
    <3>. QED  BY <1>a, <1>b, <3>1, <3>2, <3>3, ReturnTask, TaskStep DEF Exists
  <2>10. CASE SaveFails(t)
    <3>1. /\ UNCHANGED <<store, gone, abandoned, active, running, ops>> /\ ~Exists(task[t].job)
          /\ Return(t) /\ task[t].pc \in HasJob
      BY <2>10 DEF SaveFails, HasJob
    <3>2. TypeOK'
      BY <1>a, <3>1, ReturnTask DEF TypeOK
    <3>3. Holds(t)'
      BY <1>a, <3>1, ReturnTask DEF Holds, HasJob, Exists
    <3>4. task[t].job \in gone
      BY <1>a, <3>1 DEF Holds
    <3>. QED  BY <1>a, <1>b, <3>1, <3>2, <3>3, <3>4, ReturnTask, TaskStep DEF Exists
  <2>11. CASE WriteChange(t)
    <3>1. /\ UNCHANGED <<gone, abandoned, active, running, ops>> /\ (UNCHANGED store \/ Saved(t, task[t].copy))
          /\ Return(t) /\ task[t].pc = "write"
      BY <2>11 DEF WriteChange
    <3>a. task[t].copy \in JobType /\ task[t].copy.status # "absent"
      BY <1>a, <3>1 DEF TaskType, Holds
    <3>b. store' \in [Jobs -> JobType] /\ \A j \in Jobs : Exists(j)' <=> Exists(j)
      <4>1. CASE UNCHANGED store
        BY <1>a, <4>1 DEF TypeOK, Exists
      <4>. QED  BY <4>1, <3>a, <3>1, SavedStore
    <3>2. TypeOK'
      BY <1>a, <3>1, <3>b, ReturnTask DEF TypeOK
    <3>3. Holds(t)'
      BY <1>a, <3>1, <3>b, ReturnTask DEF Holds, HasJob, TaskType
    <3>. QED
      BY <1>a, <1>b, <3>1, <3>2, <3>3, <3>b, ReturnTask, TaskStep DEF Executing, TypeOK
  <2>12. CASE Delete(t)
    <3>0. PICK j \in Jobs : j = task[t].job
      BY <1>a, <2>12 DEF Delete, Holds, HasJob
    <3>1. /\ store' = [store EXCEPT ![j] = Absent] /\ gone' = gone \cup {j}
          /\ UNCHANGED <<abandoned, active, running, ops>> /\ Return(t) /\ task[t].pc = "delete"
      BY <2>12, <3>0 DEF Delete
    <3>a. Absent \in JobType /\ Absent.status = "absent"
      BY DEF Absent, JobType
    <3>2. TypeOK'
      BY <1>a, <3>1, <3>a, ReturnTask DEF TypeOK
    <3>b. ~Exists(j)' /\ \A i \in Jobs \ {j} : Exists(i)' <=> Exists(i)
      BY <1>a, <3>1, <3>a DEF TypeOK, Exists
    <3>3. Holds(t)'
      BY <1>a, <3>1, <3>b, ReturnTask DEF Holds, HasJob, TaskType
    <3>. QED
      BY <1>a, <1>b, <3>0, <3>1, <3>2, <3>3, <3>b, ReturnTask, TaskStep DEF Executing, TypeOK
  <2>13. ASSUME NEW j \in Jobs, Trigger(t, j) PROVE IndInv'
    <3>. DEFINE r == [task[t] EXCEPT !.pc = "begin", !.job = j, !.copy = store[j]]
    <3>1. r \in TaskType /\ r.pc = "begin" /\ r.job = j /\ r.list = task[t].list
      BY <1>a DEF TaskType, TypeOK
    <3>2. task' = [task EXCEPT ![t] = r] /\ UNCHANGED <<store, gone, abandoned, active, running>>
          /\ task[t].pc = "free" /\ Exists(j)
      BY <2>13 DEF Trigger, Calls
    <3>a. ops' \in 0..MaxOps
      BY <1>a, <2>13 DEF Trigger, Calls, TypeOK
    <3>. HIDE DEF r
    <3>3. TypeOK' /\ task'[t] = r /\ \A u \in Tasks \ {t} : task'[u] = task[u]
      BY <1>a, <3>a, <3>1, <3>2 DEF TypeOK
    <3>4. Holds(t)'
      BY <1>a, <3>1, <3>2, <3>3 DEF Holds, HasJob, Exists
    <3>. QED  BY <1>a, <1>b, <3>1, <3>2, <3>3, <3>4, TaskStep DEF Executing, Executes, Exists
  <2>14. ASSUME NEW j \in Jobs, ReadForDelete(t, j) PROVE IndInv'
    <3>. DEFINE r == [task[t] EXCEPT !.pc = "delete", !.job = j]
    <3>1. r \in TaskType /\ r.pc = "delete" /\ r.job = j /\ r.list = task[t].list
      BY <1>a DEF TaskType
    <3>2. task' = [task EXCEPT ![t] = r] /\ UNCHANGED <<store, gone, abandoned, active, running>>
          /\ task[t].pc = "free" /\ Exists(j)
      BY <2>14 DEF ReadForDelete, Calls
    <3>a. ops' \in 0..MaxOps
      BY <1>a, <2>14 DEF ReadForDelete, Calls, TypeOK
    <3>. HIDE DEF r
    <3>3. TypeOK' /\ task'[t] = r /\ \A u \in Tasks \ {t} : task'[u] = task[u]
      BY <1>a, <3>a, <3>1, <3>2 DEF TypeOK
    <3>4. Holds(t)'
      BY <1>a, <3>1, <3>2, <3>3 DEF Holds, HasJob, Exists
    <3>. QED  BY <1>a, <1>b, <3>1, <3>2, <3>3, <3>4, TaskStep DEF Executing, Executes, Exists
  <2>15. ASSUME NEW j \in Jobs, NEW op \in Ops, ReadForChange(t, op, j) PROVE IndInv'
    <3>. DEFINE c == Changed(op, store[j])
                r == [task[t] EXCEPT !.pc = "write", !.job = j, !.copy = c]
    <3>a. ops' \in 0..MaxOps
      BY <1>a, <2>15 DEF ReadForChange, Calls, TypeOK
    <3>2. task' = [task EXCEPT ![t] = r] /\ UNCHANGED <<store, gone, abandoned, active, running>>
          /\ task[t].pc = "free" /\ Exists(j) /\ op \in {"pause", "resume", "cancel", "update"}
      BY <2>15 DEF ReadForChange, Calls
    <3>b. store[j] \in JobType /\ store[j].status # "absent"
      BY <1>a, <3>2 DEF TypeOK, Exists
    <3>c. c \in JobType /\ c.status # "absent"
      <4>1. CASE op = "pause"
        BY <3>b, <4>1 DEF Changed, JobType, JobStatus
      <4>2. CASE op = "resume"
        BY <3>b, <4>2 DEF Changed, JobType, JobStatus
      <4>3. CASE op = "cancel"
        BY <3>b, <4>3 DEF Changed, JobType, JobStatus
      <4>4. CASE op = "update"
        BY <3>b, <4>4 DEF Changed
      <4>. QED  BY <3>2, <4>1, <4>2, <4>3, <4>4
    <3>. HIDE DEF c
    <3>1. r \in TaskType /\ r.pc = "write" /\ r.job = j /\ r.list = task[t].list /\ r.copy = c
      BY <1>a, <3>c DEF TaskType
    <3>. HIDE DEF r
    <3>3. TypeOK' /\ task'[t] = r /\ \A u \in Tasks \ {t} : task'[u] = task[u]
      BY <1>a, <3>a, <3>1, <3>2 DEF TypeOK
    <3>4. Holds(t)'
      BY <1>a, <3>c, <3>1, <3>2, <3>3 DEF Holds, HasJob, Exists
    <3>. QED  BY <1>a, <1>b, <3>1, <3>2, <3>3, <3>4, TaskStep DEF Executing, Executes, Exists
  <2>. QED
    BY <1>5, <2>1, <2>2, <2>3, <2>4, <2>5, <2>6, <2>7, <2>8, <2>9, <2>10, <2>11, <2>12, <2>13,
       <2>14, <2>15 DEF Work, ExecuteJob, Operation
<1>6. ASSUME NEW t \in Loops, StartScheduler(t) PROVE IndInv'
  <2>. DEFINE r == [task[t] EXCEPT !.pc = "check"]
  <2>0. t \in Tasks
    BY DEF Tasks
  <2>1. r \in TaskType /\ r.pc = "check" /\ r.job = task[t].job /\ r.list = task[t].list
    BY <1>a, <2>0 DEF TaskType
  <2>2. task' = [task EXCEPT ![t] = r] /\ UNCHANGED <<store, gone, abandoned, active, ops>>
        /\ task[t].pc = "off" /\ running' = TRUE
    BY <1>6 DEF StartScheduler, Goto
  <2>. HIDE DEF r
  <2>3. TypeOK' /\ task'[t] = r /\ \A u \in Tasks \ {t} : task'[u] = task[u]
    BY <1>a, <2>0, <2>1, <2>2 DEF TypeOK
  <2>4. Holds(t)'
    BY <1>a, <2>0, <2>1, <2>2, <2>3 DEF Holds, HasJob, Exists
  <2>. QED  BY <1>a, <1>b, <2>0, <2>1, <2>2, <2>3, <2>4, TaskStep DEF Executing, Executes, Exists
<1>7. ASSUME NEW t \in Tasks, Drop(t) PROVE IndInv'
  <2>1. /\ task' = [task EXCEPT ![t] = NewTask("free")]
        /\ UNCHANGED <<store, gone, active, running, ops>>
        /\ abandoned \subseteq abandoned' /\ abandoned' \subseteq abandoned \cup active
        /\ Executing(t) /\ task[t].job \in active => task[t].job \in abandoned'
    BY <1>7 DEF Drop
  <2>2. TypeOK' /\ task'[t] = NewTask("free") /\ \A u \in Tasks \ {t} : task'[u] = task[u]
    BY <1>a, <2>1, NewTaskType DEF TypeOK
  <2>3. Holds(t)'
    BY <2>2, NewTaskType DEF Holds, HasJob
  <2>. QED  BY <1>a, <1>b, <2>1, <2>2, <2>3, TaskStep DEF Exists
<1>. QED  BY <1>1, <1>2, <1>3, <1>4, <1>5, <1>6, <1>7 DEF Next

\* The storage, active_jobs and every task's copies keep their types.
THEOREM TypeCorrect == Spec => []TypeOK
<1>1. IndInv => TypeOK
  BY DEF IndInv
<1>. QED  BY <1>1, InitInv, NextInv, PTL DEF Spec

\* No task that still holds a copy of a job (a late status update of
\* execute_single_job, a pause, a retry) brings back a job that
\* unschedule_job deleted, however many loops and callers there are.
THEOREM NoResurrection == Spec => []DeletedStaysDeleted
<1>1. IndInv => DeletedStaysDeleted
  BY DEF IndInv
<1>. QED  BY <1>1, InitInv, NextInv, PTL DEF Spec

\* Every entry of active_jobs belongs to a running execute_single_job, with
\* two exceptions: jobs that were deleted under their execution, and jobs
\* whose trigger_job was dropped.  No other path leaks a slot of
\* max_concurrent_jobs.
THEOREM NoSlotLeaks == Spec => []SlotsAreHeld
<1>1. IndInv => SlotsAreHeld
  BY DEF IndInv
<1>. QED  BY <1>1, InitInv, NextInv, PTL DEF Spec
=============================================================================
