---------------------------- MODULE RelayRunner ----------------------------
(***************************************************************************)
(* What paces the relay of backbone-outbox: the poll loop run under the    *)
(* supervisor's restart_loop, and the one-shot drain_all, both on top of   *)
(* drain_once.  What a pass does to consumers is the subject of Outbox;    *)
(* here a pass only says how each row of its batch ends.                   *)
(***************************************************************************)
EXTENDS Naturals, FiniteSets

CONSTANTS
    Events,     \* rows of outbox_events, in drain order
    Refused,    \* rows the transport refuses for now (OutboxError::Publish)
    Doomed,     \* rows the transport gives up on (OutboxError::Exhausted)
    Failing,    \* rows whose publish returns any other error (a consumer's
                \* OutboxError::Db), every time
    Batch,      \* RelayConfig::batch
    MaxPasses,  \* max_passes of drain_all
    MaxBackoff, \* MAX_BACKOFF, in seconds
    MaxOutages  \* bound: database outages

ASSUME RunnerAssumption ==
    /\ Events \subseteq Nat /\ Refused \cup Doomed \cup Failing \subseteq Events
    /\ Refused \cap Doomed = {} /\ Failing \cap (Refused \cup Doomed) = {}
    /\ {Batch, MaxPasses, MaxBackoff} \subseteq Nat \ {0} /\ MaxOutages \in Nat

VARIABLES
    pending,    \* rows neither published nor dead
    published,  \* rows with published_at set
    dead,       \* rows with failed_at set
    pc,         \* where each caller of drain_once is
    todo,       \* rows of its batch still to publish
    n,          \* rows its pass has published
    passes,     \* passes drain_all has begun
    backoff,    \* seconds the supervisor waits before the next restart
    lasted,     \* the current attempt has lasted MAX_BACKOFF
    streak,     \* history: failures since the last attempt that lasted, up to MaxBackoff
    shutdown,   \* the shutdown future has resolved
    up,         \* the database answers
    outages     \* outages so far

tables == <<pending, published, dead>>
drains == <<pc, todo, n, passes>>
supervisor == <<backoff, lasted, streak>>
vars == <<tables, drains, supervisor, shutdown, up, outages>>

Callers == {"runner", "drain_all"}

TypeOK ==
    /\ pending \subseteq Events /\ published \subseteq Events /\ dead \subseteq Events
    /\ pc \in [Callers -> {"start", "pass", "sleep", "backoff", "done", "error"}]
    /\ todo \in [Callers -> SUBSET Events]
    /\ n \in [Callers -> 0..Batch]
    /\ passes \in 0..MaxPasses
    /\ backoff \in 1..MaxBackoff
    /\ lasted \in BOOLEAN /\ shutdown \in BOOLEAN /\ up \in BOOLEAN
    /\ streak \in 0..MaxBackoff /\ outages \in 0..MaxOutages

Init ==
    /\ pending = {} /\ published = {} /\ dead = {}
    /\ pc = [c \in Callers |-> "start"]
    /\ todo = [c \in Callers |-> {}]
    /\ n = [c \in Callers |-> 0]
    /\ passes = 0
    /\ backoff = 1 /\ lasted = FALSE /\ streak = 0
    /\ shutdown = FALSE /\ up = TRUE /\ outages = 0

\* Rows the transport accepts.
Accepted == Events \ (Refused \cup Doomed \cup Failing)

Min2(a, b) == IF a <= b THEN a ELSE b

Oldest == {e \in pending : Cardinality({f \in pending : f < e}) < Batch}

(***************************************************************************)
(* drain_once, for either caller.                                          *)
(***************************************************************************)
BeginPass(c) ==
    /\ pc[c] = "start" /\ up
    /\ c = "drain_all" => passes < MaxPasses
    /\ passes' = IF c = "drain_all" THEN passes + 1 ELSE passes
    /\ todo' = [todo EXCEPT ![c] = Oldest]
    /\ n' = [n EXCEPT ![c] = 0]
    /\ pc' = [pc EXCEPT ![c] = "pass"]
    /\ UNCHANGED <<tables, supervisor, shutdown, up, outages>>

IsNext(c, e) == pc[c] = "pass" /\ e \in todo[c] /\ \A f \in todo[c] : e <= f

RowPublished(c, e) ==
    /\ IsNext(c, e) /\ up /\ e \in Accepted
    /\ pending' = pending \ {e}
    /\ published' = published \cup {e}
    /\ n' = [n EXCEPT ![c] = @ + 1]
    /\ todo' = [todo EXCEPT ![c] = @ \ {e}]
    /\ UNCHANGED <<dead, pc, passes, supervisor, shutdown, up, outages>>

\* Mutant of RowRefused: a refusal ends the pass.
RowRefusedEndsPass(c, e) ==
    /\ IsNext(c, e) /\ e \in Refused
    /\ todo' = [todo EXCEPT ![c] = {}]
    /\ UNCHANGED <<tables, pc, n, passes, supervisor, shutdown, up, outages>>

\* A refusal leaves the row and does not stop the pass.
RowRefused(c, e) ==
    /\ IsNext(c, e) /\ e \in Refused
    /\ todo' = [todo EXCEPT ![c] = @ \ {e}]
    /\ UNCHANGED <<tables, pc, n, passes, supervisor, shutdown, up, outages>>

RowDead(c, e) ==
    /\ IsNext(c, e) /\ up /\ e \in Doomed
    /\ pending' = pending \ {e}
    /\ dead' = dead \cup {e}
    /\ todo' = [todo EXCEPT ![c] = @ \ {e}]
    /\ UNCHANGED <<published, pc, n, passes, supervisor, shutdown, up, outages>>

Row(c, e) == RowPublished(c, e) \/ RowRefused(c, e) \/ RowDead(c, e)

PassOver(c) == pc[c] = "pass" /\ todo[c] = {}

\* The pass returns an error: of the SELECT, of the UPDATE that marks a row,
\* or of a publish that was neither refused nor given up, with the rows after
\* it left.  A publish that fails so for a time is part of an outage.
PassFails(c) ==
    \/ pc[c] = "start" /\ ~up
    \/ pc[c] = "pass" /\ todo[c] # {} /\ ~up
    \/ \E e \in Failing : IsNext(c, e)

(***************************************************************************)
(* run: a full pass loops at once, any other one sleeps poll_interval.     *)
(***************************************************************************)
RunPassOver ==
    /\ PassOver("runner")
    /\ pc' = [pc EXCEPT !["runner"] = IF n["runner"] < Batch THEN "sleep" ELSE "start"]
    /\ UNCHANGED <<tables, todo, n, passes, supervisor, shutdown, up, outages>>

Poll ==
    /\ pc["runner"] = "sleep"
    /\ pc' = [pc EXCEPT !["runner"] = "start"]
    /\ UNCHANGED <<tables, todo, n, passes, supervisor, shutdown, up, outages>>

(***************************************************************************)
(* restart_loop.                                                           *)
(***************************************************************************)

\* Mutant of AttemptFails: a run that lasted does not start the waits over.
AttemptFailsNoReset ==
    /\ PassFails("runner")
    /\ UNCHANGED backoff
    /\ streak' = IF lasted THEN 1 ELSE Min2(streak + 1, MaxBackoff)
    /\ pc' = [pc EXCEPT !["runner"] = "backoff"]
    /\ todo' = [todo EXCEPT !["runner"] = {}]
    /\ UNCHANGED <<tables, n, passes, lasted, shutdown, up, outages>>

\* run returns the error; the wait starts over when the run had lasted.
AttemptFails ==
    /\ PassFails("runner")
    /\ backoff' = IF lasted THEN 1 ELSE backoff
    /\ streak' = IF lasted THEN 1 ELSE Min2(streak + 1, MaxBackoff)
    /\ pc' = [pc EXCEPT !["runner"] = "backoff"]
    /\ todo' = [todo EXCEPT !["runner"] = {}]
    /\ UNCHANGED <<tables, n, passes, lasted, shutdown, up, outages>>

\* The wait is over: the next attempt starts, the next wait is longer.
Restart ==
    /\ pc["runner"] = "backoff"
    /\ pc' = [pc EXCEPT !["runner"] = "start"]
    /\ backoff' = Min2(2 * backoff, MaxBackoff)
    /\ lasted' = FALSE
    /\ UNCHANGED <<tables, todo, n, passes, streak, shutdown, up, outages>>

\* Every select is biased to the shutdown: wherever the runner is, the
\* attempt is dropped.
Stop ==
    /\ shutdown /\ pc["runner"] # "done"
    /\ pc' = [pc EXCEPT !["runner"] = "done"]
    /\ todo' = [todo EXCEPT !["runner"] = {}]
    /\ UNCHANGED <<tables, n, passes, supervisor, shutdown, up, outages>>

AttemptLasts ==
    /\ pc["runner"] \in {"start", "pass", "sleep"} /\ ~lasted
    /\ lasted' = TRUE
    /\ UNCHANGED <<tables, drains, backoff, streak, shutdown, up, outages>>

(***************************************************************************)
(* drain_all.                                                              *)
(***************************************************************************)
FlushPassOver ==
    /\ PassOver("drain_all")
    /\ pc' = [pc EXCEPT !["drain_all"] = IF n["drain_all"] = 0 \/ passes = MaxPasses
                                         THEN "done" ELSE "start"]
    /\ UNCHANGED <<tables, todo, n, passes, supervisor, shutdown, up, outages>>

FlushFails ==
    /\ PassFails("drain_all")
    /\ pc' = [pc EXCEPT !["drain_all"] = "error"]
    /\ UNCHANGED <<tables, todo, n, passes, supervisor, shutdown, up, outages>>

(***************************************************************************)
(* The database and the process.                                           *)
(***************************************************************************)
Outage ==
    /\ up /\ outages < MaxOutages
    /\ up' = FALSE /\ outages' = outages + 1
    /\ UNCHANGED <<tables, drains, supervisor, shutdown>>

Recovery ==
    /\ ~up /\ up' = TRUE
    /\ UNCHANGED <<tables, drains, supervisor, shutdown, outages>>

Shutdown ==
    /\ ~shutdown /\ shutdown' = TRUE
    /\ UNCHANGED <<tables, drains, supervisor, up, outages>>

\* A producer's transaction commits a row.
Staged(e) ==
    /\ e \notin pending \cup published \cup dead
    /\ pending' = pending \cup {e}
    /\ UNCHANGED <<published, dead, drains, supervisor, shutdown, up, outages>>

Drain(c) == BeginPass(c) \/ \E e \in Events : Row(c, e)

Runner == Drain("runner") \/ RunPassOver \/ Poll \/ AttemptFails \/ Restart \/ Stop

Flush == Drain("drain_all") \/ FlushPassOver \/ FlushFails

Next == Runner \/ Flush \/ AttemptLasts \/ Outage \/ Recovery \/ Shutdown
        \/ \E e \in Events : Staged(e)

Spec == Init /\ [][Next]_vars

\* The runner's task is scheduled, its sleeps end, and an outage ends.
\* Shutdown and drain_all are somebody's free choice.
FairSpec == Spec /\ WF_vars(Runner) /\ WF_vars(Recovery)

(***************************************************************************)
(* Properties.                                                             *)
(***************************************************************************)

\* The k-th failure in a row waits 2^(k-1) seconds, at most MAX_BACKOFF: the
\* wait "doubles from one second up to a minute, resetting once a run has
\* lasted that long" (supervise).
BackoffSchedule ==
    pc["runner"] = "backoff" => backoff = Min2(2 ^ (streak - 1), MaxBackoff)

\* Every row the transport accepts is delivered, whatever outages, refused
\* rows (fewer than a batch) and doomed rows come before it, and however often
\* a failing row behind it ends the pass and restarts the relay, unless the
\* runner is shut down (run, supervise).
AcceptedIsDelivered ==
    \A e \in Accepted :
        (\A f \in Failing : e < f) => (e \in pending ~> e \in published \/ shutdown)

\* No row holds up another: "a per-record publish failure leaves that row for
\* the next pass (at-least-once), it does not stop the loop" (run).  Refuted
\* by a failing row: drain_once returns its error, and the rows behind it are
\* never reached.
NoRowBlocksAnother ==
    \A e \in Accepted : e \in pending ~> e \in published \/ shutdown
=============================================================================
