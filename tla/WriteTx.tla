------------------------------ MODULE WriteTx ------------------------------
(***************************************************************************)
(* The write transaction and the request scope of backbone-orm, on one      *)
(* pooled connection (write_tx.rs, company_scope.rs).                       *)
(*                                                                          *)
(* A request either holds a connection of its own for its whole life, with  *)
(* app.company_id set at session level (with_request_scope, mode "scope"),  *)
(* or takes a pool connection for one write transaction (mode "own").  Its  *)
(* write transactions nest: the outermost unit is a transaction, the inner  *)
(* ones are savepoints.  The future of the request can be dropped at any    *)
(* await; the units and the scope guard it held then clean up from spawned  *)
(* tasks, in an order nobody fixes.                                         *)
(*                                                                          *)
(* Postgres is external: a failed statement aborts the transaction until a  *)
(* rollback, and a rollback also undoes the SET of a session variable.      *)
(***************************************************************************)
EXTENDS Naturals, Sequences

CONSTANTS
    Requests,        \* each request is of a company of its own
    None,            \* no request; no company bound
    Rows,            \* rows the requests may insert, each at most once
    MaxDepth         \* bound: transaction and savepoints of one request

ASSUME WriteTxAssumption ==
    /\ None \notin Requests
    /\ MaxDepth \in Nat \ {0}

VARIABLES
    waiting,    \* requests that have not come yet
    request,    \* the request whose future holds the connection, or None
    mode,       \* how it holds it
    units,      \* its open TxUnits, outermost first
    finishing,  \* result the innermost unit is finished with, or "no"
    tasks,      \* spawned clean-up tasks that hold the connection
    levels,     \* the connection's transaction and savepoints, outermost first
    aborted,    \* the open transaction accepts no statement
    company,    \* app.company_id as a statement on the connection reads it
    broken,     \* the connection failed: it is closed, not returned
    db,         \* committed rows
    promised,   \* rows whose outermost write returned Ok
    denied,     \* rows of a unit that returned Err or was dropped
    stray       \* history: a level was left to nobody, or a request went on
                \* while the rollback of a unit dropped inside it was pending

conn == <<levels, aborted, company>>
answers == <<promised, denied>>
vars == <<waiting, request, mode, units, finishing, tasks, conn, broken, db, answers, stray>>

Depth == Len(levels)

(* The connection is in the pool when nobody holds an Arc of it.            *)
Pooled == request = None /\ tasks = {}

Unit(base) == [base |-> base, rows |-> {}]
Level(c) == [rows |-> {}, company |-> c]

(* The innermost unit or level takes the rows R.                            *)
Grown(e, R) == [e EXCEPT !.rows = @ \cup R]
WithRows(s, R) == [s EXCEPT ![Len(s)] = Grown(s[Len(s)], R)]

RollbackTask(base) == [kind |-> "rollback", base |-> base]
ResetTask == [kind |-> "reset", base |-> 0]

Init ==
    /\ waiting = Requests
    /\ request = None
    /\ mode = "own"
    /\ units = <<>>
    /\ finishing = "no"
    /\ tasks = {}
    /\ levels = <<>>
    /\ aborted = FALSE
    /\ company = None
    /\ broken = FALSE
    /\ db = {}
    /\ promised = {}
    /\ denied = {}
    /\ stray = FALSE

-----------------------------------------------------------------------------
(* What Postgres and the driver do.                                         *)

(* Roll back until the driver is at depth base; on a failed connection the  *)
(* rollback fails and the connection is closed instead.                     *)
RollbackTo(base) ==
    IF broken \/ Depth <= base
    THEN UNCHANGED conn
    ELSE /\ levels' = SubSeq(levels, 1, base)
         /\ company' = levels[base + 1].company
         /\ aborted' = FALSE

(* COMMIT at depth 1, RELEASE SAVEPOINT below, nothing at depth 0.  COMMIT  *)
(* of an aborted transaction is a quiet ROLLBACK; a variable bound          *)
(* transaction-locally (mode "own") falls back at the end of it.            *)
Committed ==
    LET top == levels[Depth]
    IN  /\ levels' = IF Depth <= 1 THEN <<>> ELSE WithRows(SubSeq(levels, 1, Depth - 1), top.rows)
        /\ db' = IF Depth = 1 /\ ~aborted THEN db \cup top.rows ELSE db
        /\ company' = IF Depth = 1 /\ (mode = "own" \/ aborted) THEN top.company ELSE company
        /\ aborted' = IF Depth > 1 THEN aborted ELSE FALSE

CommitUnprobed(base) ==
    /\ ~broken
    /\ Depth > 1 => ~aborted

(* finish goes on to commit: the outermost unit probes the transaction with *)
(* a SELECT, an inner one relies on RELEASE being refused when aborted.     *)
CommitAccepted(base) ==
    /\ ~broken
    /\ base = 0 \/ Depth > 1 => ~aborted

-----------------------------------------------------------------------------
(* The request.                                                             *)

Working == request # None /\ finishing = "no"

Usable == Working /\ ~broken /\ ~aborted

(* The request uses the connection: ahead of the rollback of a unit dropped *)
(* inside it, if one is pending.                                            *)
Overtakes == stray' = (stray \/ tasks # {})

(* A connection drawn from the pool; a failed one was closed and replaced.  *)
(* The first command on one left aborted would be refused.                  *)
Drawn(r) ==
    /\ Pooled
    /\ aborted => broken
    /\ r \in waiting
    /\ waiting' = waiting \ {r}
    /\ request' = r
    /\ broken' = FALSE

Left(v, fresh) == IF broken THEN fresh ELSE v

(* with_request_scope: the company is set at session level, for the whole   *)
(* request.                                                                 *)
OpenScope(r) ==
    /\ Drawn(r)
    /\ mode' = "scope"
    /\ company' = r
    /\ levels' = Left(levels, <<>>)
    /\ aborted' = FALSE
    /\ UNCHANGED <<units, finishing, tasks, db, answers, stray>>

BeginOwnUnbound(r) ==
    /\ Drawn(r)
    /\ mode' = "own"
    /\ LET before == Left(levels, <<>>) IN
       /\ units' = <<Unit(Len(before))>>
       /\ levels' = Append(before, Level(Left(company, None)))
    /\ aborted' = FALSE
    /\ company' = Left(company, None)
    /\ UNCHANGED <<finishing, tasks, db, answers, stray>>

(* in_write_tx without a request connection: a transaction on a connection  *)
(* of its own, the company bound transaction-locally.                       *)
BeginOwn(r) ==
    /\ Drawn(r)
    /\ mode' = "own"
    /\ LET before == Left(levels, <<>>) IN
       /\ units' = <<Unit(Len(before))>>
       /\ levels' = Append(before, Level(Left(company, None)))
    /\ aborted' = FALSE
    /\ company' = r
    /\ UNCHANGED <<finishing, tasks, db, answers, stray>>

BeginBaseBefore ==
    /\ Usable
    /\ Len(units) < MaxDepth
    /\ units' = Append(units, Unit(Depth - 1))
    /\ levels' = Append(levels, Level(company))
    /\ Overtakes
    /\ UNCHANGED <<waiting, request, mode, finishing, tasks, aborted, company, broken, db, answers>>

(* in_write_tx on the request connection or inside another one, begin_unit  *)
(* and within_savepoint.                                                    *)
Begin ==
    /\ Usable
    /\ Len(units) < MaxDepth
    /\ units' = Append(units, Unit(Depth))
    /\ levels' = Append(levels, Level(company))
    /\ Overtakes
    /\ UNCHANGED <<waiting, request, mode, finishing, tasks, aborted, company, broken, db, answers>>

Used == db \cup promised \cup denied \cup UNION {units[i].rows : i \in DOMAIN units}

(* A statement of the work inserts a row: in the innermost unit, or on its  *)
(* own when the request has no unit open.  Without a transaction on the     *)
(* connection it commits by itself.                                         *)
Insert(row) ==
    /\ Usable
    /\ row \in Rows \ Used
    /\ IF units = <<>>
       THEN promised' = promised \cup {row} /\ UNCHANGED units
       ELSE units' = WithRows(units, {row}) /\ UNCHANGED promised
    /\ IF levels = <<>>
       THEN db' = db \cup {row} /\ UNCHANGED levels
       ELSE levels' = WithRows(levels, {row}) /\ UNCHANGED db
    /\ Overtakes
    /\ UNCHANGED <<waiting, request, mode, finishing, tasks, aborted, company, broken, denied>>

(* A statement fails: Postgres aborts the transaction.  The work may pass   *)
(* the error on or swallow it.                                              *)
StatementFails ==
    /\ Usable
    /\ levels # <<>>
    /\ aborted' = TRUE
    /\ UNCHANGED <<waiting, request, mode, units, finishing, tasks, levels, company, broken, db, answers, stray>>

(* The connection fails between two commands.                               *)
ConnectionLost ==
    /\ ~Pooled
    /\ ~broken
    /\ broken' = TRUE
    /\ UNCHANGED <<waiting, request, mode, units, finishing, tasks, conn, db, answers, stray>>

-----------------------------------------------------------------------------
(* The end of a unit: finish.                                               *)

Top == units[Len(units)]

(* The work returned: finish marks the unit done before its first await.    *)
WorkReturns ==
    /\ Working
    /\ units # <<>>
    /\ finishing' \in {"ok", "err"}
    /\ UNCHANGED <<waiting, request, mode, units, tasks, conn, broken, db, answers, stray>>

(* The unit leaves; an outermost unit on a connection of its own lets go of *)
(* the connection.                                                          *)
UnitLeaves(rest) ==
    /\ units' = rest
    /\ finishing' = "no"
    /\ request' = IF mode = "own" /\ rest = <<>> THEN None ELSE request
    /\ UNCHANGED <<waiting, mode, tasks, broken>>

Outer == SubSeq(units, 1, Len(units) - 1)

(* Ok and committed: the rows wait for the outer unit, or are durable.      *)
FinishOk ==
    /\ finishing = "ok"
    /\ CommitAccepted(Top.base)
    /\ Committed
    /\ IF Outer = <<>>
       THEN /\ UnitLeaves(<<>>)
            /\ promised' = promised \cup Top.rows
       ELSE /\ UnitLeaves(WithRows(Outer, Top.rows))
            /\ UNCHANGED promised
    /\ Overtakes
    /\ UNCHANGED denied

FinishErrReleases ==
    /\ \/ finishing = "err"
       \/ finishing = "ok" /\ (~CommitAccepted(Top.base) \/ Depth = 1)
    /\ IF Top.base = 0 \/ aborted \/ broken THEN RollbackTo(Top.base) /\ UNCHANGED db ELSE Committed
    /\ UnitLeaves(Outer)
    /\ denied' = denied \cup Top.rows
    /\ UNCHANGED <<promised, stray>>

FinishErrRollsBackAll ==
    /\ \/ finishing = "err"
       \/ finishing = "ok" /\ (~CommitAccepted(Top.base) \/ Depth = 1)
    /\ RollbackTo(0)
    /\ UnitLeaves(Outer)
    /\ denied' = denied \cup Top.rows
    /\ UNCHANGED <<db, promised, stray>>

(* The work failed, the probe or the commit was refused, or COMMIT failed   *)
(* (a deferred constraint, a serialization failure): rolled back, an error. *)
FinishErr ==
    /\ \/ finishing = "err"
       \/ finishing = "ok" /\ (~CommitAccepted(Top.base) \/ Depth = 1)
    /\ RollbackTo(Top.base)
    /\ UnitLeaves(Outer)
    /\ denied' = denied \cup Top.rows
    /\ UNCHANGED <<db, promised, stray>>

-----------------------------------------------------------------------------
(* The end of a request scope: every variable is reset, at session level.   *)

ResetAccepted == ~broken /\ ~aborted

(* The normal exit, awaited in line.  It keeps its own Arc until after the  *)
(* reset, so a reset that fails is logged and never detaches.               *)
CloseScope ==
    /\ Working
    /\ mode = "scope"
    /\ units = <<>>
    /\ company' = IF ResetAccepted THEN None ELSE company
    /\ request' = None
    /\ UNCHANGED <<waiting, mode, units, finishing, tasks, levels, aborted, broken, db, answers, stray>>

(* The future is dropped inside that reset, before the command is sent: the *)
(* guard was disarmed before the first await.                               *)
DropInReset ==
    /\ Working
    /\ mode = "scope"
    /\ units = <<>>
    /\ request' = None
    /\ UNCHANGED <<waiting, mode, units, finishing, tasks, conn, broken, db, answers, stray>>

-----------------------------------------------------------------------------
(* Cancellation.                                                            *)

DroppedOutermost(k) ==
    {RollbackTask(units[i].base) :
        i \in {j \in (k + 1)..Len(units) : j = 1 /\ mode = "own" /\ finishing = "no"}}

(* The units above the first k are dropped.  A unit inside finish is marked *)
(* done and does nothing; every other one spawns its rollback.              *)
Dropped(k) ==
    {RollbackTask(units[i].base) :
        i \in {j \in (k + 1)..Len(units) : ~(j = Len(units) /\ finishing # "no")}}

(* The future of the request, or of one in_write_tx inside it, is dropped   *)
(* (a client disconnect, a timeout): at an await of its work, or at one of  *)
(* finish before COMMIT or ROLLBACK is sent.  Nobody is left to roll back a *)
(* unit that is dropped alone inside finish.                                *)
Cancel(k, whole) ==
    /\ request # None
    /\ k \in 0..Len(units)
    /\ whole => k = 0
    /\ IF whole THEN mode = "own" => units # <<>>
                ELSE k < Len(units) /\ (mode = "own" => k > 0)
    /\ tasks' = tasks \cup Dropped(k)
                      \cup (IF whole /\ mode = "scope" THEN {ResetTask} ELSE {})
    /\ denied' = denied \cup UNION {units[i].rows : i \in (k + 1)..Len(units)}
    /\ units' = SubSeq(units, 1, k)
    /\ finishing' = "no"
    /\ request' = IF whole THEN None ELSE request
    /\ stray' = (stray \/ (finishing # "no" /\ k = Len(units) - 1))
    /\ UNCHANGED <<waiting, mode, conn, broken, db, promised>>

(* The task a dropped unit spawned takes the connection's lock and rolls    *)
(* back.                                                                    *)
RunRollback(t) ==
    /\ t \in tasks
    /\ t.kind = "rollback"
    /\ RollbackTo(t.base)
    /\ tasks' = tasks \ {t}
    /\ UNCHANGED <<waiting, request, mode, units, finishing, broken, db, answers, stray>>

(* The task a dropped scope guard spawned resets the variables; if that     *)
(* fails and it holds the last Arc, it detaches the connection.             *)
RunReset(t) ==
    /\ t \in tasks
    /\ t.kind = "reset"
    /\ tasks' = tasks \ {t}
    /\ company' = IF ResetAccepted THEN None ELSE company
    /\ broken' = (broken \/ (~ResetAccepted /\ tasks = {t}))
    /\ UNCHANGED <<waiting, request, mode, units, finishing, levels, aborted, db, answers, stray>>

-----------------------------------------------------------------------------
Next ==
    \/ \E r \in Requests : OpenScope(r) \/ BeginOwn(r)
    \/ Begin
    \/ \E row \in Rows : Insert(row)
    \/ StatementFails
    \/ ConnectionLost
    \/ WorkReturns
    \/ FinishOk
    \/ FinishErr
    \/ CloseScope
    \/ DropInReset
    \/ \E k \in 0..MaxDepth, whole \in BOOLEAN : Cancel(k, whole)
    \/ \E t \in tasks : RunRollback(t) \/ RunReset(t)

Spec == Init /\ [][Next]_vars

-----------------------------------------------------------------------------
(* Properties.                                                              *)

(* Every variable stays in its set; the depth a unit began at, which its    *)
(* rollback returns to, is a natural number (TxUnit::base_depth).           *)
TypeOK ==
    /\ waiting \subseteq Requests
    /\ request \in Requests \cup {None}
    /\ mode \in {"own", "scope"}
    /\ units \in Seq([base : Nat, rows : SUBSET Rows])
    /\ finishing \in {"no", "ok", "err"}
    /\ tasks \subseteq [kind : {"rollback", "reset"}, base : Nat]
    /\ levels \in Seq([rows : SUBSET Rows, company : Requests \cup {None}])
    /\ aborted \in BOOLEAN
    /\ company \in Requests \cup {None}
    /\ broken \in BOOLEAN
    /\ db \subseteq Rows
    /\ promised \subseteq Rows
    /\ denied \subseteq Rows
    /\ stray \in BOOLEAN

(* The answer is the truth: the committed rows are exactly those of the     *)
(* writes that returned Ok, through nesting, swallowed errors, refused      *)
(* commits, failed connections and dropped futures, unless a unit was       *)
(* dropped alone inside finish or its rollback was overtaken (in_write_tx,  *)
(* finish).                                                                 *)
AnswerIsTruth == stray \/ db = promised

(* The same without exception, as in_write_tx's documentation has it        *)
(* ("committed when f returns Ok"): refuted by a drop inside finish.        *)
CommittedWhenOk == db = promised

(* Nothing of a unit that returned an error or was dropped is ever          *)
(* committed, not even by the unit around it (the savepoints of             *)
(* in_write_tx, within_savepoint and the bulk writes), with the same        *)
(* exceptions.                                                              *)
DeniedIsUndone == stray \/ denied \cap db = {}

(* A failed inner unit leaves the transaction around it usable: not aborted *)
(* and with every row it had (rollback to the savepoint), even with the     *)
(* rollback of a unit dropped inside it still pending.                      *)
InnerFailureContained ==
    [][ FinishErr /\ Outer # <<>> /\ ~broken /\ ~stray
          => ~aborted' /\ levels' = SubSeq(levels, 1, Len(Outer)) ]_vars

(* A transaction never returns to the pool open (the Cancellation section   *)
(* of write_tx.rs): refuted by a drop inside finish.                        *)
NeverReturnsOpen == Pooled /\ ~broken => levels = <<>>

(* It does not, unless a unit was dropped alone inside finish or the        *)
(* rollback of one was overtaken (Drop for TxUnit).                         *)
RolledBackBeforePool == stray \/ NeverReturnsOpen

(* A statement runs under the company of its own request, whoever had the   *)
(* connection before and whatever was rolled back on it, with the same      *)
(* exceptions (with_request_scope, bind_task_scope).                        *)
OwnCompany == stray \/ (Usable => company = request)

(* A connection returns to the pool with no company bound                   *)
(* (with_request_scope, ScopeResetGuard).                                   *)
ReturnsUnscoped == Pooled /\ ~broken => company = None
=============================================================================
