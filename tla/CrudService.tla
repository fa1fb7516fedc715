----------------------------- MODULE CrudService -----------------------------
(***************************************************************************)
(* GenericCrudService over a generated soft-delete Postgres repository:    *)
(* concurrent requests that read rows, put them to the write guard and the *)
(* before-hooks, write, run the after-hooks (which stage events in the     *)
(* outbox) and commit, all inside one write transaction (atomically).      *)
(* The in-process events published after the commit are best effort: they  *)
(* change nothing here and are left out.                                   *)
(*                                                                         *)
(* The transaction is Postgres at read committed: a statement sees what is *)
(* committed when it runs and waits for the row locks of an open           *)
(* transaction; a reading takes no lock.                                   *)
(*                                                                         *)
(* A row is live or in the trash since deleted_at.  An update gives        *)
(* one column a value, on the row as it was read (merge_patch and          *)
(* apply_update); a state-machine verb is an update inside as_transition.  *)
(***************************************************************************)
EXTENDS Integers, Sequences, FiniteSets

CONSTANTS Requests,     \* each makes one call of the service
          Ids,          \* row ids: numbers, in the order of ORDER BY id
          LiveAtStart,  \* rows that exist and are not deleted
          TrashAtStart, \* rows in the trash
          Targets,      \* rows that calls name by id
          Columns,      \* serialized fields but id and metadata
          StateFields,  \* PersistentEntity::state_fields, write protected
          Values,       \* what a column holds
          Edits,        \* what updates do: <<column, value, inside a verb>>
          Lists,        \* the id lists that batch calls name
          PerPage,      \* PaginationParams::MAX_PER_PAGE
          MaxBatch      \* MAX_BATCH_SIZE

ASSUME CrudAssumption ==
    /\ Ids \subseteq Nat /\ IsFiniteSet(Ids)
    /\ LiveAtStart \subseteq Ids /\ TrashAtStart \subseteq Ids \ LiveAtStart
    /\ Targets \subseteq Ids
    /\ StateFields \subseteq Columns /\ 0 \in Values
    /\ Edits \subseteq Columns \X Values \X BOOLEAN
    /\ Lists \subseteq Seq(Ids) \ {<<>>}     \* an empty list changes nothing
    /\ PerPage \in Nat \ {0} /\ MaxBatch \in Nat \ {0}

Blank == [c \in Columns |-> 0]
NoRow == [kind |-> "absent", cols |-> Blank, deleted_at |-> 0]
NoRows == [i \in {} |-> NoRow]

Creates == {"create", "bulk_create"}
Updates == {"update", "bulk_update"}
Deletes == {"soft_delete", "bulk_soft_delete"}
Restores == {"restore", "bulk_restore", "restore_all"}
Removals == {"hard_delete", "bulk_permanent_delete", "empty_trash"}
WholeTrash == {"restore_all", "empty_trash"}
SingleOps == {"update", "soft_delete", "restore", "hard_delete"}
ListOps == {"bulk_update", "bulk_soft_delete", "bulk_restore", "bulk_permanent_delete"}
Ops == Creates \cup Updates \cup Deletes \cup Restores \cup Removals

VARIABLES table,      \* committed rows
          used,       \* ids given out: a generated id is never given again
          ledger,     \* committed outbox events of each row, in order
          clock,      \* NOW(), the start of a transaction
          unasked,    \* history: <<op, id>> of committed writes nobody was asked about
          req         \* what each request is doing

vars == <<table, used, ledger, clock, unasked, req>>
data == <<table, used, ledger, clock, unasked>>

Row == [kind : {"absent", "live", "trashed"}, cols : [Columns -> Values], deleted_at : Nat]
Ended == {"ok", "none", "err"}
Active == {"read", "total", "write", "commit"}
Phases == {"new"} \cup Active \cup Ended
Events == {"created", "updated", "deleted", "restored", "removed"}

\* seen: the rows read and put to the guard and the before-hooks; count: how
\* many were read, fetched by the last page; writes: the uncommitted rows, whose
\* locks it holds.
Idle == [phase |-> "new", op |-> "none", ids |-> <<>>, col |-> "none", val |-> 0,
         verb |-> FALSE, next |-> 1, seen |-> NoRows, count |-> 0, fetched |-> 0,
         writes |-> NoRows, now |-> 0]

AreRows(f) == DOMAIN f \subseteq Ids /\ \A i \in DOMAIN f : f[i] \in Row
IsRequest(q) ==
    /\ q \in [phase : Phases, op : Ops \cup {"none"}, ids : Seq(Ids), col : Columns \cup {"none"},
              val : Values, verb : BOOLEAN, next : Nat, seen : {q.seen}, count : Nat,
              fetched : Nat, writes : {q.writes}, now : Nat]
    /\ AreRows(q.seen) /\ AreRows(q.writes)

Live(row) == row.kind = "live"
Trashed(row) == row.kind = "trashed"
Over(f, g) == [x \in DOMAIN f \cup DOMAIN g |-> IF x \in DOMAIN f THEN f[x] ELSE g[x]]
Elems(s) == {s[k] : k \in 1..Len(s)}

\* list_deleted: most recently deleted first, then by id; page p of it.
Trash == {i \in Ids : Trashed(table[i])}
Above(i) ==
    {j \in Trash : \/ table[j].deleted_at > table[i].deleted_at
                   \/ table[j].deleted_at = table[i].deleted_at /\ j < i}
Page(p) == {i \in Trash : Cardinality(Above(i)) \in (p - 1) * PerPage .. p * PerPage - 1}

\* The row an update would store, made from the row it read.
Patched(r, row) == [row EXCEPT !.cols[req[r].col] = req[r].val]

\* refuse_protected_changes: a protected column takes a new value only inside
\* a transition.
Protected(r, row) ==
    /\ ~req[r].verb
    /\ \E c \in StateFields : Patched(r, row).cols[c] # row.cols[c]

\* changed_columns: where the row to store differs from the row as read.
ChangedColumns(before, after) == {c \in Columns : before.cols[c] # after.cols[c]}

\* dedup_ids: the first of each id, in order.
DedupIds(s) ==
    LET first == {k \in 1..Len(s) : \A j \in 1..k - 1 : s[j] # s[k]}
        nth(n) == CHOOSE k \in first : Cardinality({j \in first : j <= k}) = n
    IN  [n \in 1..Cardinality(first) |-> s[nth(n)]]

Locked(r, i) == \E q \in Requests \ {r} : i \in DOMAIN req[q].writes

Init ==
    /\ table = [i \in Ids |->
           IF i \in LiveAtStart THEN [NoRow EXCEPT !.kind = "live"]
           ELSE IF i \in TrashAtStart THEN [NoRow EXCEPT !.kind = "trashed", !.deleted_at = 1]
           ELSE NoRow]
    /\ used = LiveAtStart \cup TrashAtStart
    /\ ledger = [i \in Ids |-> IF i \in LiveAtStart THEN <<"created">>
                               ELSE IF i \in TrashAtStart THEN <<"created", "deleted">>
                               ELSE <<>>]
    /\ clock = 2
    /\ unasked = {}
    /\ req = [r \in Requests |-> Idle]

Become(r, rec) == req' = [req EXCEPT ![r] = rec]

\* On to the next id of the list, or to the next phase after the last one.
Advance(q, phase) ==
    IF q.next < Len(q.ids) THEN [q EXCEPT !.next = @ + 1]
    ELSE [q EXCEPT !.next = 1, !.phase = phase]

\* A request that ends drops what it held: without a commit its writes are
\* rolled back and its locks are released.
End(r, answer) == Become(r, [Idle EXCEPT !.phase = answer])

(***************************************************************************)
(* Calls.                                                                  *)
(***************************************************************************)

Start(r, phase, op, ids, col, val, verb) ==
    /\ req[r].phase = "new"
    /\ clock' = clock + 1
    /\ IF phase = "err" THEN End(r, "err")
       ELSE Become(r, [Idle EXCEPT !.phase = phase, !.op = op, !.ids = ids, !.col = col,
                                   !.val = val, !.verb = verb, !.now = clock])
    /\ UNCHANGED <<table, ledger, unasked>>

\* create and bulk_create: the rows get fresh ids.
CallCreate(r) ==
    \E i \in Ids \ used :
        /\ \A j \in Ids \ used : i <= j
        /\ \E op \in Creates : Start(r, "write", op, <<i>>, "none", 0, FALSE)
        /\ used' = used \cup {i}

\* update and partial_update, alone or inside as_transition.
CallUpdate(r) ==
    /\ \E i \in Targets, e \in Edits : Start(r, "read", "update", <<i>>, e[1], e[2], e[3])
    /\ UNCHANGED used

\* soft_delete, restore and hard_delete.
CallSingle(r) ==
    /\ \E i \in Targets, op \in SingleOps \ Updates : Start(r, "read", op, <<i>>, "none", 0, FALSE)
    /\ UNCHANGED used

\* bulk_update and bulk_partial_update: check_batch_size, then
\* first_duplicate_id refuses a list that names a row twice.
CallBulkUpdate(r) ==
    /\ \E ids \in Lists, e \in Edits :
           /\ ~e[3]
           /\ Start(r, IF Len(ids) > MaxBatch \/ DedupIds(ids) # ids THEN "err" ELSE "read",
                    "bulk_update", ids, e[1], e[2], FALSE)
    /\ UNCHANGED used

\* bulk_soft_delete, bulk_restore, bulk_permanent_delete: check_batch_size,
\* then dedup_ids.
CallList(r) ==
    /\ \E ids \in Lists, op \in ListOps \ Updates :
           Start(r, IF Len(ids) > MaxBatch THEN "err" ELSE "read", op, DedupIds(ids), "none", 0, FALSE)
    /\ UNCHANGED used

\* empty_trash and restore_all.
CallWholeTrash(r) ==
    /\ \E op \in WholeTrash : Start(r, "read", op, <<>>, "none", 0, FALSE)
    /\ UNCHANGED used

(***************************************************************************)
(* Reading, and asking about what was read.                                *)
(***************************************************************************)

\* find_by_id, or get_deleted_by_id for what happens in the trash.
Found(r, i) == IF req[r].op \in Updates \cup Deletes THEN Live(table[i]) ELSE Trashed(table[i])

\* One row is read; the guard, the lifecycle and the before-hooks are asked
\* about it (a refusal is Fail).
ReadRow(r) ==
    LET q == req[r]
        i == q.ids[q.next]
    IN  /\ q.phase = "read" /\ q.op \notin WholeTrash
        /\ Found(r, i)
        /\ q.op \in Updates => ~Protected(r, table[i])
        /\ Become(r, Advance([q EXCEPT !.seen = Over([j \in {i} |-> table[i]], @),
                                       !.count = @ + 1], "write"))
        /\ UNCHANGED data

\* A protected column would change: the write is refused.
RefuseProtected(r) ==
    LET q == req[r] IN
    /\ q.phase = "read" /\ q.op \in Updates
    /\ Live(table[q.ids[q.next]]) /\ Protected(r, table[q.ids[q.next]])
    /\ End(r, "err")
    /\ UNCHANGED data

\* The row is not there.  A single call answers none, an update or a delete of
\* a list fails, a restore or a removal of a list leaves the row to its
\* statement and goes on.
MissRow(r) ==
    LET q == req[r] IN
    /\ q.phase = "read" /\ q.op \notin WholeTrash
    /\ ~Found(r, q.ids[q.next])
    /\ CASE q.op \in SingleOps -> End(r, "none")
         [] q.op \in {"bulk_update", "bulk_soft_delete"} -> End(r, "err")
         [] OTHER -> Become(r, Advance(q, "write"))
    /\ UNCHANGED data

\* whole_trash: one page of list_deleted.
ReadPage(r) ==
    LET q == req[r]
        batch == Page(q.next)
    IN  /\ q.phase = "read" /\ q.op \in WholeTrash
        /\ Become(r, [q EXCEPT !.seen = Over([i \in batch |-> table[i]], @), !.phase = "total",
                               !.count = @ + Cardinality(batch), !.fetched = Cardinality(batch)])
        /\ UNCHANGED data

\* list_deleted counts the trash in a second statement.  Too large a trash is
\* refused, an empty one ends the call; after the last page every row is put
\* to the guard and the hooks.
CountTrash(r) ==
    LET q == req[r]
        total == Cardinality(Trash)
        last == q.count >= total \/ q.fetched < PerPage
    IN  /\ q.phase = "total"
        /\ IF total > MaxBatch \/ q.count > MaxBatch THEN End(r, "err")
           ELSE IF last /\ q.count = 0 THEN End(r, "none")
           ELSE Become(r, [q EXCEPT !.next = @ + 1, !.phase = IF last THEN "write" ELSE "read"])
        /\ UNCHANGED data

(***************************************************************************)
(* Writing.  A statement runs on the rows that match it now, once no other *)
(* transaction holds one of them.                                          *)
(***************************************************************************)

\* insert_each.
Insert(r) ==
    LET q == req[r] IN
    /\ q.phase = "write" /\ q.op \in Creates
    /\ Become(r, [q EXCEPT !.phase = "commit",
                           !.writes = [i \in Elems(q.ids) |-> [NoRow EXCEPT !.kind = "live"]]])
    /\ UNCHANGED data

\* Mutant: the full update, which writes back every column as it was read.
SavedFull(r, i) == [table[i] EXCEPT !.cols = Patched(r, req[r].seen[i]).cols]

\* update_changed: the row as it is now, but for the columns this update
\* changed.
Saved(r, i) ==
    LET before == req[r].seen[i]
        after == Patched(r, before)
    IN  [table[i] EXCEPT !.cols =
             [c \in Columns |-> IF c \in ChangedColumns(before, after) THEN after.cols[c] ELSE @[c]]]

\* Without a changed column the statement is a SELECT, which locks nothing.
Unchanged(r, i) == ChangedColumns(req[r].seen[i], Patched(r, req[r].seen[i])) = {}

\* Mutant: ACTIVE_ROW_GUARD is left out.
UpdateRowUnguarded(r) ==
    LET q == req[r]
        i == q.ids[q.next]
    IN  /\ q.phase = "write" /\ q.op \in Updates
        /\ Unchanged(r, i) \/ ~Locked(r, i)
        /\ Become(r, Advance([q EXCEPT !.writes = IF Unchanged(r, i) THEN @
                                                  ELSE Over([j \in {i} |-> Saved(r, i)], @)], "commit"))
        /\ UNCHANGED data

\* One row of update_changed or update_each_changed, while it is live
\* (ACTIVE_ROW_GUARD).
UpdateRow(r) ==
    LET q == req[r]
        i == q.ids[q.next]
    IN  /\ q.phase = "write" /\ q.op \in Updates
        /\ Live(table[i])
        /\ Unchanged(r, i) \/ ~Locked(r, i)
        /\ Become(r, Advance([q EXCEPT !.writes = IF Unchanged(r, i) THEN @
                                                  ELSE Over([j \in {i} |-> Saved(r, i)], @)], "commit"))
        /\ UNCHANGED data

\* The row was deleted since it was read: none for one row, an error for a
\* list, whose earlier rows are rolled back.
UpdateMissed(r) ==
    LET q == req[r] IN
    /\ q.phase = "write" /\ q.op \in Updates
    /\ ~Live(table[q.ids[q.next]])
    /\ End(r, IF q.op = "update" THEN "none" ELSE "err")
    /\ UNCHANGED data

\* The ids the statement names, as often as it does: a row that moved between
\* two pages of the trash is read, and named, twice.
Named(r) == IF req[r].op \in WholeTrash THEN DOMAIN req[r].seen ELSE Elems(req[r].ids)
HowMany(r) == IF req[r].op \in WholeTrash THEN req[r].count ELSE Len(req[r].ids)

\* Mutant: the whole trash is emptied by the statement that names no id.
MatchingAll(r) ==
    {i \in IF req[r].op \in WholeTrash THEN Ids ELSE Named(r) :
        IF req[r].op \in Deletes THEN Live(table[i]) ELSE Trashed(table[i])}

\* The rows the statement matches as they are committed now.
Matching(r) ==
    {i \in Named(r) : IF req[r].op \in Deletes THEN Live(table[i]) ELSE Trashed(table[i])}

\* What the statement makes of a row.
Moved(r, i) ==
    CASE req[r].op \in Deletes -> [table[i] EXCEPT !.kind = "trashed", !.deleted_at = req[r].now]
      [] req[r].op \in Restores -> [table[i] EXCEPT !.kind = "live", !.deleted_at = 0]
      [] OTHER -> NoRow

\* Mutant: the number of affected rows is not compared.
StatementUncounted(r) ==
    LET q == req[r] IN
    /\ q.phase = "write" /\ q.op \in Deletes \cup Restores \cup Removals
    /\ \A i \in Matching(r) : ~Locked(r, i)
    /\ Become(r, [q EXCEPT !.phase = "commit", !.writes = [i \in Matching(r) |-> Moved(r, i)]])
    /\ UNCHANGED data

\* soft_delete, restore, permanent_delete and their bulk forms: one UPDATE or
\* DELETE.  A single one that matches no row answers none; a batch that does
\* not match every id it names fails and is rolled back.
Statement(r) ==
    LET q == req[r] IN
    /\ q.phase = "write" /\ q.op \in Deletes \cup Restores \cup Removals
    /\ \A i \in Matching(r) : ~Locked(r, i)
    /\ IF Cardinality(Matching(r)) = HowMany(r)
       THEN Become(r, [q EXCEPT !.phase = "commit", !.writes = [i \in Matching(r) |-> Moved(r, i)]])
       ELSE End(r, IF q.op \in SingleOps THEN "none" ELSE "err")
    /\ UNCHANGED data

(***************************************************************************)
(* The end of the transaction.                                             *)
(***************************************************************************)

\* Mutant: a restore runs the hooks for the rows it was asked about.
HookedSeen(r) == IF req[r].op \in Creates THEN DOMAIN req[r].writes ELSE DOMAIN req[r].seen

\* The rows the after-hooks are run for.
HookedRows(r) ==
    IF req[r].op \in Updates \cup Removals THEN DOMAIN req[r].seen ELSE DOMAIN req[r].writes

EventOf(op) ==
    CASE op \in Creates -> "created"
      [] op \in Updates -> "updated"
      [] op \in Deletes -> "deleted"
      [] op \in Restores -> "restored"
      [] OTHER -> "removed"

\* The after-hooks stage an event for each row, and the transaction commits:
\* rows and events together.
Commit(r) ==
    LET q == req[r] IN
    /\ q.phase = "commit"
    /\ table' = [i \in Ids |-> IF i \in DOMAIN q.writes THEN q.writes[i] ELSE table[i]]
    /\ ledger' = [i \in Ids |-> IF i \in HookedRows(r) THEN Append(ledger[i], EventOf(q.op))
                                ELSE ledger[i]]
    /\ unasked' = unasked \cup
           IF q.op \in Creates THEN {} ELSE {<<q.op, i>> : i \in DOMAIN q.writes \ DOMAIN q.seen}
    /\ End(r, "ok")
    /\ UNCHANGED <<used, clock>>

\* The guard, the lifecycle, a hook, a reference or the database refuses
\* (Postgres ends one of two transactions that wait for each other), or the
\* request is dropped: everything is rolled back.
Fail(r) ==
    /\ req[r].phase \in Active
    /\ End(r, "err")
    /\ UNCHANGED data

Call(r) ==
    \/ CallCreate(r) \/ CallUpdate(r) \/ CallSingle(r)
    \/ CallBulkUpdate(r) \/ CallList(r) \/ CallWholeTrash(r)

Step(r) ==
    \/ ReadRow(r) \/ RefuseProtected(r) \/ MissRow(r) \/ ReadPage(r) \/ CountTrash(r)
    \/ Insert(r) \/ UpdateRow(r) \/ UpdateMissed(r) \/ Statement(r)
    \/ Commit(r) \/ Fail(r)

Next == \E r \in Requests : Call(r) \/ Step(r)

Spec == Init /\ [][Next]_vars

(***************************************************************************)
(* Properties.                                                             *)
(***************************************************************************)

\* Variables hold what they should, and a row is locked by one request.
TypeOK ==
    /\ table \in [Ids -> Row]
    /\ used \subseteq Ids
    /\ \A i \in Ids : table[i].kind # "absent" => i \in used
    /\ ledger \in [Ids -> Seq(Events)]
    /\ clock \in Nat
    /\ unasked \subseteq Ops \X Ids
    /\ DOMAIN req = Requests /\ \A r \in Requests : IsRequest(req[r])
    /\ \A r, q \in Requests : r # q => DOMAIN req[r].writes \cap DOMAIN req[q].writes = {}

\* The outbox tells the life of every row: replaying its committed events
\* gives an alternation of being live and in the trash that ends where the
\* row is, whatever requests raced for it.  Rows that a batch removed without
\* having seen them are the exception: no hook ran for those.
Life(i) == {k \in 1..Len(ledger[i]) : ledger[i][k] # "updated"}
Follows(i, k, E) ==
    \E j \in Life(i) : /\ j < k /\ ledger[i][j] \in E
                      /\ \A m \in Life(i) : m < k => m <= j
LedgerTellsTheRow ==
    \A i \in Ids : <<"bulk_permanent_delete", i>> \notin unasked =>
        /\ \A k \in Life(i) :
               CASE ledger[i][k] = "created" -> \A m \in Life(i) : k <= m
                 [] ledger[i][k] = "deleted" -> Follows(i, k, {"created", "restored"})
                 [] OTHER -> Follows(i, k, {"deleted"})
        /\ Live(table[i]) <=> Follows(i, Len(ledger[i]) + 1, {"created", "restored"})
        /\ Trashed(table[i]) <=> Follows(i, Len(ledger[i]) + 1, {"deleted"})

\* No committed write touches a row the guard and the hooks were not asked
\* about (empty_trash: "a row trashed after the check is never deleted
\* unchecked").  Only a batch that restores or removes by id may, for a row
\* that was not in the trash when it looked.
AskedBeforeWritten == \A u \in unasked : u[1] \in {"bulk_restore", "bulk_permanent_delete"}

\* bulk_permanent_delete: "a row that moves between this loop and the write
\* cannot slip through".
NothingSlipsThrough == \A u \in unasked : u[1] # "bulk_permanent_delete"

\* The Transitioned change names the state the row left (from), although
\* other verbs ran since the row was read.
TransitionLeavesItsFrom ==
    \A r \in Requests : req[r].phase = "commit" /\ req[r].verb =>
        \A i \in DOMAIN req[r].writes :
            req[r].seen[i].cols[req[r].col] = table[i].cols[req[r].col]

\* What a step commits.
Commits(r) == req[r].phase = "commit" /\ req'[r].phase = "ok"

\* A column changes only by an update that sets it, and a state field only by
\* a verb: what another request wrote since the row was read is not written
\* back (update_changed).
OnlyItsColumn ==
    [][\A i \in Ids, c \in Columns :
          (table[i].kind # "absent" /\ table'[i].kind # "absent" /\ table'[i].cols[c] # table[i].cols[c]) =>
              \E r \in Requests : /\ Commits(r) /\ req[r].op \in Updates /\ req[r].col = c
                                  /\ c \in StateFields => req[r].verb]_vars

\* A row in the trash is not edited and comes back only by a restore, although
\* an update read it while it was live (ACTIVE_ROW_GUARD: "can never revive
\* the row").
TrashIsFrozen ==
    [][\A i \in Ids : (Trashed(table[i]) /\ table'[i] # table[i] /\ table'[i].kind # "absent") =>
          /\ table'[i].cols = table[i].cols
          /\ \E r \in Requests : Commits(r) /\ req[r].op \in Restores]_vars

\* A batch takes effect on every row it names, in one step, or on none; an
\* update of rows that already read as they should writes nothing.
AllOrNothing ==
    [][\A r \in Requests : (Commits(r) /\ req[r].op \in ListOps \cup WholeTrash) =>
          \A i \in Named(r) :
              CASE req[r].op \in Updates ->
                       req[r].seen[i].cols[req[r].col] # req[r].val =>
                           Live(table'[i]) /\ table'[i].cols[req[r].col] = req[r].val
                [] req[r].op \in Deletes -> Trashed(table'[i])
                [] req[r].op \in Restores -> Live(table'[i])
                [] OTHER -> table'[i] = NoRow]_vars

=============================================================================
