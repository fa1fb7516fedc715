------------------------------- MODULE Outbox -------------------------------
(***************************************************************************)
(* The transactional outbox of backbone-outbox: producers stage an event   *)
(* in the transaction of the state change that raised it, relays hand the  *)
(* staged rows to a transport and mark them, consumers deduplicate through *)
(* the inbox table.                                                        *)
(*                                                                         *)
(* An event is a natural number: its place in the order "ORDER BY          *)
(* occurred_at, id" of the relay's query.  The table outbox_events is      *)
(* three sets of events: the rows that exist, the rows whose published_at  *)
(* is not NULL and the rows whose failed_at is not NULL.                   *)
(***************************************************************************)
EXTENDS Naturals, FiniteSets

CONSTANTS
    Events,     \* the events producers may raise, in drain order
    Consumers,  \* the consumers behind the transport, each with its inbox key
    Relays,     \* the relay workers that drain this schema
    Batch,      \* the LIMIT of one drain_once
    Poison,     \* the events the transport never accepts
    MaxFaults   \* bound: crashes, refusals of healthy events, database errors

ASSUME EventsAssumption == Events \subseteq Nat
ASSUME BatchAssumption == Batch \in Nat \ {0}
ASSUME PoisonAssumption == Poison \subseteq Events
ASSUME MaxFaultsAssumption == MaxFaults \in Nat
ASSUME ConsumersAssumption == "none" \notin Consumers

VARIABLES
    business,   \* events whose state change is committed in the producer's own tables
    rows,       \* ids present in outbox_events
    published,  \* rows with published_at set
    failed,     \* rows with failed_at set
    ptx,        \* the producer's transaction of each event
    inbox,      \* inbox_consumed: <<consumer, event>> pairs
    effect,     \* how often each consumer's effect of each event has been committed
    pc,         \* where each relay is in drain_once
    todo,       \* rows of the relay's batch that its loop has not finished
    called,     \* consumers the transport has served in the current publish
    ctx,        \* the consumer whose transaction is open in the current publish
    claimed,    \* what inbox::once returned in that transaction
    faults      \* faults so far

producerVars == <<business, ptx>>
tableVars == <<rows, published, failed>>
consumerVars == <<inbox, effect>>
relayVars == <<pc, todo, called, ctx, claimed>>
vars == <<producerVars, tableVars, consumerVars, relayVars, faults>>

NoTx == "none"    \* no consumer transaction is open

PtxStates == {"idle", "wrote", "staged"}
RelayStates == {"idle", "publish", "ok", "exhausted"}

TypeOK ==
    /\ business \subseteq Events
    /\ rows \subseteq Events
    /\ published \subseteq rows
    /\ failed \subseteq rows
    /\ ptx \in [Events -> PtxStates]
    /\ inbox \subseteq Consumers \X Events
    /\ effect \in [Consumers \X Events -> Nat]
    /\ pc \in [Relays -> RelayStates]
    /\ todo \in [Relays -> SUBSET Events]
    /\ called \in [Relays -> SUBSET Consumers]
    /\ ctx \in [Relays -> Consumers \cup {NoTx}]
    /\ claimed \in [Relays -> BOOLEAN]
    /\ faults \in 0..MaxFaults

Init ==
    /\ business = {} /\ rows = {} /\ published = {} /\ failed = {}
    /\ ptx = [e \in Events |-> "idle"]
    /\ inbox = {}
    /\ effect = [k \in Consumers \X Events |-> 0]
    /\ pc = [r \in Relays |-> "idle"]
    /\ todo = [r \in Relays |-> {}]
    /\ called = [r \in Relays |-> {}]
    /\ ctx = [r \in Relays |-> NoTx]
    /\ claimed = [r \in Relays |-> FALSE]
    /\ faults = 0

(***************************************************************************)
(* Producers.  The state change and outbox::stage run on one transaction;  *)
(* neither is visible before it commits.  A producer may retry an event    *)
(* that it already committed: the insert is ON CONFLICT (id) DO NOTHING.   *)
(***************************************************************************)

\* The producer opens its transaction and writes its own state.
Write(e) ==
    /\ ptx[e] = "idle"
    /\ ptx' = [ptx EXCEPT ![e] = "wrote"]
    /\ UNCHANGED <<business, tableVars, consumerVars, relayVars, faults>>

\* Mutant of Stage: the row is inserted on another connection, and stays
\* when the producer's transaction rolls back.
StageOutsideTx(e) ==
    /\ ptx[e] = "wrote"
    /\ ptx' = [ptx EXCEPT ![e] = "staged"]
    /\ rows' = rows \cup {e}
    /\ UNCHANGED <<business, published, failed, consumerVars, relayVars, faults>>

\* stage() on the producer's transaction.
Stage(e) ==
    /\ ptx[e] = "wrote"
    /\ ptx' = [ptx EXCEPT ![e] = "staged"]
    /\ UNCHANGED <<business, tableVars, consumerVars, relayVars, faults>>

\* Mutant of Commit: the event is left to a later statement that never runs.
CommitStateOnly(e) ==
    /\ ptx[e] = "staged"
    /\ ptx' = [ptx EXCEPT ![e] = "idle"]
    /\ business' = business \cup {e}
    /\ UNCHANGED <<tableVars, consumerVars, relayVars, faults>>

\* Mutant of Commit: ON CONFLICT (id) DO UPDATE, a retry resets the marks.
CommitUpsert(e) ==
    /\ ptx[e] = "staged"
    /\ ptx' = [ptx EXCEPT ![e] = "idle"]
    /\ business' = business \cup {e}
    /\ rows' = rows \cup {e}
    /\ published' = published \ {e}
    /\ UNCHANGED <<failed, consumerVars, relayVars, faults>>

\* The transaction commits: the state change and the row appear together.
\* A row that was there keeps its marks (DO NOTHING).
Commit(e) ==
    /\ ptx[e] = "staged"
    /\ ptx' = [ptx EXCEPT ![e] = "idle"]
    /\ business' = business \cup {e}
    /\ rows' = rows \cup {e}
    /\ UNCHANGED <<published, failed, consumerVars, relayVars, faults>>

\* Mutant of Rollback: the failed retry takes the committed row with it.
RollbackDeletesRow(e) ==
    /\ ptx[e] # "idle"
    /\ ptx' = [ptx EXCEPT ![e] = "idle"]
    /\ rows' = rows \ {e}
    /\ UNCHANGED <<business, published, failed, consumerVars, relayVars, faults>>

\* The transaction is dropped or rolled back.
Rollback(e) ==
    /\ ptx[e] # "idle"
    /\ ptx' = [ptx EXCEPT ![e] = "idle"]
    /\ UNCHANGED <<business, tableVars, consumerVars, relayVars, faults>>

(***************************************************************************)
(* drain_once.  The batch is read without row locks, so the copies in todo *)
(* may be stale by the time they are published.                            *)
(***************************************************************************)

Pending == rows \ (published \cup failed)

\* The SELECT: the Batch oldest pending rows.
OldestPending == {e \in Pending : Cardinality({f \in Pending : f < e}) < Batch}

\* The row the loop of drain_once is at: the rows are handled in drain order.
IsCurrent(r, e) == e \in todo[r] /\ \A f \in todo[r] : e <= f

Select(r) ==
    /\ pc[r] = "idle"
    /\ OldestPending # {}
    /\ todo' = [todo EXCEPT ![r] = OldestPending]
    /\ pc' = [pc EXCEPT ![r] = "publish"]
    /\ UNCHANGED <<producerVars, tableVars, consumerVars, called, ctx, claimed, faults>>

\* The loop is done with row e: it goes on with the next row, or the pass
\* returns.  A consumer transaction that is still open rolls back.
FinishRow(r, e) ==
    /\ todo' = [todo EXCEPT ![r] = @ \ {e}]
    /\ pc' = [pc EXCEPT ![r] = IF todo[r] = {e} THEN "idle" ELSE "publish"]
    /\ called' = [called EXCEPT ![r] = {}]
    /\ ctx' = [ctx EXCEPT ![r] = NoTx]
    /\ claimed' = [claimed EXCEPT ![r] = FALSE]

\* Mutant of KeyHeld: the claim is a SELECT before an INSERT without the
\* primary key, so two open transactions may both see no row.
KeyNeverHeld(r, c, e) == FALSE

\* Another relay's open transaction has inserted the inbox key: the insert
\* of a second one waits for it to end.
KeyHeld(r, c, e) ==
    \E q \in Relays \ {r} : ctx[q] = c /\ claimed[q] /\ IsCurrent(q, e)

\* Inside publish: consumer c opens its transaction and calls inbox::once.
Once(r, c, e) ==
    /\ pc[r] = "publish" /\ ctx[r] = NoTx
    /\ IsCurrent(r, e) /\ e \notin Poison
    /\ c \notin called[r]
    /\ ~KeyHeld(r, c, e)
    /\ ctx' = [ctx EXCEPT ![r] = c]
    /\ claimed' = [claimed EXCEPT ![r] = <<c, e>> \notin inbox]
    /\ UNCHANGED <<producerVars, tableVars, consumerVars, pc, todo, called, faults>>

\* The consumer's transaction commits: the claim and the effect together,
\* or nothing at all when the claim was a redelivery.
Consume(r, e) ==
    /\ ctx[r] # NoTx
    /\ IsCurrent(r, e)
    /\ \/ /\ claimed[r]
          /\ inbox' = inbox \cup {<<ctx[r], e>>}
          /\ effect' = [effect EXCEPT ![<<ctx[r], e>>] = @ + 1]
       \/ /\ ~claimed[r]
          /\ UNCHANGED consumerVars
    /\ called' = [called EXCEPT ![r] = @ \cup {ctx[r]}]
    /\ ctx' = [ctx EXCEPT ![r] = NoTx]
    /\ claimed' = [claimed EXCEPT ![r] = FALSE]
    /\ UNCHANGED <<producerVars, tableVars, pc, todo, faults>>

\* publish answers Ok: every consumer has handled the event.
PublishOk(r) ==
    /\ pc[r] = "publish" /\ ctx[r] = NoTx
    /\ called[r] = Consumers
    /\ pc' = [pc EXCEPT ![r] = "ok"]
    /\ UNCHANGED <<producerVars, tableVars, consumerVars, todo, called, ctx, claimed, faults>>

\* publish answers Err(Publish): the row stays pending, the loop goes on.
\* The refusal of a poison event does not count as a fault.
PublishRefused(r, e) ==
    /\ pc[r] = "publish"
    /\ IsCurrent(r, e)
    /\ \/ e \in Poison /\ UNCHANGED faults
       \/ e \notin Poison /\ faults < MaxFaults /\ faults' = faults + 1
    /\ FinishRow(r, e)
    /\ UNCHANGED <<producerVars, tableVars, consumerVars>>

\* publish answers Err(Exhausted): the transport gave up on this record.
PublishExhausted(r) ==
    /\ pc[r] = "publish" /\ ctx[r] = NoTx
    /\ faults < MaxFaults
    /\ faults' = faults + 1
    /\ pc' = [pc EXCEPT ![r] = "exhausted"]
    /\ UNCHANGED <<producerVars, tableVars, consumerVars, todo, called, ctx, claimed>>

\* UPDATE ... SET published_at = now() WHERE id = $1 AND published_at IS NULL.
MarkPublished(r, e) ==
    /\ pc[r] = "ok"
    /\ IsCurrent(r, e)
    /\ published' = published \cup {e}
    /\ FinishRow(r, e)
    /\ UNCHANGED <<producerVars, rows, failed, consumerVars, faults>>

\* Mutant of MarkDead: giving up reads as delivered.
MarkDeadAsPublished(r, e) ==
    /\ pc[r] = "exhausted"
    /\ IsCurrent(r, e)
    /\ published' = published \cup {e}
    /\ FinishRow(r, e)
    /\ UNCHANGED <<producerVars, rows, failed, consumerVars, faults>>

\* UPDATE ... SET failed_at = now() WHERE id = $1 AND published_at IS NULL.
MarkDead(r, e) ==
    /\ pc[r] = "exhausted"
    /\ IsCurrent(r, e)
    /\ failed' = IF e \in published THEN failed ELSE failed \cup {e}
    /\ FinishRow(r, e)
    /\ UNCHANGED <<producerVars, rows, published, consumerVars, faults>>

\* The pass ends early wherever it is: another error of publish or of an
\* UPDATE is returned, the runner's shutdown drops the future, or the
\* process crashes.  An open consumer transaction rolls back.
Abort(r) ==
    /\ pc[r] # "idle" /\ faults < MaxFaults
    /\ faults' = faults + 1
    /\ pc' = [pc EXCEPT ![r] = "idle"]
    /\ todo' = [todo EXCEPT ![r] = {}]
    /\ called' = [called EXCEPT ![r] = {}]
    /\ ctx' = [ctx EXCEPT ![r] = NoTx]
    /\ claimed' = [claimed EXCEPT ![r] = FALSE]
    /\ UNCHANGED <<producerVars, tableVars, consumerVars>>

(***************************************************************************)
(* The operator.                                                           *)
(***************************************************************************)

\* Rows dead_count counts and list_dead lists.
Dead == failed

\* Rows reemit can hand back: failed_at IS NOT NULL AND published_at IS NULL.
Revivable == failed \ published

Reemit(e) ==
    /\ e \in Revivable
    /\ failed' = failed \ {e}
    /\ UNCHANGED <<producerVars, rows, published, consumerVars, relayVars, faults>>

ReemitAll ==
    /\ Revivable # {}
    /\ failed' = failed \ Revivable
    /\ UNCHANGED <<producerVars, rows, published, consumerVars, relayVars, faults>>

Produce(e) == Write(e) \/ Stage(e) \/ Commit(e) \/ Rollback(e)

\* What a relay does of its own accord once publish has answered well.
Progress(r) ==
    \/ Select(r)
    \/ \E e \in Events : \/ \E c \in Consumers : Once(r, c, e)
                         \/ Consume(r, e)
                         \/ MarkPublished(r, e)
                         \/ MarkDead(r, e)
    \/ PublishOk(r)

Relay(r) ==
    \/ Progress(r)
    \/ \E e \in Events : PublishRefused(r, e)
    \/ PublishExhausted(r)
    \/ Abort(r)

Next ==
    \/ \E e \in Events : Produce(e) \/ Reemit(e)
    \/ ReemitAll
    \/ \E r \in Relays : Relay(r)

Spec == Init /\ [][Next]_vars

(***************************************************************************)
(* Properties.                                                             *)
(***************************************************************************)

\* However often a row is redelivered, by a retry, after a crash between
\* publish and mark, or by a second relay, the effect of an event on a
\* consumer is committed at most once, and exactly when its inbox row is
\* (inbox.rs: "at-least-once delivery becomes an exactly-once effect").
ExactlyOnceEffect ==
    \A k \in Consumers \X Events : effect[k] = IF k \in inbox THEN 1 ELSE 0

\* No consumer sees the effect of a change that was rolled back
\* (lib.rs: "none is emitted for a rolled-back change").
NoPhantomEffect ==
    \A k \in Consumers \X Events : effect[k] > 0 => k[2] \in business

\* A row reads as published only after every consumer had its effect: a
\* dropped effect never reads as delivered (tests/mechanics.rs, M9).
PublishedMeansDelivered ==
    \A e \in published, c \in Consumers : effect[<<c, e>>] = 1

\* A committed change is never lost to its consumers: its event is offered
\* to the next drain, or an operator can re-emit it, or it had every effect.
NoLostEvent ==
    \A e \in business :
        \/ e \in Pending
        \/ e \in Revivable
        \/ \A c \in Consumers : effect[<<c, e>>] = 1

\* A relay's local state is that of one place in drain_once.
RelayLocal(r) ==
    /\ todo[r] \subseteq rows
    /\ pc[r] = "idle" => todo[r] = {}
    /\ pc[r] = "ok" => called[r] = Consumers
    /\ ctx[r] # NoTx => pc[r] = "publish"
    /\ claimed[r] => ctx[r] # NoTx
    /\ todo[r] = {} => called[r] = {} /\ ctx[r] = NoTx

\* What relay r may conclude about the row e it is at.
Knows(r, e) ==
    /\ \A c \in called[r] : <<c, e>> \in inbox
    /\ ctx[r] # NoTx => (claimed[r] <=> <<ctx[r], e>> \notin inbox)
    /\ claimed[r] => \A q \in Relays \ {r} :
          ~(claimed[q] /\ ctx[q] = ctx[r] /\ IsCurrent(q, e))

\* What a relay knows in the middle of a pass, although it holds no lock on
\* the row: the consumers it has served have the event in their inbox, and a
\* claim that inbox::once granted stays exclusive until its transaction ends.
RelayKnowledge ==
    \A r \in Relays :
        /\ RelayLocal(r)
        /\ \A e \in Events : IsCurrent(r, e) => Knows(r, e)

\* published_at is final: no retry of the producer, no relay that still holds
\* a stale copy and no re-emit makes the row drainable again.
PublishedIsFinal == [][published \subseteq published' /\ published \cap Pending' = {}]_vars

\* A row is not both dead and published: what dead_count counts is what
\* reemit can hand back (outbox.rs: "dead-lettered, awaiting a re-emit").
\* It holds of a schema drained by one relay.
DeadAwaitsReemit == Dead \subseteq Revivable

\* The outbox implements the abstract exactly-once delivery.
Delivery == INSTANCE EventDelivery
                WITH raised <- business, effects <- effect, delivered <- published

ImplementsDelivery == Delivery!Spec
=============================================================================
