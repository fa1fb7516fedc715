---------------------------- MODULE OutboxProofs ----------------------------
(***************************************************************************)
(* Proofs about Outbox for every set of events, consumers and relays,      *)
(* every batch size and every number of faults.                            *)
(***************************************************************************)
EXTENDS Outbox, FiniteSetTheorems, TLAPS

(***************************************************************************)
(* The inductive invariant.  ExactlyOnceEffect alone is not inductive: a   *)
(* commit of a consumer's transaction adds one to the effect, which is     *)
(* sound only because the claim it holds is exclusive (RelayKnowledge).    *)
(***************************************************************************)
StateAndEventTogether == rows = business

IndInv ==
    /\ TypeOK
    /\ StateAndEventTogether
    /\ RelayKnowledge
    /\ ExactlyOnceEffect
    /\ NoPhantomEffect
    /\ PublishedMeansDelivered

\* Every row a relay handles is a row of the table.
RowsInTable == \A r \in Relays : todo[r] \subseteq rows

(***************************************************************************)
(* Types.                                                                  *)
(***************************************************************************)
LEMMA InitInv == Init => IndInv
<1>. SUFFICES ASSUME Init PROVE IndInv
  OBVIOUS
<1>. USE DEF Init
<1>1. TypeOK
  BY MaxFaultsAssumption DEF TypeOK, PtxStates, RelayStates, NoTx
<1>2. RelayKnowledge
  BY DEF RelayKnowledge, RelayLocal, Knows, IsCurrent, NoTx
<1>3. ExactlyOnceEffect /\ NoPhantomEffect /\ PublishedMeansDelivered /\ StateAndEventTogether
  BY DEF ExactlyOnceEffect, NoPhantomEffect, PublishedMeansDelivered, StateAndEventTogether
<1>. QED  BY <1>1, <1>2, <1>3 DEF IndInv

LEMMA TypeStep == TypeOK /\ RowsInTable /\ [Next]_vars => TypeOK'
<1>. SUFFICES ASSUME TypeOK, RowsInTable, [Next]_vars PROVE TypeOK'
  OBVIOUS
<1>. USE DEF TypeOK, PtxStates, RelayStates, producerVars, tableVars, consumerVars, relayVars
<1>1. ASSUME NEW e \in Events, Produce(e) PROVE TypeOK'
  BY <1>1 DEF Produce, Write, Stage, Commit, Rollback
<1>2. ASSUME NEW e \in Events, Reemit(e) PROVE TypeOK'
  BY <1>2 DEF Reemit
<1>3. CASE ReemitAll
  BY <1>3 DEF ReemitAll
<1>4. ASSUME NEW r \in Relays, Select(r) PROVE TypeOK'
  BY <1>4 DEF Select, OldestPending, Pending
<1>5. ASSUME NEW r \in Relays, NEW c \in Consumers, NEW e \in Events, Once(r, c, e) PROVE TypeOK'
  BY <1>5 DEF Once
<1>6. ASSUME NEW r \in Relays, NEW e \in Events, Consume(r, e) PROVE TypeOK'
  BY <1>6 DEF Consume, NoTx
<1>7. ASSUME NEW r \in Relays, NEW e \in Events, MarkPublished(r, e) PROVE TypeOK'
  BY <1>7 DEF MarkPublished, FinishRow, IsCurrent, RowsInTable
<1>8. ASSUME NEW r \in Relays, NEW e \in Events, MarkDead(r, e) PROVE TypeOK'
  BY <1>8 DEF MarkDead, FinishRow, IsCurrent, RowsInTable
<1>9. ASSUME NEW r \in Relays, PublishOk(r) PROVE TypeOK'
  BY <1>9 DEF PublishOk
<1>10. ASSUME NEW r \in Relays, NEW e \in Events, PublishRefused(r, e) PROVE TypeOK'
  BY <1>10, MaxFaultsAssumption DEF PublishRefused, FinishRow
<1>11. ASSUME NEW r \in Relays, PublishExhausted(r) PROVE TypeOK'
  BY <1>11, MaxFaultsAssumption DEF PublishExhausted
<1>12. ASSUME NEW r \in Relays, Abort(r) PROVE TypeOK'
  BY <1>12, MaxFaultsAssumption DEF Abort
<1>13. CASE UNCHANGED vars
  BY <1>13 DEF vars
<1>. QED
  BY <1>1, <1>2, <1>3, <1>4, <1>5, <1>6, <1>7, <1>8, <1>9, <1>10, <1>11, <1>12, <1>13
     DEF Next, Relay, Progress

(***************************************************************************)
(* What a relay knows in the middle of a pass is preserved by every step,  *)
(* its own and everybody else's.                                           *)
(***************************************************************************)
LEMMA KnowledgeStep == IndInv /\ TypeOK' /\ [Next]_vars => RelayKnowledge'
<1>. SUFFICES ASSUME IndInv, TypeOK', [Next]_vars PROVE RelayKnowledge'
  OBVIOUS
<1>. USE DEF IndInv, TypeOK, RelayKnowledge, RelayLocal, Knows, IsCurrent, NoTx,
             producerVars, tableVars, consumerVars, relayVars
<1>1. ASSUME NEW e \in Events, Produce(e) PROVE RelayKnowledge'
  BY <1>1 DEF Produce, Write, Stage, Commit, Rollback
<1>2. ASSUME NEW e \in Events, Reemit(e) PROVE RelayKnowledge'
  BY <1>2 DEF Reemit
<1>3. CASE ReemitAll
  BY <1>3 DEF ReemitAll
<1>4. ASSUME NEW r \in Relays, Select(r) PROVE RelayKnowledge'
  <2>1. OldestPending \subseteq rows /\ OldestPending \subseteq Events
    BY DEF OldestPending, Pending
  <2>2. called[r] = {} /\ ctx[r] = NoTx /\ claimed[r] = FALSE
    BY <1>4 DEF Select
  <2>. QED  BY <1>4, <2>1, <2>2 DEF Select
<1>5. ASSUME NEW r \in Relays, NEW c \in Consumers, NEW e \in Events, Once(r, c, e)
      PROVE RelayKnowledge'
  <2>. USE <1>5 DEF Once
  <2>1. \A q \in Relays, f \in Events : IsCurrent(q, f)' <=> IsCurrent(q, f)
    OBVIOUS
  <2>2. \A f \in Events : IsCurrent(r, f) => f = e
    BY EventsAssumption
  <2>3. \A q \in Relays \ {r} : ctx'[q] = ctx[q] /\ claimed'[q] = claimed[q]
    OBVIOUS
  <2>4. ctx'[r] = c /\ (claimed'[r] <=> <<c, e>> \notin inbox)
    BY ZenonT(30)
  <2>5. \A q \in Relays \ {r} : ~(ctx[q] = c /\ claimed[q] /\ IsCurrent(q, e))
    BY DEF KeyHeld
  <2>6. c # NoTx
    BY ConsumersAssumption
  <2>a. todo[r] # {}
    OBVIOUS
  <2>. HIDE DEF IsCurrent
  <2>7. ASSUME NEW q \in Relays, NEW f \in Events, IsCurrent(q, f), claimed'[q],
               NEW p \in Relays \ {q}, claimed'[p], IsCurrent(p, f)
        PROVE  ctx'[p] # ctx'[q]
    <3>1. CASE q = r
      BY <3>1, <2>2, <2>3, <2>4, <2>5, <2>7
    <3>2. CASE p = r
      BY <3>2, <2>2, <2>3, <2>4, <2>5, <2>7
    <3>3. CASE q # r /\ p # r
      BY <3>3, <2>3, <2>7, ZenonT(30)
    <3>. QED  BY <3>1, <3>2, <3>3
  <2>8. ASSUME NEW q \in Relays, NEW f \in Events, IsCurrent(q, f), ctx'[q] # NoTx
        PROVE  claimed'[q] <=> <<ctx'[q], f>> \notin inbox
    <3>1. CASE q = r
      BY <3>1, <2>2, <2>4, <2>8
    <3>2. CASE q # r
      BY <3>2, <2>3, <2>8
    <3>. QED  BY <3>1, <3>2
  <2>9. \A q \in Relays : RelayLocal(q)'
    BY <2>3, <2>4, <2>6, <2>a
  <2>10. ASSUME NEW q \in Relays, NEW f \in Events, IsCurrent(q, f)' PROVE Knows(q, f)'
    <3>1. IsCurrent(q, f) /\ UNCHANGED <<inbox, called>>
      BY <2>1, <2>10
    <3>2. \A d \in called[q] : <<d, f>> \in inbox
      BY <3>1
    <3>. HIDE DEF IndInv
    <3>. QED  BY <2>1, <2>7, <2>8, <3>1, <3>2
  <2>. QED
    BY <2>9, <2>10
<1>6. ASSUME NEW r \in Relays, NEW e \in Events, Consume(r, e) PROVE RelayKnowledge'
  <2>. USE <1>6 DEF Consume
  <2>1. UNCHANGED <<todo, pc, rows>>
    OBVIOUS
  <2>2. \A q \in Relays, f \in Events : IsCurrent(q, f)' <=> IsCurrent(q, f)
    BY <2>1
  <2>3. \A f \in Events : IsCurrent(r, f) => f = e
    BY EventsAssumption
  <2>4. inbox \subseteq inbox' /\ inbox' \subseteq inbox \cup {<<ctx[r], e>>}
    OBVIOUS
  <2>5. <<ctx[r], e>> \in inbox'
    OBVIOUS
  <2>6. \A q \in Relays \ {r} :
           called'[q] = called[q] /\ ctx'[q] = ctx[q] /\ claimed'[q] = claimed[q]
    OBVIOUS
  <2>7. called'[r] = called[r] \cup {ctx[r]} /\ ctx'[r] = NoTx /\ claimed'[r] = FALSE
    OBVIOUS
  <2>8. ASSUME NEW q \in Relays, q # r, NEW f \in Events, IsCurrent(q, f), ctx[q] # NoTx
        PROVE  claimed[q] <=> <<ctx[q], f>> \notin inbox'
    <3>1. CASE claimed[r]
      <4>1. claimed[q] => ~(ctx[q] = ctx[r] /\ f = e)
        BY <3>1, <2>8
      <4>. QED  BY <4>1, <2>4, <2>5, <2>8
    <3>2. CASE ~claimed[r]
      BY <3>2, <2>8
    <3>. QED  BY <3>1, <3>2
  <2>. QED
    BY <2>1, <2>2, <2>3, <2>4, <2>5, <2>6, <2>7, <2>8
<1>7. ASSUME NEW r \in Relays, NEW e \in Events, MarkPublished(r, e) PROVE RelayKnowledge'
  BY <1>7 DEF MarkPublished, FinishRow
<1>8. ASSUME NEW r \in Relays, NEW e \in Events, MarkDead(r, e) PROVE RelayKnowledge'
  BY <1>8 DEF MarkDead, FinishRow
<1>9. ASSUME NEW r \in Relays, PublishOk(r) PROVE RelayKnowledge'
  BY <1>9 DEF PublishOk
<1>10. ASSUME NEW r \in Relays, NEW e \in Events, PublishRefused(r, e) PROVE RelayKnowledge'
  BY <1>10 DEF PublishRefused, FinishRow
<1>11. ASSUME NEW r \in Relays, PublishExhausted(r) PROVE RelayKnowledge'
  BY <1>11 DEF PublishExhausted
<1>12. ASSUME NEW r \in Relays, Abort(r) PROVE RelayKnowledge'
  BY <1>12 DEF Abort
<1>13. CASE UNCHANGED vars
  BY <1>13 DEF vars
<1>. QED
  BY <1>1, <1>2, <1>3, <1>4, <1>5, <1>6, <1>7, <1>8, <1>9, <1>10, <1>11, <1>12, <1>13
     DEF Next, Relay, Progress

(***************************************************************************)
(* Only a consumer's commit touches the inbox and the effects; only a mark *)
(* after a served publish touches published_at.                            *)
(***************************************************************************)
LEMMA EffectStep ==
    IndInv /\ TypeOK' /\ [Next]_vars =>
        /\ StateAndEventTogether'
        /\ ExactlyOnceEffect'
        /\ NoPhantomEffect'
        /\ PublishedMeansDelivered'
<1>. DEFINE Effects == /\ StateAndEventTogether
                       /\ ExactlyOnceEffect
                       /\ NoPhantomEffect
                       /\ PublishedMeansDelivered
<1>. SUFFICES ASSUME IndInv, TypeOK', [Next]_vars PROVE Effects'
  OBVIOUS
<1>. USE DEF IndInv, StateAndEventTogether, ExactlyOnceEffect, NoPhantomEffect,
             PublishedMeansDelivered, producerVars, tableVars, consumerVars
<1>1. ASSUME NEW e \in Events, Produce(e) PROVE Effects'
  BY <1>1 DEF Produce, Write, Stage, Commit, Rollback
<1>2. CASE UNCHANGED <<business, rows, published, inbox, effect>>
  BY <1>2
<1>3. ASSUME NEW r \in Relays, NEW e \in Events, Consume(r, e) PROVE Effects'
  <2>. USE <1>3 DEF Consume
  <2>1. UNCHANGED <<business, rows, published>>
    OBVIOUS
  <2>2. CASE claimed[r]
    <3>1. <<ctx[r], e>> \in Consumers \X Events /\ <<ctx[r], e>> \notin inbox /\ e \in rows
      BY <2>2 DEF RelayKnowledge, RelayLocal, Knows, IsCurrent, TypeOK
    <3>2. /\ effect' = [effect EXCEPT ![<<ctx[r], e>>] = @ + 1]
          /\ inbox' = inbox \cup {<<ctx[r], e>>}
          /\ effect \in [Consumers \X Events -> Nat]
          /\ published \subseteq Events
      BY <2>2 DEF TypeOK
    <3>3. effect'[<<ctx[r], e>>] = 1
      BY <3>1, <3>2
    <3>4. \A k \in Consumers \X Events : k # <<ctx[r], e>> => effect'[k] = effect[k]
      BY <3>2
    <3>5. ExactlyOnceEffect'
      BY <3>1, <3>2, <3>3, <3>4
    <3>6. NoPhantomEffect'
      BY <3>1, <3>2, <3>4, <2>1
    <3>7. PublishedMeansDelivered'
      BY <3>2, <3>3, <3>4, <2>1
    <3>. QED  BY <3>5, <3>6, <3>7, <2>1
  <2>3. CASE ~claimed[r]
    BY <2>1, <2>3
  <2>. QED  BY <2>2, <2>3
<1>4. ASSUME NEW r \in Relays, NEW e \in Events, MarkPublished(r, e) PROVE Effects'
  <2>1. called[r] = Consumers /\ IsCurrent(r, e) /\ RelayKnowledge
    BY <1>4 DEF MarkPublished, RelayKnowledge, RelayLocal
  <2>2. Knows(r, e)
    BY <2>1 DEF RelayKnowledge
  <2>3. \A c \in Consumers : <<c, e>> \in inbox
    BY <2>1, <2>2 DEF Knows
  <2>. QED  BY <1>4, <2>3 DEF MarkPublished, TypeOK
<1>. QED
  BY <1>1, <1>2, <1>3, <1>4
     DEF Next, Relay, Progress, Reemit, ReemitAll, Select, Once, MarkDead, PublishOk,
         PublishRefused, PublishExhausted, Abort, vars

\* The inductive invariant holds of every behaviour of the outbox: types,
\* relay knowledge, and the four facts about effects.
THEOREM Inductive == Spec => []IndInv
<1>1. IndInv /\ [Next]_vars => IndInv'
  <2>1. IndInv => TypeOK /\ RowsInTable
    BY DEF IndInv, RelayKnowledge, RelayLocal, RowsInTable
  <2>. QED  BY <2>1, TypeStep, KnowledgeStep, EffectStep DEF IndInv
<1>. QED  BY <1>1, InitInv, PTL DEF Spec

\* The tables, the inbox and every relay's local state keep their types,
\* marks are only ever set on rows that exist, faults keep to their bound.
THEOREM TypeCorrect == Spec => []TypeOK
<1>1. IndInv => TypeOK
  BY DEF IndInv
<1>. QED  BY <1>1, Inductive, PTL

\* inbox::once in the consumer's transaction turns the relays' at-least-once
\* delivery into an exactly-once effect, for any number of relays, crashes,
\* refusals and producer retries.
THEOREM ExactlyOnce == Spec => []ExactlyOnceEffect
<1>1. IndInv => ExactlyOnceEffect
  BY DEF IndInv
<1>. QED  BY <1>1, Inductive, PTL

\* drain_once never marks a row published before every consumer has had its
\* effect.
THEOREM PublishedDelivered == Spec => []PublishedMeansDelivered
<1>1. IndInv => PublishedMeansDelivered
  BY DEF IndInv
<1>. QED  BY <1>1, Inductive, PTL

\* A committed change is never lost to its consumers: it is offered to the
\* next drain, re-emittable, or has had all its effects.
THEOREM NoneLost == Spec => []NoLostEvent
<1>1. IndInv => NoLostEvent
  BY DEF IndInv, NoLostEvent, Pending, Revivable, StateAndEventTogether,
         PublishedMeansDelivered
<1>. QED  BY <1>1, Inductive, PTL

(***************************************************************************)
(* Refinement.  Under the mapping raised <- business, effects <- effect,   *)
(* delivered <- published every step of the outbox is a step of            *)
(* EventDelivery or leaves its three variables alone.                      *)
(***************************************************************************)
\* The outbox, its relays and its inbox implement exactly-once delivery.
THEOREM Refinement == Spec => ImplementsDelivery
<1>1. Init => Delivery!Init
  BY DEF Init, Delivery!Init
<1>2. ASSUME IndInv, IndInv', [Next]_vars PROVE [Delivery!Next]_(Delivery!evars)
  <2>. USE <1>2 DEF Delivery!evars, producerVars, tableVars, consumerVars
  <2>1. ASSUME NEW e \in Events, Produce(e) PROVE [Delivery!Next]_(Delivery!evars)
    BY <2>1 DEF Produce, Write, Stage, Commit, Rollback, Delivery!Next, Delivery!Raise
  <2>2. CASE UNCHANGED <<business, published, effect>>
    BY <2>2
  <2>3. ASSUME NEW r \in Relays, NEW e \in Events, Consume(r, e)
        PROVE  [Delivery!Next]_(Delivery!evars)
    <3>1. CASE claimed[r]
      <4>1. <<ctx[r], e>> \notin inbox /\ e \in business /\ ctx[r] \in Consumers
        BY <2>3, <3>1 DEF Consume, IndInv, RelayKnowledge, RelayLocal, Knows, IsCurrent,
                          StateAndEventTogether, TypeOK
      <4>2. effect[<<ctx[r], e>>] = 0
        BY <4>1 DEF IndInv, ExactlyOnceEffect
      <4>3. /\ effect' = [effect EXCEPT ![<<ctx[r], e>>] = @ + 1]
            /\ UNCHANGED <<business, published>>
        BY <2>3, <3>1 DEF Consume
      <4>4. effect' = [effect EXCEPT ![<<ctx[r], e>>] = 1]
        BY <4>2, <4>3
      <4>5. Delivery!Effect(ctx[r], e)
        BY <4>1, <4>2, <4>3, <4>4 DEF Delivery!Effect
      <4>. QED  BY <4>1, <4>5 DEF Delivery!Next
    <3>2. CASE ~claimed[r]
      BY <2>3, <3>2 DEF Consume
    <3>. QED  BY <3>1, <3>2
  <2>4. ASSUME NEW r \in Relays, NEW e \in Events, MarkPublished(r, e)
        PROVE  [Delivery!Next]_(Delivery!evars)
    <3>1. e \in published' /\ UNCHANGED <<effect, business>> /\ published' = published \cup {e}
      BY <2>4 DEF MarkPublished
    <3>2. \A c \in Consumers : effect[<<c, e>>] = 1
      BY <3>1 DEF IndInv, PublishedMeansDelivered
    <3>. QED  BY <3>1, <3>2 DEF Delivery!Next, Delivery!Report
  <2>. QED
    BY <2>1, <2>2, <2>3, <2>4, ZenonT(30)
       DEF Next, Relay, Progress, Reemit, ReemitAll, Select, Once, MarkDead, PublishOk,
           PublishRefused, PublishExhausted, Abort, vars
<1>. QED
  BY <1>1, <1>2, Inductive, PTL DEF Spec, ImplementsDelivery, Delivery!Spec

(***************************************************************************)
(* published_at.                                                           *)
(***************************************************************************)
\* No retry of a producer, no stale relay and no re-emit makes a published
\* row drainable again.
THEOREM PublishedFinal == Spec => PublishedIsFinal
<1>1. [Next]_vars => [published \subseteq published' /\ published \cap Pending' = {}]_vars
  <2>. SUFFICES ASSUME Next
                PROVE  published \subseteq published' /\ published \cap Pending' = {}
    OBVIOUS
  <2>1. published \subseteq published'
    BY ZenonT(30) DEF Next, Produce, Write, Stage, Commit, Rollback, Reemit, ReemitAll, Relay, Progress,
           Select, Once, Consume, MarkPublished, MarkDead, PublishOk, PublishRefused,
           PublishExhausted, Abort, tableVars
  <2>. QED  BY <2>1 DEF Pending
<1>. QED  BY <1>1, PTL DEF Spec, PublishedIsFinal

(***************************************************************************)
(* Dead rows.                                                              *)
(***************************************************************************)
\* A relay that is alone never holds a row that is already dead.
NoDeadInBatch == \A r \in Relays : todo[r] \cap failed = {}

\* In a schema drained by a single relay, the rows dead_count counts are the
\* rows reemit can hand back: none of them is also published.
THEOREM SingleRelayDeadAwaitsReemit ==
    ASSUME \A r, q \in Relays : r = q
    PROVE  Spec => []DeadAwaitsReemit
<1>. DEFINE DeadInv == NoDeadInBatch /\ failed \cap published = {}
<1>1. Init => DeadInv
  BY DEF Init, NoDeadInBatch
<1>2. ASSUME TypeOK, DeadInv, [Next]_vars PROVE DeadInv'
  <2>. USE <1>2 DEF NoDeadInBatch, TypeOK, producerVars, tableVars, consumerVars, relayVars
  <2>1. ASSUME NEW e \in Events, Produce(e) PROVE DeadInv'
    BY <2>1 DEF Produce, Write, Stage, Commit, Rollback
  <2>2. CASE \E e \in Events : Reemit(e)
    BY <2>2 DEF Reemit
  <2>3. CASE ReemitAll
    BY <2>3 DEF ReemitAll
  <2>4. ASSUME NEW r \in Relays, Select(r) PROVE DeadInv'
    BY <2>4 DEF Select, OldestPending, Pending
  <2>5. ASSUME NEW r \in Relays, NEW e \in Events, MarkPublished(r, e) PROVE DeadInv'
    BY <2>5 DEF MarkPublished, FinishRow, IsCurrent
  <2>6. ASSUME NEW r \in Relays, NEW e \in Events, MarkDead(r, e) PROVE DeadInv'
    BY <2>6 DEF MarkDead, FinishRow, IsCurrent
  <2>7. ASSUME NEW r \in Relays, NEW e \in Events, PublishRefused(r, e) PROVE DeadInv'
    BY <2>7 DEF PublishRefused, FinishRow
  <2>8. ASSUME NEW r \in Relays, Abort(r) PROVE DeadInv'
    BY <2>8 DEF Abort
  <2>9. CASE UNCHANGED <<todo, failed, published>>
    BY <2>9
  <2>. QED
    BY <2>1, <2>2, <2>3, <2>4, <2>5, <2>6, <2>7, <2>8, <2>9
       DEF Next, Relay, Progress, Once, Consume, PublishOk, PublishExhausted, vars
<1>3. DeadInv => DeadAwaitsReemit
  BY DEF DeadAwaitsReemit, Dead, Revivable
<1>. QED  BY <1>1, <1>2, <1>3, TypeCorrect, PTL DEF Spec

(***************************************************************************)
(* The pace of a relay.  RelayRunner has its own view of the table and of  *)
(* drain_once, which stands beside the one of Outbox here.                 *)
(***************************************************************************)
CONSTANTS Refused, Doomed, Failing, MaxPasses, MaxBackoff, MaxOutages

VARIABLES waiting, sent, dropped, place, batch, count,
          passes, backoff, lasted, streak, shutdown, up, outages

Pace == INSTANCE RelayRunner WITH pending <- waiting, published <- sent, dead <- dropped,
                                  pc <- place, todo <- batch, n <- count

TwoTo(k) == 2^k

\* The law of the power of two, which the provers do not know.
PowersDouble == \A k \in Nat : TwoTo(k) \in Nat /\ TwoTo(k + 1) = 2 * TwoTo(k)

\* While the runner waits, it waits as long as the schedule says for the
\* failures so far; while it runs, backoff is the wait after one more failure.
\* The power grows faster than the number of failures, so that the number at
\* which the count stops stands for the longest wait.
ScheduleInv ==
    /\ DOMAIN place = Pace!Callers
    /\ backoff \in Nat /\ streak \in Nat /\ streak <= MaxBackoff
    /\ streak # 0 => streak <= TwoTo(streak - 1)
    /\ place["runner"] = "backoff" =>
          streak # 0 /\ backoff = Pace!Min2(TwoTo(streak - 1), MaxBackoff)
    /\ place["runner"] \in {"start", "pass", "sleep"} =>
          backoff = Pace!Min2(TwoTo(streak), MaxBackoff)

\* One failure more.
LEMMA Grows ==
    ASSUME MaxBackoff \in Nat \ {0}, PowersDouble, NEW k \in Nat, k # 0 => k <= TwoTo(k - 1), TwoTo(0) = 1
    PROVE  /\ k + 1 <= TwoTo(k)
           /\ k # 0 => TwoTo(k) = 2 * TwoTo(k - 1) /\ TwoTo(k - 1) \in Nat
           /\ TwoTo(k) \in Nat
<1>1. CASE k = 0
  BY <1>1 DEF PowersDouble
<1>2. CASE k # 0
  <2>1. k - 1 \in Nat /\ (k - 1) + 1 = k
    BY <1>2
  <2>2. TwoTo(k - 1) \in Nat /\ TwoTo(k) = 2 * TwoTo(k - 1)
    BY <2>1 DEF PowersDouble
  <2>. QED  BY <1>2, <2>2
<1>. QED  BY <1>1, <1>2

LEMMA PowerOfZero == TwoTo(0) = 1
BY DEF TwoTo

LEMMA ScheduleStep ==
    ASSUME MaxBackoff \in Nat \ {0}, PowersDouble, ScheduleInv, [Pace!Next]_Pace!vars
    PROVE  ScheduleInv'
<1>. DEFINE k == streak
<1>1. /\ k \in Nat /\ k + 1 <= TwoTo(k) /\ TwoTo(k) \in Nat
      /\ k # 0 => TwoTo(k) = 2 * TwoTo(k - 1) /\ TwoTo(k - 1) \in Nat
  BY PowerOfZero, Grows DEF ScheduleInv
<1>2. "runner" \in Pace!Callers /\ "drain_all" \in Pace!Callers
  BY DEF Pace!Callers
<1>3. CASE Pace!AttemptFails
  <2>1. /\ place["runner"] \in {"start", "pass"}
        /\ backoff' = IF lasted THEN 1 ELSE backoff
        /\ streak' = IF lasted THEN 1 ELSE Pace!Min2(streak + 1, MaxBackoff)
        /\ place' = [place EXCEPT !["runner"] = "backoff"]
    BY <1>3 DEF Pace!AttemptFails, Pace!PassFails, Pace!IsNext
  <2>2. DOMAIN place' = Pace!Callers /\ place'["runner"] = "backoff"
    BY <1>2, <2>1 DEF ScheduleInv
  <2>3. backoff = Pace!Min2(TwoTo(k), MaxBackoff) /\ backoff \in Nat /\ k <= MaxBackoff
    BY <2>1 DEF ScheduleInv
  <2>4. CASE lasted
    <3>1. backoff' = 1 /\ streak' = 1 /\ TwoTo(streak' - 1) = 1
      BY <2>1, <2>4, PowerOfZero
    <3>. QED  BY <2>2, <3>1 DEF ScheduleInv, Pace!Min2
  <2>5. CASE ~lasted /\ k < MaxBackoff
    <3>1. backoff' = backoff /\ streak' = k + 1 /\ streak' - 1 = k
      BY <1>1, <2>1, <2>5 DEF Pace!Min2
    <3>. QED  BY <1>1, <2>2, <2>3, <2>5, <3>1 DEF ScheduleInv
  <2>6. CASE ~lasted /\ k = MaxBackoff
    <3>1. backoff' = backoff /\ streak' = k /\ k # 0 /\ k <= TwoTo(k - 1)
      BY <1>1, <2>1, <2>6 DEF Pace!Min2, ScheduleInv
    <3>2. backoff = MaxBackoff /\ Pace!Min2(TwoTo(k - 1), MaxBackoff) = MaxBackoff
      BY <1>1, <2>3, <2>6, <3>1 DEF Pace!Min2
    <3>. QED  BY <1>1, <2>2, <2>3, <2>6, <3>1, <3>2 DEF ScheduleInv
  <2>. QED  BY <1>1, <2>3, <2>4, <2>5, <2>6
<1>4. CASE Pace!Restart
  <2>1. /\ place["runner"] = "backoff" /\ place' = [place EXCEPT !["runner"] = "start"]
        /\ backoff' = Pace!Min2(2 * backoff, MaxBackoff) /\ streak' = streak
    BY <1>4 DEF Pace!Restart
  <2>2. DOMAIN place' = Pace!Callers /\ place'["runner"] = "start"
    BY <1>2, <2>1 DEF ScheduleInv
  <2>3. k # 0 /\ backoff = Pace!Min2(TwoTo(k - 1), MaxBackoff)
    BY <2>1 DEF ScheduleInv
  <2>4. backoff' = Pace!Min2(TwoTo(k), MaxBackoff) /\ backoff' \in Nat
    BY <1>1, <2>1, <2>3 DEF Pace!Min2
  <2>. QED  BY <2>1, <2>2, <2>4 DEF ScheduleInv
<1>5. ASSUME UNCHANGED <<backoff, streak>>, DOMAIN place' = DOMAIN place,
             \/ place'["runner"] = place["runner"] \/ place'["runner"] = "done"
             \/ {place["runner"], place'["runner"]} \subseteq {"start", "pass", "sleep"}
      PROVE  ScheduleInv'
  BY <1>5 DEF ScheduleInv
<1>6. ASSUME NEW c \in Pace!Callers, Pace!Drain(c) PROVE ScheduleInv'
  <2>1. UNCHANGED <<backoff, streak>> /\ DOMAIN place' = DOMAIN place
    BY <1>6 DEF Pace!Drain, Pace!BeginPass, Pace!Row, Pace!RowPublished, Pace!RowRefused, Pace!RowDead,
                Pace!supervisor
  <2>2. \/ place' = place
        \/ place[c] = "start" /\ place' = [place EXCEPT ![c] = "pass"]
    BY <1>6 DEF Pace!Drain, Pace!BeginPass, Pace!Row, Pace!RowPublished, Pace!RowRefused, Pace!RowDead
  <2>3. \/ place'["runner"] = place["runner"]
        \/ {place["runner"], place'["runner"]} \subseteq {"start", "pass", "sleep"}
    BY <1>2, <2>2 DEF ScheduleInv
  <2>. QED  BY <1>5, <2>1, <2>3
<1>7. CASE Pace!RunPassOver \/ Pace!Poll
  <2>1. /\ UNCHANGED <<backoff, streak>> /\ DOMAIN place' = DOMAIN place
        /\ {place["runner"], place'["runner"]} \subseteq {"start", "pass", "sleep"}
    BY <1>2, <1>7 DEF Pace!RunPassOver, Pace!Poll, Pace!PassOver, Pace!supervisor, ScheduleInv
  <2>. QED  BY <1>5, <2>1
<1>8. CASE Pace!Stop
  <2>1. UNCHANGED <<backoff, streak>> /\ DOMAIN place' = DOMAIN place /\ place'["runner"] = "done"
    BY <1>2, <1>8 DEF Pace!Stop, Pace!supervisor, ScheduleInv
  <2>. QED  BY <1>5, <2>1
<1>9. CASE Pace!FlushPassOver \/ Pace!FlushFails
  <2>1. UNCHANGED <<backoff, streak>> /\ DOMAIN place' = DOMAIN place /\ place'["runner"] = place["runner"]
    BY <1>2, <1>9 DEF Pace!FlushPassOver, Pace!FlushFails, Pace!supervisor, ScheduleInv
  <2>. QED  BY <1>5, <2>1
<1>10. CASE \/ Pace!AttemptLasts \/ Pace!Outage \/ Pace!Recovery \/ Pace!Shutdown
            \/ \E e \in Events : Pace!Staged(e)
  <2>1. UNCHANGED <<backoff, streak, place>>
    BY <1>10 DEF Pace!AttemptLasts, Pace!Outage, Pace!Recovery, Pace!Shutdown, Pace!Staged,
                 Pace!supervisor, Pace!drains
  <2>. QED  BY <1>5, <2>1
<1>11. CASE UNCHANGED Pace!vars
  <2>1. UNCHANGED <<backoff, streak, place>>
    BY <1>11 DEF Pace!vars, Pace!supervisor, Pace!drains
  <2>. QED  BY <1>5, <2>1
<1>. QED
  BY <1>2, <1>3, <1>4, <1>6, <1>7, <1>8, <1>9, <1>10, <1>11 DEF Pace!Next, Pace!Runner, Pace!Flush

\* The supervisor's waits (restart_loop) follow the schedule "doubles from one
\* second up to a minute, resetting once a run has lasted that long" for every
\* longest wait, whatever rows, outages, passes and shutdowns there are.  The
\* law of the power of two is a hypothesis: 2^(k + 1) = 2 * 2^k is arithmetic
\* the provers do not know.
THEOREM WaitsOnSchedule ==
    ASSUME MaxBackoff \in Nat \ {0}, PowersDouble
    PROVE  Pace!Spec => []Pace!BackoffSchedule
<1>1. Pace!Init => ScheduleInv
  <2>. SUFFICES ASSUME Pace!Init PROVE ScheduleInv
    OBVIOUS
  <2>1. /\ DOMAIN place = Pace!Callers /\ place["runner"] = "start"
        /\ backoff = 1 /\ streak = 0
    BY DEF Pace!Init, Pace!Callers
  <2>. QED  BY <2>1, PowerOfZero DEF ScheduleInv, Pace!Min2
<1>2. ScheduleInv /\ [Pace!Next]_Pace!vars => ScheduleInv'
  BY ScheduleStep
<1>3. ScheduleInv => Pace!BackoffSchedule
  BY DEF ScheduleInv, Pace!BackoffSchedule, TwoTo
<1>. QED  BY <1>1, <1>2, <1>3, PTL DEF Pace!Spec

\* The SELECT of drain_once takes at most LIMIT rows: each row it takes has
\* its own number of older ones.
LEMMA LimitOfOldest ==
    ASSUME NEW S, S \subseteq Nat, NEW b \in Nat
    PROVE  /\ IsFiniteSet({e \in S : Cardinality({f \in S : f < e}) < b})
           /\ Cardinality({e \in S : Cardinality({f \in S : f < e}) < b}) <= b
<1>. DEFINE older(e) == {f \in S : f < e}
            O == {e \in S : Cardinality(older(e)) < b}
            g == [e \in O |-> Cardinality(older(e))]
<1>1. ASSUME NEW e \in S PROVE IsFiniteSet(older(e)) /\ Cardinality(older(e)) \in Nat
  <2>1. older(e) \in SUBSET Nat /\ e \in Nat
    OBVIOUS
  <2>3. \A f \in older(e) : f <= e
    <3>1. \A f \in older(e) : f \in Nat /\ f < e
      OBVIOUS
    <3>. HIDE DEF older
    <3>. QED  BY <2>1, <3>1
  <2>. HIDE DEF older
  <2>2. IsFiniteSet(older(e))
    BY <2>1, <2>3, FS_BoundedSetOfNaturals
  <2>. QED  BY <2>2, FS_CardinalityType
<1>2. ASSUME NEW d \in S, NEW e \in S, d < e PROVE Cardinality(older(d)) # Cardinality(older(e))
  <2>1. older(d) \in SUBSET older(e)
    <3>1. \A f \in Nat : f < d => f < e
      BY <1>2
    <3>. QED  BY <3>1
  <2>2. d \in older(e) /\ d \notin older(d)
    BY <1>2
  <2>. HIDE DEF older
  <2>. QED  BY <1>1, <2>1, <2>2, FS_Subset
<1>3. g \in Injection(O, 0..(b - 1))
  <2>. HIDE DEF older
  <2>1. g \in [O -> 0..(b - 1)]
    <3>1. ASSUME NEW e \in O PROVE Cardinality(older(e)) \in 0..(b - 1)
      <4>1. Cardinality(older(e)) \in Nat /\ Cardinality(older(e)) < b
        BY <1>1
      <4>. QED  BY <4>1
    <3>. QED  BY <3>1
  <2>2. ASSUME NEW d \in O, NEW e \in O, g[d] = g[e] PROVE d = e
    <3>1. d \in S /\ e \in S /\ Cardinality(older(d)) = Cardinality(older(e))
      BY <2>2
    <3>. QED  BY <1>2, <3>1
  <2>. QED  BY <2>1, <2>2 DEF Injection, IsInjective
<1>4. IsFiniteSet(0..(b - 1)) /\ Cardinality(0..(b - 1)) = b
  BY FS_Interval
<1>. HIDE DEF g, O
<1>5. IsFiniteSet(O) /\ Cardinality(O) <= b
  BY <1>3, <1>4, FS_Injection
<1>. QED  BY <1>5 DEF O

\* What a caller has published and has still to publish fits in a batch.
Fits(t, k) == IsFiniteSet(t) /\ Cardinality(t) \in Nat /\ k + Cardinality(t) <= Batch

LEMMA NothingFits ==
    ASSUME NEW k \in Nat, k <= Batch
    PROVE  Fits({}, k)
BY FS_EmptySet, BatchAssumption DEF Fits

LEMMA RowFits ==
    ASSUME NEW t, NEW k \in Nat, NEW e \in t, Fits(t, k)
    PROVE  Fits(t \ {e}, k) /\ Fits(t \ {e}, k + 1)
<1>1. IsFiniteSet(t \ {e}) /\ Cardinality(t \ {e}) = Cardinality(t) - 1
  BY FS_RemoveElement DEF Fits
<1>2. Cardinality(t \ {e}) \in Nat
  BY <1>1, FS_CardinalityType
<1>. QED  BY <1>1, <1>2, BatchAssumption DEF Fits

\* The hypotheses on the constants of RelayRunner that Outbox does not have.
RunnerConstants == {MaxPasses, MaxBackoff} \subseteq Nat \ {0} /\ MaxOutages \in Nat

\* Everything of RelayRunner but the batches.
PassTypes ==
    /\ waiting \subseteq Events /\ sent \subseteq Events /\ dropped \subseteq Events
    /\ place \in [Pace!Callers -> {"start", "pass", "sleep", "backoff", "done", "error"}]
    /\ passes \in 0..MaxPasses /\ backoff \in 1..MaxBackoff /\ streak \in 0..MaxBackoff
    /\ lasted \in BOOLEAN /\ shutdown \in BOOLEAN /\ up \in BOOLEAN /\ outages \in 0..MaxOutages

BatchFits ==
    /\ batch \in [Pace!Callers -> SUBSET Events] /\ count \in [Pace!Callers -> Nat]
    /\ \A c \in Pace!Callers : Fits(batch[c], count[c])

LEMMA PassTypesStep ==
    ASSUME RunnerConstants, PassTypes, BatchFits, [Pace!Next]_Pace!vars
    PROVE  PassTypes'
<1>1. "runner" \in Pace!Callers /\ "drain_all" \in Pace!Callers
  BY DEF Pace!Callers
<1>2. MaxPasses \in Nat /\ MaxBackoff \in Nat /\ 1 <= MaxBackoff /\ MaxOutages \in Nat
  BY DEF RunnerConstants
<1>. USE DEF PassTypes, Pace!tables, Pace!drains, Pace!supervisor
<1>3. ASSUME NEW c \in Pace!Callers, Pace!BeginPass(c) PROVE PassTypes'
  <2>1. passes' \in 0..MaxPasses
    BY <1>2, <1>3 DEF Pace!BeginPass, Pace!Callers
  <2>. QED  BY <1>3, <2>1 DEF Pace!BeginPass
<1>4. ASSUME NEW c \in Pace!Callers, NEW e \in Events, Pace!Row(c, e) PROVE PassTypes'
  BY <1>4 DEF Pace!Row, Pace!RowPublished, Pace!RowRefused, Pace!RowDead
<1>5. CASE Pace!RunPassOver \/ Pace!Poll \/ Pace!Stop \/ Pace!FlushPassOver \/ Pace!FlushFails
  BY <1>1, <1>5 DEF Pace!RunPassOver, Pace!Poll, Pace!Stop, Pace!FlushPassOver, Pace!FlushFails
<1>6. CASE Pace!AttemptFails
  <2>1. streak' \in 0..MaxBackoff /\ backoff' \in 1..MaxBackoff
    BY <1>2, <1>6 DEF Pace!AttemptFails, Pace!Min2
  <2>. QED  BY <1>1, <1>6, <2>1 DEF Pace!AttemptFails
<1>7. CASE Pace!Restart
  <2>1. backoff' \in 1..MaxBackoff
    BY <1>2, <1>7 DEF Pace!Restart, Pace!Min2
  <2>. QED  BY <1>1, <1>7, <2>1 DEF Pace!Restart
<1>8. CASE Pace!AttemptLasts \/ Pace!Recovery \/ Pace!Shutdown \/ \E e \in Events : Pace!Staged(e)
  BY <1>8 DEF Pace!AttemptLasts, Pace!Recovery, Pace!Shutdown, Pace!Staged
<1>9. CASE Pace!Outage
  <2>1. outages' \in 0..MaxOutages
    BY <1>2, <1>9 DEF Pace!Outage
  <2>. QED  BY <1>9, <2>1 DEF Pace!Outage
<1>10. CASE UNCHANGED Pace!vars
  BY <1>10 DEF Pace!vars
<1>. QED
  BY <1>1, <1>3, <1>4, <1>5, <1>6, <1>7, <1>8, <1>9, <1>10 DEF Pace!Next, Pace!Runner, Pace!Flush, Pace!Drain

LEMMA BatchFitsStep ==
    ASSUME RunnerConstants, PassTypes, BatchFits, [Pace!Next]_Pace!vars
    PROVE  BatchFits'
<1>1. "runner" \in Pace!Callers /\ "drain_all" \in Pace!Callers
  BY DEF Pace!Callers
<1>2. ASSUME NEW c \in Pace!Callers, NEW t \in SUBSET Events, NEW k \in Nat, Fits(t, k),
             batch' = [batch EXCEPT ![c] = t], count' = [count EXCEPT ![c] = k]
      PROVE  BatchFits'
  BY <1>2 DEF BatchFits, Fits
<1>3. ASSUME UNCHANGED <<batch, count>> PROVE BatchFits'
  BY <1>3 DEF BatchFits, Fits
<1>4. ASSUME NEW c \in Pace!Callers, Pace!BeginPass(c) PROVE BatchFits'
  <2>1. waiting \subseteq Nat /\ waiting \subseteq Events /\ Batch \in Nat
    BY EventsAssumption, BatchAssumption DEF PassTypes
  <2>2. IsFiniteSet(Pace!Oldest) /\ Cardinality(Pace!Oldest) <= Batch
    <3>1. Pace!Oldest = {e \in waiting : Cardinality({f \in waiting : f < e}) < Batch}
      BY DEF Pace!Oldest, Pace!Cardinality, Cardinality
    <3>2. /\ IsFiniteSet({e \in waiting : Cardinality({f \in waiting : f < e}) < Batch})
          /\ Cardinality({e \in waiting : Cardinality({f \in waiting : f < e}) < Batch}) <= Batch
      BY <2>1, LimitOfOldest
    <3>. QED  BY <3>1, <3>2, Zenon
  <2>3. Fits(Pace!Oldest, 0)
    BY <2>2, FS_CardinalityType DEF Fits
  <2>4. Pace!Oldest \in SUBSET Events
    BY <2>1 DEF Pace!Oldest
  <2>5. batch' = [batch EXCEPT ![c] = Pace!Oldest] /\ count' = [count EXCEPT ![c] = 0]
    BY <1>4 DEF Pace!BeginPass
  <2>. QED  BY <1>2, <2>3, <2>4, <2>5
<1>5. ASSUME NEW c \in Pace!Callers, NEW e \in Events, Pace!Row(c, e) PROVE BatchFits'
  <2>1. /\ e \in batch[c] /\ batch[c] \in SUBSET Events /\ count[c] \in Nat /\ Fits(batch[c], count[c])
        /\ batch' = [batch EXCEPT ![c] = batch[c] \ {e}]
        /\ count' = count \/ count' = [count EXCEPT ![c] = count[c] + 1]
    BY <1>5 DEF Pace!Row, Pace!RowPublished, Pace!RowRefused, Pace!RowDead, Pace!IsNext, BatchFits
  <2>2. Fits(batch[c] \ {e}, count[c]) /\ Fits(batch[c] \ {e}, count[c] + 1)
    BY <2>1, RowFits
  <2>3. count = [count EXCEPT ![c] = count[c]] /\ batch[c] \ {e} \in SUBSET Events
    BY <2>1 DEF BatchFits
  <2>4. CASE count' = count
    BY <1>2, <2>1, <2>2, <2>3, <2>4
  <2>5. CASE count' = [count EXCEPT ![c] = count[c] + 1]
    <3>1. count[c] + 1 \in Nat
      BY <2>1
    <3>. QED  BY <1>2, <2>1, <2>2, <2>3, <2>5, <3>1
  <2>. QED  BY <2>1, <2>4, <2>5
<1>6. CASE Pace!AttemptFails \/ Pace!Stop
  <2>1. batch' = [batch EXCEPT !["runner"] = {}] /\ count' = count
    BY <1>6 DEF Pace!AttemptFails, Pace!Stop
  <2>2. count["runner"] \in Nat /\ count["runner"] <= Batch
    BY <1>1, BatchAssumption DEF BatchFits, Fits
  <2>3. Fits({}, count["runner"])
    BY <2>2, NothingFits
  <2>4. count' = [count EXCEPT !["runner"] = count["runner"]]
    BY <2>1 DEF BatchFits
  <2>. QED  BY <1>1, <1>2, <2>1, <2>2, <2>3, <2>4
<1>7. CASE \/ Pace!RunPassOver \/ Pace!Poll \/ Pace!Restart \/ Pace!FlushPassOver \/ Pace!FlushFails
           \/ Pace!AttemptLasts \/ Pace!Outage \/ Pace!Recovery \/ Pace!Shutdown
           \/ \E e \in Events : Pace!Staged(e)
  <2>1. UNCHANGED <<batch, count>>
    BY <1>7 DEF Pace!RunPassOver, Pace!Poll, Pace!Restart, Pace!FlushPassOver, Pace!FlushFails,
                Pace!AttemptLasts, Pace!Outage, Pace!Recovery, Pace!Shutdown, Pace!Staged, Pace!drains
  <2>. QED  BY <1>3, <2>1
<1>8. CASE UNCHANGED Pace!vars
  <2>1. UNCHANGED <<batch, count>>
    BY <1>8 DEF Pace!vars, Pace!drains
  <2>. QED  BY <1>3, <2>1
<1>. QED
  BY <1>1, <1>4, <1>5, <1>6, <1>7, <1>8 DEF Pace!Next, Pace!Runner, Pace!Flush, Pace!Drain

\* A pass of drain_once publishes at most a batch of rows, refused and doomed
\* ones included in the batch it selected, drain_all starts at most max_passes
\* of them, and no wait exceeds MAX_BACKOFF, whoever drains at the same time.
THEOREM PassWithinBatch ==
    ASSUME RunnerConstants
    PROVE  Pace!Spec => []Pace!TypeOK
<1>1. Pace!Init => PassTypes /\ BatchFits
  <2>. SUFFICES ASSUME Pace!Init PROVE PassTypes /\ BatchFits
    OBVIOUS
  <2>1. PassTypes
    <3>1. 0 \in 0..MaxPasses /\ 1 \in 1..MaxBackoff /\ 0 \in 0..MaxBackoff /\ 0 \in 0..MaxOutages
      BY DEF RunnerConstants
    <3>. QED  BY <3>1 DEF Pace!Init, PassTypes
  <2>2. 0 \in Nat /\ Fits({}, 0)
    BY NothingFits, BatchAssumption
  <2>. QED  BY <2>1, <2>2 DEF Pace!Init, BatchFits
<1>2. PassTypes /\ BatchFits /\ [Pace!Next]_Pace!vars => PassTypes' /\ BatchFits'
  BY PassTypesStep, BatchFitsStep
<1>3. PassTypes /\ BatchFits => Pace!TypeOK
  <2>. SUFFICES ASSUME PassTypes, BatchFits PROVE Pace!TypeOK
    OBVIOUS
  <2>1. \A c \in Pace!Callers : count[c] \in 0..Batch
    BY BatchAssumption DEF BatchFits, Fits
  <2>2. count \in [Pace!Callers -> 0..Batch]
    BY <2>1 DEF BatchFits
  <2>. QED  BY <2>2 DEF PassTypes, BatchFits, Pace!TypeOK
<1>. QED  BY <1>1, <1>2, <1>3, PTL DEF Pace!Spec
=============================================================================
