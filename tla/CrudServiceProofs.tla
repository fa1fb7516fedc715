-------------------------- MODULE CrudServiceProofs --------------------------
(***************************************************************************)
(* Proofs about CrudService for every number of requests, rows, columns    *)
(* and edits, every list and every size of a page or a batch.              *)
(***************************************************************************)
EXTENDS CrudService, FiniteSetTheorems, SequenceTheorems, WellFoundedInduction, TLAPS

\* The calls that end when a row they look for is missing.
Asking == Updates \cup Deletes \cup {"restore", "hard_delete"}

NamedBy(q) == IF q.op \in WholeTrash THEN DOMAIN q.seen ELSE Elems(q.ids)

\* The update of row i is done: written, or not needed on the row as read.
Wrote(q, i) == q.seen[i].cols[q.col] # q.val => i \in DOMAIN q.writes

(***************************************************************************)
(* What a request knows at its place in the code.  It reads its rows one   *)
(* by one before it writes the first; it holds no write before that.       *)
(***************************************************************************)
Placed(q) ==
    /\ q.phase \in Active => q.op \in Ops
    /\ q.phase \notin {"write", "commit"} => DOMAIN q.writes = {}
    /\ q.phase = "write" /\ q.op \notin Updates => DOMAIN q.writes = {}
    /\ q.phase \in {"read", "total"} => q.op \notin Creates
    /\ q.phase = "total" => q.op \in WholeTrash
    /\ q.phase \in {"read", "write"} /\ q.op \notin WholeTrash => q.next \in 1..Len(q.ids)
    /\ q.op \in Updates => q.col \in Columns

HasAsked(q) ==
    /\ q.op \notin WholeTrash => DOMAIN q.seen \subseteq Elems(q.ids)
    /\ q.op \in Asking /\ q.phase = "read" => \A k \in 1..q.next - 1 : q.ids[k] \in DOMAIN q.seen
    /\ q.op \in Asking /\ q.phase \in {"write", "commit"} => Elems(q.ids) \subseteq DOMAIN q.seen
    /\ q.op \in WholeTrash => Cardinality(DOMAIN q.seen) <= q.count
    /\ q.op \in Updates /\ ~q.verb /\ q.col \in StateFields =>
          \A i \in DOMAIN q.seen : q.seen[i].cols[q.col] = q.val

HasWritten(q) ==
    /\ q.op \in Updates => DOMAIN q.writes \subseteq Elems(q.ids)
    /\ q.op \in Updates /\ q.phase = "write" => \A k \in 1..q.next - 1 : Wrote(q, q.ids[k])
    /\ q.op \in Updates /\ q.phase = "commit" => \A i \in Elems(q.ids) : Wrote(q, i)
    /\ q.op \notin Updates /\ q.phase = "commit" => DOMAIN q.writes = NamedBy(q)

Knows(q) == Placed(q) /\ HasAsked(q) /\ HasWritten(q)

(***************************************************************************)
(* What an uncommitted write is to the committed row t of its id: its lock *)
(* keeps t as it was when the statement ran.                               *)
(***************************************************************************)
Fits(q, i, t) ==
    LET w == q.writes[i] IN
    /\ q.op \in Creates => t.kind = "absent" /\ w.kind = "live"
    /\ q.op \in Updates => /\ t.kind = "live" /\ w.kind = "live" /\ w.cols[q.col] = q.val
                           /\ \A c \in Columns : w.cols[c] # t.cols[c] =>
                                  c = q.col /\ (c \in StateFields => q.verb)
    /\ q.op \in Deletes => t.kind = "live" /\ w.kind = "trashed" /\ w.cols = t.cols
    /\ q.op \in Restores => t.kind = "trashed" /\ w.kind = "live" /\ w.cols = t.cols
    /\ q.op \in Removals => t.kind = "trashed" /\ w = NoRow

Creating(q) == q.phase \in Active /\ q.op \in Creates

\* A row that is being created, or may still be.
Unborn(i) == table[i].kind = "absent" /\ Life(i) = {}

\* The life of row i, as LedgerTellsTheRow has it.
LifeOK(i) ==
    /\ \A k \in Life(i) :
          CASE ledger[i][k] = "created" -> \A m \in Life(i) : k <= m
            [] ledger[i][k] = "deleted" -> Follows(i, k, {"created", "restored"})
            [] OTHER -> Follows(i, k, {"deleted"})
    /\ Live(table[i]) <=> Follows(i, Len(ledger[i]) + 1, {"created", "restored"})
    /\ Trashed(table[i]) <=> Follows(i, Len(ledger[i]) + 1, {"deleted"})

IndInv ==
    /\ TypeOK
    /\ \A r \in Requests : Knows(req[r])
    /\ \A r \in Requests : \A i \in DOMAIN req[r].writes : Fits(req[r], i, table[i])
    /\ \A r \in Requests : Creating(req[r]) =>
          \A i \in Elems(req[r].ids) : i \in used /\ Unborn(i)
    /\ \A r, s \in Requests : r # s /\ Creating(req[r]) /\ Creating(req[s]) =>
          Elems(req[r].ids) \cap Elems(req[s].ids) = {}
    /\ \A i \in Ids \ used : Unborn(i)
    /\ LedgerTellsTheRow
    /\ AskedBeforeWritten

-----------------------------------------------------------------------------
(* Lists of ids.                                                            *)

LEMMA ElemsOfSeq ==
    ASSUME NEW s \in Seq(Ids)
    PROVE  /\ Elems(s) \subseteq Ids /\ IsFiniteSet(Elems(s)) /\ Cardinality(Elems(s)) <= Len(s)
           /\ \A k \in 1..Len(s) : s[k] \in Elems(s)
<1>. DEFINE f == [k \in 1..Len(s) |-> s[k]]
<1>1. Len(s) \in Nat /\ \A k \in 1..Len(s) : s[k] \in Ids
  OBVIOUS
<1>2. f \in Surjection(1..Len(s), Elems(s))
  BY DEF Surjection, Elems
<1>3. IsFiniteSet(1..Len(s)) /\ Cardinality(1..Len(s)) = Len(s)
  <2>1. IsFiniteSet(1..Len(s)) /\ Cardinality(1..Len(s)) = IF 1 > Len(s) THEN 0 ELSE Len(s) - 1 + 1
    BY <1>1, FS_Interval
  <2>. QED  BY <1>1, <2>1
<1>. HIDE DEF f
<1>4. IsFiniteSet(Elems(s)) /\ Cardinality(Elems(s)) <= Len(s)
  BY <1>2, <1>3, FS_Surjection
<1>. QED  BY <1>1, <1>4 DEF Elems

LEMMA LeastNumber ==
    ASSUME NEW S \in SUBSET Nat, S # {}
    PROVE  \E n \in S : \A m \in S : n <= m
<1>. DEFINE R == OpToRel(<, Nat)
<1>1. IsWellFoundedOn(R, Nat)
  BY NatLessThanWellFounded
<1>2. ASSUME NEW y \in Nat, NEW x \in Nat, y < x PROVE <<y, x>> \in R
  BY <1>2 DEF OpToRel
<1>. HIDE DEF R
<1>3. PICK x \in S : \A y \in S : ~(<<y, x>> \in R)
  BY <1>1, WFMin
<1>4. ASSUME NEW m \in S PROVE x <= m
  <2>1. ~(m < x)
    BY <1>2, <1>3
  <2>. QED  BY <2>1
<1>. QED  BY <1>4

\* Whatever the list, dedup_ids makes a list of ids of it: the set of first
\* places has an n-th element for every n up to its size.
LEMMA DedupType ==
    ASSUME NEW s \in Seq(Ids), s # <<>>
    PROVE  DedupIds(s) \in Seq(Ids) /\ DedupIds(s) # <<>>
<1>. DEFINE first == {k \in 1..Len(s) : \A j \in 1..k - 1 : s[j] # s[k]}
            upto(k) == {j \in first : j <= k}
            size(k) == Cardinality(upto(k))
            nth(n) == CHOOSE k \in first : size(k) = n
            N == Cardinality(first)
            L == Len(s)
<1>1. L \in Nat \ {0} /\ \A k \in 1..L : s[k] \in Ids
  BY EmptySeq
<1>2. DedupIds(s) = [n \in 1..N |-> s[nth(n)]]
  BY DEF DedupIds
<1>3. first \subseteq 1..L /\ 1 \in first
  BY <1>1
<1>0. \A j \in first : j \in Nat /\ 1 <= j /\ j <= L
  BY <1>1
<1>. HIDE DEF first, L
<1>4. IsFiniteSet(1..L)
  BY <1>1, FS_Interval
<1>5. IsFiniteSet(first) /\ N \in Nat
  BY <1>3, <1>4, FS_Subset, FS_CardinalityType
<1>6. N # 0
  BY <1>3, <1>5, FS_EmptySet
<1>7. ASSUME NEW k \in Nat PROVE IsFiniteSet(upto(k)) /\ size(k) \in Nat
  BY <1>5, FS_Subset, FS_CardinalityType
<1>8. size(L) = N /\ size(0) = 0
  <2>1. upto(L) = first
    BY <1>0
  <2>2. upto(0) = {}
    BY <1>0
  <2>. QED  BY <2>1, <2>2, FS_EmptySet
<1>9. ASSUME NEW k \in Nat, k # 0
      PROVE  size(k) = IF k \in first THEN size(k - 1) + 1 ELSE size(k - 1)
  <2>1. CASE k \in first
    <3>0. ASSUME NEW j \in first PROVE j <= k <=> j <= k - 1 \/ j = k
      BY <1>0
    <3>1. upto(k) = upto(k - 1) \cup {k} /\ k \notin upto(k - 1)
      <4>1. upto(k) = upto(k - 1) \cup {k}
        BY <2>1, <3>0
      <4>2. k \notin upto(k - 1)
        OBVIOUS
      <4>. QED  BY <4>1, <4>2
    <3>2. IsFiniteSet(upto(k - 1))
      BY <1>7, <1>9
    <3>. QED  BY <2>1, <3>1, <3>2, FS_AddElement
  <2>2. CASE k \notin first
    <3>0. ASSUME NEW j \in first PROVE j <= k <=> j <= k - 1
      <4>1. j \in Nat /\ j # k
        BY <1>0, <2>2
      <4>. QED  BY <4>1
    <3>1. upto(k) = upto(k - 1)
      BY <3>0
    <3>. QED  BY <2>2, <3>1
  <2>. QED  BY <2>1, <2>2
<1>. HIDE DEF size, N
<1>10. ASSUME NEW n \in 1..N PROVE \E k \in first : size(k) = n
  <2>. DEFINE S == {k \in Nat : size(k) >= n}
  <2>1. L \in S /\ S \in SUBSET Nat
    BY <1>1, <1>5, <1>8
  <2>2. \A k \in Nat : k \in S <=> size(k) >= n
    OBVIOUS
  <2>. HIDE DEF S
  <2>3. PICK k \in S : \A m \in S : k <= m
    BY <2>1, LeastNumber
  <2>4. k \in Nat /\ size(k) >= n
    BY <2>1, <2>2
  <2>5. k # 0
    BY <1>5, <1>8, <2>4
  <2>6. k - 1 \in Nat /\ k - 1 \notin S
    BY <2>3, <2>4, <2>5
  <2>7. size(k - 1) < n /\ size(k - 1) \in Nat /\ n \in Nat
    <3>1. size(k - 1) \in Nat /\ ~(size(k - 1) >= n)
      BY <1>7, <2>2, <2>6
    <3>2. n \in Nat
      BY <1>5
    <3>. QED  BY <3>1, <3>2
  <2>8. size(k) = IF k \in first THEN size(k - 1) + 1 ELSE size(k - 1)
    BY <1>9, <2>4, <2>5
  <2>9. k \in first /\ size(k) = n
    BY <2>4, <2>7, <2>8
  <2>. QED  BY <2>9
<1>11. ASSUME NEW n \in 1..N PROVE nth(n) \in first
  BY <1>10
<1>12. \A n \in 1..N : s[nth(n)] \in Ids
  BY <1>1, <1>3, <1>11
<1>. HIDE DEF nth
<1>13. DedupIds(s) \in Seq(Ids)
  BY <1>2, <1>5, <1>12, IsASeq
<1>14. Len(DedupIds(s)) # 0
  BY <1>2, <1>5, <1>6
<1>. QED  BY <1>13, <1>14

-----------------------------------------------------------------------------
(* Rows and requests.                                                       *)

LEMMA NoRowType == NoRow \in Row /\ NoRow.kind = "absent" /\ NoRow.cols = Blank
<1>1. Blank \in [Columns -> Values]
  BY CrudAssumption DEF Blank
<1>. QED  BY <1>1 DEF NoRow, Row

LEMMA NoRowsType == AreRows(NoRows) /\ DOMAIN NoRows = {}
BY DEF AreRows, NoRows

LEMMA IdleFacts ==
    /\ IsRequest(Idle) /\ Idle.seen = NoRows /\ Idle.writes = NoRows
    /\ Idle.op = "none" /\ Idle.next = 1 /\ Idle.count = 0
<1>1. <<>> \in Seq(Ids) /\ 0 \in Values /\ "new" \in Phases
  BY CrudAssumption DEF Phases
<1>2. /\ Idle.seen = NoRows /\ Idle.writes = NoRows
      /\ Idle.op = "none" /\ Idle.next = 1 /\ Idle.count = 0
  BY DEF Idle
<1>3. Idle \in [phase : Phases, op : Ops \cup {"none"}, ids : Seq(Ids), col : Columns \cup {"none"},
                val : Values, verb : BOOLEAN, next : Nat, seen : {NoRows}, count : Nat,
                fetched : Nat, writes : {NoRows}, now : Nat]
  BY <1>1 DEF Idle
<1>4. IsRequest(Idle)
  BY <1>2, <1>3, NoRowsType DEF IsRequest
<1>. QED  BY <1>2, <1>4

LEMMA IdleType ==
    ASSUME NEW a \in Phases
    PROVE  LET x == [Idle EXCEPT !.phase = a]
           IN  IsRequest(x) /\ x.phase = a /\ DOMAIN x.writes = {} /\ DOMAIN x.seen = {} /\ x.op = "none"
<1>. DEFINE x == [Idle EXCEPT !.phase = a]
<1>1. IsRequest(x)
  BY IdleFacts DEF IsRequest
<1>2. x.phase = a /\ x.writes = NoRows /\ x.seen = NoRows /\ x.op = "none"
  BY IdleFacts DEF IsRequest
<1>. HIDE DEF x
<1>3. IsRequest(x) /\ x.phase = a /\ DOMAIN x.writes = {} /\ DOMAIN x.seen = {} /\ x.op = "none"
  BY <1>1, <1>2, NoRowsType
<1>. QED  BY <1>3 DEF x

\* What Advance keeps of a request, and where it puts it.
SameBut(x, q) ==
    /\ x.op = q.op /\ x.ids = q.ids /\ x.col = q.col /\ x.val = q.val /\ x.verb = q.verb
    /\ x.seen = q.seen /\ x.count = q.count /\ x.writes = q.writes /\ x.now = q.now

LEMMA AdvanceType ==
    ASSUME NEW q, IsRequest(q), NEW phase \in Phases
    PROVE  LET x == Advance(q, phase) IN
           /\ IsRequest(x) /\ SameBut(x, q)
           /\ q.next < Len(q.ids) => x.phase = q.phase /\ x.next = q.next + 1
           /\ ~(q.next < Len(q.ids)) => x.phase = phase /\ x.next = 1
<1>. DEFINE n == q.next + 1
            x == [q EXCEPT !.next = n]
            y == [q EXCEPT !.next = 1, !.phase = phase]
<1>1. n \in Nat
  BY DEF IsRequest
<1>2. Advance(q, phase) = IF q.next < Len(q.ids) THEN x ELSE y
  BY DEF Advance
<1>. HIDE DEF n
<1>3. IsRequest(x)
  BY <1>1 DEF IsRequest
<1>4. SameBut(x, q) /\ x.phase = q.phase /\ x.next = n
  BY DEF IsRequest, SameBut
<1>5. IsRequest(y)
  BY DEF IsRequest
<1>6. SameBut(y, q) /\ y.phase = phase /\ y.next = 1
  BY DEF IsRequest, SameBut
<1>. HIDE DEF x, y
<1>. QED  BY <1>2, <1>3, <1>4, <1>5, <1>6 DEF n

\* The request a call starts.
Called(phase, op, ids, col, val, verb, now) ==
    [Idle EXCEPT !.phase = phase, !.op = op, !.ids = ids, !.col = col,
                 !.val = val, !.verb = verb, !.now = now]

-----------------------------------------------------------------------------
(* Steps that commit nothing: one request moves on to x.                    *)

LEMMA LocalInv ==
    ASSUME IndInv, NEW r \in Requests, NEW x, IsRequest(x), Knows(x),
           req' = [req EXCEPT ![r] = x],
           UNCHANGED <<table, ledger, unasked>>,
           clock' \in Nat, used \subseteq used', used' \subseteq Ids,
           \A i \in DOMAIN x.writes : /\ Fits(x, i, table[i])
                                      /\ \A s \in Requests \ {r} : i \notin DOMAIN req[s].writes,
           Creating(x) => \A i \in Elems(x.ids) :
              /\ i \in used' /\ Unborn(i)
              /\ \A s \in Requests \ {r} : Creating(req[s]) => i \notin Elems(req[s].ids)
    PROVE  IndInv'
<1>1. TypeOK
  BY DEF IndInv
<1>2. /\ DOMAIN req' = Requests /\ req'[r] = x
      /\ \A s \in Requests \ {r} : req'[s] = req[s]
  BY <1>1 DEF TypeOK
<1>3. \A i : Unborn(i)' <=> Unborn(i)
  BY DEF Unborn, Life
<1>4. TypeOK'
  <2>1. \A s \in Requests : IsRequest(req'[s])
    BY <1>1, <1>2 DEF TypeOK
  <2>2. \A s, q \in Requests : s # q => DOMAIN req'[s].writes \cap DOMAIN req'[q].writes = {}
    BY <1>1, <1>2 DEF TypeOK
  <2>3. \A i \in Ids : table'[i].kind # "absent" => i \in used'
    BY <1>1 DEF TypeOK
  <2>4. table' \in [Ids -> Row] /\ ledger' \in [Ids -> Seq(Events)] /\ unasked' \subseteq Ops \X Ids
    BY <1>1 DEF TypeOK
  <2>. QED  BY <1>2, <2>1, <2>2, <2>3, <2>4 DEF TypeOK
<1>5. \A s \in Requests : Knows(req'[s])
  BY <1>2 DEF IndInv
<1>6. \A s \in Requests : \A i \in DOMAIN req'[s].writes : Fits(req'[s], i, table'[i])
  BY <1>2 DEF IndInv
<1>7. \A s \in Requests : Creating(req'[s]) => \A i \in Elems(req'[s].ids) : i \in used' /\ Unborn(i)'
  BY <1>2, <1>3 DEF IndInv
<1>8. \A q, s \in Requests : q # s /\ Creating(req'[q]) /\ Creating(req'[s]) =>
          Elems(req'[q].ids) \cap Elems(req'[s].ids) = {}
  BY <1>2 DEF IndInv
<1>9. \A i \in Ids \ used' : Unborn(i)'
  BY <1>3 DEF IndInv
<1>10. LedgerTellsTheRow' /\ AskedBeforeWritten'
  <2>1. LedgerTellsTheRow /\ AskedBeforeWritten
    BY DEF IndInv
  <2>. QED  BY <2>1 DEF LedgerTellsTheRow, AskedBeforeWritten, Life, Follows, Live, Trashed
<1>. QED  BY <1>4, <1>5, <1>6, <1>7, <1>8, <1>9, <1>10 DEF IndInv

LEMMA RestKnows ==
    ASSUME NEW x, x.phase \in {"new"} \cup Ended, x.op = "none", DOMAIN x.writes = {}, DOMAIN x.seen = {}
    PROVE  Knows(x) /\ ~Creating(x)
<1>1. x.phase \notin Active /\ x.phase \notin {"read", "total", "write", "commit"}
  BY DEF Active, Ended
<1>2. x.op \notin Updates /\ x.op \notin WholeTrash /\ x.op \notin Asking
  BY DEF Updates, WholeTrash, Asking, Deletes
<1>3. Placed(x)
  BY <1>1, <1>2 DEF Placed
<1>4. HasAsked(x)
  BY <1>1, <1>2 DEF HasAsked
<1>5. HasWritten(x)
  BY <1>1, <1>2 DEF HasWritten
<1>. QED  BY <1>1, <1>3, <1>4, <1>5 DEF Knows, Creating

\* A request that ends, in a refusal, a miss or a failure.
LEMMA EndInv ==
    ASSUME IndInv, NEW r \in Requests, NEW a \in Ended, End(r, a),
           UNCHANGED <<table, ledger, unasked, used>>, clock' \in Nat
    PROVE  IndInv'
<1>. DEFINE x == [Idle EXCEPT !.phase = a]
<1>1. req' = [req EXCEPT ![r] = x]
  BY DEF End, Become
<1>2. IsRequest(x) /\ x.phase = a /\ DOMAIN x.writes = {} /\ DOMAIN x.seen = {} /\ x.op = "none"
  <2>1. a \in Phases
    BY DEF Phases
  <2>. QED  BY <2>1, IdleType
<1>. HIDE DEF x
<1>3. Knows(x) /\ ~Creating(x)
  BY <1>2, RestKnows
<1>4. used' \subseteq Ids /\ used \subseteq used'
  BY DEF IndInv, TypeOK
<1>5. \A i \in DOMAIN x.writes : /\ Fits(x, i, table[i])
                                 /\ \A s \in Requests \ {r} : i \notin DOMAIN req[s].writes
  BY <1>2
<1>. QED  BY <1>1, <1>2, <1>3, <1>4, <1>5, LocalInv

-----------------------------------------------------------------------------
(* Calls.                                                                   *)

LEMMA OpsApart ==
    /\ Creates \cap (Updates \cup Deletes \cup Restores \cup Removals \cup WholeTrash \cup Asking) = {}
    /\ Updates \cap (Deletes \cup Restores \cup Removals \cup WholeTrash) = {}
    /\ Deletes \cap (Restores \cup Removals \cup WholeTrash) = {}
    /\ Restores \cap Removals = {} /\ Asking \cap WholeTrash = {}
    /\ Updates \cup Deletes \subseteq Asking /\ WholeTrash \subseteq Restores \cup Removals
    /\ Ops \ Creates = Updates \cup Deletes \cup Restores \cup Removals
    /\ SingleOps \subseteq Asking
BY DEF Creates, Updates, Deletes, Restores, Removals, WholeTrash, Asking, Ops, SingleOps

LEMMA StartedKnows ==
    ASSUME NEW x, x.op \in Ops, DOMAIN x.writes = {}, DOMAIN x.seen = {}, x.next = 1, x.count = 0,
           \/ x.phase = "read" /\ x.op \notin Creates
           \/ x.phase = "write" /\ x.op \in Creates,
           x.op \notin WholeTrash => 1 \in 1..Len(x.ids),
           x.op \in Updates => x.col \in Columns
    PROVE  Knows(x)
<1>1. Placed(x)
  BY OpsApart DEF Placed
<1>2. HasAsked(x)
  <2>1. Cardinality(DOMAIN x.seen) = 0
    BY FS_EmptySet
  <2>2. \A k \in 1..x.next - 1 : FALSE
    OBVIOUS
  <2>3. x.op \in Asking => x.phase = "read"
    BY OpsApart
  <2>. QED  BY <2>1, <2>2, <2>3 DEF HasAsked
<1>3. HasWritten(x)
  BY OpsApart DEF HasWritten
<1>. QED  BY <1>1, <1>2, <1>3 DEF Knows

LEMMA StartInv ==
    ASSUME IndInv, NEW r \in Requests,
           NEW phase \in {"read", "err"}, NEW op \in Ops \ Creates, NEW ids \in Seq(Ids),
           NEW col \in Columns \cup {"none"}, NEW val \in Values, NEW verb \in BOOLEAN,
           op \notin WholeTrash => ids # <<>>, op \in Updates => col \in Columns,
           Start(r, phase, op, ids, col, val, verb), UNCHANGED used
    PROVE  IndInv'
<1>1. clock \in Nat /\ clock' \in Nat /\ UNCHANGED <<table, ledger, unasked>>
  BY DEF IndInv, TypeOK, Start
<1>2. CASE phase = "err"
  <2>1. End(r, "err") /\ "err" \in Ended
    BY <1>2 DEF Start, Ended
  <2>. QED  BY <1>1, <2>1, EndInv
<1>3. CASE phase = "read"
  <2>. DEFINE x == Called(phase, op, ids, col, val, verb, clock)
  <2>1. req' = [req EXCEPT ![r] = x]
    BY <1>3 DEF Start, Become, Called
  <2>2. /\ IsRequest(x) /\ DOMAIN x.writes = {} /\ DOMAIN x.seen = {} /\ x.next = 1
        /\ x.phase = phase /\ x.op = op /\ x.ids = ids /\ x.col = col /\ x.count = 0
    <3>1. phase \in Phases /\ op \in Ops
      BY <1>3 DEF Phases, Active
    <3>2. IsRequest(x)
      BY <1>1, <3>1, IdleFacts DEF IsRequest, Called
    <3>3. /\ x.phase = phase /\ x.op = op /\ x.ids = ids /\ x.col = col /\ x.count = 0
          /\ x.seen = NoRows /\ x.writes = NoRows /\ x.next = 1
      BY IdleFacts DEF IsRequest, Called
    <3>. QED  BY <3>2, <3>3, NoRowsType
  <2>. HIDE DEF x
  <2>3. ids # <<>> => 1 \in 1..Len(ids)
    BY EmptySeq
  <2>4. Knows(x)
    BY <1>3, <2>2, <2>3, StartedKnows
  <2>5. ~Creating(x)
    BY <2>2 DEF Creating
  <2>6. used' \subseteq Ids /\ used \subseteq used'
    BY DEF IndInv, TypeOK
  <2>7. \A i \in DOMAIN x.writes : /\ Fits(x, i, table[i])
                                   /\ \A s \in Requests \ {r} : i \notin DOMAIN req[s].writes
    BY <2>2
  <2>. QED  BY <1>1, <2>1, <2>2, <2>4, <2>5, <2>6, <2>7, LocalInv
<1>. QED  BY <1>2, <1>3

LEMMA CallCreateInv ==
    ASSUME IndInv, NEW r \in Requests, CallCreate(r)
    PROVE  IndInv'
<1>1. PICK i \in Ids \ used :
        (\E op \in Creates : Start(r, "write", op, <<i>>, "none", 0, FALSE)) /\ used' = used \cup {i}
  BY DEF CallCreate
<1>2. PICK op \in Creates : Start(r, "write", op, <<i>>, "none", 0, FALSE)
  BY <1>1
<1>3. clock \in Nat /\ clock' \in Nat /\ UNCHANGED <<table, ledger, unasked>>
  BY <1>2 DEF IndInv, TypeOK, Start
<1>. DEFINE ids == <<i>>
            x == Called("write", op, ids, "none", 0, FALSE, clock)
<1>4. req' = [req EXCEPT ![r] = x]
  BY <1>2 DEF Start, Become, Called
<1>5. ids \in Seq(Ids) /\ Elems(ids) = {i} /\ 1 \in 1..Len(ids)
  BY DEF Elems
<1>. HIDE DEF ids
<1>6. /\ IsRequest(x) /\ DOMAIN x.writes = {} /\ DOMAIN x.seen = {} /\ x.next = 1
      /\ x.phase = "write" /\ x.op = op /\ x.ids = ids /\ x.col = "none" /\ x.count = 0
  <2>1. "write" \in Phases /\ op \in Ops /\ 0 \in Values /\ "none" \in Columns \cup {"none"}
    BY CrudAssumption DEF Phases, Active, Ops
  <2>2. IsRequest(x)
    BY <1>3, <1>5, <2>1, IdleFacts DEF IsRequest, Called
  <2>3. /\ x.phase = "write" /\ x.op = op /\ x.ids = ids /\ x.col = "none" /\ x.count = 0
        /\ x.seen = NoRows /\ x.writes = NoRows /\ x.next = 1
    BY IdleFacts DEF IsRequest, Called
  <2>. QED  BY <2>2, <2>3, NoRowsType
<1>. HIDE DEF x
<1>7. Knows(x)
  <2>1. op \in Ops /\ op \notin Updates
    BY OpsApart DEF Ops
  <2>. QED  BY <1>5, <1>6, <2>1, StartedKnows
<1>8. used \subseteq used' /\ used' \subseteq Ids
  BY <1>1 DEF IndInv, TypeOK
<1>9. \A j \in Elems(x.ids) :
        /\ j \in used' /\ Unborn(j)
        /\ \A s \in Requests \ {r} : Creating(req[s]) => j \notin Elems(req[s].ids)
  BY <1>1, <1>5, <1>6 DEF IndInv
<1>10. \A j \in DOMAIN x.writes : /\ Fits(x, j, table[j])
                                  /\ \A s \in Requests \ {r} : j \notin DOMAIN req[s].writes
  BY <1>6
<1>. QED  BY <1>3, <1>4, <1>6, <1>7, <1>8, <1>9, <1>10, LocalInv

LEMMA EditType ==
    ASSUME NEW e \in Edits
    PROVE  e[1] \in Columns /\ e[2] \in Values /\ e[3] \in BOOLEAN
BY CrudAssumption

LEMMA CallUpdateInv ==
    ASSUME IndInv, NEW r \in Requests, CallUpdate(r)
    PROVE  IndInv'
<1>1. PICK i \in Targets, e \in Edits : Start(r, "read", "update", <<i>>, e[1], e[2], e[3])
  BY DEF CallUpdate
<1>2. <<i>> \in Seq(Ids) /\ <<i>> # <<>>
  BY CrudAssumption
<1>3. "update" \in Ops \ Creates /\ UNCHANGED used
  BY DEF Ops, Updates, Creates, CallUpdate
<1>. QED  BY <1>1, <1>2, <1>3, EditType, StartInv

LEMMA CallSingleInv ==
    ASSUME IndInv, NEW r \in Requests, CallSingle(r)
    PROVE  IndInv'
<1>1. PICK i \in Targets, op \in SingleOps \ Updates : Start(r, "read", op, <<i>>, "none", 0, FALSE)
  BY DEF CallSingle
<1>2. <<i>> \in Seq(Ids) /\ <<i>> # <<>> /\ 0 \in Values
  BY CrudAssumption
<1>3. op \in Ops \ Creates /\ op \notin Updates /\ UNCHANGED used
  BY DEF Ops, Updates, Creates, Deletes, Restores, Removals, SingleOps, CallSingle
<1>. QED  BY <1>1, <1>2, <1>3, StartInv

LEMMA CallBulkUpdateInv ==
    ASSUME IndInv, NEW r \in Requests, CallBulkUpdate(r)
    PROVE  IndInv'
<1>1. PICK ids \in Lists, e \in Edits :
        Start(r, IF Len(ids) > MaxBatch \/ DedupIds(ids) # ids THEN "err" ELSE "read",
              "bulk_update", ids, e[1], e[2], FALSE)
  BY DEF CallBulkUpdate
<1>2. PICK phase \in {"read", "err"} : Start(r, phase, "bulk_update", ids, e[1], e[2], FALSE)
  BY <1>1
<1>3. ids \in Seq(Ids) /\ ids # <<>>
  BY CrudAssumption
<1>4. "bulk_update" \in Ops \ Creates /\ UNCHANGED used
  BY DEF Ops, Updates, Creates, CallBulkUpdate
<1>. QED  BY <1>2, <1>3, <1>4, EditType, StartInv

LEMMA CallListInv ==
    ASSUME IndInv, NEW r \in Requests, CallList(r)
    PROVE  IndInv'
<1>1. PICK ids \in Lists, op \in ListOps \ Updates :
        Start(r, IF Len(ids) > MaxBatch THEN "err" ELSE "read", op, DedupIds(ids), "none", 0, FALSE)
  BY DEF CallList
<1>2. PICK phase \in {"read", "err"} : Start(r, phase, op, DedupIds(ids), "none", 0, FALSE)
  BY <1>1
<1>3. DedupIds(ids) \in Seq(Ids) /\ DedupIds(ids) # <<>> /\ 0 \in Values
  BY CrudAssumption, DedupType
<1>4. op \in Ops \ Creates /\ op \notin Updates /\ UNCHANGED used
  BY DEF Ops, Updates, Creates, Deletes, Restores, Removals, ListOps, CallList
<1>. QED  BY <1>2, <1>3, <1>4, StartInv

LEMMA CallWholeTrashInv ==
    ASSUME IndInv, NEW r \in Requests, CallWholeTrash(r)
    PROVE  IndInv'
<1>1. PICK op \in WholeTrash : Start(r, "read", op, <<>>, "none", 0, FALSE)
  BY DEF CallWholeTrash
<1>2. <<>> \in Seq(Ids) /\ 0 \in Values
  BY CrudAssumption
<1>3. op \in Ops \ Creates /\ op \notin Updates /\ UNCHANGED used
  BY DEF Ops, Updates, Creates, Restores, Removals, WholeTrash, CallWholeTrash
<1>. QED  BY <1>1, <1>2, <1>3, StartInv

-----------------------------------------------------------------------------
(* Reading.                                                                 *)

\* Patched changes the one column.
LEMMA PatchedRow ==
    ASSUME NEW r \in Requests, NEW row \in Row, req[r].col \in Columns, req[r].val \in Values
    PROVE  /\ Patched(r, row).cols \in [Columns -> Values]
           /\ \A c \in Columns : Patched(r, row).cols[c] = IF c = req[r].col THEN req[r].val ELSE row.cols[c]
<1>. DEFINE m == [row.cols EXCEPT ![req[r].col] = req[r].val]
            x == [row EXCEPT !.cols = m]
<1>1. row.cols \in [Columns -> Values]
  BY DEF Row
<1>2. /\ m \in [Columns -> Values]
      /\ \A c \in Columns : m[c] = IF c = req[r].col THEN req[r].val ELSE row.cols[c]
  BY <1>1
<1>3. Patched(r, row) = x
  BY DEF Patched
<1>. HIDE DEF m
<1>4. x.cols = m
  BY DEF Row
<1>. HIDE DEF x
<1>. QED  BY <1>2, <1>3, <1>4

\* What a request in its reading loop knows after one more row.
LEMMA ReadKnows ==
    ASSUME NEW q, NEW x, IsRequest(q), Knows(q), q.phase = "read", q.op \notin WholeTrash,
           x.op = q.op, x.ids = q.ids, x.col = q.col, x.val = q.val, x.verb = q.verb,
           x.writes = q.writes,
           \/ q.next < Len(q.ids) /\ x.phase = "read" /\ x.next = q.next + 1
           \/ ~(q.next < Len(q.ids)) /\ x.phase = "write" /\ x.next = 1,
           DOMAIN q.seen \subseteq DOMAIN x.seen, DOMAIN x.seen \subseteq Elems(q.ids),
           q.op \in Asking => q.ids[q.next] \in DOMAIN x.seen,
           q.op \in Updates /\ ~q.verb /\ q.col \in StateFields =>
              \A i \in DOMAIN x.seen : x.seen[i].cols[q.col] = q.val
    PROVE  Knows(x) /\ ~Creating(x)
<1>1. Placed(q) /\ HasAsked(q)
  BY DEF Knows
<1>2. q.ids \in Seq(Ids) /\ Len(q.ids) \in Nat /\ q.next \in Nat /\ q.next >= 1 /\ q.next <= Len(q.ids)
  <2>1. q.ids \in Seq(Ids)
    BY DEF IsRequest
  <2>2. Len(q.ids) \in Nat
    BY <2>1
  <2>3. q.next \in 1..Len(q.ids)
    BY <1>1 DEF Placed
  <2>. QED  BY <2>1, <2>2, <2>3
<1>3. DOMAIN q.writes = {} /\ q.op \in Ops /\ q.op \notin Creates
  BY <1>1 DEF Placed, Active
<1>4. Placed(x)
  <2>1. x.next \in 1..Len(x.ids)
    BY <1>2
  <2>. QED  BY <1>1, <1>3, <2>1 DEF Placed
<1>5. HasAsked(x)
  <2>1. q.op \in Asking => \A k \in 1..q.next : q.ids[k] \in DOMAIN x.seen
    <3>. SUFFICES ASSUME q.op \in Asking, NEW k \in 1..q.next PROVE q.ids[k] \in DOMAIN x.seen
      OBVIOUS
    <3>1. k = q.next \/ k \in 1..q.next - 1
      BY <1>2
    <3>. QED  BY <1>1, <3>1 DEF HasAsked
  <2>2. CASE x.phase = "read"
    <3>1. \A k \in 1..x.next - 1 : k \in 1..q.next
      BY <1>2, <2>2
    <3>. QED  BY <1>1, <2>1, <2>2, <3>1 DEF HasAsked
  <2>3. CASE x.phase = "write"
    <3>1. q.next = Len(q.ids)
      BY <1>2, <2>3
    <3>2. q.op \in Asking => Elems(x.ids) \subseteq DOMAIN x.seen
      BY <2>1, <3>1 DEF Elems
    <3>. QED  BY <1>1, <2>3, <3>2 DEF HasAsked
  <2>. QED  BY <2>2, <2>3
<1>6. HasWritten(x)
  <2>1. x.phase = "write" => x.next = 1
    OBVIOUS
  <2>2. \A k \in 1..1 - 1 : FALSE
    OBVIOUS
  <2>. QED  BY <1>3, <2>1, <2>2 DEF HasWritten
<1>. QED  BY <1>3, <1>4, <1>5, <1>6 DEF Knows, Creating

LEMMA RequestFacts ==
    ASSUME IndInv, NEW r \in Requests
    PROVE  IsRequest(req[r]) /\ Knows(req[r]) /\ req[r].col \in Columns \cup {"none"} /\ req[r].val \in Values
BY DEF IndInv, TypeOK, IsRequest

\* The id a loop stands at.
LEMMA IdFacts ==
    ASSUME NEW q, IsRequest(q), Knows(q), q.phase \in {"read", "write"}, q.op \notin WholeTrash
    PROVE  q.ids[q.next] \in Ids /\ q.ids[q.next] \in Elems(q.ids)
<1>1. q.ids \in Seq(Ids) /\ q.next \in 1..Len(q.ids)
  BY DEF IsRequest, Knows, Placed
<1>. QED  BY <1>1, ElemsOfSeq

LEMMA ReadRowInv ==
    ASSUME IndInv, NEW r \in Requests, ReadRow(r)
    PROVE  IndInv'
<1>. DEFINE q == req[r]
            i == q.ids[q.next]
            s == Over([j \in {i} |-> table[i]], q.seen)
            n == q.count + 1
            y == [q EXCEPT !.seen = s, !.count = n]
            x == Advance(y, "write")
<1>1. /\ q.phase = "read" /\ q.op \notin WholeTrash
      /\ q.op \in Updates => ~Protected(r, table[i])
      /\ req' = [req EXCEPT ![r] = x] /\ UNCHANGED data
  BY DEF ReadRow, Become
<1>2. /\ IsRequest(q) /\ Knows(q) /\ i \in Ids /\ i \in Elems(q.ids) /\ table[i] \in Row
      /\ q.val \in Values
  BY <1>1, RequestFacts, IdFacts DEF IndInv, TypeOK
<1>. HIDE DEF q, i
<1>3. /\ DOMAIN s = {i} \cup DOMAIN q.seen /\ s[i] = table[i]
      /\ \A j \in DOMAIN q.seen : j # i => s[j] = q.seen[j]
  BY DEF Over
<1>. HIDE DEF s
<1>4. AreRows(s) /\ n \in Nat
  BY <1>2, <1>3 DEF IsRequest, AreRows
<1>. HIDE DEF n
<1>5. IsRequest(y)
  BY <1>2, <1>4 DEF IsRequest
<1>6. /\ y.op = q.op /\ y.ids = q.ids /\ y.col = q.col /\ y.val = q.val /\ y.verb = q.verb
      /\ y.writes = q.writes /\ y.seen = s /\ y.next = q.next /\ y.phase = "read"
  BY <1>1, <1>2 DEF IsRequest
<1>. HIDE DEF y
<1>7. /\ IsRequest(x) /\ SameBut(x, y)
      /\ y.next < Len(y.ids) => x.phase = y.phase /\ x.next = y.next + 1
      /\ ~(y.next < Len(y.ids)) => x.phase = "write" /\ x.next = 1
  <2>1. "write" \in Phases
    BY DEF Phases, Active
  <2>. QED  BY <1>5, <2>1, AdvanceType
<1>. HIDE DEF x
<1>8. ASSUME q.op \in Updates, ~q.verb, q.col \in StateFields
      PROVE  \A j \in DOMAIN s : s[j].cols[q.col] = q.val
  <2>1. q.col \in Columns
    BY <1>8, CrudAssumption
  <2>2. Patched(r, table[i]).cols[q.col] = q.val
    BY <1>2, <2>1, PatchedRow DEF q
  <2>3. table[i].cols[q.col] = q.val
    BY <1>1, <1>8, <2>2 DEF Protected, q
  <2>4. \A j \in DOMAIN q.seen : q.seen[j].cols[q.col] = q.val
    BY <1>2, <1>8 DEF Knows, HasAsked
  <2>. QED  BY <1>3, <2>3, <2>4
<1>9. DOMAIN q.seen \subseteq Elems(q.ids)
  BY <1>1, <1>2 DEF Knows, HasAsked
<1>10. Knows(x) /\ ~Creating(x)
  <2>1. /\ x.op = q.op /\ x.ids = q.ids /\ x.col = q.col /\ x.val = q.val /\ x.verb = q.verb
        /\ x.writes = q.writes /\ x.seen = s
    BY <1>6, <1>7 DEF SameBut
  <2>2. \/ q.next < Len(q.ids) /\ x.phase = "read" /\ x.next = q.next + 1
        \/ ~(q.next < Len(q.ids)) /\ x.phase = "write" /\ x.next = 1
    BY <1>6, <1>7
  <2>3. DOMAIN q.seen \subseteq DOMAIN x.seen /\ DOMAIN x.seen \subseteq Elems(q.ids)
    BY <1>2, <1>3, <1>9, <2>1
  <2>4. q.ids[q.next] \in DOMAIN x.seen
    BY <1>3, <2>1 DEF i
  <2>. QED  BY <1>1, <1>2, <1>8, <2>1, <2>2, <2>3, <2>4, ReadKnows
<1>11. DOMAIN x.writes = {}
  <2>1. x.writes = q.writes
    BY <1>6, <1>7 DEF SameBut
  <2>. QED  BY <1>1, <1>2, <2>1 DEF Knows, Placed
<1>12. UNCHANGED <<table, ledger, unasked>> /\ clock' \in Nat /\ used \subseteq used' /\ used' \subseteq Ids
  BY <1>1 DEF data, IndInv, TypeOK
<1>. QED  BY <1>1, <1>7, <1>10, <1>11, <1>12, LocalInv

LEMMA DataKept ==
    ASSUME IndInv, UNCHANGED data
    PROVE  /\ UNCHANGED <<table, ledger, unasked, used>> /\ clock' \in Nat
           /\ used \subseteq used' /\ used' \subseteq Ids
BY DEF data, IndInv, TypeOK

LEMMA MissRowInv ==
    ASSUME IndInv, NEW r \in Requests, MissRow(r)
    PROVE  IndInv'
<1>. DEFINE q == req[r]
<1>1. q.phase = "read" /\ q.op \notin WholeTrash /\ UNCHANGED data
  BY DEF MissRow
<1>2. IsRequest(q) /\ Knows(q) /\ q.op \in Ops \ Creates
  BY <1>1, RequestFacts DEF Knows, Placed, Active
<1>3. CASE q.op \in SingleOps
  <2>1. q.op \notin {"bulk_update", "bulk_soft_delete"}
    BY <1>3 DEF SingleOps
  <2>2. End(r, "none") /\ "none" \in Ended
    BY <1>3, <2>1 DEF MissRow, Ended
  <2>. QED  BY <1>1, <2>2, DataKept, EndInv
<1>4. CASE q.op \in {"bulk_update", "bulk_soft_delete"}
  <2>1. q.op \notin SingleOps
    BY <1>4 DEF SingleOps
  <2>2. End(r, "err") /\ "err" \in Ended
    BY <1>4, <2>1 DEF MissRow, Ended
  <2>. QED  BY <1>1, <2>2, DataKept, EndInv
<1>5. CASE q.op \notin SingleOps /\ q.op \notin {"bulk_update", "bulk_soft_delete"}
  <2>. DEFINE x == Advance(q, "write")
  <2>1. req' = [req EXCEPT ![r] = x]
    BY <1>5 DEF MissRow, Become
  <2>2. q.op \notin Asking /\ q.op \notin Updates
    BY <1>5 DEF Asking, Updates, Deletes, SingleOps
  <2>3. /\ IsRequest(x) /\ SameBut(x, q)
        /\ q.next < Len(q.ids) => x.phase = q.phase /\ x.next = q.next + 1
        /\ ~(q.next < Len(q.ids)) => x.phase = "write" /\ x.next = 1
    <3>1. "write" \in Phases
      BY DEF Phases, Active
    <3>. QED  BY <1>2, <3>1, AdvanceType
  <2>. HIDE DEF x, q
  <2>4. /\ x.op = q.op /\ x.ids = q.ids /\ x.col = q.col /\ x.val = q.val /\ x.verb = q.verb
        /\ x.writes = q.writes /\ x.seen = q.seen
    BY <2>3 DEF SameBut
  <2>5. DOMAIN q.seen \subseteq Elems(q.ids) /\ DOMAIN q.writes = {}
    BY <1>1, <1>2 DEF Knows, HasAsked, Placed
  <2>6. Knows(x) /\ ~Creating(x)
    BY <1>1, <1>2, <2>2, <2>3, <2>4, <2>5, ReadKnows
  <2>7. DOMAIN x.writes = {}
    BY <2>4, <2>5
  <2>. QED  BY <1>1, <2>1, <2>3, <2>6, <2>7, DataKept, LocalInv
<1>. QED  BY <1>3, <1>4, <1>5

\* A request that reads pages of the trash, or has read them.
LEMMA TrashKnows ==
    ASSUME NEW x, x.phase \in {"read", "total", "write"}, x.op \in WholeTrash,
           DOMAIN x.writes = {}, Cardinality(DOMAIN x.seen) <= x.count
    PROVE  Knows(x) /\ ~Creating(x)
<1>1. x.op \in Ops /\ x.op \notin Creates /\ x.op \notin Updates /\ x.op \notin Asking
  BY DEF Ops, Creates, Updates, Asking, Deletes, Restores, Removals, WholeTrash
<1>2. Placed(x)
  BY <1>1 DEF Placed
<1>3. HasAsked(x)
  BY <1>1 DEF HasAsked
<1>4. HasWritten(x)
  BY <1>1 DEF HasWritten
<1>. QED  BY <1>1, <1>2, <1>3, <1>4 DEF Knows, Creating

LEMMA RowSet ==
    ASSUME NEW D \in SUBSET Ids
    PROVE  IsFiniteSet(D) /\ Cardinality(D) \in Nat
BY CrudAssumption, FS_Subset, FS_CardinalityType

LEMMA ReadPageInv ==
    ASSUME IndInv, NEW r \in Requests, ReadPage(r)
    PROVE  IndInv'
<1>. DEFINE q == req[r]
            batch == Page(q.next)
            s == Over([i \in batch |-> table[i]], q.seen)
            b == Cardinality(batch)
            n == q.count + b
            x == [q EXCEPT !.seen = s, !.phase = "total", !.count = n, !.fetched = b]
<1>1. q.phase = "read" /\ q.op \in WholeTrash /\ req' = [req EXCEPT ![r] = x] /\ UNCHANGED data
  BY DEF ReadPage, Become
<1>2. IsRequest(q) /\ Knows(q)
  BY RequestFacts
<1>3. batch \subseteq Ids /\ table \in [Ids -> Row]
  BY DEF Page, Trash, IndInv, TypeOK
<1>. HIDE DEF q, batch
<1>4. /\ DOMAIN s = batch \cup DOMAIN q.seen
      /\ \A i \in DOMAIN s : s[i] = table[i] \/ (i \in DOMAIN q.seen /\ s[i] = q.seen[i])
  BY DEF Over
<1>. HIDE DEF s
<1>5. AreRows(q.seen) /\ q.count \in Nat /\ DOMAIN q.seen \subseteq Ids
  BY <1>2 DEF IsRequest, AreRows
<1>6. AreRows(s)
  BY <1>3, <1>4, <1>5 DEF AreRows
<1>7. IsFiniteSet(batch) /\ b \in Nat /\ IsFiniteSet(DOMAIN q.seen) /\ Cardinality(DOMAIN q.seen) \in Nat
  BY <1>3, <1>5, RowSet
<1>8. Cardinality(DOMAIN s) <= n /\ n \in Nat
  <2>1. Cardinality(DOMAIN q.seen) <= q.count
    BY <1>1, <1>2 DEF Knows, HasAsked
  <2>2. Cardinality(batch \cup DOMAIN q.seen) =
          b + Cardinality(DOMAIN q.seen) - Cardinality(batch \cap DOMAIN q.seen)
    BY <1>7, FS_Union
  <2>3. Cardinality(batch \cap DOMAIN q.seen) \in Nat
    <3>1. batch \cap DOMAIN q.seen \in SUBSET Ids
      BY <1>3
    <3>. QED  BY <3>1, RowSet
  <2>4. Cardinality(DOMAIN s) = Cardinality(batch \cup DOMAIN q.seen)
    BY <1>4
  <2>. HIDE DEF b
  <2>. QED  BY <1>5, <1>7, <2>1, <2>2, <2>3, <2>4
<1>. HIDE DEF b, n
<1>9. IsRequest(x)
  <2>1. "total" \in Phases
    BY DEF Phases, Active
  <2>. QED  BY <1>2, <1>6, <1>7, <1>8, <2>1 DEF IsRequest
<1>10. x.phase = "total" /\ x.op = q.op /\ x.writes = q.writes /\ x.seen = s /\ x.count = n
  BY <1>2 DEF IsRequest
<1>. HIDE DEF x
<1>11. DOMAIN x.writes = {}
  BY <1>1, <1>2, <1>10 DEF Knows, Placed
<1>12. Knows(x) /\ ~Creating(x)
  BY <1>1, <1>8, <1>10, <1>11, TrashKnows
<1>. QED  BY <1>1, <1>9, <1>11, <1>12, DataKept, LocalInv

LEMMA CountTrashInv ==
    ASSUME IndInv, NEW r \in Requests, CountTrash(r)
    PROVE  IndInv'
<1>. DEFINE q == req[r]
            last == q.count >= Cardinality(Trash) \/ q.fetched < PerPage
            n == q.next + 1
            ph == IF last THEN "write" ELSE "read"
            x == [q EXCEPT !.next = n, !.phase = ph]
<1>1. /\ q.phase = "total" /\ UNCHANGED data
      /\ End(r, "err") \/ End(r, "none") \/ req' = [req EXCEPT ![r] = x]
  BY DEF CountTrash, Become
<1>2. CASE End(r, "err") \/ End(r, "none")
  <2>1. "err" \in Ended /\ "none" \in Ended
    BY DEF Ended
  <2>. QED  BY <1>1, <1>2, <2>1, DataKept, EndInv
<1>3. CASE req' = [req EXCEPT ![r] = x]
  <2>1. IsRequest(q) /\ Knows(q)
    BY RequestFacts
  <2>2. ph \in {"read", "write"}
    OBVIOUS
  <2>. HIDE DEF q, ph
  <2>3. n \in Nat /\ ph \in Phases
    BY <2>1, <2>2 DEF IsRequest, Phases, Active
  <2>. HIDE DEF n
  <2>4. IsRequest(x)
    BY <2>1, <2>3 DEF IsRequest
  <2>5. x.phase = ph /\ x.op = q.op /\ x.writes = q.writes /\ x.seen = q.seen /\ x.count = q.count
    BY <2>1 DEF IsRequest
  <2>. HIDE DEF x
  <2>6. q.op \in WholeTrash /\ DOMAIN q.writes = {} /\ Cardinality(DOMAIN q.seen) <= q.count
    BY <1>1, <2>1 DEF Knows, Placed, HasAsked
  <2>7. Knows(x) /\ ~Creating(x) /\ DOMAIN x.writes = {}
    BY <2>2, <2>5, <2>6, TrashKnows
  <2>. QED  BY <1>1, <1>3, <2>4, <2>7, DataKept, LocalInv
<1>. QED  BY <1>1, <1>2, <1>3

LEMMA RefuseProtectedInv ==
    ASSUME IndInv, NEW r \in Requests, RefuseProtected(r)
    PROVE  IndInv'
<1>1. End(r, "err") /\ "err" \in Ended /\ UNCHANGED data
  BY DEF RefuseProtected, Ended
<1>. QED  BY <1>1, DataKept, EndInv

LEMMA UpdateMissedInv ==
    ASSUME IndInv, NEW r \in Requests, UpdateMissed(r)
    PROVE  IndInv'
<1>1. PICK a \in Ended : End(r, a)
  BY DEF UpdateMissed, Ended
<1>2. UNCHANGED data
  BY DEF UpdateMissed
<1>. QED  BY <1>1, <1>2, DataKept, EndInv

LEMMA FailInv ==
    ASSUME IndInv, NEW r \in Requests, Fail(r)
    PROVE  IndInv'
<1>1. End(r, "err") /\ "err" \in Ended /\ UNCHANGED data
  BY DEF Fail, Ended
<1>. QED  BY <1>1, DataKept, EndInv

-----------------------------------------------------------------------------
(* Writing.                                                                 *)

\* Who holds an uncommitted write of a row, and what that says of the row.
LEMMA HolderFacts ==
    ASSUME IndInv, NEW s \in Requests, NEW i \in DOMAIN req[s].writes
    PROVE  /\ req[s].op \in Ops /\ i \in Ids
           /\ req[s].op \in Creates => Creating(req[s]) /\ i \in Elems(req[s].ids)
           /\ req[s].op \notin Creates => table[i].kind # "absent"
<1>. DEFINE q == req[s]
<1>1. IsRequest(q) /\ Placed(q) /\ HasWritten(q) /\ Fits(q, i, table[i])
  BY RequestFacts DEF IndInv, Knows
<1>2. q.phase \in {"write", "commit"} /\ q.op \in Ops /\ q.phase \in Active
  BY <1>1 DEF Placed, Active
<1>3. i \in Ids
  BY <1>1 DEF IsRequest, AreRows
<1>4. q.op \in Creates => Creating(q) /\ i \in Elems(q.ids)
  <2>. SUFFICES ASSUME q.op \in Creates PROVE Creating(q) /\ i \in Elems(q.ids)
    OBVIOUS
  <2>1. q.op \notin Updates /\ q.op \notin WholeTrash
    BY OpsApart
  <2>2. q.phase = "commit"
    BY <1>1, <1>2, <2>1 DEF Placed
  <2>. QED  BY <1>1, <1>2, <2>1, <2>2 DEF HasWritten, NamedBy, Creating
<1>5. q.op \notin Creates => table[i].kind # "absent"
  <2>. SUFFICES ASSUME q.op \notin Creates PROVE table[i].kind # "absent"
    OBVIOUS
  <2>1. q.op \in Updates \cup Deletes \cup Restores \cup Removals
    BY <1>2, OpsApart
  <2>. QED  BY <1>1, <2>1 DEF Fits
<1>. QED  BY <1>2, <1>3, <1>4, <1>5

LEMMA InsertInv ==
    ASSUME IndInv, NEW r \in Requests, Insert(r)
    PROVE  IndInv'
<1>. DEFINE q == req[r]
            live == [NoRow EXCEPT !.kind = "live"]
            w == [i \in Elems(q.ids) |-> live]
            x == [q EXCEPT !.phase = "commit", !.writes = w]
<1>1. q.phase = "write" /\ q.op \in Creates /\ req' = [req EXCEPT ![r] = x] /\ UNCHANGED data
  BY DEF Insert, Become
<1>2. IsRequest(q) /\ Knows(q) /\ q.ids \in Seq(Ids)
  BY RequestFacts DEF IsRequest
<1>3. live \in Row /\ live.kind = "live"
  BY NoRowType DEF Row
<1>. HIDE DEF q, live
<1>4. AreRows(w) /\ DOMAIN w = Elems(q.ids) /\ \A i \in Elems(q.ids) : w[i] = live
  BY <1>2, <1>3, ElemsOfSeq DEF AreRows
<1>. HIDE DEF w
<1>5. IsRequest(x)
  <2>1. "commit" \in Phases
    BY DEF Phases, Active
  <2>. QED  BY <1>2, <1>4, <2>1 DEF IsRequest
<1>6. x.phase = "commit" /\ x.op = q.op /\ x.writes = w /\ x.seen = q.seen /\ x.ids = q.ids
  BY <1>2 DEF IsRequest
<1>. HIDE DEF x
<1>7. /\ x.op \in Ops /\ x.op \notin Updates /\ x.op \notin WholeTrash /\ x.op \notin Asking
      /\ x.op \in Creates
  BY <1>1, <1>6, OpsApart DEF Ops
<1>8. Knows(x)
  <2>1. Placed(x)
    BY <1>6, <1>7 DEF Placed
  <2>2. HasAsked(x)
    <3>1. DOMAIN q.seen \subseteq Elems(q.ids)
      BY <1>2, <1>6, <1>7 DEF Knows, HasAsked
    <3>. QED  BY <1>6, <1>7, <3>1 DEF HasAsked
  <2>3. HasWritten(x)
    BY <1>4, <1>6, <1>7 DEF HasWritten, NamedBy
  <2>. QED  BY <2>1, <2>2, <2>3 DEF Knows
<1>9. Creating(req[r]) /\ Creating(x)
  BY <1>1, <1>6 DEF Creating, Active, q
<1>10. \A i \in Elems(q.ids) :
         /\ i \in used /\ Unborn(i)
         /\ \A s \in Requests \ {r} : Creating(req[s]) => i \notin Elems(req[s].ids)
  BY <1>9 DEF IndInv, q
<1>11. \A i \in DOMAIN x.writes : /\ Fits(x, i, table[i])
                                  /\ \A s \in Requests \ {r} : i \notin DOMAIN req[s].writes
  <2>. SUFFICES ASSUME NEW i \in Elems(q.ids)
                PROVE  /\ Fits(x, i, table[i])
                       /\ \A s \in Requests \ {r} : i \notin DOMAIN req[s].writes
    BY <1>4, <1>6
  <2>1. Fits(x, i, table[i])
    <3>1. /\ x.op \notin Updates /\ x.op \notin Deletes
          /\ x.op \notin Restores /\ x.op \notin Removals
      BY <1>7, OpsApart
    <3>. QED  BY <1>3, <1>4, <1>6, <1>10, <3>1 DEF Fits, Unborn
  <2>2. ASSUME NEW s \in Requests \ {r}, i \in DOMAIN req[s].writes PROVE FALSE
    BY <1>10, <2>2, HolderFacts DEF Unborn
  <2>. QED  BY <2>1, <2>2
<1>12. Creating(x) => \A i \in Elems(x.ids) :
          /\ i \in used' /\ Unborn(i)
          /\ \A s \in Requests \ {r} : Creating(req[s]) => i \notin Elems(req[s].ids)
  BY <1>1, <1>6, <1>10, DataKept
<1>. QED  BY <1>1, <1>5, <1>8, <1>11, <1>12, DataKept, LocalInv

\* The columns an update stores: its own, if that changes the row as read.
LEMMA SavedRow ==
    ASSUME IndInv, NEW r \in Requests, NEW i \in Ids, i \in DOMAIN req[r].seen, req[r].col \in Columns
    PROVE  /\ Unchanged(r, i) <=> req[r].seen[i].cols[req[r].col] = req[r].val
           /\ Saved(r, i) \in Row /\ Saved(r, i).kind = table[i].kind
           /\ \A c \in Columns : c # req[r].col => Saved(r, i).cols[c] = table[i].cols[c]
           /\ ~Unchanged(r, i) => Saved(r, i).cols[req[r].col] = req[r].val
<1>. DEFINE col == req[r].col
            val == req[r].val
            before == req[r].seen[i]
            after == Patched(r, before)
            changed == ChangedColumns(before, after)
            t == table[i]
            m == [c \in Columns |-> IF c \in changed THEN after.cols[c] ELSE t.cols[c]]
            x == [t EXCEPT !.cols = m]
<1>1. before \in Row /\ val \in Values /\ t \in Row
  BY RequestFacts DEF IndInv, TypeOK, IsRequest, AreRows
<1>2. /\ after.cols \in [Columns -> Values]
      /\ \A c \in Columns : after.cols[c] = IF c = col THEN val ELSE before.cols[c]
  BY <1>1, PatchedRow
<1>3. Saved(r, i) = x
  BY DEF Saved
<1>4. Unchanged(r, i) <=> changed = {}
  BY DEF Unchanged
<1>. HIDE DEF before, after, t, col, val
<1>5. changed = IF before.cols[col] # val THEN {col} ELSE {}
  BY <1>2 DEF ChangedColumns, col
<1>. HIDE DEF changed
<1>6. t.cols \in [Columns -> Values]
  BY <1>1 DEF Row
<1>7. /\ m \in [Columns -> Values]
      /\ \A c \in Columns : m[c] = IF c \in changed THEN after.cols[c] ELSE t.cols[c]
  BY <1>2, <1>6
<1>. HIDE DEF m
<1>8. x \in Row /\ x.kind = t.kind /\ x.cols = m
  BY <1>1, <1>7 DEF Row
<1>. HIDE DEF x
<1>9. \A c \in Columns : c # col => m[c] = t.cols[c]
  BY <1>5, <1>7
<1>10. changed # {} => m[col] = val
  BY <1>2, <1>5, <1>7 DEF col
<1>. QED  BY <1>3, <1>4, <1>5, <1>8, <1>9, <1>10 DEF col, val, before, t

\* A request that has updated one more of its rows.
LEMMA WroteKnows ==
    ASSUME NEW q, NEW x, IsRequest(q), Knows(q), q.phase = "write", q.op \in Updates,
           x.op = q.op, x.ids = q.ids, x.col = q.col, x.val = q.val, x.verb = q.verb, x.seen = q.seen,
           \/ q.next < Len(q.ids) /\ x.phase = "write" /\ x.next = q.next + 1
           \/ ~(q.next < Len(q.ids)) /\ x.phase = "commit" /\ x.next = 1,
           DOMAIN q.writes \subseteq DOMAIN x.writes, DOMAIN x.writes \subseteq Elems(q.ids),
           Wrote(x, q.ids[q.next])
    PROVE  Knows(x) /\ ~Creating(x)
<1>1. q.op \in Ops /\ q.op \notin Creates /\ q.op \notin WholeTrash /\ q.op \in Asking
  BY OpsApart DEF Ops
<1>2. q.ids \in Seq(Ids) /\ q.next \in 1..Len(q.ids) /\ Len(q.ids) \in Nat /\ q.col \in Columns
  BY <1>1 DEF IsRequest, Knows, Placed
<1>3. Placed(x)
  BY <1>1, <1>2 DEF Placed, Active
<1>4. HasAsked(x)
  <2>1. HasAsked(q) /\ Elems(q.ids) \subseteq DOMAIN q.seen
    BY <1>1 DEF Knows, HasAsked
  <2>. QED  BY <1>1, <2>1 DEF HasAsked
<1>5. \A k \in 1..q.next : Wrote(x, q.ids[k])
  <2>. SUFFICES ASSUME NEW k \in 1..q.next PROVE Wrote(x, q.ids[k])
    OBVIOUS
  <2>1. k = q.next \/ k \in 1..q.next - 1
    BY <1>2
  <2>2. k \in 1..q.next - 1 => Wrote(q, q.ids[k])
    BY DEF Knows, HasWritten
  <2>. QED  BY <2>1, <2>2 DEF Wrote
<1>6. HasWritten(x)
  <2>1. CASE q.next < Len(q.ids)
    <3>1. x.next - 1 = q.next /\ x.phase = "write"
      BY <1>2, <2>1
    <3>. QED  BY <1>5, <3>1 DEF HasWritten
  <2>2. CASE ~(q.next < Len(q.ids))
    <3>1. q.next = Len(q.ids) /\ x.phase = "commit"
      BY <1>2, <2>2
    <3>2. \A i \in Elems(q.ids) : Wrote(x, i)
      BY <1>5, <3>1 DEF Elems
    <3>. QED  BY <3>1, <3>2 DEF HasWritten
  <2>. QED  BY <2>1, <2>2
<1>. QED  BY <1>1, <1>3, <1>4, <1>6 DEF Knows, Creating

LEMMA UpdateRowInv ==
    ASSUME IndInv, NEW r \in Requests, UpdateRow(r)
    PROVE  IndInv'
<1>. DEFINE q == req[r]
            i == q.ids[q.next]
            w == IF Unchanged(r, i) THEN q.writes ELSE Over([j \in {i} |-> Saved(r, i)], q.writes)
            y == [q EXCEPT !.writes = w]
            x == Advance(y, "commit")
<1>1. /\ q.phase = "write" /\ q.op \in Updates
      /\ table[i].kind = "live"
      /\ Unchanged(r, i) \/ ~Locked(r, i)
      /\ req' = [req EXCEPT ![r] = x] /\ UNCHANGED data
  BY DEF UpdateRow, Become, Live
<1>2. q.op \in Asking /\ q.op \notin WholeTrash /\ q.op \notin Creates
  BY <1>1, OpsApart
<1>3. /\ IsRequest(q) /\ Knows(q) /\ i \in Ids /\ i \in Elems(q.ids) /\ q.col \in Columns
      /\ i \in DOMAIN q.seen /\ DOMAIN q.writes \subseteq Elems(q.ids) /\ AreRows(q.writes)
  <2>1. IsRequest(q) /\ Knows(q)
    BY RequestFacts
  <2>2. i \in Ids /\ i \in Elems(q.ids)
    BY <1>1, <1>2, <2>1, IdFacts
  <2>3. q.col \in Columns
    BY <1>1, <2>1 DEF Knows, Placed
  <2>4. Elems(q.ids) \subseteq DOMAIN q.seen
    BY <1>1, <1>2, <2>1 DEF Knows, HasAsked
  <2>5. DOMAIN q.writes \subseteq Elems(q.ids) /\ AreRows(q.writes)
    BY <1>1, <2>1 DEF Knows, HasWritten, IsRequest
  <2>. QED  BY <2>1, <2>2, <2>3, <2>4, <2>5
<1>4. /\ Unchanged(r, i) <=> q.seen[i].cols[q.col] = q.val
      /\ Saved(r, i) \in Row /\ Saved(r, i).kind = "live"
      /\ \A c \in Columns : c # q.col => Saved(r, i).cols[c] = table[i].cols[c]
      /\ ~Unchanged(r, i) => Saved(r, i).cols[q.col] = q.val
  BY <1>1, <1>3, SavedRow
<1>5. \A j \in DOMAIN q.writes : /\ Fits(q, j, table[j])
                                 /\ \A s \in Requests \ {r} : j \notin DOMAIN req[s].writes
  BY DEF IndInv, TypeOK
<1>6. ~Unchanged(r, i) => \A s \in Requests \ {r} : i \notin DOMAIN req[s].writes
  BY <1>1 DEF Locked
<1>. HIDE DEF q, i
<1>7. /\ Unchanged(r, i) => w = q.writes
      /\ ~Unchanged(r, i) => /\ DOMAIN w = {i} \cup DOMAIN q.writes /\ w[i] = Saved(r, i)
                             /\ \A j \in DOMAIN q.writes : j # i => w[j] = q.writes[j]
  BY DEF Over
<1>. HIDE DEF w
<1>8. AreRows(w) /\ DOMAIN q.writes \subseteq DOMAIN w /\ DOMAIN w \subseteq Elems(q.ids)
  BY <1>3, <1>4, <1>7 DEF AreRows
<1>9. IsRequest(y)
  BY <1>3, <1>8 DEF IsRequest
<1>10. /\ y.op = q.op /\ y.ids = q.ids /\ y.col = q.col /\ y.val = q.val /\ y.verb = q.verb
       /\ y.writes = w /\ y.seen = q.seen /\ y.next = q.next /\ y.phase = "write"
  BY <1>1, <1>3 DEF IsRequest
<1>. HIDE DEF y
<1>11. /\ IsRequest(x) /\ SameBut(x, y)
       /\ y.next < Len(y.ids) => x.phase = y.phase /\ x.next = y.next + 1
       /\ ~(y.next < Len(y.ids)) => x.phase = "commit" /\ x.next = 1
  <2>1. "commit" \in Phases
    BY DEF Phases, Active
  <2>. QED  BY <1>9, <2>1, AdvanceType
<1>. HIDE DEF x
<1>12. /\ x.op = q.op /\ x.ids = q.ids /\ x.col = q.col /\ x.val = q.val /\ x.verb = q.verb
       /\ x.writes = w /\ x.seen = q.seen
  BY <1>10, <1>11 DEF SameBut
<1>13. \/ q.next < Len(q.ids) /\ x.phase = "write" /\ x.next = q.next + 1
       \/ ~(q.next < Len(q.ids)) /\ x.phase = "commit" /\ x.next = 1
  BY <1>10, <1>11
<1>14. Wrote(x, q.ids[q.next])
  <2>1. q.seen[i].cols[q.col] # q.val => i \in DOMAIN w
    BY <1>4, <1>7
  <2>. QED  BY <1>12, <2>1 DEF Wrote, i
<1>15. Knows(x) /\ ~Creating(x)
  BY <1>1, <1>3, <1>8, <1>12, <1>13, <1>14, WroteKnows
<1>16. ASSUME NEW j \in DOMAIN x.writes
       PROVE  Fits(x, j, table[j]) /\ \A s \in Requests \ {r} : j \notin DOMAIN req[s].writes
  <2>0. /\ x.op \notin Creates /\ x.op \notin Deletes /\ x.op \in Updates
        /\ x.op \notin Restores /\ x.op \notin Removals
    BY <1>1, <1>12, OpsApart
  <2>1. CASE ~Unchanged(r, i) /\ j = i
    <3>1. q.col \in StateFields => q.verb
      BY <1>1, <1>3, <1>4, <2>1 DEF Knows, HasAsked
    <3>2. x.writes[j] = Saved(r, i)
      BY <1>7, <1>12, <2>1
    <3>3. Fits(x, j, table[j])
      BY <1>1, <1>4, <1>12, <2>0, <2>1, <3>1, <3>2 DEF Fits
    <3>. QED  BY <1>6, <2>1, <3>3
  <2>2. CASE Unchanged(r, i) \/ j # i
    <3>1. j \in DOMAIN q.writes /\ x.writes[j] = q.writes[j]
      BY <1>7, <1>12, <1>16, <2>2
    <3>2. Fits(q, j, table[j])
      BY <1>5, <3>1
    <3>3. Fits(x, j, table[j])
      BY <1>12, <3>1, <3>2 DEF Fits
    <3>. QED  BY <1>5, <3>1, <3>3
  <2>. QED  BY <2>1, <2>2
<1>. QED  BY <1>1, <1>11, <1>15, <1>16, DataKept, LocalInv

\* What a statement makes of a row that matches it.
LEMMA MovedRow ==
    ASSUME IndInv, NEW r \in Requests, NEW i \in Ids, req[r].op \in Deletes \cup Restores \cup Removals
    PROVE  /\ Moved(r, i) \in Row
           /\ req[r].op \in Deletes => Moved(r, i).kind = "trashed" /\ Moved(r, i).cols = table[i].cols
           /\ req[r].op \in Restores => Moved(r, i).kind = "live" /\ Moved(r, i).cols = table[i].cols
           /\ req[r].op \in Removals => Moved(r, i) = NoRow
<1>. DEFINE t == table[i]
            n == req[r].now
            a == [t EXCEPT !.kind = "trashed", !.deleted_at = n]
            b == [t EXCEPT !.kind = "live", !.deleted_at = 0]
<1>1. t \in Row /\ n \in Nat
  BY RequestFacts DEF IndInv, TypeOK, IsRequest
<1>2. req[r].op \in Deletes => Moved(r, i) = a
  <2>1. req[r].op \in Deletes => req[r].op \notin Restores
    BY OpsApart
  <2>. QED  BY <2>1 DEF Moved
<1>3. req[r].op \in Restores => Moved(r, i) = b
  <2>1. req[r].op \in Restores => req[r].op \notin Deletes
    BY OpsApart
  <2>. QED  BY <2>1 DEF Moved
<1>4. req[r].op \in Removals => Moved(r, i) = NoRow
  <2>1. req[r].op \in Removals => req[r].op \notin Deletes /\ req[r].op \notin Restores
    BY OpsApart
  <2>. QED  BY <2>1 DEF Moved
<1>. HIDE DEF t, n
<1>5. a \in Row /\ a.kind = "trashed" /\ a.cols = t.cols
  BY <1>1 DEF Row
<1>6. b \in Row /\ b.kind = "live" /\ b.cols = t.cols
  BY <1>1 DEF Row
<1>. HIDE DEF a, b
<1>. QED  BY <1>2, <1>3, <1>4, <1>5, <1>6, NoRowType, OpsApart DEF t

LEMMA StatementInv ==
    ASSUME IndInv, NEW r \in Requests, Statement(r)
    PROVE  IndInv'
<1>. DEFINE q == req[r]
            M == Matching(r)
            w == [i \in M |-> Moved(r, i)]
            x == [q EXCEPT !.phase = "commit", !.writes = w]
<1>1. /\ q.phase = "write" /\ q.op \in Deletes \cup Restores \cup Removals
      /\ \A i \in M : ~Locked(r, i)
      /\ UNCHANGED data
  BY DEF Statement
<1>2. IsRequest(q) /\ Knows(q)
  BY RequestFacts
<1>3. q.op \notin Creates /\ q.op \notin Updates /\ q.op \in Ops
  BY <1>1, OpsApart DEF Ops
<1>4. CASE Cardinality(M) # HowMany(r)
  <2>1. PICK a \in Ended : End(r, a)
    BY <1>4 DEF Statement, Ended
  <2>. QED  BY <1>1, <2>1, DataKept, EndInv
<1>5. CASE Cardinality(M) = HowMany(r)
  <2>1. req' = [req EXCEPT ![r] = x]
    BY <1>5 DEF Statement, Become
  <2>2. /\ M \subseteq NamedBy(q)
        /\ \A i \in M : q.op \in Deletes => table[i].kind = "live"
        /\ \A i \in M : q.op \notin Deletes => table[i].kind = "trashed"
    BY DEF Matching, Named, NamedBy, Live, Trashed
  <2>3. NamedBy(q) \subseteq Ids /\ Cardinality(NamedBy(q)) <= HowMany(r)
    <3>1. CASE q.op \in WholeTrash
      <4>1. Cardinality(DOMAIN q.seen) <= q.count
        BY <1>2, <3>1 DEF Knows, HasAsked
      <4>. QED  BY <1>2, <3>1, <4>1 DEF NamedBy, HowMany, IsRequest, AreRows
    <3>2. CASE q.op \notin WholeTrash
      <4>1. q.ids \in Seq(Ids)
        BY <1>2 DEF IsRequest
      <4>. QED  BY <3>2, <4>1, ElemsOfSeq DEF NamedBy, HowMany
    <3>. QED  BY <3>1, <3>2
  <2>4. M = NamedBy(q)
    <3>1. IsFiniteSet(NamedBy(q)) /\ Cardinality(NamedBy(q)) \in Nat
      BY <2>3, RowSet
    <3>2. Cardinality(M) <= Cardinality(NamedBy(q)) /\ (Cardinality(M) = Cardinality(NamedBy(q)) => M = NamedBy(q))
      BY <2>2, <3>1, FS_Subset
    <3>3. Cardinality(M) \in Nat
      <4>1. M \in SUBSET Ids
        BY <2>2, <2>3
      <4>. QED  BY <4>1, RowSet
    <3>. QED  BY <1>5, <2>3, <3>1, <3>2, <3>3
  <2>5. \A i \in M :
           /\ Moved(r, i) \in Row
           /\ q.op \in Deletes => Moved(r, i).kind = "trashed" /\ Moved(r, i).cols = table[i].cols
           /\ q.op \in Restores => Moved(r, i).kind = "live" /\ Moved(r, i).cols = table[i].cols
           /\ q.op \in Removals => Moved(r, i) = NoRow
    BY <1>1, <2>2, <2>3, MovedRow
  <2>6. \A i \in M : \A s \in Requests \ {r} : i \notin DOMAIN req[s].writes
    BY <1>1 DEF Locked
  <2>. HIDE DEF q, M
  <2>7. DOMAIN w = M /\ AreRows(w) /\ \A i \in M : w[i] = Moved(r, i)
    <3>1. DOMAIN w = M /\ \A i \in M : w[i] = Moved(r, i)
      OBVIOUS
    <3>. HIDE DEF w
    <3>2. M \subseteq Ids /\ \A i \in M : Moved(r, i) \in Row
      BY <2>2, <2>3, <2>5
    <3>. QED  BY <3>1, <3>2 DEF AreRows
  <2>. HIDE DEF w
  <2>8. IsRequest(x)
    <3>1. "commit" \in Phases
      BY DEF Phases, Active
    <3>. QED  BY <1>2, <2>7, <3>1 DEF IsRequest
  <2>9. /\ x.phase = "commit" /\ x.op = q.op /\ x.writes = w /\ x.seen = q.seen /\ x.ids = q.ids
        /\ x.count = q.count
    BY <1>2 DEF IsRequest
  <2>. HIDE DEF x
  <2>10. Knows(x) /\ ~Creating(x)
    <3>1. Placed(x)
      BY <1>3, <2>9 DEF Placed
    <3>2. HasAsked(x)
      <4>1. /\ q.op \notin WholeTrash => DOMAIN q.seen \subseteq Elems(q.ids)
            /\ q.op \in Asking => Elems(q.ids) \subseteq DOMAIN q.seen
            /\ q.op \in WholeTrash => Cardinality(DOMAIN q.seen) <= q.count
        BY <1>1, <1>2 DEF Knows, HasAsked
      <4>. QED  BY <1>3, <2>9, <4>1 DEF HasAsked
    <3>3. HasWritten(x)
      BY <1>3, <2>4, <2>7, <2>9 DEF HasWritten, NamedBy
    <3>. QED  BY <1>3, <2>9, <3>1, <3>2, <3>3 DEF Knows, Creating
  <2>11. ASSUME NEW i \in DOMAIN x.writes
         PROVE  Fits(x, i, table[i]) /\ \A s \in Requests \ {r} : i \notin DOMAIN req[s].writes
    <3>1. i \in M /\ x.writes[i] = Moved(r, i)
      BY <2>7, <2>9, <2>11
    <3>2. q.op \in Restores \cup Removals => q.op \notin Deletes
      BY OpsApart
    <3>3. Fits(x, i, table[i])
      <4>. DEFINE m == Moved(r, i)
      <4>1. /\ q.op \in Deletes => table[i].kind = "live" /\ m.kind = "trashed" /\ m.cols = table[i].cols
            /\ q.op \in Restores => table[i].kind = "trashed" /\ m.kind = "live" /\ m.cols = table[i].cols
            /\ q.op \in Removals => table[i].kind = "trashed" /\ m = NoRow
        BY <2>2, <2>5, <3>1, <3>2
      <4>. HIDE DEF m
      <4>2. x.writes[i] = m
        BY <3>1 DEF m
      <4>. QED  BY <1>3, <2>9, <4>1, <4>2 DEF Fits
    <3>. QED  BY <2>6, <3>1, <3>3
  <2>. QED  BY <1>1, <2>1, <2>8, <2>10, <2>11, DataKept, LocalInv
<1>. QED  BY <1>4, <1>5

-----------------------------------------------------------------------------
(* What the events of one row tell: the list l, the row's kind.             *)

LifeOf(l) == {k \in 1..Len(l) : l[k] # "updated"}
FollowsIn(l, k, E) ==
    \E j \in LifeOf(l) : j < k /\ l[j] \in E /\ \A m \in LifeOf(l) : m < k => m <= j
Tells(l, k) ==
    CASE l[k] = "created" -> \A m \in LifeOf(l) : k <= m
      [] l[k] = "deleted" -> FollowsIn(l, k, {"created", "restored"})
      [] OTHER -> FollowsIn(l, k, {"deleted"})
Told(l, kind) ==
    /\ \A k \in LifeOf(l) : Tells(l, k)
    /\ kind = "live" <=> FollowsIn(l, Len(l) + 1, {"created", "restored"})
    /\ kind = "trashed" <=> FollowsIn(l, Len(l) + 1, {"deleted"})

LEMMA LifeIsTold ==
    \A i \in Ids : Life(i) = LifeOf(ledger[i]) /\ (LifeOK(i) <=> Told(ledger[i], table[i].kind))
BY DEF Life, LifeOf, LifeOK, Told, Tells, Follows, FollowsIn, Live, Trashed

LEMMA TellsCases ==
    ASSUME NEW l, NEW k
    PROVE  /\ l[k] = "created" => (Tells(l, k) <=> \A m \in LifeOf(l) : k <= m)
           /\ l[k] = "deleted" => (Tells(l, k) <=> FollowsIn(l, k, {"created", "restored"}))
           /\ l[k] # "created" /\ l[k] # "deleted" => (Tells(l, k) <=> FollowsIn(l, k, {"deleted"}))
BY DEF Tells

LEMMA LifeRange ==
    ASSUME NEW l \in Seq(Events)
    PROVE  Len(l) \in Nat /\ \A k \in LifeOf(l) : k \in Nat /\ 1 <= k /\ k <= Len(l) /\ l[k] # "updated"
BY DEF LifeOf

LEMMA AppendFacts ==
    ASSUME NEW l \in Seq(Events), NEW e \in Events
    PROVE  LET m == Append(l, e) IN
           /\ m \in Seq(Events) /\ Len(m) = Len(l) + 1 /\ m[Len(l) + 1] = e
           /\ \A k \in 1..Len(l) : m[k] = l[k]
OBVIOUS

\* An update is no event of the row's life.
LEMMA ToldUpdated ==
    ASSUME NEW l \in Seq(Events), NEW kind
    PROVE  LET m == Append(l, "updated") IN
           LifeOf(m) = LifeOf(l) /\ (Told(l, kind) => Told(m, kind))
<1>. DEFINE m == Append(l, "updated")
            L == Len(l)
<1>0. "updated" \in Events
  BY DEF Events
<1>1. /\ m \in Seq(Events) /\ Len(m) = L + 1 /\ m[L + 1] = "updated"
      /\ \A k \in 1..L : m[k] = l[k]
  BY <1>0, AppendFacts
<1>2. L \in Nat /\ \A k \in LifeOf(l) : k \in Nat /\ 1 <= k /\ k <= L
  BY LifeRange
<1>. HIDE DEF m, L
<1>3. LifeOf(m) = LifeOf(l)
  <2>1. ASSUME NEW k \in 1..L PROVE k \in LifeOf(m) <=> k \in LifeOf(l)
    BY <1>1, <1>2 DEF LifeOf, L
  <2>2. ASSUME NEW k \in LifeOf(m) PROVE k \in 1..L
    <3>1. k \in 1..L + 1 /\ m[k] # "updated"
      BY <1>1 DEF LifeOf
    <3>. QED  BY <1>1, <1>2, <3>1
  <2>3. ASSUME NEW k \in LifeOf(l) PROVE k \in 1..L
    BY <1>2
  <2>. QED  BY <2>1, <2>2, <2>3
<1>4. \A k \in LifeOf(l) : m[k] = l[k]
  BY <1>1, <1>2
<1>5. ASSUME NEW k, NEW E PROVE FollowsIn(m, k, E) <=> FollowsIn(l, k, E)
  BY <1>3, <1>4 DEF FollowsIn
<1>6. ASSUME NEW E PROVE FollowsIn(l, L + 2, E) <=> FollowsIn(l, L + 1, E)
  <2>1. \A k \in LifeOf(l) : k < L + 2 /\ k < L + 1
    BY <1>2
  <2>. QED  BY <2>1 DEF FollowsIn
<1>7. ASSUME NEW k \in LifeOf(l), Tells(l, k) PROVE Tells(m, k)
  <2>1. m[k] = l[k]
    BY <1>4
  <2>2. /\ FollowsIn(m, k, {"deleted"}) <=> FollowsIn(l, k, {"deleted"})
        /\ FollowsIn(m, k, {"created", "restored"}) <=> FollowsIn(l, k, {"created", "restored"})
    BY <1>5
  <2>. QED  BY <1>3, <1>7, <2>1, <2>2, TellsCases
<1>8. L + 1 + 1 = L + 2
  BY <1>2
<1>9. ASSUME Told(l, kind) PROVE Told(m, kind)
  <2>1. \A k \in LifeOf(m) : Tells(m, k)
    BY <1>3, <1>7, <1>9 DEF Told
  <2>2. kind = "live" <=> FollowsIn(m, L + 2, {"created", "restored"})
    BY <1>5, <1>6, <1>9 DEF Told, L
  <2>3. kind = "trashed" <=> FollowsIn(m, L + 2, {"deleted"})
    BY <1>5, <1>6, <1>9 DEF Told, L
  <2>. QED  BY <1>1, <1>8, <2>1, <2>2, <2>3 DEF Told
<1>. QED  BY <1>3, <1>9 DEF m

\* Any other event is, and it is the last one.
LEMMA LifeGrows ==
    ASSUME NEW l \in Seq(Events), NEW e \in Events \ {"updated"}
    PROVE  LET m == Append(l, e) IN
           /\ LifeOf(m) = LifeOf(l) \cup {Len(l) + 1}
           /\ \A k \in LifeOf(l) : m[k] = l[k]
           /\ m[Len(l) + 1] = e /\ Len(m) = Len(l) + 1
           /\ \A k \in 1..Len(l) + 1 : \A E : FollowsIn(m, k, E) <=> FollowsIn(l, k, E)
           /\ \A E : FollowsIn(m, Len(l) + 2, E) <=> e \in E
<1>. DEFINE m == Append(l, e)
            L == Len(l)
<1>1. /\ m \in Seq(Events) /\ Len(m) = L + 1 /\ m[L + 1] = e
      /\ \A k \in 1..L : m[k] = l[k]
  BY AppendFacts
<1>2. L \in Nat /\ \A k \in LifeOf(l) : k \in Nat /\ 1 <= k /\ k <= L
  BY LifeRange
<1>. HIDE DEF m, L
<1>3. LifeOf(m) = LifeOf(l) \cup {L + 1}
  <2>1. ASSUME NEW k \in 1..L PROVE k \in LifeOf(m) <=> k \in LifeOf(l)
    BY <1>1, <1>2 DEF LifeOf, L
  <2>2. ASSUME NEW k \in LifeOf(m) PROVE k \in 1..L \/ k = L + 1
    <3>1. k \in 1..L + 1
      BY <1>1 DEF LifeOf
    <3>. QED  BY <1>2, <3>1
  <2>3. ASSUME NEW k \in LifeOf(l) PROVE k \in 1..L
    BY <1>2
  <2>4. L + 1 \in LifeOf(m)
    BY <1>1, <1>2 DEF LifeOf
  <2>. QED  BY <2>1, <2>2, <2>3, <2>4
<1>4. \A k \in LifeOf(l) : m[k] = l[k]
  BY <1>1, <1>2
<1>5. ASSUME NEW k \in 1..L + 1, NEW E PROVE FollowsIn(m, k, E) <=> FollowsIn(l, k, E)
  <2>1. ~(L + 1 < k)
    BY <1>2
  <2>. QED  BY <1>3, <1>4, <2>1 DEF FollowsIn
<1>6. ASSUME NEW E PROVE FollowsIn(m, L + 2, E) <=> e \in E
  <2>1. L + 1 \in LifeOf(m) /\ L + 1 < L + 2
    BY <1>2, <1>3
  <2>2. \A k \in LifeOf(m) : k <= L + 1 /\ k \in Nat
    BY <1>2, <1>3
  <2>3. ASSUME NEW j \in LifeOf(m), \A k \in LifeOf(m) : k < L + 2 => k <= j PROVE j = L + 1
    <3>1. L + 1 <= j
      BY <2>1, <2>3
    <3>. QED  BY <1>2, <2>2, <3>1
  <2>. QED  BY <1>1, <2>1, <2>2, <2>3 DEF FollowsIn
<1>. QED  BY <1>1, <1>3, <1>4, <1>5, <1>6 DEF m, L

LEMMA ToldCreated ==
    ASSUME NEW l \in Seq(Events), LifeOf(l) = {}
    PROVE  Told(Append(l, "created"), "live")
<1>. DEFINE m == Append(l, "created")
            L == Len(l)
<1>1. "created" \in Events \ {"updated"} /\ L \in Nat
  BY DEF Events
<1>2. /\ LifeOf(m) = LifeOf(l) \cup {L + 1} /\ m[L + 1] = "created" /\ Len(m) = L + 1
      /\ \A E : FollowsIn(m, L + 2, E) <=> "created" \in E
  BY <1>1, LifeGrows
<1>. HIDE DEF m, L
<1>3. LifeOf(m) = {L + 1} /\ Len(m) + 1 = L + 2
  BY <1>1, <1>2
<1>4. Tells(m, L + 1)
  BY <1>1, <1>2, <1>3, TellsCases
<1>5. FollowsIn(m, L + 2, {"created", "restored"}) /\ ~FollowsIn(m, L + 2, {"deleted"})
  BY <1>2
<1>6. Told(m, "live")
  BY <1>3, <1>4, <1>5 DEF Told
<1>. QED  BY <1>6 DEF m

LEMMA ToldMoved ==
    ASSUME NEW l \in Seq(Events), NEW from, NEW to, NEW e, Told(l, from),
           \/ from = "live" /\ e = "deleted" /\ to = "trashed"
           \/ from = "trashed" /\ e = "restored" /\ to = "live"
           \/ from = "trashed" /\ e = "removed" /\ to = "absent"
    PROVE  Told(Append(l, e), to)
<1>. DEFINE m == Append(l, e)
            L == Len(l)
<1>1. e \in Events \ {"updated"}
  BY DEF Events
<1>2. L \in Nat /\ \A k \in LifeOf(l) : k \in Nat /\ 1 <= k /\ k <= L
  BY LifeRange
<1>3. /\ LifeOf(m) = LifeOf(l) \cup {L + 1}
      /\ \A k \in LifeOf(l) : m[k] = l[k]
      /\ m[L + 1] = e /\ Len(m) = L + 1
      /\ \A k \in 1..L + 1 : \A E : FollowsIn(m, k, E) <=> FollowsIn(l, k, E)
      /\ \A E : FollowsIn(m, L + 2, E) <=> e \in E
  BY <1>1, LifeGrows
<1>4. /\ from = "live" => FollowsIn(l, L + 1, {"created", "restored"})
      /\ from = "trashed" => FollowsIn(l, L + 1, {"deleted"})
      /\ \A k \in LifeOf(l) : Tells(l, k)
  BY DEF Told
<1>. HIDE DEF m, L
<1>5. ASSUME NEW k \in LifeOf(l) PROVE Tells(m, k)
  <2>1. m[k] = l[k] /\ k \in 1..L + 1
    BY <1>2, <1>3
  <2>2. /\ FollowsIn(m, k, {"deleted"}) <=> FollowsIn(l, k, {"deleted"})
        /\ FollowsIn(m, k, {"created", "restored"}) <=> FollowsIn(l, k, {"created", "restored"})
    BY <1>3, <2>1
  <2>3. (\A j \in LifeOf(l) : k <= j) => (\A j \in LifeOf(m) : k <= j)
    BY <1>2, <1>3, <2>1
  <2>4. Tells(l, k)
    BY <1>4
  <2>. QED  BY <2>1, <2>2, <2>3, <2>4, TellsCases
<1>6. Tells(m, L + 1)
  <2>1. L + 1 \in 1..L + 1
    BY <1>2
  <2>2. /\ from = "live" => FollowsIn(m, L + 1, {"created", "restored"})
        /\ from = "trashed" => FollowsIn(m, L + 1, {"deleted"})
    BY <1>3, <1>4, <2>1
  <2>. QED  BY <1>3, <2>2, TellsCases
<1>7. /\ to = "live" <=> FollowsIn(m, L + 2, {"created", "restored"})
      /\ to = "trashed" <=> FollowsIn(m, L + 2, {"deleted"})
  BY <1>3
<1>8. Len(m) + 1 = L + 2
  BY <1>2, <1>3
<1>9. Told(m, to)
  BY <1>3, <1>5, <1>6, <1>7, <1>8 DEF Told
<1>. QED  BY <1>9 DEF m

-----------------------------------------------------------------------------
(* The commit.                                                              *)

LEMMA EventsOfOps ==
    ASSUME NEW op
    PROVE  /\ op \in Creates => EventOf(op) = "created"
           /\ op \in Updates => EventOf(op) = "updated"
           /\ op \in Deletes => EventOf(op) = "deleted"
           /\ op \in Restores => EventOf(op) = "restored"
           /\ op \in Removals => EventOf(op) = "removed"
           /\ op \in Ops => EventOf(op) \in Events
<1>1. op \in Creates => EventOf(op) = "created"
  <2>1. op \in Creates => op \notin Updates /\ op \notin Deletes /\ op \notin Restores
    BY OpsApart
  <2>. QED  BY <2>1 DEF EventOf
<1>2. op \in Updates => EventOf(op) = "updated"
  <2>1. op \in Updates => op \notin Creates /\ op \notin Deletes /\ op \notin Restores
    BY OpsApart
  <2>. QED  BY <2>1 DEF EventOf
<1>3. op \in Deletes => EventOf(op) = "deleted"
  <2>1. op \in Deletes => op \notin Creates /\ op \notin Updates /\ op \notin Restores
    BY OpsApart
  <2>. QED  BY <2>1 DEF EventOf
<1>4. op \in Restores => EventOf(op) = "restored"
  <2>1. op \in Restores => op \notin Creates /\ op \notin Updates /\ op \notin Deletes
    BY OpsApart
  <2>. QED  BY <2>1 DEF EventOf
<1>5. op \in Removals => EventOf(op) = "removed"
  <2>1. op \in Removals => op \notin Creates /\ op \notin Updates /\ op \notin Deletes /\ op \notin Restores
    BY OpsApart
  <2>. QED  BY <2>1 DEF EventOf
<1>6. op \in Ops => op \in Creates \/ op \in Updates \/ op \in Deletes \/ op \in Restores \/ op \in Removals
  BY DEF Ops
<1>. QED  BY <1>1, <1>2, <1>3, <1>4, <1>5, <1>6 DEF Events

\* What a request that commits has seen, and what it writes.
LEMMA CommitFacts ==
    ASSUME IndInv, NEW r \in Requests, req[r].phase = "commit"
    PROVE  LET q == req[r] IN
           /\ q.op \in Ops /\ DOMAIN q.writes \subseteq Ids /\ DOMAIN q.seen \subseteq Ids
           /\ q.op \notin Updates => DOMAIN q.writes = NamedBy(q) /\ DOMAIN q.seen \subseteq DOMAIN q.writes
           /\ q.op \in Ops \ (Creates \cup {"bulk_restore", "bulk_permanent_delete"}) =>
                 DOMAIN q.writes \subseteq DOMAIN q.seen
           /\ q.op \in Creates => \A i \in DOMAIN q.writes : i \in used /\ Unborn(i)
           /\ \A i \in DOMAIN q.writes : q.writes[i] \in Row /\ Fits(q, i, table[i])
<1>. DEFINE q == req[r]
<1>1. IsRequest(q) /\ Placed(q) /\ HasAsked(q) /\ HasWritten(q)
  BY RequestFacts DEF Knows
<1>2. q.op \in Ops /\ q.phase \in Active
  BY <1>1 DEF Placed, Active
<1>3. DOMAIN q.writes \subseteq Ids /\ DOMAIN q.seen \subseteq Ids /\ \A i \in DOMAIN q.writes : q.writes[i] \in Row
  BY <1>1 DEF IsRequest, AreRows
<1>4. \A i \in DOMAIN q.writes : Fits(q, i, table[i])
  BY DEF IndInv
<1>5. q.op \notin Updates => DOMAIN q.writes = NamedBy(q) /\ DOMAIN q.seen \subseteq DOMAIN q.writes
  BY <1>1 DEF HasWritten, HasAsked, NamedBy
<1>6. q.op \in Ops \ (Creates \cup {"bulk_restore", "bulk_permanent_delete"}) =>
          DOMAIN q.writes \subseteq DOMAIN q.seen
  <2>. SUFFICES ASSUME q.op \in Ops \ (Creates \cup {"bulk_restore", "bulk_permanent_delete"})
                PROVE  DOMAIN q.writes \subseteq DOMAIN q.seen
    OBVIOUS
  <2>1. q.op \in Asking \/ q.op \in WholeTrash
    BY DEF Ops, Creates, Updates, Deletes, Restores, Removals, Asking, WholeTrash
  <2>2. CASE q.op \in WholeTrash
    <3>1. q.op \notin Updates
      BY <2>2, OpsApart
    <3>. QED  BY <1>5, <2>2, <3>1 DEF NamedBy
  <2>3. CASE q.op \in Asking
    <3>1. Elems(q.ids) \subseteq DOMAIN q.seen /\ q.op \notin WholeTrash
      BY <1>1, <2>3, OpsApart DEF HasAsked
    <3>2. DOMAIN q.writes \subseteq Elems(q.ids)
      BY <1>1, <3>1 DEF HasWritten, NamedBy
    <3>. QED  BY <3>1, <3>2
  <2>. QED  BY <2>1, <2>2, <2>3
<1>7. q.op \in Creates => \A i \in DOMAIN q.writes : i \in used /\ Unborn(i)
  <2>. SUFFICES ASSUME q.op \in Creates PROVE \A i \in DOMAIN q.writes : i \in used /\ Unborn(i)
    OBVIOUS
  <2>1. Creating(q) /\ q.op \notin Updates /\ q.op \notin WholeTrash
    BY <1>2, OpsApart DEF Creating
  <2>2. \A i \in Elems(q.ids) : i \in used /\ Unborn(i)
    BY <2>1 DEF IndInv
  <2>. QED  BY <1>5, <2>1, <2>2 DEF NamedBy
<1>. QED  BY <1>2, <1>3, <1>4, <1>5, <1>6, <1>7

\* What the commit does to one row and to its events.
LEMMA CommitRow ==
    ASSUME IndInv, NEW r \in Requests, Commit(r), NEW i \in Ids
    PROVE  /\ i \in DOMAIN req[r].writes => table'[i] = req[r].writes[i]
           /\ i \notin DOMAIN req[r].writes => table'[i] = table[i]
           /\ table'[i] \in Row /\ ledger'[i] \in Seq(Events)
           /\ table'[i].kind # "absent" => i \in used
           /\ <<"bulk_permanent_delete", i>> \notin unasked' => LifeOK(i)'
           /\ Unborn(i) /\ ~(req[r].op \in Creates /\ i \in Elems(req[r].ids)) => Unborn(i)'
<1>. DEFINE q == req[r]
            W == DOMAIN q.writes
            S == DOMAIN q.seen
            t == table[i]
            w == q.writes[i]
            l == ledger[i]
            e == EventOf(q.op)
<1>1. q.phase = "commit"
  BY DEF Commit
<1>2. /\ q.op \in Ops /\ W \subseteq Ids /\ S \subseteq Ids
      /\ q.op \notin Updates => W = NamedBy(q) /\ S \subseteq W
      /\ q.op \in Ops \ (Creates \cup {"bulk_restore", "bulk_permanent_delete"}) => W \subseteq S
      /\ q.op \in Creates /\ i \in W => i \in used /\ Unborn(i)
      /\ i \in W => w \in Row /\ Fits(q, i, t)
  BY <1>1, CommitFacts
<1>3. t \in Row /\ l \in Seq(Events) /\ (t.kind # "absent" => i \in used)
  BY DEF IndInv, TypeOK
<1>4. /\ i \in W => table'[i] = w
      /\ i \notin W => table'[i] = t
  BY DEF Commit
<1>5. /\ i \in HookedRows(r) => ledger'[i] = Append(l, e)
      /\ i \notin HookedRows(r) => ledger'[i] = l
  BY DEF Commit
<1>6. unasked \subseteq unasked' /\ (q.op \notin Creates => \A j \in W \ S : <<q.op, j>> \in unasked')
  BY DEF Commit
<1>7. <<"bulk_permanent_delete", i>> \notin unasked' => Told(l, t.kind)
  <2>1. <<"bulk_permanent_delete", i>> \notin unasked => LifeOK(i)
    BY DEF IndInv, LedgerTellsTheRow, LifeOK
  <2>. QED  BY <1>6, <2>1, LifeIsTold
<1>8. Life(i) = LifeOf(l) /\ Life(i)' = LifeOf(ledger'[i])
  BY DEF Life, LifeOf
<1>9. LifeOK(i)' <=> Told(ledger'[i], table'[i].kind)
  BY DEF Life, LifeOf, LifeOK, Told, Tells, Follows, FollowsIn, Live, Trashed
<1>10. /\ q.op \in Creates => e = "created"
       /\ q.op \in Updates => e = "updated"
       /\ q.op \in Deletes => e = "deleted"
       /\ q.op \in Restores => e = "restored"
       /\ q.op \in Removals => e = "removed"
       /\ e \in Events
  BY <1>2, EventsOfOps
<1>11. HookedRows(r) = IF q.op \in Updates \cup Removals THEN S ELSE W
  BY DEF HookedRows
<1>12. /\ Unborn(i) <=> t.kind = "absent" /\ LifeOf(l) = {}
       /\ Unborn(i)' <=> table'[i].kind = "absent" /\ LifeOf(ledger'[i]) = {}
  BY <1>8 DEF Unborn
<1>13. (q.op \in Creates /\ i \in W) => i \in Elems(q.ids)
  BY <1>2, OpsApart DEF NamedBy
<1>. HIDE DEF q, W, S, t, w, l, e
<1>14. table'[i] \in Row
  BY <1>2, <1>3, <1>4
<1>15. ledger'[i] \in Seq(Events)
  BY <1>3, <1>5, <1>10, AppendFacts
<1>16. CASE i \notin W /\ i \notin HookedRows(r)
  <2>1. table'[i] = t /\ ledger'[i] = l
    BY <1>4, <1>5, <1>16
  <2>. QED  BY <1>3, <1>4, <1>7, <1>9, <1>12, <1>14, <1>15, <2>1 DEF q, W, w, t
<1>17. CASE q.op \in Creates /\ i \in W
  <2>1. i \in HookedRows(r)
    BY <1>11, <1>17, OpsApart
  <2>2. LifeOf(l) = {} /\ ledger'[i] = Append(l, "created") /\ i \in used
    BY <1>2, <1>5, <1>10, <1>12, <1>17, <2>1
  <2>3. table'[i].kind = "live"
    BY <1>2, <1>4, <1>17 DEF Fits, w
  <2>4. Told(ledger'[i], table'[i].kind)
    BY <1>3, <2>2, <2>3, ToldCreated
  <2>. QED  BY <1>4, <1>9, <1>13, <1>14, <1>15, <1>17, <2>2, <2>4 DEF q, W, w, t
<1>18. CASE q.op \in Updates
  <2>1. table'[i].kind = t.kind
    BY <1>2, <1>4, <1>18 DEF Fits, w
  <2>2. ledger'[i] = l \/ ledger'[i] = Append(l, "updated")
    BY <1>5, <1>10, <1>18
  <2>3. /\ Told(l, t.kind) => Told(ledger'[i], table'[i].kind)
        /\ LifeOf(ledger'[i]) = LifeOf(l)
    BY <1>3, <2>1, <2>2, ToldUpdated
  <2>. QED  BY <1>3, <1>4, <1>7, <1>9, <1>12, <1>14, <1>15, <2>1, <2>3 DEF q, W, w, t
<1>19. CASE q.op \in Deletes \cup Restores \cup Removals /\ (i \in W \/ i \in HookedRows(r))
  <2>0. q.op \notin Updates /\ q.op \notin Creates
    BY <1>19, OpsApart
  <2>1. i \in W /\ Fits(q, i, t)
    BY <1>2, <1>11, <1>19, <2>0
  <2>2. t.kind # "absent" /\ ~Unborn(i) /\ i \in used
    BY <1>3, <1>12, <1>19, <2>1 DEF Fits
  <2>3. CASE i \in HookedRows(r)
    <3>1. table'[i] = w /\ ledger'[i] = Append(l, e)
      BY <1>4, <1>5, <2>1, <2>3
    <3>2. \/ t.kind = "live" /\ e = "deleted" /\ w.kind = "trashed"
          \/ t.kind = "trashed" /\ e = "restored" /\ w.kind = "live"
          \/ t.kind = "trashed" /\ e = "removed" /\ w.kind = "absent"
      BY <1>10, <1>19, <2>1, NoRowType DEF Fits, w
    <3>3. Told(l, t.kind) => Told(ledger'[i], table'[i].kind)
      BY <1>3, <3>1, <3>2, ToldMoved
    <3>. QED  BY <1>4, <1>7, <1>9, <1>14, <1>15, <2>2, <3>3 DEF q, W, w, t
  <2>4. CASE i \notin HookedRows(r)
    <3>1. q.op \in Removals /\ i \notin S
      BY <1>11, <1>19, <2>0, <2>1, <2>4
    <3>2. q.op = "bulk_permanent_delete"
      <4>1. q.op \in {"bulk_restore", "bulk_permanent_delete"}
        BY <1>2, <2>0, <2>1, <3>1
      <4>. QED  BY <3>1, <4>1 DEF Removals
    <3>3. <<"bulk_permanent_delete", i>> \in unasked'
      BY <1>6, <2>0, <2>1, <3>1, <3>2
    <3>. QED  BY <1>4, <1>14, <1>15, <2>2, <3>3 DEF q, W, w, t
  <2>. QED  BY <2>3, <2>4
<1>20. \/ i \notin W /\ i \notin HookedRows(r)
       \/ q.op \in Creates /\ i \in W
       \/ q.op \in Updates
       \/ q.op \in Deletes \cup Restores \cup Removals /\ (i \in W \/ i \in HookedRows(r))
  <2>1. q.op \in Creates => HookedRows(r) = W
    BY <1>11, OpsApart
  <2>. QED  BY <1>2, <2>1 DEF Ops
<1>. QED  BY <1>16, <1>17, <1>18, <1>19, <1>20

LEMMA CommitInv ==
    ASSUME IndInv, NEW r \in Requests, Commit(r)
    PROVE  IndInv'
<1>. DEFINE q == req[r]
            x == [Idle EXCEPT !.phase = "ok"]
<1>1. q.phase = "commit" /\ req' = [req EXCEPT ![r] = x] /\ UNCHANGED <<used, clock>>
  BY DEF Commit, End, Become
<1>2. IsRequest(x) /\ x.phase = "ok" /\ DOMAIN x.writes = {} /\ DOMAIN x.seen = {} /\ x.op = "none"
  <2>1. "ok" \in Phases
    BY DEF Phases, Ended
  <2>. QED  BY <2>1, IdleType
<1>. HIDE DEF x
<1>3. Knows(x) /\ ~Creating(x)
  <2>1. x.phase \in {"new"} \cup Ended
    BY <1>2 DEF Ended
  <2>. QED  BY <1>2, <2>1, RestKnows
<1>4. TypeOK
  BY DEF IndInv
<1>5. /\ DOMAIN req' = Requests /\ req'[r] = x
      /\ \A s \in Requests \ {r} : req'[s] = req[s]
  BY <1>1, <1>4 DEF TypeOK
<1>6. \A i \in Ids :
         /\ i \notin DOMAIN q.writes => table'[i] = table[i]
         /\ table'[i] \in Row /\ ledger'[i] \in Seq(Events)
         /\ table'[i].kind # "absent" => i \in used
         /\ <<"bulk_permanent_delete", i>> \notin unasked' => LifeOK(i)'
         /\ Unborn(i) /\ ~(q.op \in Creates /\ i \in Elems(q.ids)) => Unborn(i)'
  BY CommitRow
<1>7. /\ q.op \in Ops /\ DOMAIN q.writes \subseteq Ids
      /\ q.op \in Ops \ (Creates \cup {"bulk_restore", "bulk_permanent_delete"}) =>
                 DOMAIN q.writes \subseteq DOMAIN q.seen
  BY <1>1, CommitFacts
<1>8. \A u \in unasked' : u \in unasked \/ (q.op \notin Creates /\ \E i \in DOMAIN q.writes \ DOMAIN q.seen : u = <<q.op, i>>)
  BY DEF Commit
<1>9. q.op \in Creates => Creating(q)
  BY <1>1 DEF Creating, Active
<1>10. \A s \in Requests \ {r} : DOMAIN req[s].writes \cap DOMAIN q.writes = {}
  BY <1>4 DEF TypeOK
<1>11. \A s \in Requests \ {r} : Creating(req[s]) /\ q.op \in Creates => Elems(req[s].ids) \cap Elems(q.ids) = {}
  BY <1>9 DEF IndInv
<1>12. \A s \in Requests : DOMAIN req[s].writes \subseteq Ids /\ Elems(req[s].ids) \subseteq Ids
  <2>. SUFFICES ASSUME NEW s \in Requests PROVE DOMAIN req[s].writes \subseteq Ids /\ Elems(req[s].ids) \subseteq Ids
    OBVIOUS
  <2>1. req[s].ids \in Seq(Ids) /\ DOMAIN req[s].writes \subseteq Ids
    BY RequestFacts DEF IsRequest, AreRows
  <2>. QED  BY <2>1, ElemsOfSeq
<1>13. q.op \in Creates => Elems(q.ids) \subseteq used
  BY <1>9 DEF IndInv
<1>14. table' = [i \in Ids |-> table'[i]] /\ ledger' = [i \in Ids |-> ledger'[i]]
  BY DEF Commit
<1>. HIDE DEF q
<1>15. TypeOK'
  <2>1. \A s \in Requests : IsRequest(req'[s])
    BY <1>2, <1>4, <1>5 DEF TypeOK
  <2>2. \A s, p \in Requests : s # p => DOMAIN req'[s].writes \cap DOMAIN req'[p].writes = {}
    BY <1>2, <1>4, <1>5 DEF TypeOK
  <2>3. table' \in [Ids -> Row] /\ ledger' \in [Ids -> Seq(Events)]
    BY <1>6, <1>14
  <2>4. unasked' \subseteq Ops \X Ids
    <3>1. unasked \subseteq Ops \X Ids
      BY <1>4 DEF TypeOK
    <3>. QED  BY <1>7, <1>8, <3>1
  <2>5. used' \subseteq Ids /\ clock' \in Nat
    BY <1>1, <1>4 DEF TypeOK
  <2>6. \A i \in Ids : table'[i].kind # "absent" => i \in used'
    BY <1>1, <1>6
  <2>. QED  BY <1>5, <2>1, <2>2, <2>3, <2>4, <2>5, <2>6 DEF TypeOK
<1>16. \A s \in Requests : Knows(req'[s])
  BY <1>3, <1>5 DEF IndInv
<1>17. \A s \in Requests : \A i \in DOMAIN req'[s].writes : Fits(req'[s], i, table'[i])
  <2>. SUFFICES ASSUME NEW s \in Requests \ {r}, NEW i \in DOMAIN req[s].writes
                PROVE  Fits(req[s], i, table'[i])
    BY <1>2, <1>5
  <2>1. table'[i] = table[i]
    BY <1>6, <1>10, <1>12
  <2>. QED  BY <2>1 DEF IndInv
<1>18. \A s \in Requests : Creating(req'[s]) => \A i \in Elems(req'[s].ids) : i \in used' /\ Unborn(i)'
  <2>. SUFFICES ASSUME NEW s \in Requests \ {r}, Creating(req[s]), NEW i \in Elems(req[s].ids)
                PROVE  i \in used' /\ Unborn(i)'
    BY <1>3, <1>5
  <2>1. i \in used /\ Unborn(i) /\ i \in Ids
    BY <1>12 DEF IndInv
  <2>2. ~(q.op \in Creates /\ i \in Elems(q.ids))
    BY <1>11
  <2>. QED  BY <1>1, <1>6, <2>1, <2>2
<1>19. \A p, s \in Requests : p # s /\ Creating(req'[p]) /\ Creating(req'[s]) =>
          Elems(req'[p].ids) \cap Elems(req'[s].ids) = {}
  BY <1>3, <1>5 DEF IndInv
<1>20. \A i \in Ids \ used' : Unborn(i)'
  <2>. SUFFICES ASSUME NEW i \in Ids \ used PROVE Unborn(i)'
    BY <1>1
  <2>1. Unborn(i)
    BY DEF IndInv
  <2>. QED  BY <1>6, <1>13, <2>1
<1>21. LedgerTellsTheRow'
  <2>1. \A i \in Ids : <<"bulk_permanent_delete", i>> \notin unasked' => LifeOK(i)'
    BY <1>6
  <2>. QED  BY <2>1 DEF LedgerTellsTheRow, LifeOK
<1>22. AskedBeforeWritten'
  <2>. SUFFICES ASSUME NEW u \in unasked' PROVE u[1] \in {"bulk_restore", "bulk_permanent_delete"}
    BY DEF AskedBeforeWritten
  <2>1. CASE u \in unasked
    BY <2>1 DEF IndInv, AskedBeforeWritten
  <2>2. CASE q.op \notin Creates /\ \E i \in DOMAIN q.writes \ DOMAIN q.seen : u = <<q.op, i>>
    <3>1. PICK i \in DOMAIN q.writes \ DOMAIN q.seen : u = <<q.op, i>>
      BY <2>2
    <3>2. q.op \in {"bulk_restore", "bulk_permanent_delete"}
      BY <1>7, <2>2
    <3>. QED  BY <3>1, <3>2
  <2>. QED  BY <1>8, <2>1, <2>2
<1>. QED  BY <1>15, <1>16, <1>17, <1>18, <1>19, <1>20, <1>21, <1>22 DEF IndInv

-----------------------------------------------------------------------------
(* The invariant.                                                           *)

LEMMA InitInv == Init => IndInv
<1>. SUFFICES ASSUME Init PROVE IndInv
  OBVIOUS
<1>. DEFINE live == [NoRow EXCEPT !.kind = "live"]
            trashed == [NoRow EXCEPT !.kind = "trashed", !.deleted_at = 1]
<1>1. live \in Row /\ live.kind = "live" /\ trashed \in Row /\ trashed.kind = "trashed"
  BY NoRowType DEF Row
<1>2. /\ table \in [Ids -> Row]
      /\ \A i \in LiveAtStart : table[i].kind = "live"
      /\ \A i \in TrashAtStart : table[i].kind = "trashed"
      /\ \A i \in Ids \ used : table[i].kind = "absent"
  <2>1. table = [i \in Ids |-> IF i \in LiveAtStart THEN live
                               ELSE IF i \in TrashAtStart THEN trashed ELSE NoRow]
        /\ used = LiveAtStart \cup TrashAtStart
    BY DEF Init
  <2>. HIDE DEF live, trashed
  <2>. QED  BY <1>1, <2>1, NoRowType, CrudAssumption
<1>3. /\ ledger \in [Ids -> Seq(Events)]
      /\ \A i \in LiveAtStart : ledger[i] = Append(<<>>, "created")
      /\ \A i \in TrashAtStart : ledger[i] = Append(Append(<<>>, "created"), "deleted")
      /\ \A i \in Ids \ used : ledger[i] = <<>>
  <2>. DEFINE a == <<"created">>
              b == <<"created", "deleted">>
  <2>1. ledger = [i \in Ids |-> IF i \in LiveAtStart THEN a ELSE IF i \in TrashAtStart THEN b ELSE <<>>]
        /\ used = LiveAtStart \cup TrashAtStart
    BY DEF Init
  <2>2. a \in Seq(Events) /\ b \in Seq(Events) /\ <<>> \in Seq(Events)
    BY DEF Events
  <2>3. a = Append(<<>>, "created") /\ b = Append(a, "deleted")
    OBVIOUS
  <2>. HIDE DEF a, b
  <2>. QED  BY <2>1, <2>2, <2>3, CrudAssumption
<1>4. used = LiveAtStart \cup TrashAtStart /\ used \subseteq Ids
  BY CrudAssumption DEF Init
<1>5. DOMAIN req = Requests /\ \A r \in Requests : req[r] = Idle
  BY DEF Init
<1>6. Idle.phase = "new" /\ Idle.op = "none" /\ DOMAIN Idle.writes = {} /\ DOMAIN Idle.seen = {} /\ IsRequest(Idle)
  <2>1. Idle.phase = "new"
    BY DEF Idle
  <2>. QED  BY <2>1, IdleFacts, NoRowsType
<1>7. Knows(Idle) /\ ~Creating(Idle)
  BY <1>6, RestKnows
<1>8. unasked = {} /\ clock \in Nat
  BY DEF Init
<1>9. TypeOK
  <2>1. \A i \in Ids : table[i].kind # "absent" => i \in used
    BY <1>2
  <2>2. \A r, q \in Requests : r # q => DOMAIN req[r].writes \cap DOMAIN req[q].writes = {}
    BY <1>5, <1>6
  <2>3. \A r \in Requests : IsRequest(req[r])
    BY <1>5, <1>6
  <2>. QED  BY <1>2, <1>3, <1>4, <1>5, <1>8, <2>1, <2>2, <2>3 DEF TypeOK
<1>10. LifeOf(<<>>) = {} /\ <<>> \in Seq(Events)
  BY DEF LifeOf
<1>11. \A i \in Ids \ used : Unborn(i)
  BY <1>2, <1>3, <1>10, LifeIsTold DEF Unborn
<1>12. \A i \in Ids : LifeOK(i)
  <2>. DEFINE a == Append(<<>>, "created")
  <2>0. "created" \in Events
    BY DEF Events
  <2>1. Told(a, "live") /\ a \in Seq(Events)
    BY <1>10, <2>0, ToldCreated, AppendFacts
  <2>. HIDE DEF a
  <2>2. Told(Append(a, "deleted"), "trashed")
    BY <2>1, ToldMoved
  <2>3. Told(<<>>, "absent")
    BY <1>10 DEF Told, FollowsIn
  <2>. SUFFICES ASSUME NEW i \in Ids PROVE Told(ledger[i], table[i].kind)
    BY LifeIsTold
  <2>4. i \in LiveAtStart \/ i \in TrashAtStart \/ i \in Ids \ used
    BY <1>4
  <2>. QED  BY <1>2, <1>3, <2>1, <2>2, <2>3, <2>4 DEF a
<1>13. LedgerTellsTheRow
  BY <1>12 DEF LedgerTellsTheRow, LifeOK
<1>14. AskedBeforeWritten
  BY <1>8 DEF AskedBeforeWritten
<1>. QED  BY <1>5, <1>6, <1>7, <1>9, <1>11, <1>13, <1>14 DEF IndInv

LEMMA NextInv == IndInv /\ [Next]_vars => IndInv'
<1>. SUFFICES ASSUME IndInv, [Next]_vars PROVE IndInv'
  OBVIOUS
<1>1. CASE UNCHANGED vars
  <2>1. UNCHANGED <<table, used, ledger, clock, unasked, req>>
    BY <1>1 DEF vars
  <2>2. TypeOK' /\ LedgerTellsTheRow' /\ AskedBeforeWritten'
    <3>1. TypeOK'
      BY <2>1 DEF IndInv, TypeOK
    <3>2. LedgerTellsTheRow'
      <4>1. LedgerTellsTheRow
        BY DEF IndInv
      <4>2. table' = table /\ ledger' = ledger /\ unasked' = unasked
        BY <2>1
      <4>3. \A i \in Ids : LifeOK(i)' <=> Told(ledger'[i], table'[i].kind)
        BY DEF Life, LifeOf, LifeOK, Told, Tells, Follows, FollowsIn, Live, Trashed
      <4>4. \A i \in Ids : LifeOK(i)' <=> LifeOK(i)
        BY <4>2, <4>3, LifeIsTold
      <4>. QED  BY <4>1, <4>2, <4>4 DEF LedgerTellsTheRow, LifeOK
    <3>3. AskedBeforeWritten'
      BY <2>1 DEF IndInv, AskedBeforeWritten
    <3>. QED  BY <3>1, <3>2, <3>3
  <2>3. \A i \in Ids : Unborn(i)' <=> Unborn(i)
    BY <2>1 DEF Unborn, Life
  <2>4. \A r \in Requests : Elems(req[r].ids) \subseteq Ids
    <3>. SUFFICES ASSUME NEW r \in Requests PROVE Elems(req[r].ids) \subseteq Ids
      OBVIOUS
    <3>1. req[r].ids \in Seq(Ids)
      BY RequestFacts DEF IsRequest
    <3>. QED  BY <3>1, ElemsOfSeq
  <2>. QED  BY <2>1, <2>2, <2>3, <2>4 DEF IndInv
<1>2. ASSUME NEW r \in Requests, Call(r) PROVE IndInv'
  BY <1>2, CallCreateInv, CallUpdateInv, CallSingleInv, CallBulkUpdateInv, CallListInv,
     CallWholeTrashInv DEF Call
<1>3. ASSUME NEW r \in Requests, Step(r) PROVE IndInv'
  BY <1>3, ReadRowInv, RefuseProtectedInv, MissRowInv, ReadPageInv, CountTrashInv, InsertInv,
     UpdateRowInv, UpdateMissedInv, StatementInv, CommitInv, FailInv DEF Step
<1>. QED  BY <1>1, <1>2, <1>3 DEF Next

\* In every reachable state each request knows what its place in the code
\* says, and every uncommitted write still fits the committed row it replaces.
THEOREM Inductive == Spec => []IndInv
BY InitInv, NextInv, PTL DEF Spec

\* The type invariant: among others no row is held by two requests, and a row
\* exists only under an id that was given out.
THEOREM TypeCorrect == Spec => []TypeOK
<1>1. IndInv => TypeOK
  BY DEF IndInv
<1>. QED  BY <1>1, Inductive, PTL

\* No committed write of a single call, an update, a batch delete or a call on
\* the whole trash touches a row that the guard and the hooks were not asked
\* about, however many requests race.  bulk_restore and bulk_permanent_delete
\* are excepted: their statement may reach a row that was not in the trash
\* when they looked.
THEOREM NothingUnasked == Spec => []AskedBeforeWritten
<1>1. IndInv => AskedBeforeWritten
  BY DEF IndInv
<1>. QED  BY <1>1, Inductive, PTL

\* The events that the after-hooks stage tell the life of a row: after every
\* commit the replayed outbox agrees with the table, except for the rows that
\* a bulk_permanent_delete removed without having read them.
THEOREM LedgerIsTheLife == Spec => []LedgerTellsTheRow
<1>1. IndInv => LedgerTellsTheRow
  BY DEF IndInv
<1>. QED  BY <1>1, Inductive, PTL

-----------------------------------------------------------------------------
(* What a step may do.                                                      *)

\* Nothing but a commit touches the table.
LEMMA TableChanges ==
    ASSUME IndInv, [Next]_vars, table' # table
    PROVE  \E r \in Requests : Commit(r)
<1>1. ASSUME NEW r \in Requests, Call(r) PROVE table' = table
  BY <1>1 DEF Call, CallCreate, CallUpdate, CallSingle, CallBulkUpdate, CallList, CallWholeTrash, Start
<1>2. ASSUME NEW r \in Requests, Step(r), ~Commit(r) PROVE table' = table
  BY <1>2 DEF Step, ReadRow, RefuseProtected, MissRow, ReadPage, CountTrash, Insert, UpdateRow,
              UpdateMissed, Statement, Fail, data
<1>. QED  BY <1>1, <1>2 DEF Next, vars

LEMMA CommitAnswers ==
    ASSUME IndInv, NEW r \in Requests, Commit(r)
    PROVE  Commits(r)
<1>1. req[r].phase = "commit" /\ req' = [req EXCEPT ![r] = [Idle EXCEPT !.phase = "ok"]]
  BY DEF Commit, End, Become
<1>2. r \in DOMAIN req
  BY DEF IndInv, TypeOK
<1>3. "ok" \in Phases
  BY DEF Phases, Ended
<1>4. [Idle EXCEPT !.phase = "ok"].phase = "ok"
  BY <1>3, IdleType
<1>. QED  BY <1>1, <1>2, <1>4 DEF Commits

\* update_changed never writes back a column it did not set, and a state field
\* changes only by a verb.
THEOREM ColumnsAreOwned == Spec => OnlyItsColumn
<1>. DEFINE A == \A i \in Ids, c \in Columns :
          (table[i].kind # "absent" /\ table'[i].kind # "absent" /\ table'[i].cols[c] # table[i].cols[c]) =>
              \E r \in Requests : /\ Commits(r) /\ req[r].op \in Updates /\ req[r].col = c
                                  /\ c \in StateFields => req[r].verb
<1>1. IndInv /\ [Next]_vars => A
  <2>. SUFFICES ASSUME IndInv, [Next]_vars, NEW i \in Ids, NEW c \in Columns,
                       table[i].kind # "absent", table'[i].kind # "absent",
                       table'[i].cols[c] # table[i].cols[c]
                PROVE  \E r \in Requests : /\ Commits(r) /\ req[r].op \in Updates /\ req[r].col = c
                                           /\ c \in StateFields => req[r].verb
    OBVIOUS
  <2>1. PICK r \in Requests : Commit(r)
    BY TableChanges
  <2>. DEFINE q == req[r]
              w == q.writes[i]
  <2>2. i \in DOMAIN q.writes /\ table'[i] = w
    BY <2>1, CommitRow
  <2>3. q.op \in Ops /\ Fits(q, i, table[i])
    <3>1. q.phase = "commit"
      BY <2>1 DEF Commit
    <3>. QED  BY <2>2, <3>1, CommitFacts
  <2>4. Commits(r)
    BY <2>1, CommitAnswers
  <2>5. q.op \in Updates
    <3>1. q.op \in Creates \/ q.op \in Updates \/ q.op \in Deletes \/ q.op \in Restores \/ q.op \in Removals
      BY <2>3 DEF Ops
    <3>. HIDE DEF q
    <3>. QED  BY <2>2, <2>3, <3>1, NoRowType DEF Fits
  <2>6. c = q.col /\ (c \in StateFields => q.verb)
    BY <2>2, <2>3, <2>5 DEF Fits
  <2>. QED  BY <2>4, <2>5, <2>6
<1>2. [][A]_vars <=> OnlyItsColumn
  BY DEF OnlyItsColumn
<1>. QED  BY <1>1, <1>2, Inductive, PTL DEF Spec

\* ACTIVE_ROW_GUARD: a row in the trash is not edited, and only a restore
\* brings it back.
THEOREM TrashStaysPut == Spec => TrashIsFrozen
<1>. DEFINE A == \A i \in Ids : (Trashed(table[i]) /\ table'[i] # table[i] /\ table'[i].kind # "absent") =>
          /\ table'[i].cols = table[i].cols
          /\ \E r \in Requests : Commits(r) /\ req[r].op \in Restores
<1>1. IndInv /\ [Next]_vars => A
  <2>. SUFFICES ASSUME IndInv, [Next]_vars, NEW i \in Ids, table[i].kind = "trashed",
                       table'[i] # table[i], table'[i].kind # "absent"
                PROVE  /\ table'[i].cols = table[i].cols
                       /\ \E r \in Requests : Commits(r) /\ req[r].op \in Restores
    BY DEF Trashed
  <2>1. PICK r \in Requests : Commit(r)
    BY TableChanges
  <2>. DEFINE q == req[r]
              w == q.writes[i]
  <2>2. i \in DOMAIN q.writes /\ table'[i] = w
    BY <2>1, CommitRow
  <2>3. q.op \in Ops /\ Fits(q, i, table[i])
    <3>1. q.phase = "commit"
      BY <2>1 DEF Commit
    <3>. QED  BY <2>2, <3>1, CommitFacts
  <2>4. Commits(r)
    BY <2>1, CommitAnswers
  <2>5. q.op \in Restores
    <3>1. q.op \in Creates \/ q.op \in Updates \/ q.op \in Deletes \/ q.op \in Restores \/ q.op \in Removals
      BY <2>3 DEF Ops
    <3>. HIDE DEF q
    <3>. QED  BY <2>2, <2>3, <3>1, NoRowType DEF Fits
  <2>6. w.cols = table[i].cols
    BY <2>3, <2>5 DEF Fits
  <2>. QED  BY <2>2, <2>4, <2>5, <2>6
<1>2. [][A]_vars <=> TrashIsFrozen
  BY DEF TrashIsFrozen
<1>. QED  BY <1>1, <1>2, Inductive, PTL DEF Spec

\* A step is one request's.
LEMMA OneMoves ==
    ASSUME NEW s, Call(s) \/ Step(s)
    PROVE  \E x : req' = [req EXCEPT ![s] = x]
<1>1. ASSUME NEW phase, NEW op, NEW ids, NEW col, NEW val, NEW verb,
             Start(s, phase, op, ids, col, val, verb)
      PROVE  \E x : req' = [req EXCEPT ![s] = x]
  BY <1>1 DEF Start, End, Become
<1>2. CASE Call(s)
  <2>1. CASE CallCreate(s)
    BY <1>1, <2>1 DEF CallCreate
  <2>2. CASE CallUpdate(s)
    BY <1>1, <2>2 DEF CallUpdate
  <2>3. CASE CallSingle(s)
    BY <1>1, <2>3 DEF CallSingle
  <2>4. CASE CallBulkUpdate(s)
    BY <1>1, <2>4 DEF CallBulkUpdate
  <2>5. CASE CallList(s)
    BY <1>1, <2>5 DEF CallList
  <2>6. CASE CallWholeTrash(s)
    BY <1>1, <2>6 DEF CallWholeTrash
  <2>. QED  BY <1>2, <2>1, <2>2, <2>3, <2>4, <2>5, <2>6 DEF Call
<1>3. ASSUME NEW a, End(s, a) PROVE \E x : req' = [req EXCEPT ![s] = x]
  BY <1>3 DEF End, Become
<1>4. CASE Step(s)
  <2>1. CASE ReadRow(s)
    BY <2>1 DEF ReadRow, Become
  <2>2. CASE RefuseProtected(s)
    BY <1>3, <2>2 DEF RefuseProtected
  <2>3. CASE MissRow(s)
    <3>. DEFINE x == Advance(req[s], "write")
    <3>1. End(s, "none") \/ End(s, "err") \/ req' = [req EXCEPT ![s] = x]
      BY <2>3 DEF MissRow, Become
    <3>. HIDE DEF x
    <3>. QED  BY <1>3, <3>1
  <2>4. CASE ReadPage(s)
    BY <2>4 DEF ReadPage, Become
  <2>5. CASE CountTrash(s)
    BY <1>3, <2>5 DEF CountTrash, Become
  <2>6. CASE Insert(s)
    BY <2>6 DEF Insert, Become
  <2>7. CASE UpdateRow(s)
    BY <2>7 DEF UpdateRow, Become
  <2>8. CASE UpdateMissed(s)
    BY <1>3, <2>8 DEF UpdateMissed
  <2>9. CASE Statement(s)
    BY <1>3, <2>9 DEF Statement, Become
  <2>10. CASE Commit(s)
    BY <1>3, <2>10 DEF Commit
  <2>11. CASE Fail(s)
    BY <1>3, <2>11 DEF Fail
  <2>. QED  BY <1>4, <2>1, <2>2, <2>3, <2>4, <2>5, <2>6, <2>7, <2>8, <2>9, <2>10, <2>11 DEF Step
<1>. QED  BY <1>2, <1>4

LEMMA OnlyCommitAnswersOk ==
    ASSUME IndInv, [Next]_vars, NEW r \in Requests, Commits(r)
    PROVE  Commit(r)
<1>0. r \in DOMAIN req /\ req[r].phase = "commit" /\ req'[r].phase = "ok"
  BY DEF IndInv, TypeOK, Commits
<1>1. ~UNCHANGED vars
  BY <1>0 DEF vars
<1>2. PICK s \in Requests : Call(s) \/ Step(s)
  BY <1>1 DEF Next
<1>3. s = r
  <2>1. PICK x : req' = [req EXCEPT ![s] = x]
    BY <1>2, OneMoves
  <2>. QED  BY <1>0, <2>1
<1>4. ~Call(r)
  BY <1>0 DEF Call, CallCreate, CallUpdate, CallSingle, CallBulkUpdate, CallList, CallWholeTrash, Start
<1>5. ~Fail(r)
  <2>. SUFFICES ASSUME Fail(r) PROVE FALSE
    OBVIOUS
  <2>1. req' = [req EXCEPT ![r] = [Idle EXCEPT !.phase = "err"]]
    BY DEF Fail, End, Become
  <2>2. "err" \in Phases
    BY DEF Phases, Ended
  <2>3. [Idle EXCEPT !.phase = "err"].phase = "err"
    BY <2>2, IdleType
  <2>. QED  BY <1>0, <2>1, <2>3
<1>. QED  BY <1>0, <1>2, <1>3, <1>4, <1>5
          DEF Step, ReadRow, RefuseProtected, MissRow, ReadPage, CountTrash, Insert, UpdateRow,
              UpdateMissed, Statement

\* A batch that answers ok took effect on every row it names, in the step that
\* commits it: what a concurrent request did since the rows were read cannot
\* leave it half done.
THEOREM BatchesAreWhole == Spec => AllOrNothing
<1>. DEFINE Effect(r, i) ==
              CASE req[r].op \in Updates ->
                       req[r].seen[i].cols[req[r].col] # req[r].val =>
                           Live(table'[i]) /\ table'[i].cols[req[r].col] = req[r].val
                [] req[r].op \in Deletes -> Trashed(table'[i])
                [] req[r].op \in Restores -> Live(table'[i])
                [] OTHER -> table'[i] = NoRow
            A == \A r \in Requests : (Commits(r) /\ req[r].op \in ListOps \cup WholeTrash) =>
                    \A i \in Named(r) : Effect(r, i)
<1>1. IndInv /\ [Next]_vars => A
  <2>. SUFFICES ASSUME IndInv, [Next]_vars, NEW r \in Requests, Commits(r),
                       req[r].op \in ListOps \cup WholeTrash, NEW i \in Named(r)
                PROVE  Effect(r, i)
    OBVIOUS
  <2>. DEFINE q == req[r]
              w == q.writes[i]
  <2>1. Commit(r) /\ q.phase = "commit"
    BY OnlyCommitAnswersOk DEF Commits
  <2>2. i \in NamedBy(q) /\ i \in Ids
    <3>1. q.ids \in Seq(Ids) /\ DOMAIN q.seen \subseteq Ids
      BY RequestFacts DEF IsRequest, AreRows
    <3>. QED  BY <3>1, ElemsOfSeq DEF Named, NamedBy
  <2>3. i \in DOMAIN q.writes => table'[i] = w /\ Fits(q, i, table[i])
    BY <2>1, <2>2, CommitRow, CommitFacts
  <2>4. CASE q.op \in Updates
    <3>1. q.op \notin WholeTrash /\ q.op \notin Deletes /\ q.op \notin Restores
      BY <2>4, OpsApart
    <3>2. Wrote(q, i)
      <4>1. HasWritten(q)
        BY RequestFacts DEF Knows
      <4>. QED  BY <2>1, <2>2, <2>4, <3>1, <4>1 DEF HasWritten, NamedBy
    <3>3. q.seen[i].cols[q.col] # q.val => table'[i].kind = "live" /\ table'[i].cols[q.col] = q.val
      BY <2>3, <2>4, <3>2 DEF Wrote, Fits
    <3>. QED  BY <2>4, <3>1, <3>3 DEF Live
  <2>5. CASE q.op \notin Updates
    <3>1. i \in DOMAIN q.writes
      BY <2>1, <2>2, <2>5, CommitFacts
    <3>2. q.op \in Deletes \/ q.op \in Restores \/ q.op \in Removals
      BY <2>5 DEF ListOps, WholeTrash, Updates, Deletes, Restores, Removals
    <3>3. /\ q.op \in Deletes => Trashed(table'[i]) /\ q.op \notin Restores
          /\ q.op \in Restores => Live(table'[i]) /\ q.op \notin Deletes
          /\ q.op \in Removals => table'[i] = NoRow /\ q.op \notin Deletes /\ q.op \notin Restores
      BY <2>3, <3>1, OpsApart DEF Fits, Live, Trashed
    <3>. QED  BY <2>5, <3>2, <3>3
  <2>. QED  BY <2>4, <2>5
<1>2. [][A]_vars <=> AllOrNothing
  BY DEF AllOrNothing
<1>. QED  BY <1>1, <1>2, Inductive, PTL DEF Spec
=============================================================================
