--------------------------- MODULE WriteTxProofs ---------------------------
(***************************************************************************)
(* Proofs about WriteTx for every set of requests and rows, every depth of *)
(* nesting and every drop of a request or of a unit inside it, until a     *)
(* unit is dropped alone inside finish or its rollback is overtaken.       *)
(***************************************************************************)
EXTENDS WriteTx, SequenceTheorems, TLAPS

UnitSet == [base : Nat, rows : SUBSET Rows]
LevelSet == [rows : SUBSET Rows, company : Requests \cup {None}]
TaskSet == [kind : {"rollback", "reset"}, base : Nat]

(***************************************************************************)
(* The inductive invariant.  That answers are true is not inductive: a     *)
(* commit is sound because the first levels of a connection mirror the     *)
(* open units (Bases, Mirror), and because levels beyond them have their   *)
(* rollback pending, which a request must not overtake (Pending): that is  *)
(* also why a connection is drawn from the pool without levels.            *)
(***************************************************************************)
Typed ==
    /\ TypeOK
    /\ finishing # "no" => request # None /\ units # <<>>

Bases == \A i \in 1..Len(units) : units[i].base = i - 1

Mirror ==
    ~broken =>
        /\ Len(units) <= Len(levels)
        /\ \A i \in 1..Len(units) : levels[i].rows = units[i].rows

Pending ==
    /\ request = None => units = <<>>
    /\ request # None => \A t \in tasks : t.kind = "rollback" /\ t.base >= Len(units)
    /\ ~broken /\ Len(levels) > Len(units) => RollbackTask(Len(units)) \in tasks

AbortedIsOpen == aborted /\ ~broken => levels # <<>>

OpenApart ==
    \A i \in 1..Len(units) :
        /\ units[i].rows \cap (db \cup denied) = {}
        /\ \A j \in 1..Len(units) : i # j => units[i].rows \cap units[j].rows = {}

Kept ==
    /\ Bases
    /\ Mirror
    /\ Pending
    /\ AbortedIsOpen
    /\ OpenApart
    /\ db = promised
    /\ denied \cap db = {}

IndInv == Typed /\ (stray \/ Kept)

-----------------------------------------------------------------------------
(* What the sequence operators of the model return.                         *)

LEMMA PrefixIs ==
    ASSUME NEW S, NEW s \in Seq(S), NEW n \in 0..Len(s)
    PROVE  /\ SubSeq(s, 1, n) \in Seq(S)
           /\ Len(SubSeq(s, 1, n)) = n
           /\ \A i \in 1..n : SubSeq(s, 1, n)[i] = s[i]
<1>1. \A i \in 1..n : s[i] \in S
  BY ElementOfSeq, LenProperties
<1>2. n \in Int /\ 1 \in Int
  BY LenProperties
<1>3. SubSeq(s, 1, n) \in Seq(S) /\ Len(SubSeq(s, 1, n)) = (IF 1 <= n THEN n - 1 + 1 ELSE 0)
      /\ \A i \in 1..(n - 1 + 1) : SubSeq(s, 1, n)[i] = s[1 + i - 1]
  BY <1>1, <1>2, SubSeqProperties
<1>. QED  BY <1>2, <1>3, LenProperties

\* Only the rows of the last element grow.
LEMMA WithRowsUnits ==
    ASSUME NEW s \in Seq(UnitSet), s # <<>>, NEW R \in SUBSET Rows
    PROVE  /\ WithRows(s, R) \in Seq(UnitSet)
           /\ Len(WithRows(s, R)) = Len(s)
           /\ \A j \in 1..Len(s) : WithRows(s, R)[j].base = s[j].base
           /\ \A j \in 1..Len(s) :
                 WithRows(s, R)[j].rows = IF j = Len(s) THEN s[j].rows \cup R ELSE s[j].rows
<1> DEFINE e == Grown(s[Len(s)], R)
<1>1. Len(s) \in 1..Len(s)
  BY LenProperties, EmptySeq
<1>2. s[Len(s)] \in UnitSet
  BY <1>1, ElementOfSeq
<1>3. e \in UnitSet /\ e.base = s[Len(s)].base /\ e.rows = s[Len(s)].rows \cup R
  BY <1>2 DEF UnitSet, Grown
<1>. HIDE DEF e
<1>4. /\ [s EXCEPT ![Len(s)] = e] \in Seq(UnitSet)
      /\ Len([s EXCEPT ![Len(s)] = e]) = Len(s)
      /\ \A j \in 1..Len(s) : [s EXCEPT ![Len(s)] = e][j] = IF j = Len(s) THEN e ELSE s[j]
  BY <1>1, <1>3, ExceptSeq
<1>5. WithRows(s, R) = [s EXCEPT ![Len(s)] = e]
  BY DEF WithRows, e
<1>. QED  BY <1>3, <1>4, <1>5

LEMMA WithRowsLevels ==
    ASSUME NEW s \in Seq(LevelSet), s # <<>>, NEW R \in SUBSET Rows
    PROVE  /\ WithRows(s, R) \in Seq(LevelSet)
           /\ Len(WithRows(s, R)) = Len(s)
           /\ \A j \in 1..Len(s) : WithRows(s, R)[j].company = s[j].company
           /\ \A j \in 1..Len(s) :
                 WithRows(s, R)[j].rows = IF j = Len(s) THEN s[j].rows \cup R ELSE s[j].rows
<1> DEFINE e == Grown(s[Len(s)], R)
<1>1. Len(s) \in 1..Len(s)
  BY LenProperties, EmptySeq
<1>2. s[Len(s)] \in LevelSet
  BY <1>1, ElementOfSeq
<1>3. e \in LevelSet /\ e.rows = s[Len(s)].rows \cup R /\ e.company = s[Len(s)].company
  BY <1>2 DEF LevelSet, Grown
<1>. HIDE DEF e
<1>4. /\ [s EXCEPT ![Len(s)] = e] \in Seq(LevelSet)
      /\ Len([s EXCEPT ![Len(s)] = e]) = Len(s)
      /\ \A j \in 1..Len(s) : [s EXCEPT ![Len(s)] = e][j] = IF j = Len(s) THEN e ELSE s[j]
  BY <1>1, <1>3, ExceptSeq
<1>5. WithRows(s, R) = [s EXCEPT ![Len(s)] = e]
  BY DEF WithRows, e
<1>. QED  BY <1>3, <1>4, <1>5

-----------------------------------------------------------------------------
(* Every step keeps the types, whatever was dropped where.                  *)

\* What a rollback leaves on a connection that works.
LEMMA RollbackToIs ==
    ASSUME TypeOK, NEW base \in Nat, ~broken, RollbackTo(base)
    PROVE  /\ levels' \in Seq(LevelSet)
           /\ Len(levels') = (IF Len(levels) <= base THEN Len(levels) ELSE base)
           /\ \A i \in 1..Len(levels') : levels'[i] = levels[i]
           /\ company' \in Requests \cup {None}
           /\ company' = (IF Len(levels) <= base THEN company ELSE levels[base + 1].company)
           /\ aborted' = (IF Len(levels) <= base THEN aborted ELSE FALSE)
<1>1. levels \in Seq(LevelSet) /\ company \in Requests \cup {None} /\ Len(levels) \in Nat
  BY LenProperties DEF TypeOK, LevelSet
<1>2. CASE Len(levels) <= base
  BY <1>1, <1>2 DEF RollbackTo, Depth, conn
<1>3. CASE ~(Len(levels) <= base)
  <2>1. base \in 0..Len(levels) /\ base + 1 \in 1..Len(levels)
    BY <1>1, <1>3
  <2>2. levels[base + 1] \in LevelSet
    BY <1>1, <2>1, ElementOfSeq
  <2>3. levels' = SubSeq(levels, 1, base) /\ company' = levels[base + 1].company /\ aborted' = FALSE
    BY <1>3 DEF RollbackTo, Depth
  <2>4. /\ levels' \in Seq(LevelSet) /\ Len(levels') = base
        /\ \A i \in 1..base : levels'[i] = levels[i]
    BY <1>1, <2>1, <2>3, PrefixIs
  <2>. QED  BY <1>3, <2>2, <2>3, <2>4 DEF LevelSet
<1>. QED  BY <1>2, <1>3

LEMMA RollbackToTypes ==
    ASSUME TypeOK, NEW base \in Nat, RollbackTo(base)
    PROVE  /\ levels' \in Seq(LevelSet)
           /\ company' \in Requests \cup {None}
           /\ aborted' \in BOOLEAN
<1>1. CASE broken
  BY <1>1 DEF RollbackTo, conn, TypeOK, LevelSet
<1>2. CASE ~broken
  <2>1. aborted \in BOOLEAN
    BY DEF TypeOK
  <2>. QED  BY <1>2, <2>1, RollbackToIs
<1>. QED  BY <1>1, <1>2

LEMMA CommittedTypes ==
    ASSUME TypeOK, Committed
    PROVE  /\ levels' \in Seq(LevelSet)
           /\ company' \in Requests \cup {None}
           /\ aborted' \in BOOLEAN
           /\ db' \in SUBSET Rows
<1> DEFINE n == Len(levels)
<1>1. /\ levels \in Seq(LevelSet) /\ company \in Requests \cup {None} /\ n \in Nat
      /\ aborted \in BOOLEAN /\ db \in SUBSET Rows
  BY LenProperties DEF TypeOK, LevelSet
<1>2. CASE n = 0
  BY <1>1, <1>2, EmptySeq DEF Committed, Depth
<1>3. CASE n # 0
  <2>1. levels[n] \in LevelSet /\ n - 1 \in 0..n
    BY <1>1, <1>3, ElementOfSeq
  <2>2. levels[n].rows \in SUBSET Rows /\ levels[n].company \in Requests \cup {None}
    BY <2>1 DEF LevelSet
  <2> DEFINE under == SubSeq(levels, 1, n - 1)
  <2>3. under \in Seq(LevelSet) /\ Len(under) = n - 1
    BY <1>1, <2>1, PrefixIs
  <2>4. levels' = (IF n <= 1 THEN <<>> ELSE WithRows(under, levels[n].rows))
    BY DEF Committed, Depth
  <2>5. ASSUME n > 1 PROVE WithRows(under, levels[n].rows) \in Seq(LevelSet)
    <3>. HIDE DEF under
    <3>1. under # <<>>
      BY <1>1, <2>3, <2>5, EmptySeq
    <3>. QED  BY <2>2, <2>3, <3>1, WithRowsLevels
  <2>6. levels' \in Seq(LevelSet)
    BY <1>1, <2>4, <2>5, EmptySeq
  <2>. QED  BY <1>1, <2>2, <2>6 DEF Committed, Depth
<1>. QED  BY <1>2, <1>3

\* A unit inside finish is the innermost of the units of a live request.
LEMMA FinishingTypes ==
    ASSUME Typed, finishing # "no"
    PROVE  /\ units \in Seq(UnitSet) /\ levels \in Seq(LevelSet)
           /\ Len(units) \in Nat \ {0}
           /\ request # None
           /\ Top \in UnitSet /\ Top = units[Len(units)] /\ Top.base \in Nat /\ Top.rows \in SUBSET Rows
           /\ Outer \in Seq(UnitSet) /\ Len(Outer) = Len(units) - 1
           /\ \A i \in 1..Len(Outer) : Outer[i] = units[i]
<1>1. units \in Seq(UnitSet) /\ levels \in Seq(LevelSet) /\ request # None /\ units # <<>>
  BY DEF Typed, TypeOK, UnitSet, LevelSet
<1>2. Len(units) \in Nat \ {0}
  BY <1>1, EmptySeq
<1>3. Len(units) \in 1..Len(units) /\ Len(units) - 1 \in 0..Len(units)
  BY <1>2
<1>4. Top \in UnitSet /\ Top = units[Len(units)]
  BY <1>1, <1>3, ElementOfSeq DEF Top
<1>5. Top.base \in Nat /\ Top.rows \in SUBSET Rows
  BY <1>4 DEF UnitSet
<1>6. Outer \in Seq(UnitSet) /\ Len(Outer) = Len(units) - 1
      /\ \A i \in 1..(Len(units) - 1) : Outer[i] = units[i]
  BY <1>1, <1>3, PrefixIs DEF Outer
<1>. QED  BY <1>1, <1>2, <1>4, <1>5, <1>6

LEMMA DroppedTypes ==
    ASSUME TypeOK, NEW k \in 0..Len(units)
    PROVE  /\ Dropped(k) \subseteq TaskSet
           /\ UNION {units[i].rows : i \in (k + 1)..Len(units)} \subseteq Rows
<1>1. units \in Seq(UnitSet) /\ Len(units) \in Nat
  BY LenProperties DEF TypeOK, UnitSet
<1>2. \A i \in (k + 1)..Len(units) : units[i] \in UnitSet
  BY <1>1, ElementOfSeq
<1>. QED  BY <1>2 DEF Dropped, RollbackTask, UnitSet, TaskSet

LEMMA DrawTypes == ASSUME Typed, NEW r \in Requests, OpenScope(r) \/ BeginOwn(r) PROVE Typed'
<1>1. /\ units \in Seq(UnitSet) /\ levels \in Seq(LevelSet) /\ company \in Requests \cup {None}
      /\ <<>> \in Seq(LevelSet) /\ broken \in BOOLEAN
  BY EmptySeq DEF Typed, TypeOK, UnitSet, LevelSet
<1>2. finishing = "no"
  BY DEF OpenScope, BeginOwn, Drawn, Pooled, Typed
<1>3. Left(levels, <<>>) \in Seq(LevelSet) /\ Left(company, None) \in Requests \cup {None}
  BY <1>1 DEF Left
<1>4. CASE OpenScope(r)
  BY <1>1, <1>2, <1>3, <1>4 DEF OpenScope, Drawn, Typed, TypeOK, LevelSet, answers
<1>5. CASE BeginOwn(r)
  <2> DEFINE before == Left(levels, <<>>)
             l == Level(Left(company, None))
             u == Unit(Len(before))
  <2>1. l \in LevelSet
    BY <1>3 DEF Level, LevelSet
  <2>2. u \in UnitSet
    BY <1>3, LenProperties DEF Unit, UnitSet
  <2>3. units' = <<u>> /\ levels' = Append(before, l)
    BY <1>5 DEF BeginOwn
  <2>. HIDE DEF before, l, u
  <2>4. units' \in Seq(UnitSet)
    BY <2>2, <2>3
  <2>5. levels' \in Seq(LevelSet)
    BY <1>3, <2>1, <2>3, AppendProperties DEF before
  <2>. QED  BY <1>2, <1>5, <2>4, <2>5 DEF BeginOwn, Drawn, Typed, TypeOK, UnitSet, LevelSet, answers
<1>. QED  BY <1>4, <1>5

LEMMA BeginTypes == ASSUME Typed, Begin PROVE Typed'
<1>1. /\ units \in Seq(UnitSet) /\ levels \in Seq(LevelSet) /\ company \in Requests \cup {None}
      /\ finishing = "no" /\ Len(levels) \in Nat /\ tasks \subseteq TaskSet /\ stray \in BOOLEAN
  BY LenProperties DEF Begin, Usable, Working, Typed, TypeOK, UnitSet, LevelSet, TaskSet
<1> DEFINE u == Unit(Depth)
           l == Level(company)
<1>2. u \in UnitSet /\ l \in LevelSet
  BY <1>1 DEF Unit, UnitSet, Depth, Level, LevelSet
<1>3. units' = Append(units, u) /\ levels' = Append(levels, l)
  BY DEF Begin
<1>. HIDE DEF u, l
<1>4. units' \in Seq(UnitSet) /\ levels' \in Seq(LevelSet)
  BY <1>1, <1>2, <1>3, AppendProperties
<1>. QED  BY <1>1, <1>4 DEF Begin, Overtakes, Typed, TypeOK, UnitSet, LevelSet, answers

LEMMA InsertTypes == ASSUME Typed, NEW row \in Rows, Insert(row) PROVE Typed'
<1>1. /\ units \in Seq(UnitSet) /\ levels \in Seq(LevelSet) /\ {row} \in SUBSET Rows
      /\ finishing = "no" /\ stray \in BOOLEAN
  BY DEF Insert, Usable, Working, Typed, TypeOK, UnitSet, LevelSet
<1>2. units' \in Seq(UnitSet)
  BY <1>1, WithRowsUnits DEF Insert
<1>3. levels' \in Seq(LevelSet)
  BY <1>1, WithRowsLevels DEF Insert
<1>. QED  BY <1>1, <1>2, <1>3 DEF Insert, Overtakes, Typed, TypeOK, UnitSet, LevelSet

LEMMA FinishTypes == ASSUME Typed, FinishOk \/ FinishErr PROVE Typed'
<1>1. finishing # "no"
  BY DEF FinishOk, FinishErr
<1>2. /\ Len(units) \in Nat \ {0} /\ Top.base \in Nat /\ Top.rows \in SUBSET Rows
      /\ Outer \in Seq(UnitSet) /\ Len(Outer) = Len(units) - 1
  BY <1>1, FinishingTypes
<1>3. TypeOK
  BY DEF Typed
<1>4. /\ levels' \in Seq(LevelSet) /\ company' \in Requests \cup {None}
      /\ aborted' \in BOOLEAN /\ db' \in SUBSET Rows
  <2>1. CASE FinishOk
    BY <1>3, <2>1, CommittedTypes DEF FinishOk
  <2>2. CASE FinishErr
    BY <1>2, <1>3, <2>2, RollbackToTypes DEF FinishErr, TypeOK
  <2>. QED  BY <2>1, <2>2
<1>5. units' \in Seq(UnitSet)
  BY <1>2, EmptySeq, WithRowsUnits DEF FinishOk, FinishErr, UnitLeaves
<1>6. /\ finishing' = "no" /\ waiting' = waiting /\ mode' = mode /\ tasks' = tasks /\ broken' = broken
      /\ request' \in {request, None}
  BY DEF FinishOk, FinishErr, UnitLeaves
<1>7. promised' \in SUBSET Rows /\ denied' \in SUBSET Rows /\ stray' \in BOOLEAN
  BY <1>2, <1>3 DEF FinishOk, FinishErr, Overtakes, TypeOK
<1>. QED  BY <1>3, <1>4, <1>5, <1>6, <1>7 DEF Typed, TypeOK, UnitSet, LevelSet

LEMMA CancelTypes ==
    ASSUME Typed, NEW k \in 0..MaxDepth, NEW whole \in BOOLEAN, Cancel(k, whole)
    PROVE  Typed'
<1>1. TypeOK /\ k \in 0..Len(units) /\ units \in Seq(UnitSet) /\ stray \in BOOLEAN
  BY DEF Cancel, Typed, TypeOK, UnitSet
<1>2. Dropped(k) \subseteq TaskSet /\ UNION {units[i].rows : i \in (k + 1)..Len(units)} \subseteq Rows
  BY <1>1, DroppedTypes
<1>3. ResetTask \in TaskSet
  BY DEF ResetTask, TaskSet
<1>4. tasks' \subseteq TaskSet
  BY <1>1, <1>2, <1>3 DEF Cancel, TypeOK, TaskSet
<1>5. units' \in Seq(UnitSet)
  BY <1>1, PrefixIs DEF Cancel
<1>. QED  BY <1>1, <1>2, <1>4, <1>5 DEF Cancel, Typed, TypeOK, UnitSet, TaskSet, conn

LEMMA TypesStep == ASSUME Typed, [Next]_vars PROVE Typed'
<1>1. CASE UNCHANGED vars
  BY <1>1 DEF vars, conn, answers, Typed, TypeOK
<1>2. CASE StatementFails \/ ConnectionLost
  BY <1>2 DEF StatementFails, ConnectionLost, conn, answers, Typed, TypeOK
<1>3. CASE WorkReturns
  BY <1>3 DEF WorkReturns, Working, conn, answers, Typed, TypeOK
<1>4. CASE CloseScope \/ DropInReset
  BY <1>4 DEF CloseScope, DropInReset, Working, conn, answers, Typed, TypeOK
<1>5. ASSUME NEW t \in tasks, RunRollback(t) PROVE Typed'
  <2>1. TypeOK /\ t.base \in Nat /\ RollbackTo(t.base)
    BY <1>5 DEF RunRollback, Typed, TypeOK
  <2>2. levels' \in Seq(LevelSet) /\ company' \in Requests \cup {None} /\ aborted' \in BOOLEAN
    BY <2>1, RollbackToTypes
  <2>. QED  BY <1>5, <2>2 DEF RunRollback, Typed, TypeOK, LevelSet, answers
<1>6. ASSUME NEW t \in tasks, RunReset(t) PROVE Typed'
  BY <1>6 DEF RunReset, Typed, TypeOK, answers
<1>. QED  BY <1>1, <1>2, <1>3, <1>4, <1>5, <1>6, DrawTypes, BeginTypes, InsertTypes, FinishTypes,
             CancelTypes DEF Next

-----------------------------------------------------------------------------
(* Every step that leads to no stray level keeps the rest.                  *)

LEMMA InitInv == Init => IndInv
<1>. SUFFICES ASSUME Init PROVE IndInv
  OBVIOUS
<1>. USE DEF Init
<1>1. Typed
  BY EmptySeq DEF Typed, TypeOK
<1>2. Len(units) = 0 /\ Len(levels) = 0
  BY EmptySeq
<1>3. Bases /\ Mirror /\ OpenApart
  BY <1>2 DEF Bases, Mirror, OpenApart
<1>4. Pending /\ AbortedIsOpen
  BY <1>2 DEF Pending, AbortedIsOpen
<1>. QED  BY <1>1, <1>3, <1>4 DEF IndInv, Kept

LEMMA Lengths ==
    ASSUME Typed
    PROVE  /\ units \in Seq(UnitSet) /\ levels \in Seq(LevelSet)
           /\ Len(units) \in Nat /\ Len(levels) \in Nat
           /\ \A i \in 1..Len(levels) : levels[i] \in LevelSet
           /\ units = <<>> <=> Len(units) = 0
           /\ levels = <<>> <=> Len(levels) = 0
<1>1. units \in Seq(UnitSet) /\ levels \in Seq(LevelSet)
  BY DEF Typed, TypeOK, UnitSet, LevelSet
<1>. QED  BY <1>1, LenProperties, EmptySeq, ElementOfSeq

\* A request that overtakes nothing has as many levels as units.
LEMMA Undisturbed ==
    ASSUME Typed, Kept, ~stray', Overtakes
    PROVE  tasks = {} /\ (~broken => Len(levels) = Len(units))
<1>1. tasks = {}
  BY DEF Overtakes
<1>. QED  BY <1>1, Lengths DEF Kept, Mirror, Pending

\* A connection drawn from the pool has no transaction open.
LEMMA DrawnClosed ==
    ASSUME Typed, Kept, NEW r \in Requests, Drawn(r)
    PROVE  /\ units = <<>> /\ tasks = {} /\ finishing = "no" /\ request = None
           /\ Left(levels, <<>>) = <<>>
<1>1. request = None /\ tasks = {}
  BY DEF Drawn, Pooled
<1>2. units = <<>> /\ finishing = "no"
  BY <1>1 DEF Typed, Kept, Pending
<1>3. Left(levels, <<>>) = <<>>
  BY <1>1, <1>2, Lengths DEF Left, Kept, Pending
<1>. QED  BY <1>1, <1>2, <1>3

LEMMA OpenScopeStep == ASSUME Typed, Kept, NEW r \in Requests, OpenScope(r) PROVE Kept'
<1>1. Drawn(r) /\ levels' = Left(levels, <<>>)
  BY DEF OpenScope
<1>2. units = <<>> /\ tasks = {} /\ levels' = <<>>
  BY <1>1, DrawnClosed
<1>3. /\ Len(units') = 0 /\ Len(levels') = 0 /\ tasks' = {} /\ aborted' = FALSE /\ units' = <<>>
      /\ db' = db /\ promised' = promised /\ denied' = denied
  BY <1>2, EmptySeq DEF OpenScope, answers
<1>4. Bases' /\ Mirror' /\ OpenApart'
  BY <1>3 DEF Bases, Mirror, OpenApart
<1>5. Pending' /\ AbortedIsOpen'
  BY <1>3 DEF Pending, AbortedIsOpen
<1>. QED  BY <1>3, <1>4, <1>5 DEF Kept

LEMMA BeginOwnStep == ASSUME Typed, Kept, NEW r \in Requests, BeginOwn(r) PROVE Kept'
<1> DEFINE c == Left(company, None)
<1>1. Drawn(r)
  BY DEF BeginOwn
<1>2. units = <<>> /\ tasks = {} /\ Left(levels, <<>>) = <<>>
  BY <1>1, DrawnClosed
<1>3. units' = <<Unit(0)>> /\ levels' = Append(<<>>, Level(c))
  BY <1>2 DEF BeginOwn
<1>4. /\ tasks' = {} /\ request' # None /\ aborted' = FALSE
      /\ db' = db /\ promised' = promised /\ denied' = denied
  BY <1>2, WriteTxAssumption DEF BeginOwn, Drawn, answers
<1>5. Unit(0).base = 0 /\ Unit(0).rows = {} /\ Level(c).rows = {}
  BY DEF Unit, Level
<1>6. Len(units') = 1 /\ units'[1] = Unit(0)
  BY <1>3
<1>. HIDE DEF c
<1>7. Len(levels') = 1 /\ levels'[1] = Level(c)
  BY <1>3
<1>8. \A i \in 1..Len(units') : i = 1
  BY <1>6
<1>9. Bases' /\ Mirror' /\ OpenApart'
  <2>1. units'[1].base = 0 /\ units'[1].rows = {} /\ levels'[1].rows = {}
    BY <1>5, <1>6, <1>7
  <2>. QED  BY <1>6, <1>7, <1>8, <2>1 DEF Bases, Mirror, OpenApart
<1>10. Pending' /\ AbortedIsOpen'
  BY <1>4, <1>6, <1>7 DEF Pending, AbortedIsOpen
<1>. QED  BY <1>4, <1>9, <1>10 DEF Kept

LEMMA BeginStep == ASSUME Typed, Kept, Begin, ~stray' PROVE Kept'
<1>1. /\ units \in Seq(UnitSet) /\ levels \in Seq(LevelSet) /\ company \in Requests \cup {None}
      /\ Len(units) \in Nat /\ request # None /\ ~broken /\ ~aborted
  BY Lengths DEF Begin, Usable, Working, Typed, TypeOK
<1>2. Len(levels) = Len(units) /\ tasks = {}
  BY <1>1, Undisturbed DEF Begin
<1> DEFINE u == Unit(Depth)
           l == Level(company)
<1>3. u \in UnitSet /\ u.base = Len(units) /\ u.rows = {}
  BY <1>1, <1>2 DEF Unit, UnitSet, Depth
<1>4. l \in LevelSet /\ l.rows = {}
  BY <1>1 DEF Level, LevelSet
<1>5. units' = Append(units, u) /\ levels' = Append(levels, l)
  BY DEF Begin
<1>. HIDE DEF u, l
<1>6. /\ Len(units') = Len(units) + 1
      /\ \A i \in 1..Len(units) : units'[i] = units[i]
      /\ units'[Len(units) + 1] = u
  BY <1>1, <1>3, <1>5, AppendProperties
<1>7. /\ Len(levels') = Len(levels) + 1
      /\ \A i \in 1..Len(levels) : levels'[i] = levels[i]
      /\ levels'[Len(levels) + 1] = l
  BY <1>1, <1>4, <1>5, AppendProperties
<1>8. /\ request' = request /\ broken' = broken /\ aborted' = aborted
      /\ tasks' = tasks /\ db' = db /\ denied' = denied /\ promised' = promised
  BY DEF Begin, answers
<1>9. \A i \in 1..Len(units) : units[i].base = i - 1 /\ levels[i].rows = units[i].rows
  BY <1>1 DEF Kept, Bases, Mirror
<1>10. ASSUME NEW i \in 1..Len(units')
       PROVE  units'[i].base = i - 1 /\ levels'[i].rows = units'[i].rows
  <2>1. CASE i \in 1..Len(units)
    BY <1>2, <1>6, <1>7, <1>9, <2>1
  <2>2. CASE i = Len(units) + 1
    <3>1. units'[i] = u /\ levels'[i] = l
      BY <1>2, <1>6, <1>7, <2>2
    <3>2. u.base = i - 1
      BY <1>1, <1>3, <2>2
    <3>. QED  BY <1>3, <1>4, <3>1, <3>2
  <2>. QED  BY <1>1, <1>6, <2>1, <2>2
<1>11. Bases' /\ Mirror'
  BY <1>1, <1>2, <1>6, <1>7, <1>10 DEF Bases, Mirror
<1>12. Pending' /\ AbortedIsOpen'
  BY <1>1, <1>2, <1>6, <1>7, <1>8 DEF Pending, AbortedIsOpen
<1>13. OpenApart'
  BY <1>1, <1>3, <1>6, <1>8 DEF Kept, OpenApart
<1>. QED  BY <1>8, <1>11, <1>12, <1>13 DEF Kept

LEMMA InsertStep == ASSUME Typed, Kept, NEW row \in Rows, Insert(row), ~stray' PROVE Kept'
<1>1. /\ units \in Seq(UnitSet) /\ levels \in Seq(LevelSet) /\ {row} \in SUBSET Rows
      /\ Len(units) \in Nat /\ request # None /\ ~broken /\ ~aborted
  BY Lengths DEF Insert, Usable, Working
<1>2. Len(levels) = Len(units) /\ tasks = {}
  BY <1>1, Undisturbed DEF Insert
<1>3. units = <<>> <=> levels = <<>>
  BY <1>2, Lengths
<1>4. /\ request' = request /\ broken' = broken /\ aborted' = aborted
      /\ tasks' = tasks /\ denied' = denied
  BY DEF Insert
<1>5. DOMAIN units = 1..Len(units)
  BY <1>1, LenProperties
<1>6. /\ row \notin db /\ row \notin denied
      /\ \A i \in 1..Len(units) : row \notin units[i].rows
  BY <1>5 DEF Insert, Used
<1>7. CASE units = <<>>
  <2>1. units' = units /\ levels' = levels /\ db' = db \cup {row} /\ promised' = promised \cup {row}
    BY <1>3, <1>7 DEF Insert
  <2>2. Bases' /\ Mirror' /\ Pending' /\ AbortedIsOpen'
    BY <1>4, <2>1 DEF Kept, Bases, Mirror, Pending, AbortedIsOpen
  <2>3. OpenApart'
    BY <1>7, <2>1, EmptySeq DEF OpenApart
  <2>. QED  BY <1>4, <1>6, <2>1, <2>2, <2>3 DEF Kept
<1>8. CASE units # <<>>
  <2>1. units' = WithRows(units, {row}) /\ levels' = WithRows(levels, {row}) /\ db' = db /\ promised' = promised
    BY <1>3, <1>8 DEF Insert
  <2>2. /\ Len(units') = Len(units)
        /\ \A j \in 1..Len(units) : units'[j].base = units[j].base
        /\ \A j \in 1..Len(units) :
              units'[j].rows = IF j = Len(units) THEN units[j].rows \cup {row} ELSE units[j].rows
    BY <1>1, <1>8, <2>1, WithRowsUnits
  <2>3. /\ Len(levels') = Len(levels)
        /\ \A j \in 1..Len(levels) :
              levels'[j].rows = IF j = Len(levels) THEN levels[j].rows \cup {row} ELSE levels[j].rows
    BY <1>1, <1>3, <1>8, <2>1, WithRowsLevels
  <2>4. \A i \in 1..Len(units) : units[i].base = i - 1 /\ levels[i].rows = units[i].rows
    BY <1>1 DEF Kept, Bases, Mirror
  <2>5. Bases' /\ Mirror'
    <3>1. ASSUME NEW i \in 1..Len(units')
          PROVE  units'[i].base = i - 1 /\ levels'[i].rows = units'[i].rows
      <4>1. i \in 1..Len(units) /\ i \in 1..Len(levels)
        BY <1>2, <2>2
      <4>2. levels'[i].rows = (IF i = Len(levels) THEN levels[i].rows \cup {row} ELSE levels[i].rows)
            /\ units'[i].rows = (IF i = Len(units) THEN units[i].rows \cup {row} ELSE units[i].rows)
        BY <2>2, <2>3, <4>1
      <4>. QED  BY <1>2, <2>2, <2>4, <4>1, <4>2
    <3>2. Len(units') <= Len(levels')
      BY <1>1, <1>2, <2>2, <2>3
    <3>. QED  BY <3>1, <3>2 DEF Bases, Mirror
  <2>6. Pending' /\ AbortedIsOpen'
    BY <1>1, <1>2, <1>4, <2>2, <2>3 DEF Pending, AbortedIsOpen
  <2>7. OpenApart'
    <3>1. ASSUME NEW i \in 1..Len(units'), NEW j \in 1..Len(units'), i # j
          PROVE  units'[i].rows \cap units'[j].rows = {}
      <4>1. units[i].rows \cap units[j].rows = {} /\ row \notin units[i].rows /\ row \notin units[j].rows
        BY <1>6, <2>2, <3>1 DEF Kept, OpenApart
      <4>2. ~(i = Len(units) /\ j = Len(units))
        BY <3>1
      <4>3. units'[i].rows = (IF i = Len(units) THEN units[i].rows \cup {row} ELSE units[i].rows)
            /\ units'[j].rows = (IF j = Len(units) THEN units[j].rows \cup {row} ELSE units[j].rows)
        BY <2>2
      <4>. QED  BY <4>1, <4>2, <4>3
    <3>2. ASSUME NEW i \in 1..Len(units')
          PROVE  units'[i].rows \cap (db' \cup denied') = {}
      <4>1. units[i].rows \cap (db \cup denied) = {}
        BY <2>2 DEF Kept, OpenApart
      <4>2. units'[i].rows = (IF i = Len(units) THEN units[i].rows \cup {row} ELSE units[i].rows)
        BY <2>2
      <4>. QED  BY <1>4, <1>6, <2>1, <4>1, <4>2
    <3>. QED  BY <3>1, <3>2 DEF OpenApart
  <2>. QED  BY <1>4, <2>1, <2>5, <2>6, <2>7 DEF Kept
<1>. QED  BY <1>7, <1>8

\* Steps that move no level, no unit and no task.
LEMMA QuietStep ==
    ASSUME Typed, Kept, StatementFails \/ ConnectionLost \/ WorkReturns \/ CloseScope \/ DropInReset
    PROVE  Kept'
<1>1. /\ units' = units /\ levels' = levels /\ tasks' = tasks
      /\ db' = db /\ promised' = promised /\ denied' = denied
  BY DEF StatementFails, ConnectionLost, WorkReturns, CloseScope, DropInReset, conn, answers
<1>2. request' = request \/ (request' = None /\ units = <<>>)
  BY DEF StatementFails, ConnectionLost, WorkReturns, CloseScope, DropInReset
<1>3. broken' = broken \/ broken' = TRUE
  BY DEF StatementFails, ConnectionLost, WorkReturns, CloseScope, DropInReset
<1>4. aborted' = aborted \/ levels # <<>>
  BY DEF StatementFails, ConnectionLost, WorkReturns, CloseScope, DropInReset, conn
<1>5. Bases' /\ Mirror' /\ OpenApart'
  BY <1>1, <1>3 DEF Kept, Bases, Mirror, OpenApart
<1>6. Pending' /\ AbortedIsOpen'
  BY <1>1, <1>2, <1>3, <1>4 DEF Kept, Pending, AbortedIsOpen
<1>. QED  BY <1>1, <1>5, <1>6 DEF Kept

LEMMA FinishErrStep == ASSUME Typed, Kept, FinishErr PROVE Kept'
<1>1. finishing # "no" /\ TypeOK
  BY DEF FinishErr, Typed
<1> DEFINE n == Len(units)
<1>2. /\ units \in Seq(UnitSet) /\ n \in Nat \ {0} /\ request # None
      /\ Top = units[n] /\ Top.base \in Nat
      /\ Len(Outer) = n - 1 /\ Outer \in Seq(UnitSet)
      /\ \A i \in 1..Len(Outer) : Outer[i] = units[i]
  BY <1>1, FinishingTypes
<1>3. /\ units' = Outer /\ tasks' = tasks /\ broken' = broken /\ mode' = mode
      /\ db' = db /\ promised' = promised /\ denied' = denied \cup Top.rows
      /\ request' = (IF mode = "own" /\ Outer = <<>> THEN None ELSE request)
      /\ RollbackTo(Top.base)
  BY DEF FinishErr, UnitLeaves
<1>4. Top.base = n - 1
  BY <1>2 DEF Kept, Bases
<1>5. \A i \in 1..Len(units') : i \in 1..(n - 1) /\ i \in 1..n /\ n \in 1..n /\ i # n /\ units'[i] = units[i]
  BY <1>2, <1>3
<1>6. Bases'
  BY <1>5 DEF Kept, Bases
<1>7. ASSUME ~broken
      PROVE  /\ Len(levels') = n - 1 /\ aborted' = FALSE
             /\ \A i \in 1..Len(levels') : levels'[i] = levels[i]
  <2>1. /\ Len(levels') = (IF Len(levels) <= Top.base THEN Len(levels) ELSE Top.base)
        /\ \A i \in 1..Len(levels') : levels'[i] = levels[i]
        /\ aborted' = (IF Len(levels) <= Top.base THEN aborted ELSE FALSE)
    BY <1>1, <1>2, <1>3, <1>7, RollbackToIs
  <2>2. Len(levels) >= n /\ Len(levels) \in Nat
    BY <1>7, Lengths DEF Kept, Mirror
  <2>. QED  BY <1>2, <1>4, <2>1, <2>2
<1>8. Mirror'
  <2>. SUFFICES ASSUME ~broken PROVE Mirror'
    BY <1>3 DEF Mirror
  <2>1. Len(levels') = n - 1 /\ \A i \in 1..Len(levels') : levels'[i] = levels[i]
    BY <1>7
  <2>2. ASSUME NEW i \in 1..Len(units') PROVE levels'[i].rows = units'[i].rows
    <3>1. levels[i].rows = units[i].rows
      BY <1>5 DEF Kept, Mirror
    <3>2. levels'[i] = levels[i] /\ units'[i] = units[i]
      BY <1>2, <1>5, <2>1
    <3>. QED  BY <3>1, <3>2
  <2>. QED  BY <1>2, <1>3, <2>1, <2>2 DEF Mirror
<1>9. Pending'
  <2>1. request' = None => units' = <<>>
    BY <1>2, <1>3
  <2>2. request' # None => \A t \in tasks' : t.kind = "rollback" /\ t.base >= Len(units')
    <3>1. \A t \in tasks : t.kind = "rollback" /\ t.base >= n /\ t.base \in Nat
      BY <1>1, <1>2 DEF Kept, Pending, TypeOK
    <3>. QED  BY <1>2, <1>3, <3>1
  <2>3. ~broken' => ~(Len(levels') > Len(units'))
    BY <1>2, <1>3, <1>7
  <2>. QED  BY <2>1, <2>2, <2>3 DEF Pending
<1>10. AbortedIsOpen'
  BY <1>3, <1>7 DEF AbortedIsOpen
<1>11. Top.rows \cap db = {} /\ \A i \in 1..(n - 1) : units[i].rows \cap Top.rows = {}
  BY <1>2 DEF Kept, OpenApart
<1>12. OpenApart'
  <2>1. ASSUME NEW i \in 1..Len(units')
        PROVE  units'[i].rows \cap (db' \cup denied') = {}
    <3>1. units[i].rows \cap (db \cup denied) = {} /\ units[i].rows \cap Top.rows = {}
      BY <1>5, <1>11 DEF Kept, OpenApart
    <3>. QED  BY <1>3, <1>5, <3>1
  <2>2. ASSUME NEW i \in 1..Len(units'), NEW j \in 1..Len(units'), i # j
        PROVE  units'[i].rows \cap units'[j].rows = {}
    <3>1. units[i].rows \cap units[j].rows = {}
      BY <1>5, <2>2 DEF Kept, OpenApart
    <3>. QED  BY <1>5, <3>1
  <2>. QED  BY <2>1, <2>2 DEF OpenApart
<1>. QED  BY <1>3, <1>6, <1>8, <1>9, <1>10, <1>11, <1>12 DEF Kept

LEMMA FinishOkStep == ASSUME Typed, Kept, FinishOk, ~stray' PROVE Kept'
<1>1. finishing # "no" /\ ~broken
  BY DEF FinishOk, CommitAccepted
<1> DEFINE n == Len(units)
<1>2. /\ units \in Seq(UnitSet) /\ levels \in Seq(LevelSet) /\ n \in Nat \ {0}
      /\ request # None /\ Top \in UnitSet /\ Top = units[n] /\ Top.rows \in SUBSET Rows
      /\ Outer \in Seq(UnitSet) /\ Len(Outer) = n - 1
      /\ \A i \in 1..Len(Outer) : Outer[i] = units[i]
  BY <1>1, FinishingTypes
<1>3. Len(levels) = n /\ tasks = {}
  BY <1>1, Undisturbed DEF FinishOk
<1>4. \A i \in 1..n : units[i].base = i - 1 /\ levels[i].rows = units[i].rows /\ levels[i] \in LevelSet
  BY <1>1, <1>2, <1>3, Lengths DEF Kept, Bases, Mirror
<1>5. aborted = FALSE /\ Committed
  <2>1. Top.base = n - 1
    BY <1>2, <1>4
  <2>. QED  BY <1>2, <1>3, <2>1 DEF FinishOk, CommitAccepted, Depth, Typed, TypeOK
<1>6. CASE n = 1
  <2>1. Outer = <<>> /\ levels[1].rows = Top.rows
    BY <1>2, <1>4, <1>6, EmptySeq
  <2>2. /\ units' = <<>> /\ tasks' = {} /\ broken' = broken /\ denied' = denied
        /\ promised' = promised \cup Top.rows
    BY <1>3, <2>1 DEF FinishOk, UnitLeaves
  <2>3. levels' = <<>> /\ db' = db \cup Top.rows /\ aborted' = FALSE
    BY <1>3, <1>5, <1>6, <2>1 DEF Committed, Depth
  <2>4. Len(units') = 0 /\ Len(levels') = 0
    BY <2>2, <2>3, EmptySeq
  <2>5. Bases' /\ Mirror' /\ OpenApart'
    BY <2>4 DEF Bases, Mirror, OpenApart
  <2>6. Pending' /\ AbortedIsOpen'
    BY <2>2, <2>3, <2>4 DEF Pending, AbortedIsOpen
  <2>7. Top.rows \cap denied = {}
    BY <1>2 DEF Kept, OpenApart
  <2>. QED  BY <2>2, <2>3, <2>5, <2>6, <2>7 DEF Kept
<1>7. CASE n > 1
  <2> DEFINE under == SubSeq(levels, 1, n - 1)
  <2>1. Outer # <<>> /\ n - 1 \in 0..Len(levels)
    BY <1>2, <1>3, <1>7, EmptySeq
  <2>2. under \in Seq(LevelSet) /\ Len(under) = n - 1 /\ \A i \in 1..(n - 1) : under[i] = levels[i]
    BY <1>2, <2>1, PrefixIs
  <2>. HIDE DEF under
  <2>3. under # <<>>
    <3>1. Len(under) # 0
      BY <1>2, <1>7, <2>2
    <3>. QED  BY <3>1, EmptySeq
  <2>4. /\ units' = WithRows(Outer, Top.rows) /\ tasks' = {}
        /\ broken' = broken /\ mode' = mode /\ denied' = denied /\ promised' = promised
    BY <1>3, <2>1 DEF FinishOk, UnitLeaves
  <2>5. levels[n].rows = Top.rows
    BY <1>2, <1>4
  <2>6. levels' = WithRows(under, Top.rows) /\ db' = db /\ aborted' = FALSE
    BY <1>2, <1>3, <1>5, <1>7, <2>5 DEF Committed, Depth, under
  <2>7. /\ Len(units') = n - 1
        /\ \A j \in 1..(n - 1) : units'[j].base = Outer[j].base
        /\ \A j \in 1..(n - 1) :
              units'[j].rows = IF j = n - 1 THEN Outer[j].rows \cup Top.rows ELSE Outer[j].rows
    <3>1. /\ Len(WithRows(Outer, Top.rows)) = Len(Outer)
          /\ \A j \in 1..Len(Outer) : WithRows(Outer, Top.rows)[j].base = Outer[j].base
          /\ \A j \in 1..Len(Outer) : WithRows(Outer, Top.rows)[j].rows
                = IF j = Len(Outer) THEN Outer[j].rows \cup Top.rows ELSE Outer[j].rows
      BY <1>2, <2>1, WithRowsUnits
    <3>. QED  BY <1>2, <2>4, <3>1
  <2>8. /\ Len(levels') = n - 1
        /\ \A j \in 1..(n - 1) :
              levels'[j].rows = IF j = n - 1 THEN under[j].rows \cup Top.rows ELSE under[j].rows
    <3>1. /\ Len(WithRows(under, Top.rows)) = Len(under)
          /\ \A j \in 1..Len(under) : WithRows(under, Top.rows)[j].rows
                = IF j = Len(under) THEN under[j].rows \cup Top.rows ELSE under[j].rows
      BY <1>2, <2>2, <2>3, WithRowsLevels
    <3>. QED  BY <2>2, <2>6, <3>1
  <2>9. request' = request
    <3>1. WithRows(Outer, Top.rows) # <<>>
      <4>1. Len(units') # 0
        BY <1>2, <1>7, <2>7
      <4>. QED  BY <2>4, <4>1, EmptySeq
    <3>. QED  BY <2>1, <3>1 DEF FinishOk, UnitLeaves
  <2>10. ASSUME NEW i \in 1..(n - 1)
         PROVE  /\ units'[i].base = i - 1 /\ levels'[i].rows = units'[i].rows
                /\ units'[i].rows = (IF i = n - 1 THEN units[i].rows \cup units[n].rows ELSE units[i].rows)
                /\ i \in 1..n /\ n \in 1..n /\ i # n
    <3>1. i \in 1..n /\ n \in 1..n /\ i # n /\ i \in 1..Len(Outer)
      BY <1>2
    <3>2. Outer[i] = units[i] /\ under[i] = levels[i]
      BY <1>2, <2>2, <3>1
    <3>3. levels[i].rows = units[i].rows /\ units[i].base = i - 1
      BY <1>4, <3>1
    <3>4. units'[i].base = Outer[i].base
          /\ units'[i].rows = (IF i = n - 1 THEN Outer[i].rows \cup Top.rows ELSE Outer[i].rows)
      BY <2>7
    <3>5. levels'[i].rows = (IF i = n - 1 THEN under[i].rows \cup Top.rows ELSE under[i].rows)
      BY <2>8
    <3>. QED  BY <1>2, <3>1, <3>2, <3>3, <3>4, <3>5
  <2>11. Bases' /\ Mirror'
    <3>1. \A i \in 1..Len(units') : units'[i].base = i - 1 /\ levels'[i].rows = units'[i].rows
      BY <2>7, <2>10
    <3>2. Len(units') <= Len(levels')
      BY <1>2, <2>7, <2>8
    <3>. QED  BY <3>1, <3>2 DEF Bases, Mirror
  <2>12. Pending' /\ AbortedIsOpen'
    BY <1>2, <2>4, <2>6, <2>7, <2>8, <2>9 DEF Pending, AbortedIsOpen
  <2>13. OpenApart'
    <3>1. ASSUME NEW i \in 1..Len(units'), NEW j \in 1..Len(units'), i # j
          PROVE  units'[i].rows \cap units'[j].rows = {}
      <4>1. i \in 1..(n - 1) /\ j \in 1..(n - 1)
        BY <2>7
      <4>2. units[i].rows \cap units[j].rows = {} /\ units[i].rows \cap units[n].rows = {}
            /\ units[j].rows \cap units[n].rows = {}
        BY <2>10, <3>1, <4>1 DEF Kept, OpenApart
      <4>3. units'[i].rows = (IF i = n - 1 THEN units[i].rows \cup units[n].rows ELSE units[i].rows)
            /\ units'[j].rows = (IF j = n - 1 THEN units[j].rows \cup units[n].rows ELSE units[j].rows)
        BY <2>10, <4>1
      <4>4. ~(i = n - 1 /\ j = n - 1)
        BY <3>1
      <4>. QED  BY <4>2, <4>3, <4>4
    <3>2. ASSUME NEW i \in 1..Len(units')
          PROVE  units'[i].rows \cap (db' \cup denied') = {}
      <4>1. i \in 1..(n - 1)
        BY <2>7
      <4>2. units[i].rows \cap (db \cup denied) = {} /\ units[n].rows \cap (db \cup denied) = {}
        BY <2>10, <4>1 DEF Kept, OpenApart
      <4>3. units'[i].rows = (IF i = n - 1 THEN units[i].rows \cup units[n].rows ELSE units[i].rows)
        BY <2>10, <4>1
      <4>. QED  BY <2>4, <2>6, <4>2, <4>3
    <3>. QED  BY <3>1, <3>2 DEF OpenApart
  <2>. QED  BY <2>4, <2>6, <2>11, <2>12, <2>13 DEF Kept
<1>. QED  BY <1>2, <1>6, <1>7

\* The outermost of the dropped units takes its rollback along, unless it is
\* the one inside finish.
LEMMA CancelStep ==
    ASSUME Typed, Kept, NEW k \in 0..MaxDepth, NEW whole \in BOOLEAN, Cancel(k, whole), ~stray'
    PROVE  Kept'
<1> DEFINE n == Len(units)
<1>1. /\ units \in Seq(UnitSet) /\ n \in Nat /\ Len(levels) \in Nat /\ k \in 0..n /\ request # None
      /\ \A t \in tasks : t.base \in Nat
  BY Lengths DEF Cancel, Typed, TypeOK
<1>2. ~(finishing # "no" /\ k = n - 1)
  BY DEF Cancel
<1>3. units' = SubSeq(units, 1, k)
  BY DEF Cancel
<1>4. Len(units') = k /\ \A i \in 1..k : units'[i] = units[i]
  BY <1>1, <1>3, PrefixIs
<1>5. /\ broken' = broken /\ levels' = levels /\ aborted' = aborted
      /\ db' = db /\ promised' = promised
      /\ denied' = denied \cup UNION {units[i].rows : i \in (k + 1)..n}
      /\ tasks' = tasks \cup Dropped(k) \cup (IF whole /\ mode = "scope" THEN {ResetTask} ELSE {})
      /\ request' = (IF whole THEN None ELSE request)
      /\ whole => k = 0
  BY DEF Cancel, conn
<1>6. \A i \in 1..n : units[i].base = i - 1
  BY DEF Kept, Bases
<1>7. Bases' /\ Mirror'
  <2>1. \A i \in 1..Len(units') : i \in 1..n /\ units'[i] = units[i]
    BY <1>1, <1>4
  <2>2. Bases'
    BY <1>6, <2>1 DEF Bases
  <2>3. ASSUME ~broken PROVE k <= Len(levels) /\ \A i \in 1..n : levels[i].rows = units[i].rows
    BY <1>1, <2>3 DEF Kept, Mirror
  <2>4. Mirror'
    BY <1>4, <1>5, <2>1, <2>3 DEF Mirror
  <2>. QED  BY <2>2, <2>4
<1>8. request' = None => units' = <<>>
  BY <1>1, <1>3, <1>5, SubSeqEmpty
<1>9. request' # None => \A t \in tasks' : t.kind = "rollback" /\ t.base >= k
  <2>1. \A t \in Dropped(k) : t.kind = "rollback" /\ t.base >= k
    <3>1. \A i \in (k + 1)..n : i \in 1..n /\ i - 1 >= k
      BY <1>1
    <3>. QED  BY <1>6, <3>1 DEF Dropped, RollbackTask
  <2>2. \A t \in tasks : t.kind = "rollback" /\ t.base >= n
    BY <1>1 DEF Kept, Pending
  <2>. QED  BY <1>1, <1>5, <2>1, <2>2
<1>10. ASSUME ~broken, Len(levels) > k PROVE RollbackTask(k) \in tasks'
  <2>1. CASE k = n
    BY <1>5, <1>10, <2>1 DEF Kept, Pending
  <2>2. CASE k < n
    <3>1. k + 1 \in (k + 1)..n /\ k + 1 \in 1..n /\ ~(k + 1 = n /\ finishing # "no")
      BY <1>1, <1>2, <2>2
    <3>2. units[k + 1].base = k
      BY <1>1, <1>6, <3>1
    <3>3. RollbackTask(units[k + 1].base) \in Dropped(k)
      BY <3>1 DEF Dropped
    <3>. QED  BY <1>5, <3>2, <3>3
  <2>. QED  BY <1>1, <2>1, <2>2
<1>11. Pending'
  BY <1>4, <1>5, <1>8, <1>9, <1>10 DEF Pending
<1>12. AbortedIsOpen'
  BY <1>5 DEF Kept, AbortedIsOpen
<1>13. OpenApart'
  <2>1. ASSUME NEW i \in 1..Len(units')
        PROVE  units'[i].rows \cap (db' \cup denied') = {}
    <3>1. i \in 1..n /\ i \in 1..k /\ \A j \in (k + 1)..n : j \in 1..n /\ i # j
      BY <1>1, <1>4
    <3>2. units[i].rows \cap (db \cup denied) = {}
      BY <3>1 DEF Kept, OpenApart
    <3>3. \A j \in (k + 1)..n : units[i].rows \cap units[j].rows = {}
      BY <3>1 DEF Kept, OpenApart
    <3>. QED  BY <1>4, <1>5, <3>1, <3>2, <3>3
  <2>2. \A i \in 1..Len(units') : i \in 1..n /\ units'[i] = units[i]
    BY <1>1, <1>4
  <2>. QED  BY <2>1, <2>2 DEF Kept, OpenApart
<1>14. denied' \cap db' = {}
  <2>1. \A i \in (k + 1)..n : i \in 1..n
    BY <1>1
  <2>2. \A i \in (k + 1)..n : units[i].rows \cap db = {}
    BY <2>1 DEF Kept, OpenApart
  <2>. QED  BY <1>5, <2>2 DEF Kept
<1>. QED  BY <1>5, <1>7, <1>11, <1>12, <1>13, <1>14 DEF Kept

LEMMA RunRollbackStep == ASSUME Typed, Kept, NEW t \in tasks, RunRollback(t) PROVE Kept'
<1> DEFINE n == Len(units)
<1>1. t.kind = "rollback" /\ t.base \in Nat /\ t = RollbackTask(t.base) /\ TypeOK
  BY DEF RunRollback, Typed, TypeOK, RollbackTask
<1>2. n \in Nat /\ Len(levels) \in Nat /\ (levels = <<>> <=> Len(levels) = 0) /\ t.base >= n
  <2>1. request = None => n = 0
    BY Lengths DEF Kept, Pending
  <2>. QED  BY <1>1, <2>1, Lengths DEF Kept, Pending
<1>3. /\ request' = request /\ units' = units /\ broken' = broken
      /\ db' = db /\ promised' = promised /\ denied' = denied
      /\ tasks' = tasks \ {t} /\ RollbackTo(t.base)
  BY DEF RunRollback, answers
<1>4. Bases' /\ OpenApart'
  BY <1>3 DEF Kept, Bases, OpenApart
<1>5. request' = None => units' = <<>>
  BY <1>3 DEF Kept, Pending
<1>6. request' # None => \A u \in tasks' : u.kind = "rollback" /\ u.base >= Len(units')
  BY <1>3 DEF Kept, Pending
<1>7. ASSUME ~broken
      PROVE  /\ Len(levels') = (IF Len(levels) <= t.base THEN Len(levels) ELSE t.base)
             /\ \A i \in 1..Len(levels') : levels'[i] = levels[i]
             /\ aborted' = (IF Len(levels) <= t.base THEN aborted ELSE FALSE)
  BY <1>1, <1>3, <1>7, RollbackToIs
<1>8. Mirror'
  <2>. SUFFICES ASSUME ~broken PROVE Mirror'
    BY <1>3 DEF Mirror
  <2>1. n <= Len(levels) /\ \A i \in 1..n : levels[i].rows = units[i].rows
    BY DEF Kept, Mirror
  <2>2. n <= Len(levels')
    BY <1>1, <1>2, <1>7, <2>1
  <2>3. \A i \in 1..n : i \in 1..Len(levels')
    BY <1>1, <1>2, <1>7, <2>2
  <2>. QED  BY <1>3, <1>7, <2>1, <2>2, <2>3 DEF Mirror
<1>9. ASSUME ~broken, Len(levels') > n PROVE RollbackTask(n) \in tasks \ {t}
  <2>. DEFINE d == Len(levels')
  <2>0. d = (IF Len(levels) <= t.base THEN Len(levels) ELSE t.base) /\ d > n
    BY <1>7, <1>9
  <2>. HIDE DEF d
  <2>1. t.base > n /\ Len(levels) > n
    <3>1. CASE Len(levels) <= t.base
      BY <1>1, <1>2, <2>0, <3>1
    <3>2. CASE ~(Len(levels) <= t.base)
      BY <1>1, <1>2, <2>0, <3>2
    <3>. QED  BY <3>1, <3>2
  <2>2. RollbackTask(n) \in tasks
    BY <1>9, <2>1 DEF Kept, Pending
  <2>3. RollbackTask(n) # t
    BY <1>1, <1>2, <2>1 DEF RollbackTask
  <2>. QED  BY <2>2, <2>3
<1>10. Pending'
  BY <1>3, <1>5, <1>6, <1>9 DEF Pending
<1>11. AbortedIsOpen'
  <2>. SUFFICES ASSUME aborted', ~broken PROVE levels' # <<>>
    BY <1>3 DEF AbortedIsOpen
  <2>1. Len(levels) <= t.base /\ aborted
    BY <1>7
  <2>2. Len(levels') # 0
    BY <1>2, <1>7, <2>1 DEF Kept, AbortedIsOpen
  <2>. QED  BY <2>2, EmptySeq
<1>. QED  BY <1>3, <1>4, <1>8, <1>10, <1>11 DEF Kept

LEMMA RunResetStep == ASSUME Typed, Kept, NEW t \in tasks, RunReset(t) PROVE Kept'
<1>1. \A n : t # RollbackTask(n)
  BY DEF RunReset, RollbackTask
<1>2. request = None
  BY DEF RunReset, Kept, Pending
<1>3. /\ request' = request /\ units' = units /\ levels' = levels /\ aborted' = aborted
      /\ tasks' = tasks \ {t} /\ (~broken' => ~broken)
      /\ db' = db /\ promised' = promised /\ denied' = denied
  BY DEF RunReset, answers
<1>4. Bases' /\ Mirror' /\ OpenApart'
  BY <1>3 DEF Kept, Bases, Mirror, OpenApart
<1>5. Pending' /\ AbortedIsOpen'
  BY <1>1, <1>2, <1>3 DEF Kept, Pending, AbortedIsOpen
<1>. QED  BY <1>3, <1>4, <1>5 DEF Kept

LEMMA StrayStays == ASSUME [Next]_vars, stray PROVE stray'
BY DEF Next, vars, OpenScope, BeginOwn, Begin, Insert, StatementFails, ConnectionLost, WorkReturns,
       FinishOk, FinishErr, CloseScope, DropInReset, Cancel, RunRollback, RunReset, Overtakes

LEMMA InvStep == ASSUME IndInv, [Next]_vars PROVE IndInv'
<1>1. Typed'
  BY TypesStep DEF IndInv
<1>2. SUFFICES ASSUME ~stray' PROVE Kept'
  BY <1>1 DEF IndInv
<1>3. Typed /\ Kept
  BY <1>2, StrayStays DEF IndInv
<1>4. CASE UNCHANGED vars
  BY <1>3, <1>4 DEF vars, conn, answers, Kept, Bases, Mirror, Pending, AbortedIsOpen, OpenApart
<1>5. CASE Next
  BY <1>2, <1>3, <1>5, OpenScopeStep, BeginOwnStep, BeginStep, InsertStep, QuietStep, FinishOkStep,
     FinishErrStep, CancelStep, RunRollbackStep, RunResetStep DEF Next
<1>. QED  BY <1>4, <1>5

-----------------------------------------------------------------------------
(* IndInv is an invariant: until a unit is dropped alone inside finish or   *)
(* its rollback is overtaken, the units, levels and pending rollbacks agree *)
(* (in_write_tx, TxUnit, ScopeResetGuard).                                  *)
THEOREM Inductive == Spec => []IndInv
<1>1. Init => IndInv
  BY InitInv
<1>2. IndInv /\ [Next]_vars => IndInv'
  BY InvStep
<1>. QED  BY <1>1, <1>2, PTL DEF Spec

(* Every variable keeps its type, whatever was dropped (write_tx.rs,        *)
(* company_scope.rs).                                                       *)
THEOREM TypeCorrect == Spec => []TypeOK
<1>1. IndInv => TypeOK
  BY DEF IndInv, Typed
<1>. QED  BY <1>1, Inductive, PTL

(* The committed rows are exactly those of the writes that returned Ok, for *)
(* every depth of nesting, until a unit is dropped alone inside finish or   *)
(* its rollback is overtaken (finish, rollback_to).                         *)
THEOREM AnswersAreTrue == Spec => []AnswerIsTruth
<1>1. IndInv => AnswerIsTruth
  BY DEF IndInv, Kept, AnswerIsTruth
<1>. QED  BY <1>1, Inductive, PTL

(* Until then nothing of a unit that failed or was dropped is ever          *)
(* committed (in_write_tx and its savepoints).                              *)
THEOREM DeniedStaysOut == Spec => []DeniedIsUndone
<1>1. IndInv => DeniedIsUndone
  BY DEF IndInv, Kept, DeniedIsUndone
<1>. QED  BY <1>1, Inductive, PTL

(* Until then no transaction returns to the pool open: every unit dropped   *)
(* before finish, alone or with its request, is rolled back first (Drop for *)
(* TxUnit).                                                                 *)
THEOREM PoolNeverOpen == Spec => []RolledBackBeforePool
<1>1. ASSUME IndInv, ~stray, Pooled, ~broken PROVE levels = <<>>
  <2>1. units = <<>> /\ ~(Len(levels) > Len(units)) /\ Typed
    BY <1>1 DEF IndInv, Kept, Pending, Pooled
  <2>. QED  BY <2>1, Lengths
<1>2. IndInv => RolledBackBeforePool
  BY <1>1 DEF RolledBackBeforePool, NeverReturnsOpen
<1>. QED  BY <1>2, Inductive, PTL

(* A failed inner unit undoes its own level and those dropped inside it,    *)
(* and nothing else, and leaves the transaction around it usable            *)
(* (rollback_to).                                                           *)
THEOREM InnerFailuresContained == Spec => InnerFailureContained
<1>1. ASSUME IndInv, FinishErr, ~broken, ~stray
      PROVE  ~aborted' /\ levels' = SubSeq(levels, 1, Len(Outer))
  <2>1. finishing # "no" /\ Typed /\ Kept
    BY <1>1 DEF FinishErr, IndInv
  <2>2. Len(units) \in Nat \ {0} /\ Top = units[Len(units)] /\ Len(Outer) = Len(units) - 1
    BY <2>1, FinishingTypes
  <2>3. Top.base = Len(units) - 1 /\ Len(levels) >= Len(units) /\ Len(levels) \in Nat
    BY <1>1, <2>1, <2>2, Lengths DEF Kept, Bases, Mirror
  <2>4. RollbackTo(Top.base)
    BY <1>1 DEF FinishErr
  <2>. QED  BY <1>1, <2>2, <2>3, <2>4 DEF RollbackTo, Depth
<1>2. IndInv /\ [Next]_vars
        => [FinishErr /\ Outer # <<>> /\ ~broken /\ ~stray
              => ~aborted' /\ levels' = SubSeq(levels, 1, Len(Outer))]_vars
  BY <1>1
<1>. QED  BY <1>2, Inductive, PTL DEF Spec, InnerFailureContained

-----------------------------------------------------------------------------
(* The company a statement runs under.                                      *)

\* A live connection is bound to its request, and so is every level a
\* rollback may return to while the request goes on: the first level of a
\* transaction on a connection of its own is left only with the request.
Bound ==
    request # None /\ ~broken =>
        /\ company = request
        /\ mode = "own" => units # <<>>
        /\ \A i \in 1..Len(levels) : i > 1 \/ mode = "scope" => levels[i].company = request

LEMMA BoundAtDraw ==
    ASSUME Typed, Kept, NEW r \in Requests, OpenScope(r) \/ BeginOwn(r)
    PROVE  Bound'
<1>1. CASE OpenScope(r)
  <2>1. Drawn(r) /\ levels' = Left(levels, <<>>)
    BY <1>1 DEF OpenScope
  <2>2. levels' = <<>>
    BY <2>1, DrawnClosed
  <2>3. Len(levels') = 0
    BY <2>2, EmptySeq
  <2>. QED  BY <1>1, <2>3 DEF OpenScope, Drawn, Bound
<1>2. CASE BeginOwn(r)
  <2> DEFINE l == Level(Left(company, None))
  <2>1. Drawn(r)
    BY <1>2 DEF BeginOwn
  <2>2. levels' = Append(<<>>, l) /\ units' = <<Unit(0)>>
    <3>1. Left(levels, <<>>) = <<>>
      BY <2>1, DrawnClosed
    <3>. QED  BY <1>2, <3>1 DEF BeginOwn
  <2>. HIDE DEF l
  <2>3. Len(levels') = 1 /\ units' # <<>>
    BY <2>2
  <2>4. company' = r /\ request' = r /\ mode' = "own"
    BY <1>2 DEF BeginOwn, Drawn
  <2>. QED  BY <2>3, <2>4 DEF Bound
<1>. QED  BY <1>1, <1>2

LEMMA BoundAtBegin ==
    ASSUME Typed, Bound, Begin
    PROVE  Bound'
<1> DEFINE l == Level(company)
           u == Unit(Depth)
<1>1. /\ units \in Seq(UnitSet) /\ levels \in Seq(LevelSet) /\ company \in Requests \cup {None}
      /\ request # None /\ ~broken /\ Len(levels) \in Nat
  BY Lengths DEF Begin, Usable, Working, Typed, TypeOK
<1>2. levels' = Append(levels, l) /\ units' = Append(units, u)
  BY DEF Begin
<1>3. l \in LevelSet /\ l.company = company
  BY <1>1 DEF Level, LevelSet
<1>. HIDE DEF l, u
<1>4. /\ Len(levels') = Len(levels) + 1 /\ levels'[Len(levels) + 1] = l
      /\ \A i \in 1..Len(levels) : levels'[i] = levels[i]
  BY <1>1, <1>2, <1>3, AppendProperties
<1>5. units' # <<>>
  BY <1>1, <1>2
<1>6. request' = request /\ company' = company /\ mode' = mode /\ broken' = broken
  BY DEF Begin
<1>7. company = request
  BY <1>1 DEF Bound
<1>8. ASSUME NEW i \in 1..Len(levels'), i > 1 \/ mode = "scope" PROVE levels'[i].company = request
  <2>1. CASE i \in 1..Len(levels)
    BY <1>1, <1>4, <1>8, <2>1 DEF Bound
  <2>2. CASE i = Len(levels) + 1
    BY <1>3, <1>4, <1>7, <2>2
  <2>. QED  BY <1>1, <1>4, <2>1, <2>2
<1>. QED  BY <1>5, <1>6, <1>7, <1>8 DEF Bound

LEMMA BoundAtInsert ==
    ASSUME Typed, Bound, NEW row \in Rows, Insert(row)
    PROVE  Bound'
<1>1. /\ units \in Seq(UnitSet) /\ levels \in Seq(LevelSet) /\ {row} \in SUBSET Rows
  BY Lengths
<1>2. request' = request /\ company' = company /\ mode' = mode /\ broken' = broken
  BY DEF Insert
<1>3. units # <<>> => units' # <<>>
  <2>. SUFFICES ASSUME units # <<>> PROVE units' # <<>>
    OBVIOUS
  <2>1. Len(units') = Len(units) /\ units' \in Seq(UnitSet)
    BY <1>1, WithRowsUnits DEF Insert
  <2>. QED  BY <1>1, <2>1, EmptySeq
<1>4. Len(levels') = Len(levels) /\ \A i \in 1..Len(levels) : levels'[i].company = levels[i].company
  <2>1. CASE levels = <<>>
    BY <2>1 DEF Insert
  <2>2. CASE levels # <<>>
    BY <1>1, <2>2, WithRowsLevels DEF Insert
  <2>. QED  BY <2>1, <2>2
<1>. QED  BY <1>2, <1>3, <1>4 DEF Bound

\* A rollback to the units that stay, or deeper, returns to a level that
\* belongs to the request.
LEMMA BoundAfterRollback ==
    ASSUME Typed, Bound, NEW base \in Nat, RollbackTo(base), ~broken, request # None,
           mode = "own" => base > 0
    PROVE  /\ company' = request
           /\ \A i \in 1..Len(levels') : i > 1 \/ mode = "scope" => levels'[i].company = request
<1>1. TypeOK /\ Len(levels) \in Nat /\ mode \in {"own", "scope"}
  BY Lengths DEF Typed, TypeOK
<1>2. /\ Len(levels') = (IF Len(levels) <= base THEN Len(levels) ELSE base)
      /\ \A i \in 1..Len(levels') : levels'[i] = levels[i]
      /\ company' = (IF Len(levels) <= base THEN company ELSE levels[base + 1].company)
  BY <1>1, RollbackToIs
<1>3. /\ company = request
      /\ \A i \in 1..Len(levels) : i > 1 \/ mode = "scope" => levels[i].company = request
  BY DEF Bound
<1>4. company' = request
  <2>1. CASE Len(levels) <= base
    BY <1>2, <1>3, <2>1
  <2>2. CASE ~(Len(levels) <= base)
    <3>1. base + 1 \in 1..Len(levels) /\ (base + 1 > 1 \/ mode = "scope")
      BY <1>1, <2>2
    <3>. QED  BY <1>2, <1>3, <2>2, <3>1
  <2>. QED  BY <2>1, <2>2
<1>5. Len(levels') <= Len(levels) /\ Len(levels') \in Nat
  BY <1>1, <1>2
<1>6. \A i \in 1..Len(levels') : i \in 1..Len(levels)
  BY <1>1, <1>5
<1>. QED  BY <1>2, <1>3, <1>4, <1>6

LEMMA BoundAtFinishErr ==
    ASSUME Typed, Kept, Bound, FinishErr
    PROVE  Bound'
<1>. SUFFICES ASSUME request' # None, ~broken' PROVE Bound'
  BY DEF Bound
<1>1. finishing # "no" /\ broken' = broken /\ mode' = mode /\ RollbackTo(Top.base) /\ units' = Outer
      /\ request' = (IF mode = "own" /\ Outer = <<>> THEN None ELSE request)
  BY DEF FinishErr, UnitLeaves
<1>2. /\ Len(units) \in Nat \ {0} /\ request # None /\ Top = units[Len(units)]
      /\ Len(Outer) = Len(units) - 1 /\ Outer \in Seq(UnitSet) /\ Top.base \in Nat
  BY <1>1, FinishingTypes
<1>3. request' = request /\ (mode = "own" => Outer # <<>>)
  BY <1>1
<1>4. mode = "own" => Top.base > 0
  <2>1. mode = "own" => Len(Outer) # 0
    BY <1>2, <1>3, EmptySeq
  <2>2. Top.base = Len(units) - 1
    BY <1>2 DEF Kept, Bases
  <2>. QED  BY <1>2, <2>1, <2>2
<1>5. /\ company' = request
      /\ \A i \in 1..Len(levels') : i > 1 \/ mode = "scope" => levels'[i].company = request
  BY <1>1, <1>2, <1>4, BoundAfterRollback
<1>. QED  BY <1>1, <1>3, <1>5 DEF Bound

LEMMA BoundAtFinishOk ==
    ASSUME Typed, Kept, Bound, FinishOk, ~stray'
    PROVE  Bound'
<1>. SUFFICES ASSUME request' # None, ~broken' PROVE Bound'
  BY DEF Bound
<1> DEFINE n == Len(levels)
<1>1. finishing # "no" /\ broken' = broken /\ ~broken /\ mode' = mode /\ Committed /\ Overtakes
  BY DEF FinishOk, CommitAccepted, UnitLeaves
<1>2. /\ Len(units) \in Nat \ {0} /\ levels \in Seq(LevelSet) /\ request # None
      /\ Outer \in Seq(UnitSet) /\ Len(Outer) = Len(units) - 1
      /\ Top \in UnitSet /\ Top.rows \in SUBSET Rows
  BY <1>1, FinishingTypes
<1>3. n = Len(units) /\ n \in 1..n
  BY <1>1, <1>2, Undisturbed
<1>4. /\ company = request /\ mode \in {"own", "scope"}
      /\ \A i \in 1..n : i > 1 \/ mode = "scope" => levels[i].company = request
  BY <1>1, <1>2 DEF Bound, Typed, TypeOK
<1>5. CASE n = 1
  <2>1. Outer = <<>>
    BY <1>2, <1>3, <1>5, EmptySeq
  <2>2. request' = request /\ mode = "scope"
    BY <1>4, <2>1 DEF FinishOk, UnitLeaves
  <2>3. levels' = <<>> /\ company' \in {company, levels[n].company}
    BY <1>1, <1>5 DEF Committed, Depth
  <2>4. company' = request
    BY <1>3, <1>4, <2>2, <2>3
  <2>5. Len(levels') = 0
    BY <2>3, EmptySeq
  <2>. QED  BY <1>1, <2>2, <2>4, <2>5 DEF Bound
<1>6. CASE n > 1
  <2> DEFINE out == SubSeq(levels, 1, n - 1)
             R == levels[n].rows
  <2>1. Outer # <<>>
    BY <1>2, <1>3, <1>6, EmptySeq
  <2>2. request' = request /\ units' = WithRows(Outer, Top.rows)
    BY <2>1 DEF FinishOk, UnitLeaves
  <2>3. units' # <<>>
    <3>1. units' \in Seq(UnitSet) /\ Len(units') = Len(Outer)
      BY <1>2, <2>1, <2>2, WithRowsUnits
    <3>. QED  BY <1>2, <1>3, <1>6, <3>1, EmptySeq
  <2>4. levels' = WithRows(out, R) /\ company' = company
    BY <1>1, <1>2, <1>3, <1>6 DEF Committed, Depth
  <2>5. n - 1 \in 0..n /\ R \in SUBSET Rows
    <3>1. levels[n] \in LevelSet
      BY <1>2, <1>3, ElementOfSeq
    <3>. QED  BY <1>2, <1>3, <3>1 DEF LevelSet
  <2>6. out \in Seq(LevelSet) /\ Len(out) = n - 1 /\ \A i \in 1..(n - 1) : out[i] = levels[i]
    BY <1>2, <2>5, PrefixIs
  <2>. HIDE DEF out, R
  <2>7. out # <<>>
    BY <1>2, <1>3, <1>6, <2>6, EmptySeq
  <2>8. Len(levels') = n - 1 /\ \A i \in 1..(n - 1) : levels'[i].company = out[i].company
    BY <2>4, <2>5, <2>6, <2>7, WithRowsLevels
  <2>9. \A i \in 1..Len(levels') : i > 1 \/ mode = "scope" => levels'[i].company = request
    <3>1. \A i \in 1..Len(levels') : i \in 1..(n - 1) /\ i \in 1..n
      BY <1>2, <1>3, <2>8
    <3>2. \A i \in 1..(n - 1) : levels'[i].company = levels[i].company
      BY <2>6, <2>8
    <3>. QED  BY <1>4, <3>1, <3>2
  <2>. QED  BY <1>1, <1>4, <2>2, <2>3, <2>4, <2>9 DEF Bound
<1>. QED  BY <1>2, <1>3, <1>5, <1>6

LEMMA BoundAtRollback ==
    ASSUME Typed, Kept, Bound, NEW t \in tasks, RunRollback(t)
    PROVE  Bound'
<1>. SUFFICES ASSUME request # None, ~broken PROVE Bound'
  BY DEF Bound, RunRollback
<1>1. t.base \in Nat /\ t.base >= Len(units) /\ RollbackTo(t.base)
  BY DEF RunRollback, Kept, Pending, Typed, TypeOK
<1>2. mode = "own" => units # <<>>
  BY DEF Bound
<1>3. mode = "own" => t.base > 0
  BY <1>1, <1>2, Lengths
<1>4. /\ company' = request
      /\ \A i \in 1..Len(levels') : i > 1 \/ mode = "scope" => levels'[i].company = request
  BY <1>1, <1>3, BoundAfterRollback
<1>. QED  BY <1>2, <1>4 DEF RunRollback, Bound

LEMMA BoundStep ==
    ASSUME Typed, Kept, Bound, [Next]_vars, ~stray'
    PROVE  Bound'
<1>1. CASE UNCHANGED vars
  BY <1>1 DEF vars, conn, Bound
<1>2. CASE StatementFails \/ ConnectionLost \/ WorkReturns
  BY <1>2 DEF StatementFails, ConnectionLost, WorkReturns, conn, Bound
<1>3. CASE CloseScope \/ DropInReset
  BY <1>3 DEF CloseScope, DropInReset, Bound
<1>4. ASSUME NEW k \in 0..MaxDepth, NEW whole \in BOOLEAN, Cancel(k, whole) PROVE Bound'
  <2>. SUFFICES ASSUME ~whole PROVE Bound'
    BY <1>4 DEF Cancel, Bound
  <2>1. /\ k \in 0..Len(units) /\ units' = SubSeq(units, 1, k) /\ (mode = "own" => k > 0)
        /\ request' = request /\ broken' = broken /\ mode' = mode
        /\ levels' = levels /\ company' = company
    BY <1>4 DEF Cancel, conn
  <2>2. Len(units') = k
    BY <2>1, Lengths, PrefixIs
  <2>3. mode = "own" => units' # <<>>
    BY <2>1, <2>2, EmptySeq
  <2>. QED  BY <2>1, <2>3 DEF Bound
<1>5. ASSUME NEW t \in tasks, RunReset(t) PROVE Bound'
  BY <1>5 DEF RunReset, Kept, Pending, Bound
<1>. QED  BY <1>1, <1>2, <1>3, <1>4, <1>5, BoundAtDraw, BoundAtBegin, BoundAtInsert,
             BoundAtFinishErr, BoundAtFinishOk, BoundAtRollback DEF Next

(* A statement runs under the company of its own request, whoever had the   *)
(* connection before, however deep it is nested and whatever was rolled     *)
(* back on it, until a unit is dropped alone inside finish or its rollback  *)
(* is overtaken (with_request_scope, bind_task_scope, rollback_to).         *)
THEOREM StatementsAreScoped == Spec => []OwnCompany
<1> DEFINE B == stray \/ Bound
<1>1. Init => B
  BY DEF Init, Bound
<1>2. IndInv /\ B /\ [Next]_vars => B'
  <2>. SUFFICES ASSUME IndInv, B, [Next]_vars, ~stray' PROVE Bound'
    OBVIOUS
  <2>1. Typed /\ Kept /\ Bound
    BY StrayStays DEF IndInv
  <2>. QED  BY <2>1, BoundStep
<1>3. B => OwnCompany
  BY DEF Bound, OwnCompany, Usable, Working
<1>. HIDE DEF B
<1>. QED  BY <1>1, <1>2, <1>3, Inductive, PTL DEF Spec
=============================================================================
