---------------------------- MODULE CkSyncProofs ----------------------------
(* Proofs about CkSync: IInv is inductive, so that for any number of tasks,  *)
(* rows, changes, resets and failures no id is left twice after its          *)
(* deduplication, and a round nothing disturbs ends with every upstream row  *)
(* once in the copy, the newer ones as MySQL has them.                       *)
EXTENDS CkSync, NumberLemmas

\* The table starts empty and only rows are added, one at a time.
CopiesFinite == IsFiniteSet(Ids) /\ IsFiniteSet(Upstream)

\* No id is in a copy twice.
Merged(copy) == \A k \in Key : Len(copy[k]) <= 1

\* What a round nothing has disturbed since its query has done to the copy so far.
Round == {"insertNew", "insertMissing", "dedup1", "requery", "delete", "patch", "dedup2",
          "unlocking"}
NoneMissing == \A k \in Upstream : ck[k] # <<>>
AllSingle   == \A k \in Upstream : Len(ck[k]) = 1
Deleted(c)  == \A k \in Upstream : IF k \in Changed(xid[c]) THEN ck[k] = <<>> ELSE Len(ck[k]) = 1
Replaced(c) == \A k \in Changed(xid[c]) : ck[k] = <<src[k]>>
Progress(c) ==
    /\ pc[c] = "dedup1" => NoneMissing
    /\ pc[c] \in {"requery", "delete"} => AllSingle
    /\ pc[c] = "patch" => Deleted(c)
    /\ pc[c] \in {"dedup2", "unlocking"} => AllSingle /\ Replaced(c)
RoundSound(c) == calm[c] => pc[c] \in Round /\ table /\ xidCk /\ (xidMy => Progress(c))

IInv == TypeOK /\ CopiesFinite /\ NoDuplicatesAtRest /\ \A c \in Caller : RoundSound(c)

USE TaskAssumption, KeyAssumption, BoundAssumption, RowAssumption

-----------------------------------------------------------------------------
(* Lemmas about the operators.                                               *)

\* A set of stamps has a greatest element.
LEMMA MaxOfStamps ==
    ASSUME NEW S \in SUBSET (0..MaxStamp), S # {}
    PROVE  Max(S) \in S /\ \A n \in S : n <= Max(S)
<1>1. IsFiniteSet(0..MaxStamp)
  BY FS_Interval
<1>2. IsFiniteSet(S)
  BY <1>1, FS_Subset
<1>3. S \in SUBSET Nat
  OBVIOUS
<1> QED BY <1>2, <1>3, MaxOfNaturals

\* The maximum that the second and the fourth step put into their statements.
LEMMA MaximaTyped ==
    ASSUME TypeOK, CopiesFinite
    PROVE  MaxOf(Ids) \in Key \cup {0} /\ MaxXid \in 0..MaxStamp
<1>1. Ids # {} => Max(Ids) \in Ids
  BY MaxOfNaturals DEF Ids, CopiesFinite
<1>2. Stamps \in SUBSET (0..MaxStamp)
  <2> SUFFICES ASSUME NEW n \in Stamps PROVE n \in 0..MaxStamp
    OBVIOUS
  <2>1. PICK k \in Key : \E r \in Range(ck[k]) : n = r.x
    BY DEF Stamps
  <2>2. PICK i \in DOMAIN ck[k] : n = ck[k][i].x
    BY <2>1 DEF Range
  <2>3. ck[k][i] \in Row
    BY <2>2 DEF TypeOK, CopyTyped
  <2> QED BY <2>2, <2>3 DEF Row
<1>3. Stamps # {} => Max(Stamps) \in Stamps
  BY <1>2, MaxOfStamps
<1>4. MaxOf(Ids) \in Key \cup {0}
  BY <1>1 DEF MaxOf, Ids
<1>5. MaxXid \in 0..MaxStamp
  <2>1. MaxStamp \in 0..MaxStamp
    OBVIOUS
  <2>2. Stamps # {} => Max(Stamps) \in 0..MaxStamp
    BY <1>2, <1>3
  <2> QED BY <2>1, <2>2 DEF MaxXid
<1> QED BY <1>4, <1>5

\* OPTIMIZE leaves one row of each id it finds, the one inserted last, and an id that
\* is there once alone.
LEMMA DedupMerges ==
    ASSUME NEW copy \in [Key -> Seq(Row)]
    PROVE  /\ Dedup(copy) \in [Key -> Seq(Row)] /\ Merged(Dedup(copy))
           /\ \A k \in Key : copy[k] = <<>> => Dedup(copy)[k] = <<>>
           /\ \A k \in Key : copy[k] # <<>> => Len(Dedup(copy)[k]) = 1
           /\ \A k \in Key : Len(copy[k]) = 1 => Dedup(copy)[k] = copy[k]
<1> SUFFICES ASSUME NEW k \in Key
             PROVE  /\ Dedup(copy)[k] \in Seq(Row) /\ Len(Dedup(copy)[k]) <= 1
                    /\ copy[k] = <<>> => Dedup(copy)[k] = <<>>
                    /\ copy[k] # <<>> => Len(Dedup(copy)[k]) = 1
                    /\ Len(copy[k]) = 1 => Dedup(copy)[k] = copy[k]
  BY DEF Dedup, Merged
<1>1. CASE copy[k] = <<>>
  BY <1>1 DEF Dedup
<1>2. CASE copy[k] # <<>>
  <2>1. copy[k] \in Seq(Row) /\ Len(copy[k]) \in 1..Len(copy[k])
    BY <1>2
  <2>2. copy[k][Len(copy[k])] \in Row
    BY <2>1
  <2>3. Dedup(copy)[k] = <<copy[k][Len(copy[k])]>>
    BY <1>2 DEF Dedup
  <2> QED BY <1>2, <2>1, <2>2, <2>3
<1> QED BY <1>1, <1>2

\* What an insertion may put into the copy is typed; its ids were there or upstream.
LEMMA AddedTyped ==
    ASSUME TypeOK, NEW rows \in SUBSET Upstream
    PROVE  /\ Added(rows) \in [Key -> Seq(Row)]
           /\ \A k \in Key : Added(rows)[k] # <<>> => k \in Ids \cup Upstream
<1>1. ASSUME NEW k \in Key, k \in rows PROVE src[k] \in Row
  BY <1>1 DEF TypeOK, Upstream
<1>2. ASSUME NEW k \in Key PROVE Added(rows)[k] \in Seq(Row)
  BY <1>1, <1>2 DEF TypeOK, CopyTyped, Added
<1>3. Added(rows) = [k \in Key |-> Added(rows)[k]]
  BY DEF Added
<1>4. \A k \in Key : Added(rows)[k] # <<>> => k \in Ids \cup Upstream
  BY DEF Ids, Added
<1> QED BY <1>2, <1>3, <1>4

-----------------------------------------------------------------------------
(* The invariant.                                                            *)

\* The initial state satisfies the invariant.
LEMMA InitInvariant == Init => IInv
<1> SUFFICES ASSUME Init PROVE IInv
  OBVIOUS
<1>1. TypeOK
  BY DEF Init, TypeOK, CopyTyped, Empty, Pc
<1>2. Ids = {} /\ Upstream = {}
  BY DEF Init, Ids, Upstream, Empty
<1>3. CopiesFinite
  BY <1>2, FS_EmptySet DEF CopiesFinite
<1>4. NoDuplicatesAtRest
  BY DEF Init, NoDuplicatesAtRest, Empty
<1>5. \A c \in Caller : RoundSound(c)
  BY DEF Init, RoundSound
<1> QED BY <1>1, <1>3, <1>4, <1>5 DEF IInv

\* Whatever is inserted, merged or deleted, the copy's rows are rows.
LEMMA CopyStep ==
    ASSUME TypeOK, [Next]_vars
    PROVE  CopyTyped'
<1>0. CopyTyped
  BY DEF TypeOK
<1>1. ASSUME ck' = ck PROVE CopyTyped'
  BY <1>0, <1>1 DEF CopyTyped
<1>2. CASE \/ \E k \in Key : RowInserted(k) \/ RowChanged(k)
           \/ OperatorResets \/ LeaseExpires \/ DdlDrop \/ DdlAdd \/ UNCHANGED vars
  BY <1>1, <1>2 DEF RowInserted, RowChanged, OperatorResets, LeaseExpires, DdlDrop, DdlAdd,
     vars, click
<1>3. ASSUME NEW c \in Caller, Step(c) PROVE CopyTyped'
  <2>1. CASE Begin(c) \/ Lock(c) \/ LockFails(c) \/ ReadRecord(c) \/ InsertRecord(c)
             \/ Alter(c) \/ ClearFlag(c) \/ Query(c) \/ Requery(c) \/ Unlock(c)
    BY <2>1, <1>1 DEF Begin, Lock, LockFails, ReadRecord, InsertRecord, Alter, ClearFlag,
       Query, Requery, Unlock, click
  <2>2. CASE DropTable(c)
    <3>1. Empty \in [Key -> Seq(Row)]
      BY DEF Empty
    <3> QED BY <2>2, <3>1, <1>1 DEF DropTable, CopyTyped
  <2>3. CASE CreateTable(c)
    <3>1. [k \in Key |-> IF k \in Upstream THEN <<src[k]>> ELSE <<>>] \in [Key -> Seq(Row)]
      BY DEF Upstream, TypeOK
    <3> QED BY <2>3, <3>1, <1>1 DEF CreateTable, click, CopyTyped
  <2>4. ASSUME NEW here, NEW there, Optimize(c, here, there) PROVE CopyTyped'
    BY <2>4, <1>0, <1>1, DedupMerges DEF Optimize, CopyTyped
  <2>5. ASSUME NEW here, NEW there, NEW rows \in SUBSET Upstream, Insert(c, here, rows, there)
        PROVE  CopyTyped'
    BY <2>5, <1>1, AddedTyped DEF Insert, CopyTyped
  <2>6. CASE Delete(c)
    <3>1. [k \in Key |-> IF k \in Changed(xid[c]) THEN <<>> ELSE ck[k]] \in [Key -> Seq(Row)]
      BY <1>0 DEF CopyTyped
    <3> QED BY <2>6, <3>1, <1>1 DEF Delete, CopyTyped
  <2>7. CASE Dedup0(c) \/ Dedup1(c) \/ Dedup2(c)
    BY <2>7, <2>4 DEF Dedup0, Dedup1, Dedup2
  <2>8. CASE InsertNew(c) \/ InsertMissing(c) \/ Patch(c)
    BY <2>8, <2>5 DEF InsertNew, InsertMissing, Patch, Missing, Changed
  <2> QED BY <1>3, <2>1, <2>2, <2>3, <2>6, <2>7, <2>8 DEF Step
<1> QED BY <1>2, <1>3 DEF Next

\* What the environment does keeps the types.
LEMMA TypeEnvironment ==
    ASSUME TypeOK, CopyTyped',
           \/ \E k \in Key : RowInserted(k) \/ RowChanged(k)
           \/ OperatorResets \/ LeaseExpires \/ DdlDrop \/ DdlAdd
    PROVE  TypeOK'
<1> USE DEF TypeOK, Disturbed
<1>1. ASSUME NEW k \in Key, RowInserted(k) PROVE TypeOK'
  <2>1. [v |-> 0, x |-> 0] \in Row
    BY DEF Row
  <2> QED BY <1>1, <2>1 DEF RowInserted, click, local
<1>2. ASSUME NEW k \in Key, RowChanged(k) PROVE TypeOK'
  <2>1. stamp' \in 0..MaxStamp
    BY <1>2 DEF RowChanged
  <2>2. [v |-> stamp', x |-> IF xidMy THEN stamp' ELSE 0] \in Row
    BY <2>1 DEF Row
  <2> QED BY <1>2, <2>1, <2>2 DEF RowChanged, click, local
<1>3. CASE OperatorResets
  BY <1>3 DEF OperatorResets, click, local
<1>4. CASE LeaseExpires
  BY <1>4 DEF LeaseExpires, mysql, click, local
<1>5. CASE DdlDrop
  <2>1. \A k \in Key : src[k] # None => [src[k] EXCEPT !.x = 0] \in Row
    BY DEF Row
  <2> QED BY <1>5, <2>1 DEF DdlDrop, click, local
<1>6. CASE DdlAdd
  BY <1>6 DEF DdlAdd, click, local
<1> QED BY <1>1, <1>2, <1>3, <1>4, <1>5, <1>6

\* Every statement of a task keeps the types.
LEMMA TypeTask ==
    ASSUME TypeOK, CopiesFinite, CopyTyped', NEW c \in Caller, Step(c)
    PROVE  TypeOK'
<1> USE DEF TypeOK, Pc, Goto, Executed, Failed
<1>0. Moves(c) => calm' \in [Caller -> BOOLEAN]
  BY DEF Moves, Disturbed, DisturbedBy
<1>1. CASE Begin(c)
  BY <1>1 DEF Begin, mysql, click, local
<1>2. CASE Lock(c)
  BY <1>2 DEF Lock, mysql, click, local
<1>3. CASE LockFails(c)
  BY <1>3 DEF LockFails, mysql, click, local
<1>4. CASE ReadRecord(c)
  BY <1>4 DEF ReadRecord, mysql, click, local
<1>5. CASE InsertRecord(c)
  BY <1>5 DEF InsertRecord, click, local
<1>6. CASE Alter(c)
  BY <1>6 DEF Alter, mysql, click, local
<1>7. CASE ClearFlag(c)
  BY <1>7 DEF ClearFlag, click, local
<1>8. CASE DropTable(c)
  <2>1. calm' \in [Caller -> BOOLEAN]
    BY <1>8, <1>0 DEF DropTable
  <2>2. pc' \in [Caller -> Pc] /\ faults' \in 0..MaxFaults
    BY <1>8 DEF DropTable
  <2>3. table' \in BOOLEAN
    BY <1>8 DEF DropTable
  <2> QED BY <1>8, <2>1, <2>2, <2>3 DEF DropTable, mysql, local
<1>9. CASE CreateTable(c)
  <2>1. pc' \in [Caller -> Pc] /\ faults' \in 0..MaxFaults
    BY <1>9 DEF CreateTable
  <2>2. calm' \in [Caller -> BOOLEAN]
    BY <1>9, <1>0 DEF CreateTable
  <2>3. table' \in BOOLEAN /\ xidCk' \in BOOLEAN
    BY <1>9 DEF CreateTable, click
  <2> QED BY <1>9, <2>1, <2>2, <2>3 DEF CreateTable, mysql, local
<1>10. ASSUME NEW here \in Pc, NEW there \in Pc, Optimize(c, here, there) PROVE TypeOK'
  <2>1. calm' \in [Caller -> BOOLEAN]
    BY <1>10, <1>0 DEF Optimize
  <2>2. pc' \in [Caller -> Pc] /\ faults' \in 0..MaxFaults
    BY <1>10 DEF Optimize
  <2> QED BY <1>10, <2>1, <2>2 DEF Optimize, mysql, local
<1>11. CASE Query(c)
  <2>1. pc' \in [Caller -> Pc] /\ faults' \in 0..MaxFaults
    BY <1>11 DEF Query
  <2>2. calm' \in [Caller -> BOOLEAN] /\ ddl' \in SUBSET {"drop", "add"}
    BY <1>11 DEF Query
  <2>3. id' \in [Caller -> Key \cup {0}]
    BY <1>11, MaximaTyped DEF Query
  <2> QED BY <1>11, <2>1, <2>2, <2>3 DEF Query, click
<1>12. ASSUME NEW here \in Pc, NEW there \in Pc, NEW rows \in SUBSET Upstream,
              Insert(c, here, rows, there)
       PROVE  TypeOK'
  <2>1. calm' \in [Caller -> BOOLEAN]
    BY <1>12, <1>0 DEF Insert
  <2>2. pc' \in [Caller -> Pc] /\ faults' \in 0..MaxFaults
    BY <1>12 DEF Insert
  <2> QED BY <1>12, <2>1, <2>2 DEF Insert, mysql, local
<1>13. CASE Requery(c)
  <2>1. calm' \in [Caller -> BOOLEAN]
    BY <1>13, <1>0 DEF Requery
  <2>2. pc' \in [Caller -> Pc] /\ faults' \in 0..MaxFaults
    BY <1>13 DEF Requery
  <2>3. xid' \in [Caller -> 0..MaxStamp]
    BY <1>13, MaximaTyped DEF Requery
  <2> QED BY <1>13, <2>1, <2>2, <2>3 DEF Requery, mysql, click
<1>14. CASE Delete(c)
  <2>1. calm' \in [Caller -> BOOLEAN]
    BY <1>14, <1>0 DEF Delete
  <2>2. pc' \in [Caller -> Pc] /\ faults' \in 0..MaxFaults
    BY <1>14 DEF Delete
  <2> QED BY <1>14, <2>1, <2>2 DEF Delete, mysql, local
<1>15. CASE Unlock(c)
  BY <1>15 DEF Unlock, mysql, click
<1>16. CASE Dedup0(c) \/ Dedup1(c) \/ Dedup2(c)
  BY <1>16, <1>10 DEF Dedup0, Dedup1, Dedup2
<1>17. CASE InsertNew(c) \/ InsertMissing(c) \/ Patch(c)
  BY <1>17, <1>12 DEF InsertNew, InsertMissing, Patch, Missing, Changed
<1> QED BY <1>1, <1>2, <1>3, <1>4, <1>5, <1>6, <1>7, <1>8, <1>9, <1>11, <1>13, <1>14,
           <1>15, <1>16, <1>17 DEF Step

\* Every action keeps the types.
LEMMA TypeStep == IInv /\ [Next]_vars => TypeOK'
<1> SUFFICES ASSUME TypeOK, CopiesFinite, [Next]_vars PROVE TypeOK'
  BY DEF IInv
<1>1. CASE UNCHANGED vars
  BY <1>1, CopyStep DEF vars, mysql, click, local, TypeOK
<1> QED BY <1>1, CopyStep, TypeEnvironment, TypeTask DEF Next

\* Every action keeps the ids on both sides finite: only RowInserted brings a new one.
LEMMA FiniteStep == IInv /\ [Next]_vars => CopiesFinite'
<1> SUFFICES ASSUME TypeOK, CopiesFinite, [Next]_vars PROVE CopiesFinite'
  BY DEF IInv
<1>1. ASSUME ck' = ck, src' = src PROVE CopiesFinite'
  BY <1>1 DEF CopiesFinite, Ids, Upstream
<1>2. ASSUME Ids' \subseteq Ids \cup Upstream, src' = src PROVE CopiesFinite'
  <2>1. IsFiniteSet(Ids \cup Upstream)
    BY FS_Union DEF CopiesFinite
  <2>2. IsFiniteSet(Ids')
    BY <1>2, <2>1, FS_Subset
  <2> QED BY <1>2, <2>2 DEF CopiesFinite, Upstream
<1>3. ASSUME NEW k \in Key, RowInserted(k) PROVE CopiesFinite'
  <2>1. [v |-> 0, x |-> 0] \in Row
    BY DEF Row
  <2>2. src'[k] # None /\ \A j \in Key \ {k} : src'[j] = src[j]
    BY <1>3, <2>1 DEF RowInserted, TypeOK
  <2>3. Ids' = Ids /\ Upstream' = Upstream \cup {k}
    BY <1>3, <2>2 DEF RowInserted, click, Ids, Upstream
  <2> QED BY <2>3, FS_AddElement DEF CopiesFinite
<1>4. ASSUME NEW k \in Key, RowChanged(k) PROVE CopiesFinite'
  <2>1. [v |-> stamp', x |-> IF xidMy THEN stamp' ELSE 0] \in Row
    BY <1>4 DEF RowChanged, TypeOK, Row
  <2>2. src'[k] # None /\ \A j \in Key \ {k} : src'[j] = src[j]
    BY <1>4, <2>1 DEF RowChanged, TypeOK
  <2>3. Ids' = Ids /\ Upstream' = Upstream
    BY <1>4, <2>2 DEF RowChanged, click, Ids, Upstream
  <2> QED BY <2>3 DEF CopiesFinite
<1>5. CASE DdlDrop
  <2>1. \A k \in Key : src[k] # None => [src[k] EXCEPT !.x = 0] \in Row
    BY DEF Row, TypeOK
  <2>2. Ids' = Ids /\ Upstream' = Upstream
    BY <1>5, <2>1 DEF DdlDrop, click, Ids, Upstream, TypeOK
  <2> QED BY <2>2 DEF CopiesFinite
<1>6. CASE OperatorResets \/ LeaseExpires \/ DdlAdd \/ UNCHANGED vars
  BY <1>6, <1>1 DEF OperatorResets, LeaseExpires, DdlAdd, vars, mysql, click
<1>7. ASSUME NEW c \in Caller, Step(c) PROVE CopiesFinite'
  <2>1. CASE Begin(c) \/ Lock(c) \/ LockFails(c) \/ ReadRecord(c) \/ InsertRecord(c)
             \/ Alter(c) \/ ClearFlag(c) \/ Query(c) \/ Requery(c) \/ Unlock(c)
    BY <2>1, <1>1 DEF Begin, Lock, LockFails, ReadRecord, InsertRecord, Alter, ClearFlag,
       Query, Requery, Unlock, mysql, click
  <2>2. CASE DropTable(c)
    BY <2>2, <1>2 DEF DropTable, Empty, mysql, Ids
  <2>3. CASE CreateTable(c)
    BY <2>3, <1>2 DEF CreateTable, mysql, click, Ids, Upstream
  <2>4. ASSUME NEW here, NEW there, Optimize(c, here, there) PROVE CopiesFinite'
    <3>1. \A k \in Key : ck[k] = <<>> => ck'[k] = <<>>
      BY <2>4, DedupMerges DEF Optimize, TypeOK, CopyTyped
    <3> QED BY <2>4, <3>1, <1>2 DEF Optimize, mysql, Ids
  <2>5. ASSUME NEW here, NEW there, NEW rows \in SUBSET Upstream, Insert(c, here, rows, there)
        PROVE  CopiesFinite'
    <3>1. \A k \in Key : ck'[k] # <<>> => k \in Ids \cup Upstream
      BY <2>5, AddedTyped DEF Insert, Ids
    <3> QED BY <2>5, <3>1, <1>2 DEF Insert, mysql, Ids
  <2>6. CASE Delete(c)
    BY <2>6, <1>2 DEF Delete, mysql, Ids
  <2>7. CASE Dedup0(c) \/ Dedup1(c) \/ Dedup2(c)
    BY <2>7, <2>4 DEF Dedup0, Dedup1, Dedup2
  <2>8. CASE InsertNew(c) \/ InsertMissing(c) \/ Patch(c)
    BY <2>8, <2>5 DEF InsertNew, InsertMissing, Patch, Missing, Changed
  <2> QED BY <1>7, <2>1, <2>2, <2>3, <2>6, <2>7, <2>8 DEF Step
<1> QED BY <1>3, <1>4, <1>5, <1>6, <1>7 DEF Next

\* No action leaves an id twice at rest: an insertion is followed by a
\* deduplication, and between the two its task is not at rest.
LEMMA MergedStep == IInv /\ [Next]_vars => NoDuplicatesAtRest'
<1> SUFFICES ASSUME TypeOK, NoDuplicatesAtRest, [Next]_vars, faults' = 0,
                    \A c \in Caller : pc'[c] \notin Unmerged
             PROVE  Merged(ck')
  BY DEF IInv, NoDuplicatesAtRest, Merged
<1> USE DEF Goto, Executed, Failed
<1>1. ASSUME ck' = ck, faults' = faults, \A c \in Caller : pc[c] \notin Unmerged
      PROVE  Merged(ck')
  BY <1>1 DEF NoDuplicatesAtRest, Merged
<1>2. CASE UNCHANGED <<ck, pc, faults>>
  BY <1>1, <1>2
<1>3. CASE \/ \E k \in Key : RowInserted(k) \/ RowChanged(k)
           \/ OperatorResets \/ LeaseExpires \/ DdlDrop \/ DdlAdd \/ UNCHANGED vars
  BY <1>2, <1>3 DEF RowInserted, RowChanged, OperatorResets, LeaseExpires, DdlDrop, DdlAdd,
     vars, click
<1>4. ASSUME NEW c \in Caller, Step(c) PROVE Merged(ck')
  <2>1. ~Failed
    BY DEF TypeOK
  <2>2. ASSUME pc[c] \notin Unmerged, \A d \in Caller \ {c} : pc'[d] = pc[d], faults' = faults
        PROVE  Merged(ck)
    BY <2>2 DEF NoDuplicatesAtRest, Merged
  <2>3. CASE Begin(c) \/ Lock(c) \/ LockFails(c) \/ Unlock(c)
    <3>1. ck' = ck /\ faults' = faults /\ pc[c] \notin Unmerged
      BY <2>3 DEF Begin, Lock, LockFails, Unlock, click, Unmerged
    <3>2. \A d \in Caller \ {c} : pc'[d] = pc[d]
      BY <2>3 DEF Begin, Lock, LockFails, Unlock, TypeOK
    <3> QED BY <3>1, <3>2, <2>2
  <2>4. CASE ReadRecord(c) \/ InsertRecord(c) \/ Alter(c) \/ ClearFlag(c) \/ Query(c)
             \/ Requery(c)
    <3>1. ck' = ck /\ faults' = faults /\ pc[c] \notin Unmerged
      BY <2>1, <2>4 DEF ReadRecord, InsertRecord, Alter, ClearFlag, Query, Requery, click,
         Unmerged
    <3>2. \A d \in Caller \ {c} : pc'[d] = pc[d]
      BY <2>4 DEF ReadRecord, InsertRecord, Alter, ClearFlag, Query, Requery, TypeOK
    <3> QED BY <3>1, <3>2, <2>2
  <2>5. CASE DropTable(c)
    BY <2>1, <2>5 DEF DropTable, Empty, Merged
  <2>6. CASE CreateTable(c)
    <3>1. pc[c] \notin Unmerged /\ \A d \in Caller \ {c} : pc'[d] = pc[d]
      BY <2>6 DEF CreateTable, TypeOK, Unmerged
    <3>2. CASE UNCHANGED click
      BY <2>1, <2>2, <2>6, <3>1, <3>2 DEF CreateTable, click
    <3>3. CASE ck' = [k \in Key |-> IF k \in Upstream THEN <<src[k]>> ELSE <<>>]
      BY <3>3 DEF Merged
    <3> QED BY <2>6, <3>2, <3>3 DEF CreateTable
  <2>7. CASE Dedup0(c) \/ Dedup1(c) \/ Dedup2(c)
    BY <2>1, <2>7, DedupMerges DEF Dedup0, Dedup1, Dedup2, Optimize, TypeOK, CopyTyped
  <2>8. CASE InsertNew(c) \/ InsertMissing(c) \/ Patch(c)
    BY <2>8 DEF InsertNew, InsertMissing, Patch, Insert, TypeOK, Unmerged
  <2>9. CASE Delete(c)
    BY <2>1, <2>2, <2>9 DEF Delete, TypeOK, Unmerged, Merged
  <2> QED BY <1>4, <2>3, <2>4, <2>5, <2>6, <2>7, <2>8, <2>9 DEF Step
<1> QED BY <1>3, <1>4 DEF Next

\* A round is still sound when its place, its maximum and, if it is still calm, all
\* it looks at stand still.
LEMMA RoundStable ==
    ASSUME NEW c \in Caller, RoundSound(c), UNCHANGED <<pc[c], xid[c]>>,
           calm'[c] => calm[c] /\ UNCHANGED <<src, xidMy, table, xidCk, ck>>
    PROVE  RoundSound(c)'
<1> SUFFICES ASSUME calm'[c] PROVE RoundSound(c)'
  BY DEF RoundSound
<1> USE DEF Upstream, Changed
<1>1. NoneMissing => NoneMissing'
  BY DEF NoneMissing
<1>2. AllSingle => AllSingle'
  BY DEF AllSingle
<1>3. Deleted(c) => Deleted(c)'
  BY DEF Deleted
<1>4. Replaced(c) => Replaced(c)'
  BY DEF Replaced
<1>5. Progress(c) => Progress(c)'
  BY <1>1, <1>2, <1>3, <1>4 DEF Progress
<1> QED BY <1>5 DEF RoundSound

\* What the environment does leaves a round alone, or disturbs it.
LEMMA RoundEnvironment ==
    ASSUME TypeOK, NEW c \in Caller, RoundSound(c),
           \/ \E k \in Key : RowInserted(k) \/ RowChanged(k)
           \/ OperatorResets \/ LeaseExpires \/ DdlDrop \/ DdlAdd \/ UNCHANGED vars
    PROVE  RoundSound(c)'
<1>1. UNCHANGED <<pc[c], xid[c]>>
  BY DEF RowInserted, RowChanged, OperatorResets, LeaseExpires, DdlDrop, DdlAdd, vars, local
<1>2. calm'[c] => calm[c] /\ UNCHANGED <<src, xidMy, table, xidCk, ck>>
  BY DEF RowInserted, RowChanged, OperatorResets, LeaseExpires, DdlDrop, DdlAdd, Disturbed,
     vars, mysql, click
<1> QED BY <1>1, <1>2, RoundStable

\* What another task does leaves a round alone, or disturbs it.
LEMMA RoundOfOther ==
    ASSUME TypeOK, NEW c \in Caller, NEW d \in Caller \ {c}, RoundSound(c), Step(d)
    PROVE  RoundSound(c)'
<1> USE DEF Goto
<1>1. ASSUME Moves(d) PROVE ~calm'[c]
  BY <1>1 DEF Moves, Disturbed, DisturbedBy
<1>2. CASE Begin(d) \/ Lock(d) \/ LockFails(d) \/ ReadRecord(d) \/ InsertRecord(d)
           \/ Alter(d) \/ ClearFlag(d)
  <2>1. UNCHANGED <<pc[c], xid[c], calm[c], src, xidMy, table, xidCk, ck>>
    BY <1>2 DEF Begin, Lock, LockFails, ReadRecord, InsertRecord, Alter, ClearFlag, mysql,
       click, local, TypeOK
  <2> QED BY <2>1, RoundStable
<1>3. CASE Query(d) \/ Unlock(d)
  <2>1. UNCHANGED <<pc[c], xid[c], calm[c], src, xidMy, table, xidCk, ck>>
    BY <1>3 DEF Query, Unlock, mysql, click, TypeOK
  <2> QED BY <2>1, RoundStable
<1>4. CASE DropTable(d) \/ CreateTable(d) \/ Requery(d) \/ Delete(d)
  <2>1. UNCHANGED <<pc[c], xid[c]>> /\ Moves(d)
    BY <1>4 DEF DropTable, CreateTable, Requery, Delete, local, TypeOK
  <2> QED BY <2>1, <1>1, RoundStable
<1>5. CASE Dedup0(d) \/ Dedup1(d) \/ Dedup2(d) \/ InsertNew(d) \/ InsertMissing(d) \/ Patch(d)
  <2>1. UNCHANGED <<pc[c], xid[c]>> /\ Moves(d)
    BY <1>5 DEF Dedup0, Dedup1, Dedup2, Optimize, InsertNew, InsertMissing, Patch, Insert,
       local, TypeOK
  <2> QED BY <2>1, <1>1, RoundStable
<1> QED BY <1>2, <1>3, <1>4, <1>5 DEF Step

\* A statement of the task itself brings its own round one step on.
LEMMA RoundOfTask ==
    ASSUME TypeOK, NEW c \in Caller, RoundSound(c), Step(c)
    PROVE  RoundSound(c)'
<1> SUFFICES ASSUME calm'[c]
             PROVE  pc'[c] \in Round /\ table' /\ xidCk' /\ (xidMy' => Progress(c)')
  BY DEF RoundSound
<1> USE DEF Goto, Executed, Failed
<1>1. calm[c] => pc[c] \in Round /\ table /\ xidCk /\ (xidMy => Progress(c))
  BY DEF RoundSound
<1>2. ASSUME Moves(c) PROVE faults' = faults /\ calm[c]
  BY <1>2 DEF Moves, Disturbed, DisturbedBy, TypeOK
<1>3. faults # faults + 1
  BY DEF TypeOK
<1>4. ASSUME NEW here \in Pc, NEW there \in Round, NEW rows, Insert(c, here, rows, there)
      PROVE  /\ calm[c] /\ pc[c] = here /\ pc'[c] = there /\ table' /\ xidCk'
             /\ UNCHANGED <<src, xidMy, xid>>
             /\ xidMy => ck' = Added(rows)
  BY <1>1, <1>2, <1>3, <1>4 DEF Insert, mysql, local, TypeOK
<1>5. ASSUME NEW here \in Round, NEW there \in Round, Optimize(c, here, there)
      PROVE  /\ calm[c] /\ pc[c] = here /\ pc'[c] = there /\ table' /\ xidCk'
             /\ UNCHANGED <<src, xidMy, xid>>
             /\ ck' = Dedup(ck)
  BY <1>1, <1>2, <1>3, <1>5 DEF Optimize, mysql, local, TypeOK
<1>6. CASE Begin(c) \/ Lock(c) \/ LockFails(c) \/ ReadRecord(c) \/ InsertRecord(c)
           \/ Alter(c) \/ ClearFlag(c)
  BY <1>6, <1>1 DEF Begin, Lock, LockFails, ReadRecord, InsertRecord, Alter, ClearFlag, Round
<1>7. CASE DropTable(c) \/ CreateTable(c) \/ Dedup0(c)
  BY <1>7, <1>1, <1>2 DEF DropTable, CreateTable, Dedup0, Optimize, Round
<1>8. CASE Query(c)
  <2>1. table /\ xidCk /\ pc'[c] = "insertNew"
    BY <1>8, <1>1 DEF Query, Responds, Round, TypeOK
  <2> QED BY <1>8, <2>1 DEF Query, click, Round, Progress
<1>9. CASE InsertNew(c)
  <2>1. pc'[c] = "insertMissing" /\ table' /\ xidCk'
    BY <1>9, <1>4 DEF InsertNew, Pc, Round
  <2> QED BY <2>1 DEF Progress, Round
<1>10. CASE InsertMissing(c)
  <2>1. /\ pc'[c] = "dedup1" /\ table' /\ xidCk' /\ UNCHANGED <<src, xidMy>>
        /\ xidMy => ck' = Added(Missing)
    BY <1>10, <1>4 DEF InsertMissing, Pc, Round
  <2>2. ASSUME xidMy, NEW k \in Upstream PROVE ck'[k] # <<>>
    <3>1. CASE k \in Ids
      BY <2>1, <2>2, <3>1 DEF Added, Missing, Ids
    <3>2. CASE k \notin Ids
      <4>1. ck'[k] = Append(<<>>, src[k])
        BY <2>1, <2>2, <3>2 DEF Added, Missing, Upstream, Ids
      <4> QED BY <4>1
    <3> QED BY <3>1, <3>2
  <2>3. xidMy => NoneMissing'
    BY <2>1, <2>2 DEF NoneMissing, Upstream
  <2> QED BY <2>1, <2>3 DEF Progress, Round
<1>11. CASE Dedup1(c)
  <2>1. /\ calm[c] /\ pc[c] = "dedup1" /\ pc'[c] = "requery" /\ table' /\ xidCk'
        /\ UNCHANGED <<src, xidMy>> /\ ck' = Dedup(ck)
    BY <1>11, <1>5 DEF Dedup1, Round
  <2>2. xidMy => NoneMissing
    BY <2>1, <1>1 DEF Progress
  <2>3. xidMy => AllSingle'
    BY <2>1, <2>2, DedupMerges DEF AllSingle, NoneMissing, Upstream, TypeOK, CopyTyped
  <2> QED BY <2>1, <2>3 DEF Progress, Round
<1>12. CASE Requery(c)
  <2>1. /\ calm[c] /\ pc[c] = "requery" /\ UNCHANGED <<src, xidMy, click>>
    BY <1>12, <1>2 DEF Requery, mysql
  <2>2. pc'[c] = "delete" /\ table' /\ xidCk'
    BY <1>12, <2>1, <1>1, <1>2, <1>3 DEF Requery, Responds, click, TypeOK
  <2>3. xidMy => AllSingle
    BY <2>1, <1>1 DEF Progress
  <2>4. xidMy => AllSingle'
    BY <2>1, <2>3 DEF AllSingle, Upstream, click
  <2> QED BY <2>1, <2>2, <2>4 DEF Progress, Round
<1>13. CASE Delete(c)
  <2>1. /\ calm[c] /\ pc[c] = "delete" /\ pc'[c] = "patch" /\ UNCHANGED <<src, xidMy, xid>>
        /\ table' /\ xidCk'
    BY <1>13, <1>1, <1>2 DEF Delete, mysql, local, TypeOK
  <2>2. ck' = [k \in Key |-> IF k \in Changed(xid[c]) THEN <<>> ELSE ck[k]]
    BY <1>13, <1>2, <1>3 DEF Delete
  <2>3. xidMy => AllSingle
    BY <2>1, <1>1 DEF Progress
  <2>4. xidMy => Deleted(c)'
    BY <2>1, <2>2, <2>3 DEF AllSingle, Deleted, Upstream, Changed
  <2> QED BY <2>1, <2>4 DEF Progress, Round
<1>14. CASE Patch(c)
  <2>1. /\ calm[c] /\ pc[c] = "patch" /\ pc'[c] = "dedup2" /\ table' /\ xidCk'
        /\ UNCHANGED <<src, xidMy, xid>>
        /\ xidMy => ck' = Added(Changed(xid[c]))
    BY <1>14, <1>4 DEF Patch, Pc, Round
  <2>2. xidMy => Deleted(c)
    BY <2>1, <1>1 DEF Progress
  <2>3. ASSUME xidMy, NEW k \in Upstream
        PROVE  /\ Len(ck'[k]) = 1
               /\ k \in Changed(xid[c]) => ck'[k] = <<src[k]>>
    <3>1. ck'[k] = IF k \in Changed(xid[c]) THEN Append(ck[k], src[k]) ELSE ck[k]
      BY <2>1, <2>3 DEF Added, Upstream
    <3>2. Append(<<>>, src[k]) = <<src[k]>> /\ Len(<<src[k]>>) = 1
      OBVIOUS
    <3> QED BY <2>2, <2>3, <3>1, <3>2 DEF Deleted
  <2>4. xidMy => AllSingle' /\ Replaced(c)'
    BY <2>1, <2>3 DEF AllSingle, Replaced, Upstream, Changed
  <2> QED BY <2>1, <2>4 DEF Progress, Round
<1>15. CASE Dedup2(c)
  <2>1. /\ calm[c] /\ pc[c] = "dedup2" /\ pc'[c] = "unlocking" /\ table' /\ xidCk'
        /\ UNCHANGED <<src, xidMy, xid>> /\ ck' = Dedup(ck)
    BY <1>15, <1>5 DEF Dedup2, Round
  <2>2. xidMy => AllSingle /\ Replaced(c)
    BY <2>1, <1>1 DEF Progress
  <2>3. ASSUME xidMy PROVE \A k \in Upstream : ck'[k] = ck[k]
    BY <2>1, <2>2, <2>3, DedupMerges DEF AllSingle, Upstream, TypeOK, CopyTyped
  <2>4. xidMy => AllSingle' /\ Replaced(c)'
    BY <2>1, <2>2, <2>3 DEF AllSingle, Replaced, Upstream, Changed
  <2> QED BY <2>1, <2>4 DEF Progress, Round
<1>16. CASE Unlock(c)
  BY <1>16 DEF Unlock, TypeOK
<1> QED BY <1>6, <1>7, <1>8, <1>9, <1>10, <1>11, <1>12, <1>13, <1>14, <1>15, <1>16 DEF Step

\* Every action keeps the invariant.
LEMMA StepInvariant == IInv /\ [Next]_vars => IInv'
<1> SUFFICES ASSUME IInv, [Next]_vars PROVE IInv'
  OBVIOUS
<1>1. ASSUME NEW c \in Caller PROVE RoundSound(c)'
  BY RoundEnvironment, RoundOfOther, RoundOfTask DEF IInv, Next
<1> QED BY <1>1, TypeStep, FiniteStep, MergedStep DEF IInv

-----------------------------------------------------------------------------
\* The invariant that the theorems below are read off.
THEOREM Invariance == Spec => []IInv
BY InitInvariant, StepInvariant, PTL DEF Spec

\* The types of doCkTask's state hold in every reachable state: the maxima it writes
\* into its statements are an id of the copy or 0, and a stamp.
THEOREM TypeCorrect == Spec => []TypeOK
<1>1. IInv => TypeOK
  BY DEF IInv
<1> QED BY Invariance, <1>1, PTL

\* However many rounds overlap, and be it the very same row that they insert, no id is
\* left twice: whoever inserted last has also deduplicated (syncservice.js:190-248).
THEOREM NoDuplicates == Spec => []NoDuplicatesAtRest
<1>1. IInv => NoDuplicatesAtRest
  BY DEF IInv
<1> QED BY Invariance, <1>1, PTL

\* A round nothing has disturbed ends with every upstream row once in the copy.
THEOREM EveryRowComes == Spec => []RoundBringsEveryRow
<1>1. IInv => RoundBringsEveryRow
  <2> SUFFICES ASSUME IInv, NEW c \in Caller, RoundDone(c), xidCk = xidMy
               PROVE  \A k \in Upstream : Len(ck[k]) = 1
    BY DEF RoundBringsEveryRow
  <2>1. AllSingle
    BY DEF IInv, RoundSound, Progress, RoundDone
  <2> QED BY <2>1 DEF AllSingle
<1> QED BY Invariance, <1>1, PTL

\* Such a round ends with MySQL's version of each row above the copy's maximum.
THEOREM NewerRowsAreReplaced == Spec => []RoundReplacesNewerRows
<1>1. IInv => RoundReplacesNewerRows
  BY DEF IInv, RoundSound, Progress, RoundDone, Replaced, Changed, RoundReplacesNewerRows
<1> QED BY Invariance, <1>1, PTL
=============================================================================
