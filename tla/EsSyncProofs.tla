---------------------------- MODULE EsSyncProofs ----------------------------
(* Proofs about EsSync: IInv is inductive, so that the cursor never skips a *)
(* row for any number of callers, processes, rows and faults, and every     *)
(* step is a step of EsFeed.                                                *)
EXTENDS EsSync, FiniteSetTheorems, TLAPS

USE DEF Cursor

\* The batch is a prefix of what lies above the cursor.
LEMMA BatchIsPrefix ==
    ASSUME NEW S \in SUBSET Nat, IsFiniteSet(S), NEW from \in Nat
    PROVE  /\ NextRows(S, from) \subseteq S
           /\ \A r \in NextRows(S, from) : r > from
           /\ \A r \in NextRows(S, from) : \A k \in S :
                 from < k /\ k < r => k \in NextRows(S, from)
<1>1. NextRows(S, from) \subseteq S /\ \A r \in NextRows(S, from) : r > from
  BY DEF NextRows
<1>2. ASSUME NEW r \in NextRows(S, from), NEW k \in S, from < k, k < r
      PROVE  k \in NextRows(S, from)
  <2> DEFINE Upto(x) == {j \in S : from < j /\ j <= x}
  <2>0. k \in Nat /\ r \in Nat /\ S \subseteq Nat
    BY <1>1
  <2>1. Upto(k) \subseteq Upto(r)
    <3>1. ASSUME NEW j \in S, from < j, j <= k PROVE j <= r
      BY <2>0, <1>2, <3>1
    <3> QED BY <3>1
  <2>2. IsFiniteSet(Upto(r)) /\ IsFiniteSet(Upto(k))
    BY FS_Subset
  <2>3. /\ Cardinality(Upto(k)) \in Nat /\ Cardinality(Upto(r)) \in Nat
        /\ Cardinality(Upto(k)) <= Cardinality(Upto(r))
    <3> HIDE DEF Upto
    <3> QED BY <2>1, <2>2, FS_Subset, FS_CardinalityType
  <2>4. Cardinality(Upto(r)) <= Batch
    BY <1>2 DEF NextRows
  <2>5. Cardinality(Upto(k)) <= Batch
    <3> HIDE DEF Upto
    <3> QED BY <2>3, <2>4, BoundAssumption
  <2> QED BY <2>5, <1>2 DEF NextRows
<1> QED BY <1>1, <1>2

\* A cursor stays sound while upstream stands still and no issued call is forgotten.
LEMMA SoundStable ==
    ASSUME UNCHANGED upstream, Handed \subseteq Handed', NEW v, Sound(v)
    PROVE  Sound(v)'
BY DEF Sound, Reached, Covered, upstream

\* A cursor stays sound when a row is committed: a row below it is late.
LEMMA SoundCommit ==
    ASSUME TypeOK, NEW k \in Key, Commit(k), NEW v \in Cursor, Sound(v)
    PROVE  Sound(v)'
<1>1. v \in source' \cup {0} /\ source' = source \cup {k} /\ Handed' = Handed
  BY DEF Sound, Reached, Commit, Handed, es
<1>2. late \subseteq late'
  BY DEF Commit
<1>3. k <= v => k \in late'
  <2> SUFFICES ASSUME k <= v PROVE k \in late'
    OBVIOUS
  <2>1. v \in source /\ v > k
    BY KeyAssumption DEF Commit, Sound, Reached
  <2> QED BY <2>1 DEF Commit
<1> QED BY <1>1, <1>2, <1>3 DEF Sound, Reached, Covered

\* The initial state satisfies the invariant.
LEMMA InitInvariant == Init => IInv
<1> SUFFICES ASSUME Init PROVE IInv
  OBVIOUS
<1> USE DEF Init
<1>1. Sound(0)
  BY DEF Sound, Reached, Covered
<1>2. TypeOK
  BY TaskAssumption, BoundAssumption DEF TypeOK, Pc
<1>3. IsFiniteSet(source)
  BY FS_EmptySet
<1>4. CursorNeverSkips /\ ReplyIsTrue /\ TaskSound
  BY <1>1 DEF CursorNeverSkips, ReplyIsTrue, TaskSound
<1> QED BY <1>2, <1>3, <1>4 DEF IInv

\* Every action keeps the types.
LEMMA TypeStep == IInv /\ [Next]_vars => TypeOK'
<1> SUFFICES ASSUME TypeOK, TaskSound, [Next]_vars PROVE TypeOK'
  BY DEF IInv
<1> USE TaskAssumption, KeyAssumption, BoundAssumption DEF TypeOK, Pc, InSection, Await
<1>1. ASSUME NEW k \in Key, Commit(k) PROVE TypeOK'
  BY <1>1 DEF Commit, sql, task, es
<1>2. CASE LeaseExpires
  BY <1>2 DEF LeaseExpires, upstream, sql, task, es
<1>3. ASSUME NEW k \in indexing, IndexDone(k) PROVE TypeOK'
  BY <1>3 DEF IndexDone, upstream, sql, task
<1>4. ASSUME NEW k \in indexing, IndexLost(k) PROVE TypeOK'
  BY <1>4 DEF IndexLost, upstream, sql, task
<1>5. ASSUME NEW v \in Cursor, UpdateDone(v) PROVE TypeOK'
  BY <1>5 DEF UpdateDone, SetPindex, upstream, task, es
<1>6. ASSUME NEW v \in Cursor, UpdateLost(v) PROVE TypeOK'
  BY <1>6 DEF UpdateLost, upstream, task, es
<1>7. ASSUME NEW p \in Process, Crash(p) PROVE TypeOK'
  <2>1. mem' \in [Process -> Cursor] /\ faults' \in 0..MaxFaults
    BY <1>7 DEF Crash
  <2>2. /\ pc' \in [Caller -> Pc] /\ arg' \in [Caller -> Cursor]
        /\ resp' \in [Caller -> SUBSET Cursor] /\ reply' \in [Caller -> Cursor \cup {-1}]
    BY <1>7 DEF Crash
  <2> QED BY <1>7, <2>1, <2>2 DEF Crash, upstream, sql, es
<1>8. ASSUME NEW c \in Caller, Step(c) \/ Rejected(c) PROVE TypeOK'
  <2> USE DEF Goto, Send, Answer, Tell
  <2>1. CASE Begin(c)
    BY <2>1 DEF Begin, upstream, sql, es
  <2>2. CASE Lock(c)
    BY <2>2 DEF Lock, upstream, sql, es
  <2>3. CASE LockFails(c)
    BY <2>3 DEF LockFails, upstream, sql, es
  <2>4. CASE RecAnswer(c)
    BY <2>4 DEF RecAnswer, upstream, sql, es
  <2>5. CASE RecFound(c)
    BY <2>5 DEF RecFound, upstream, sql, es
  <2>6. CASE RecMissing(c)
    BY <2>6 DEF RecMissing, upstream, sql, es
  <2>7. CASE RecInsert(c)
    BY <2>7 DEF RecInsert, upstream, es
  <2>8. CASE RecInserted(c)
    BY <2>8 DEF RecInserted, upstream, sql, es
  <2>9. CASE RowAnswer(c)
    <3>1. NextRows(source, arg[c]) \in SUBSET Cursor
      BY DEF NextRows
    <3> QED BY <2>9, <3>1 DEF RowAnswer, upstream, sql, es
  <2>10. CASE HandOver(c)
    <3>1. PICK last \in resp[c] :
             /\ mem' = [mem EXCEPT ![Home[c]] = last]
             /\ updating' = [updating EXCEPT ![last] = @ + 1]
             /\ reply' = [reply EXCEPT ![c] = last]
      BY <2>10 DEF HandOver
    <3>2. resp[c] \subseteq Key /\ last \in Cursor
      BY <2>10 DEF HandOver, TaskSound, NoHole
    <3>3. updating' \in [Cursor -> Nat] /\ mem' \in [Process -> Cursor]
      BY <3>1, <3>2
    <3>4. reply' \in [Caller -> Cursor \cup {-1}]
      BY <3>1, <3>2
    <3> QED BY <2>10, <3>2, <3>3, <3>4 DEF HandOver, Calls, upstream
  <2>11. CASE NothingNew(c)
    BY <2>11 DEF NothingNew, upstream, sql, es
  <2>12. CASE Unlock(c)
    BY <2>12 DEF Unlock, upstream, sql, es
  <2>13. CASE Rejected(c)
    BY <2>13 DEF Rejected, upstream, sql, es
  <2> QED BY <1>8, <2>1, <2>2, <2>3, <2>4, <2>5, <2>6, <2>7, <2>8, <2>9, <2>10,
             <2>11, <2>12, <2>13 DEF Step
<1>9. CASE UNCHANGED vars
  BY <1>9 DEF vars, upstream, sql, task, es
<1> QED BY <1>1, <1>2, <1>3, <1>4, <1>5, <1>6, <1>7, <1>8, <1>9
        DEF Next, Fault, Deliver

\* Only Commit changes the upstream table, and no action forgets an issued call.
LEMMA HandedGrows ==
    ASSUME IInv, [Next]_vars
    PROVE  \/ UNCHANGED upstream /\ Handed \subseteq Handed'
           \/ \E k \in Key : Commit(k)
<1> USE DEF Handed, Goto, Send, Answer, Tell, upstream, es
<1>1. ASSUME NEW c \in Caller, Step(c) \/ Rejected(c)
      PROVE  UNCHANGED upstream /\ Handed \subseteq Handed'
  BY <1>1 DEF Step, Begin, Lock, LockFails, RecAnswer, RecFound, RecMissing, RecInsert,
     RecInserted, RowAnswer, HandOver, NothingNew, Unlock, Rejected
<1>2. ASSUME NEW p \in Process, Crash(p) PROVE UNCHANGED upstream /\ Handed \subseteq Handed'
  BY <1>2 DEF Crash
<1>3. CASE LeaseExpires
  BY <1>3 DEF LeaseExpires
<1>4. ASSUME NEW k \in indexing, IndexDone(k) \/ IndexLost(k)
      PROVE  UNCHANGED upstream /\ Handed \subseteq Handed'
  BY <1>4 DEF IndexDone, IndexLost
<1>5. ASSUME NEW v \in Cursor, UpdateDone(v) \/ UpdateLost(v)
      PROVE  UNCHANGED upstream /\ Handed \subseteq Handed'
  BY <1>5 DEF UpdateDone, UpdateLost
<1>6. CASE UNCHANGED vars
  BY <1>6 DEF vars
<1> QED BY <1>1, <1>2, <1>3, <1>4, <1>5, <1>6 DEF Next, Fault, Deliver

\* What was sound before a step is sound after it.
LEMMA SoundStays ==
    ASSUME IInv, [Next]_vars, NEW v \in Cursor, Sound(v)
    PROVE  Sound(v)'
BY HandedGrows, SoundStable, SoundCommit DEF IInv

\* A batch without a hole stays so: a row committed inside it is late.
LEMMA NoHoleStays ==
    ASSUME IInv, [Next]_vars, NEW rows, NoHole(rows)
    PROVE  NoHole(rows)'
<1>1. CASE UNCHANGED upstream /\ Handed \subseteq Handed'
  BY <1>1 DEF NoHole, upstream
<1>2. ASSUME NEW n \in Key, Commit(n) PROVE NoHole(rows)'
  <2>1. source' = source \cup {n} /\ late \subseteq late' /\ Handed' = Handed
    BY <1>2 DEF Commit, es, Handed
  <2>2. rows \subseteq source'
    BY <2>1 DEF NoHole
  <2>3. ASSUME NEW r \in rows, n < r PROVE n \in late'
    <3>1. r \in source /\ r > n
      BY <2>3, KeyAssumption DEF NoHole, IInv, TypeOK
    <3> QED BY <3>1, <1>2 DEF Commit
  <2> QED BY <2>1, <2>2, <2>3 DEF NoHole
<1> QED BY <1>1, <1>2, HandedGrows

\* The committed rows stay finitely many.
LEMMA FiniteStays ==
    ASSUME IInv, [Next]_vars PROVE IsFiniteSet(source')
<1>1. CASE UNCHANGED upstream
  BY <1>1 DEF upstream, IInv
<1>2. ASSUME NEW k \in Key, Commit(k) PROVE IsFiniteSet(source')
  BY <1>2, FS_AddElement DEF Commit, IInv
<1> QED BY <1>1, <1>2, HandedGrows

\* Keys and the parameters sent are naturals.
LEMMA NaturalCursors ==
    ASSUME TypeOK PROVE source \in SUBSET Nat /\ \A c \in Caller : arg[c] \in Nat
<1>1. Key \subseteq Nat
  BY KeyAssumption
<1>2. source \in SUBSET Nat
  BY <1>1 DEF TypeOK
<1>3. ASSUME NEW c \in Caller PROVE arg[c] \in Nat
  <2>1. arg[c] \in Cursor /\ Cursor \subseteq Nat
    BY <1>1 DEF TypeOK
  <2> QED BY <2>1
<1> QED BY <1>2, <1>3

\* The steps of a task.  Each new value of a cursor is one that was sound
\* before, except the last row of a batch without a hole.
LEMMA TaskStep ==
    ASSUME IInv, [Next]_vars, NEW c \in Caller, Step(c) \/ Rejected(c)
    PROVE  CursorNeverSkips' /\ ReplyIsTrue' /\ TaskSound'
<1> USE DEF Goto, Send, Answer, Tell, IInv, TypeOK, CursorNeverSkips, ReplyIsTrue, TaskSound
<1>0. TypeOK'
  BY TypeStep
<1>1. \A v \in Cursor : Sound(v) => Sound(v)'
  BY SoundStays
<1>2. \A rows \in SUBSET Cursor : NoHole(rows) => NoHole(rows)'
  BY NoHoleStays
<1>3. Sound(0)
  BY KeyAssumption DEF Sound, Reached, Covered
<1>4. CASE Begin(c) \/ Lock(c) \/ LockFails(c)
  BY <1>1, <1>2, <1>4 DEF Begin, Lock, LockFails, sql
<1>5. CASE RecAnswer(c)
  BY <1>1, <1>2, <1>5 DEF RecAnswer, sql
<1>6. CASE RecFound(c)
  <2>1. PICK v \in resp[c] : mem' = [mem EXCEPT ![Home[c]] = v] /\ arg' = [arg EXCEPT ![c] = v]
    BY <1>6 DEF RecFound
  <2>2. v \in Cursor /\ Sound(v)
    BY <1>6 DEF RecFound
  <2> QED BY <1>1, <1>2, <1>6, <2>1, <2>2, TaskAssumption DEF RecFound, sql
<1>7. CASE RecMissing(c)
  BY <1>1, <1>2, <1>7, TaskAssumption DEF RecMissing, sql
<1>8. CASE RecInsert(c)
  BY <1>1, <1>2, <1>3, <1>8 DEF RecInsert
<1>9. CASE RecInserted(c)
  BY <1>1, <1>2, <1>9, TaskAssumption DEF RecInserted, sql
<1>10. CASE RowAnswer(c)
  <2>1. source \in SUBSET Nat /\ arg[c] \in Nat
    BY NaturalCursors
  <2>2. PICK rows \in SUBSET Cursor : rows = NextRows(source, arg[c])
    BY <2>1, BatchIsPrefix
  <2>3. /\ rows \subseteq source
        /\ \A r \in rows : \A k \in source : arg[c] < k /\ k < r => k \in rows
    BY <2>1, <2>2, BatchIsPrefix
  <2>4. \A k \in source : k <= arg[c] => k \in Handed \cup late
    BY DEF Sound, Covered
  <2>5. NoHole(rows)
    <3> SUFFICES ASSUME NEW r \in rows, NEW k \in source, k < r
                 PROVE  k \in rows \cup Handed \cup late
      BY <2>3 DEF NoHole
    <3> QED BY <2>1, <2>3, <2>4
  <2>6. NoHole(rows)'
    BY <1>2, <2>5
  <2>7. resp' = [resp EXCEPT ![c] = rows]
    BY <1>10, <2>2 DEF RowAnswer
  <2> QED BY <1>1, <1>2, <1>3, <1>10, <2>6, <2>7 DEF RowAnswer, sql
<1>11. CASE HandOver(c)
  <2>1. PICK last \in resp[c] :
           /\ \A k \in resp[c] : k <= last
           /\ mem' = [mem EXCEPT ![Home[c]] = last]
           /\ updating' = [updating EXCEPT ![last] = @ + 1]
           /\ reply' = [reply EXCEPT ![c] = last]
    BY <1>11 DEF HandOver
  <2>2. /\ NoHole(resp[c]) /\ last \in Key
        /\ source' = source /\ late' = late /\ resp[c] \cup Handed \subseteq Handed'
    BY <1>11 DEF HandOver, NoHole, upstream, Handed, Calls
  <2>3. Sound(last)'
    <3>1. \A k \in source : k < last => k \in Handed' \cup late
      BY <2>2 DEF NoHole
    <3>2. \A k \in source : k <= last => k \in Handed' \cup late
      BY <2>2, <3>1, KeyAssumption
    <3> QED BY <2>2, <3>2 DEF Sound, Reached, Covered, NoHole
  <2>4. CursorNeverSkips'
    BY <1>1, <1>11, <2>1, <2>2, <2>3 DEF HandOver
  <2>5. ReplyIsTrue'
    BY <1>1, <2>1, <2>2, <2>3
  <2>6. TaskSound'
    BY <1>1, <1>2, <1>11 DEF HandOver
  <2> QED BY <2>4, <2>5, <2>6
<1>12. CASE NothingNew(c)
  BY <1>1, <1>2, <1>12, TaskAssumption DEF NothingNew, sql
<1>13. CASE Unlock(c)
  BY <1>1, <1>2, <1>13 DEF Unlock, sql
<1>14. CASE Rejected(c)
  BY <1>1, <1>2, <1>3, <1>14 DEF Rejected, sql
<1> QED BY <1>4, <1>5, <1>6, <1>7, <1>8, <1>9, <1>10, <1>11, <1>12, <1>13, <1>14 DEF Step

\* The steps that are not a task's own.
LEMMA OtherStep ==
    ASSUME IInv, [Next]_vars, ~ \E c \in Caller : Step(c) \/ Rejected(c)
    PROVE  CursorNeverSkips' /\ ReplyIsTrue' /\ TaskSound'
<1> USE DEF IInv, TypeOK, CursorNeverSkips, ReplyIsTrue, TaskSound
<1>1. \A v \in Cursor : Sound(v) => Sound(v)'
  BY SoundStays
<1>2. \A rows \in SUBSET Cursor : NoHole(rows) => NoHole(rows)'
  BY NoHoleStays
<1>3. Sound(0)
  BY KeyAssumption DEF Sound, Reached, Covered
<1>4. CASE UNCHANGED <<rec, updating, mem, pc, arg, resp, reply>>
  BY <1>1, <1>2, <1>4
<1>5. ASSUME NEW v \in Cursor, UpdateDone(v) PROVE CursorNeverSkips' /\ ReplyIsTrue' /\ TaskSound'
  BY <1>1, <1>2, <1>5 DEF UpdateDone, SetPindex, task
<1>6. ASSUME NEW v \in Cursor, UpdateLost(v) PROVE CursorNeverSkips' /\ ReplyIsTrue' /\ TaskSound'
  BY <1>1, <1>2, <1>6 DEF UpdateLost, task
<1>7. ASSUME NEW p \in Process, Crash(p) PROVE CursorNeverSkips' /\ ReplyIsTrue' /\ TaskSound'
  <2>1. CursorNeverSkips'
    BY <1>1, <1>3, <1>7 DEF Crash, sql
  <2>2. ReplyIsTrue'
    BY <1>1, <1>7 DEF Crash
  <2>3. TaskSound'
    BY <1>1, <1>2, <1>3, <1>7 DEF Crash
  <2> QED BY <2>1, <2>2, <2>3
<1>8. ASSUME (\E k \in Key : Commit(k)) \/ LeaseExpires \/ (\E k \in indexing : IndexDone(k) \/ IndexLost(k))
              \/ UNCHANGED vars
      PROVE  UNCHANGED <<rec, updating, mem, pc, arg, resp, reply>>
  BY <1>8 DEF Commit, LeaseExpires, IndexDone, IndexLost, vars, sql, task
<1> QED BY <1>4, <1>5, <1>6, <1>7, <1>8 DEF Next, Fault, Deliver

\* The inductive step.
LEMMA StepInvariant == IInv /\ [Next]_vars => IInv'
BY TypeStep, FiniteStays, TaskStep, OtherStep DEF IInv

\* IInv holds in every reachable state.
THEOREM Invariance == Spec => []IInv
BY InitInvariant, StepInvariant, PTL DEF Spec

\* The types of doEsTask's state hold in every reachable state.
THEOREM TypeCorrect == Spec => []TypeOK
<1>1. IInv => TypeOK
  BY DEF IInv
<1> QED BY Invariance, <1>1, PTL

\* No order of tasks, answers, expired leases, failures and restarts makes the
\* cursor of doEsTask skip a row committed in key order.
THEOREM NeverSkips == Spec => []CursorNeverSkips
<1>1. IInv => CursorNeverSkips
  BY DEF IInv
<1> QED BY Invariance, <1>1, PTL

\* A success reply of doEsTask names a pindex up to which rows were handed over.
THEOREM RepliesAreTrue == Spec => []ReplyIsTrue
<1>1. IInv => ReplyIsTrue
  BY DEF IInv
<1> QED BY Invariance, <1>1, PTL

\* Whatever a task has read and not yet acted on is still true of the tables: its
\* start is a sound cursor, and its batch leaves no hole above it.
THEOREM TasksAreSound == Spec => []TaskSound
<1>1. IInv => TaskSound
  BY DEF IInv
<1> QED BY Invariance, <1>1, PTL

\* doEsTask implements EsFeed: it hands the rows over without a hole.
THEOREM ImplementsFeed == Spec => FeedSpec
<1> USE DEF Goto, Send, Answer, Tell
<1>1. Init => Feed!Init
  BY DEF Init, Feed!Init, Handed
<1>2. IInv /\ [Next]_vars => [Feed!Next]_(Feed!vars)
  <2> SUFFICES ASSUME IInv, [Next]_vars PROVE [Feed!Next]_(Feed!vars)
    OBVIOUS
  <2>1. CASE UNCHANGED upstream /\ UNCHANGED Handed
    BY <2>1 DEF Feed!vars, upstream
  <2>2. ASSUME NEW k \in Key, Commit(k) PROVE Feed!Next
    BY <2>2 DEF Commit, Feed!Next, Feed!Commit, Handed, es
  <2>3. ASSUME NEW c \in Caller, HandOver(c) PROVE Feed!Next
    <3>1. NoHole(resp[c])
      BY <2>3 DEF HandOver, IInv, TaskSound
    <3>2. Handed' = Handed \cup resp[c] /\ UNCHANGED upstream
      BY <2>3 DEF HandOver, Handed, Calls, upstream
    <3>3. Feed!Hand(resp[c])
      BY <3>1, <3>2 DEF NoHole, Feed!Hand, upstream
    <3> QED BY <3>1, <3>3 DEF Feed!Next, NoHole
  <2>4. ASSUME NEW c \in Caller, Step(c) \/ Rejected(c), ~HandOver(c)
        PROVE  UNCHANGED upstream /\ UNCHANGED Handed
    BY <2>4 DEF Step, Begin, Lock, LockFails, RecAnswer, RecFound, RecMissing, RecInsert,
       RecInserted, RowAnswer, NothingNew, Unlock, Rejected, Handed, es, upstream
  <2>5. ASSUME (\E k \in indexing : IndexDone(k) \/ IndexLost(k)) \/ LeaseExpires
                \/ (\E v \in Cursor : UpdateDone(v) \/ UpdateLost(v))
                \/ (\E p \in Process : Crash(p)) \/ UNCHANGED vars
        PROVE  UNCHANGED upstream /\ UNCHANGED Handed
    BY <2>5 DEF IndexDone, IndexLost, LeaseExpires, UpdateDone, UpdateLost, Crash, vars,
       Handed, es, upstream
  <2> QED BY <2>1, <2>2, <2>3, <2>4, <2>5 DEF Next, Fault, Deliver
<1> QED BY <1>1, <1>2, Invariance, PTL DEF Spec, FeedSpec, Feed!Spec
=============================================================================
