------------------------------- MODULE CkSync -------------------------------
(* SyncService.doCkTask (app/service/syncservice.js) for one table: a round  *)
(* rebuilds the ClickHouse copy of a MySQL table when it is told to, then    *)
(* adds the rows the copy has not got, and replaces the rows whose change    *)
(* stamp, the column xid, is above every stamp in the copy.  The work is     *)
(* done by SQL statements that ClickHouse executes against MySQL itself;     *)
(* most of their errors are caught and the round goes on.                    *)
(*                                                                           *)
(* One action stands for one awaited statement and the code up to the next   *)
(* await: what the code keeps between two statements is local to the task.   *)
EXTENDS Integers, Sequences, FiniteSets, FiniteSetsExt, Functions

CONSTANTS Caller,       \* concurrent runs of the task
          NoOne,        \* nobody holds the lock
          None,         \* there is no row with the id
          Key,          \* row ids
          MaxStamp,     \* bound: updates of upstream rows
          MaxResets,    \* bound: times an operator sets reset = 'true'
          MaxFaults     \* bound: statements that fail

ASSUME TaskAssumption == NoOne \notin Caller
ASSUME KeyAssumption == Key \subseteq Nat \ {0}
ASSUME BoundAssumption == MaxStamp \in Nat /\ MaxResets \in Nat /\ MaxFaults \in Nat

\* A row is told apart by its contents v, the stamp of its last change, and by
\* the stamp x in its column xid, which is 0 until a change writes it.
Row  == [v : 0..MaxStamp, x : 0..MaxStamp]
ASSUME RowAssumption == None \notin Row

VARIABLES src,          \* MySQL: each id's row, or None
          stamp,        \* the last change stamp given out upstream
          xidMy,        \* MySQL: the table has the column xid
          ddl,          \* MySQL: ALTER TABLE statements sent and not awaited
          flag,         \* bs_sync_rec: no record, or its column reset
          table, xidCk, \* ClickHouse: the table exists, and has the column xid
          ck,           \* ClickHouse: the rows of each id, as they were inserted
          lock,         \* the holder of the redlock lease
          pc, id, xid,  \* each task's place, and the maxima it has read
          calm,         \* history: nothing but the task has moved since its query
          resets, faults

mysql  == <<src, stamp, xidMy, ddl, flag>>
click  == <<table, xidCk, ck>>
local  == <<id, xid>>
vars   == <<mysql, click, lock, pc, local, calm, resets, faults>>

Pc   == {"idle", "locking", "record", "insertRecord", "alter", "clearFlag", "drop", "create",
         "dedup0", "query", "insertNew", "insertMissing", "dedup1", "requery", "delete",
         "patch", "dedup2", "unlocking"}

Upstream == {k \in Key : src[k] # None}
Stamps   == {r.x : r \in UNION {Range(ck[k]) : k \in Key}}
Ids      == {k \in Key : ck[k] # <<>>}
Empty    == [k \in Key |-> <<>>]

\* The service starts against a MySQL table with or without the column xid, and
\* a ClickHouse table that was created from it, or none.
Init ==
    /\ src = [k \in Key |-> None] /\ stamp = 0
    /\ xidMy \in BOOLEAN /\ ddl = {}
    /\ flag \in {"missing", "false"}
    /\ table \in BOOLEAN /\ xidCk = xidMy /\ ck = Empty
    /\ lock = NoOne
    /\ pc = [c \in Caller |-> "idle"]
    /\ id = [c \in Caller |-> 0] /\ xid = [c \in Caller |-> 0]
    /\ calm = [c \in Caller |-> FALSE]
    /\ resets = 0 /\ faults = 0

-----------------------------------------------------------------------------
(* The environment.                                                          *)

Disturbed == calm' = [c \in Caller |-> FALSE]
DisturbedBy(c) == calm' = [d \in Caller |-> d = c /\ calm[d]]

RowInserted(k) ==
    /\ src[k] = None
    /\ src' = [src EXCEPT ![k] = [v |-> 0, x |-> 0]]
    /\ Disturbed
    /\ UNCHANGED <<stamp, xidMy, ddl, flag, click, lock, pc, local, resets, faults>>

\* Another service changes a row and writes the stamp, when there is a column.
RowChanged(k) ==
    /\ src[k] # None /\ stamp < MaxStamp
    /\ stamp' = stamp + 1
    /\ src' = [src EXCEPT ![k] = [v |-> stamp', x |-> IF xidMy THEN stamp' ELSE 0]]
    /\ Disturbed
    /\ UNCHANGED <<xidMy, ddl, flag, click, lock, pc, local, resets, faults>>

OperatorResets ==
    /\ flag = "false" /\ resets < MaxResets
    /\ flag' = "true"
    /\ resets' = resets + 1
    /\ UNCHANGED <<src, stamp, xidMy, ddl, click, lock, pc, local, calm, faults>>

LeaseExpires ==
    /\ lock # NoOne
    /\ lock' = NoOne
    /\ UNCHANGED <<mysql, click, pc, local, calm, resets, faults>>

\* "drop column xid" forgets every stamp; it does nothing without the column.
DdlDrop ==
    /\ "drop" \in ddl
    /\ ddl' = ddl \ {"drop"}
    /\ xidMy' = FALSE
    /\ src' = [k \in Key |-> IF src[k] = None THEN None ELSE [src[k] EXCEPT !.x = 0]]
    /\ Disturbed
    /\ UNCHANGED <<stamp, flag, click, lock, pc, local, resets, faults>>

\* "add xid"; it fails and does nothing when the column is there.
DdlAdd ==
    /\ "add" \in ddl
    /\ ddl' = ddl \ {"add"}
    /\ xidMy' = TRUE
    /\ Disturbed
    /\ UNCHANGED <<src, stamp, flag, click, lock, pc, local, resets, faults>>

-----------------------------------------------------------------------------
(* The task.                                                                 *)

Goto(c, place) == pc' = [pc EXCEPT ![c] = place]

\* A statement is executed, or it fails and leaves no trace.
Executed == UNCHANGED faults
Failed   == faults < MaxFaults /\ faults' = faults + 1

\* A task that moves disturbs the others; one whose statement fails, itself too.
Moves(c) == IF faults' = faults THEN DisturbedBy(c) ELSE Disturbed

Begin(c) ==
    /\ pc[c] = "idle"
    /\ Goto(c, "locking")
    /\ UNCHANGED <<mysql, click, lock, local, calm, resets, faults>>

Lock(c) ==
    /\ pc[c] = "locking" /\ lock = NoOne
    /\ lock' = c
    /\ Goto(c, "record")
    /\ UNCHANGED <<mysql, click, local, calm, resets, faults>>

LockFails(c) ==
    /\ pc[c] = "locking" /\ lock # NoOne
    /\ Goto(c, "idle")
    /\ UNCHANGED <<mysql, click, lock, local, calm, resets, faults>>

\* The rebuild is chosen by the record or by the clock: at 00:00:00 sharp.
ReadRecord(c) ==
    /\ pc[c] = "record"
    /\ \/ /\ Executed
          /\ \E midnight \in BOOLEAN :
                Goto(c, IF flag = "missing" THEN "insertRecord"
                        ELSE IF flag = "true" \/ midnight THEN "alter" ELSE "query")
       \/ Failed /\ Goto(c, "unlocking")
    /\ UNCHANGED <<mysql, click, lock, local, calm, resets>>

\* A new record has reset = 'false', whatever there is in ClickHouse.
InsertRecord(c) ==
    /\ pc[c] = "insertRecord"
    /\ \/ /\ Executed
          /\ flag' = "false"
          /\ \E midnight \in BOOLEAN : Goto(c, IF midnight THEN "alter" ELSE "query")
       \/ Failed /\ Goto(c, "unlocking") /\ UNCHANGED flag
    /\ UNCHANGED <<src, stamp, xidMy, ddl, click, lock, local, calm, resets>>

\* "modify create_time", or "add create_time" when that fails; the round is
\* over when both fail.
Alter(c) ==
    /\ pc[c] = "alter"
    /\ \/ Executed /\ Goto(c, "clearFlag")
       \/ Failed /\ Goto(c, "unlocking")
    /\ UNCHANGED <<mysql, click, lock, local, calm, resets>>

\* reset = 'false' is written before the rebuild; an error is swallowed.
ClearFlag(c) ==
    /\ pc[c] = "clearFlag"
    /\ \/ Executed /\ flag' = IF flag = "missing" THEN flag ELSE "false"
       \/ Failed /\ UNCHANGED flag
    /\ Goto(c, "drop")
    /\ UNCHANGED <<src, stamp, xidMy, ddl, click, lock, local, calm, resets>>

\* Drop, create and dedup0 share a try: the first to fail skips the others.
DropTable(c) ==
    /\ pc[c] = "drop"
    /\ \/ Executed /\ table' = FALSE /\ ck' = Empty /\ Goto(c, "create")
       \/ Failed /\ UNCHANGED <<table, ck>> /\ Goto(c, "query")
    /\ Moves(c)
    /\ UNCHANGED <<mysql, xidCk, lock, local, resets>>

CreateTable(c) ==
    /\ pc[c] = "create"
    /\ \/ /\ Executed /\ ~table
          /\ table' = TRUE /\ xidCk' = xidMy
          /\ ck' = [k \in Key |-> IF k \in Upstream THEN <<src[k]>> ELSE <<>>]
          /\ Goto(c, "dedup0")
       \/ ((Executed /\ table) \/ Failed) /\ UNCHANGED click /\ Goto(c, "query")
    /\ Moves(c)
    /\ UNCHANGED <<mysql, lock, local, resets>>

\* A plausible mistake: OPTIMIZE without FINAL, which may merge nothing.
DedupNothing(copy) == copy

\* optimize ... FINAL keeps, of the rows of an id, the one inserted last: their
\* create_time, the version that ReplacingMergeTree compares, is the same.
Dedup(copy) == [k \in Key |-> IF copy[k] = <<>> THEN <<>> ELSE <<copy[k][Len(copy[k])]>>]

Optimize(c, here, there) ==
    /\ pc[c] = here
    /\ \/ Executed /\ ck' = Dedup(ck)
       \/ Failed /\ UNCHANGED ck
    /\ Goto(c, there)
    /\ Moves(c)
    /\ UNCHANGED <<mysql, table, xidCk, lock, local, resets>>

Dedup0(c) == Optimize(c, "dedup0", "query")
Dedup1(c) == Optimize(c, "dedup1", "requery")
Dedup2(c) == Optimize(c, "dedup2", "unlocking")

\* A plausible mistake: an empty table is given a maximum below every id.
MaxOrMinusOne(S) == IF S = {} THEN -1 ELSE Max(S)

\* The maximum of no id is an empty string, which is below every id.
MaxOf(S) == IF S = {} THEN 0 ELSE Max(S)

\* The column xid is nullable: its maximum in an empty table is NULL, written
\* 'null' into the statements, and no stamp, a string of digits, is above that.
MaxXid == IF Stamps = {} THEN MaxStamp ELSE Max(Stamps)

\* A plausible mistake: an empty table's maxima are taken for no response.
RespondsWithRows == table /\ xidCk /\ Ids # {}

\* max(id), max(xid) is one row, of an empty table too, where both columns are.
Responds == table /\ xidCk

\* Of max(id), max(xid) only the id is used.  Without the column xid both DDL
\* statements are sent to MySQL; after any error the round does nothing more.
Query(c) ==
    /\ pc[c] = "query"
    /\ \/ /\ Executed /\ Responds
          /\ id' = [id EXCEPT ![c] = MaxOf(Ids)]
          /\ calm' = [calm EXCEPT ![c] = TRUE]
          /\ Goto(c, "insertNew")
          /\ UNCHANGED ddl
       \/ /\ Executed /\ ~Responds
          /\ ddl' = IF table /\ ~xidCk THEN ddl \cup {"drop", "add"} ELSE ddl
          /\ Goto(c, "unlocking")
          /\ UNCHANGED <<id, calm>>
       \/ /\ Failed
          /\ Goto(c, "unlocking")
          /\ UNCHANGED <<id, ddl, calm>>
    /\ UNCHANGED <<src, stamp, xidMy, flag, click, lock, xid, resets>>

\* INSERT INTO ... SELECT * FROM mysql(...): the two tables must have the same
\* columns.  A row the table has got already is there twice.
Added(rows) == [k \in Key |-> IF k \in rows THEN Append(ck[k], src[k]) ELSE ck[k]]
Insert(c, here, rows, there) ==
    /\ pc[c] = here
    /\ \/ Executed /\ table /\ xidCk = xidMy /\ ck' = Added(rows)
       \/ ((Executed /\ ~(table /\ xidCk = xidMy)) \/ Failed) /\ UNCHANGED ck
    /\ Goto(c, there)
    /\ Moves(c)
    /\ UNCHANGED <<mysql, table, xidCk, lock, local, resets>>

InsertNew(c) == Insert(c, "insertNew", {k \in Upstream : k > id[c]}, "insertMissing")

\* A plausible mistake: missing rows are looked for above the maximum only.
MissingAbove == {k \in Upstream : \A j \in Ids : j < k}

\* "WHERE A.id not in (select id from the copy)"
Missing == Upstream \ Ids
InsertMissing(c) == Insert(c, "insertMissing", Missing, "dedup1")

\* The maximum of xid is read again, after the insertions; an error here is not
\* swallowed by its own try.
Requery(c) ==
    /\ pc[c] = "requery"
    /\ \/ /\ Executed /\ Responds
          /\ xid' = [xid EXCEPT ![c] = MaxXid]
          /\ Goto(c, "delete")
       \/ /\ (Executed /\ ~Responds) \/ Failed
          /\ UNCHANGED xid /\ Goto(c, "unlocking")
    /\ Moves(c)
    /\ UNCHANGED <<mysql, click, lock, id, resets>>

\* Rows of MySQL above a stamp: none, with an error, without the column xid.
Changed(x) == {k \in Upstream : xidMy /\ src[k].x > x}

\* ALTER TABLE ... DELETE WHERE id in (ids of the changed rows)
Delete(c) ==
    /\ pc[c] = "delete"
    /\ \/ Executed /\ ck' = [k \in Key |-> IF k \in Changed(xid[c]) THEN <<>> ELSE ck[k]]
       \/ Failed /\ UNCHANGED ck
    /\ Goto(c, "patch")
    /\ Moves(c)
    /\ UNCHANGED <<mysql, table, xidCk, lock, local, resets>>

\* A plausible mistake: the template of the third step is used once more.
PatchById(c) == Insert(c, "patch", {k \in Upstream : k > id[c]}, "dedup2")

\* The changed rows, as MySQL has them by now, with the same stamp as before.
Patch(c) == Insert(c, "patch", Changed(xid[c]), "dedup2")

Unlock(c) ==
    /\ pc[c] = "unlocking"
    /\ lock' = IF lock = c THEN NoOne ELSE lock
    /\ id' = [id EXCEPT ![c] = 0] /\ xid' = [xid EXCEPT ![c] = 0]
    /\ calm' = [calm EXCEPT ![c] = FALSE]
    /\ Goto(c, "idle")
    /\ UNCHANGED <<mysql, click, resets, faults>>

-----------------------------------------------------------------------------
Step(c) ==
    \/ Begin(c) \/ Lock(c) \/ LockFails(c) \/ ReadRecord(c) \/ InsertRecord(c)
    \/ Alter(c) \/ ClearFlag(c) \/ DropTable(c) \/ CreateTable(c) \/ Dedup0(c)
    \/ Query(c) \/ InsertNew(c) \/ InsertMissing(c) \/ Dedup1(c) \/ Requery(c)
    \/ Delete(c) \/ Patch(c) \/ Dedup2(c) \/ Unlock(c)

Next == \/ \E c \in Caller : Step(c)
        \/ \E k \in Key : RowInserted(k) \/ RowChanged(k)
        \/ OperatorResets
        \/ LeaseExpires
        \/ DdlDrop \/ DdlAdd

Spec == Init /\ [][Next]_vars

\* The timer fires again and again, statements end, leases run out.
Fairness == /\ \A c \in Caller : WF_vars(Step(c))
            /\ WF_vars(LeaseExpires)
            /\ WF_vars(DdlDrop) /\ WF_vars(DdlAdd)

FairSpec == Spec /\ Fairness

-----------------------------------------------------------------------------
(* Properties.                                                               *)

\* The copy's rows are rows.
CopyTyped == ck \in [Key -> Seq(Row)]

\* The types of all state (syncservice.js:74-280).
TypeOK ==
    /\ src \in [Key -> Row \cup {None}] /\ stamp \in 0..MaxStamp
    /\ xidMy \in BOOLEAN /\ ddl \in SUBSET {"drop", "add"}
    /\ flag \in {"missing", "false", "true"}
    /\ table \in BOOLEAN /\ xidCk \in BOOLEAN /\ CopyTyped
    /\ lock \in Caller \cup {NoOne} /\ pc \in [Caller -> Pc]
    /\ id \in [Caller -> Key \cup {0}] /\ xid \in [Caller -> 0..MaxStamp]
    /\ calm \in [Caller -> BOOLEAN]
    /\ resets \in 0..MaxResets /\ faults \in 0..MaxFaults

RoundDone(c) == pc[c] = "unlocking" /\ calm[c]

\* A round in which nothing else moved ends with every upstream row in the copy,
\* wherever its id lies, and each once (syncservice.js:186-248).
RoundBringsEveryRow ==
    \A c \in Caller : RoundDone(c) /\ xidCk = xidMy =>
        \A k \in Upstream : Len(ck[k]) = 1

\* Such a round also ends with the present version of every row changed later than
\* all that was in the copy: deleting comes before patching, and both look at the
\* same rows (syncservice.js:225-241).
RoundReplacesNewerRows ==
    \A c \in Caller : RoundDone(c) /\ xidMy /\ xidCk =>
        \A k \in Upstream : src[k].x > xid[c] => ck[k] = <<src[k]>>

\* As long as no statement has failed, rounds that overlap and insert the same rows
\* leave no id twice but between an insertion and the deduplication that follows it:
\* whoever inserted last has also deduplicated (syncservice.js:210-215, 243-248).
Unmerged == {"insertMissing", "dedup1", "dedup2"}
NoDuplicatesAtRest ==
    (faults = 0 /\ \A c \in Caller : pc[c] \notin Unmerged)
    => \A k \in Key : Len(ck[k]) <= 1

\* Every upstream row comes (back) into the copy, whatever rounds overlap and
\* statements fail, as long as the table is there and has MySQL's columns:
\* a row deleted and not patched is found missing by a later round
\* (syncservice.js:201-208, 225-241).
RowsComeBack ==
    \A k \in Key : src[k] # None ~> (ck[k] # <<>> \/ ~table \/ xidCk # xidMy \/ ~xidCk)

\* Comment at syncservice.js:89: the rows whose xid is above the copy's maximum,
\* as the second step read it before the insertions, are deleted and inserted
\* again, so that a round in which nothing else moved leaves no outdated row
\* (unless the row's stamp was lost with the column).
RoundBringsEveryChange ==
    \A c \in Caller : RoundDone(c) /\ xidMy /\ xidCk =>
        \A k \in Upstream : src[k].x = src[k].v => \A r \in Range(ck[k]) : r.v = src[k].v
=============================================================================
