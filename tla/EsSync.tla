------------------------------- MODULE EsSync -------------------------------
(* SyncService.doEsTask (app/service/syncservice.js): one round of a job    *)
(* copies the next batch of rows of a MySQL table to an Elasticsearch index *)
(* and moves the job's cursor, pindex.  The cursor lives twice: in the      *)
(* table bs_sync_rec, shared by every service process, and in the process's *)
(* own configuration object, shared by the tasks of that process.           *)
(*                                                                          *)
(* A task is a chain of awaited calls.  Each await is two actions: the one  *)
(* in which the server answers and the one in which the answer is used;     *)
(* between the two, any other task, server or timer may move.               *)
EXTENDS Integers, FiniteSets

CONSTANTS Caller,       \* concurrent runs of the task: HTTP requests, timers
          Process,      \* service processes (package.json starts ten)
          Home,         \* the process each caller runs in
          NoOne,        \* nobody holds the lock
          Key,          \* values of the sync column
          Batch,        \* rows per round: "limit 200"
          MaxDup,       \* bound: no round starts with that many equal UPDATEs pending
          MaxFaults     \* bound: crashes, failed calls and lost calls

ASSUME TaskAssumption == Home \in [Caller -> Process] /\ NoOne \notin Caller
ASSUME KeyAssumption == Key \subseteq Nat \ {0}
ASSUME BoundAssumption == Batch \in Nat \ {0} /\ MaxDup \in Nat \ {0} /\ MaxFaults \in Nat

VARIABLES source,       \* keys of the rows committed in the MySQL table
          late,         \* those committed below a key already committed
          rec,          \* pindex values in the job's rows of bs_sync_rec
          updating,     \* UPDATE bs_sync_rec statements not executed yet, by value
          mem,          \* app.config.elasticsearch[job].pindex of each process
          lock,         \* the holder of the redlock lease
          pc, arg, resp, \* each caller's place, the parameter sent, the answer unused yet
          reply,        \* pindex the caller was told, -1 for none or the error reply
          docs,         \* keys of the documents in the index
          indexing,     \* keys of index calls still in flight
          lost,         \* keys of index calls that failed: nobody awaits them
          faults

upstream == <<source, late>>
sql      == <<rec, updating>>
task     == <<pc, arg, resp, reply>>
es       == <<docs, indexing, lost>>
vars     == <<upstream, sql, mem, lock, task, es, faults>>

Cursor == Key \cup {0}
Handed == docs \cup indexing \cup lost

Await == {"recRead", "recAnswered", "recInsert", "recInserted", "rowRead", "rowAnswered"}
InSection == Await \cup {"unlocking"}
Pc == InSection \cup {"idle", "locking"}

Init ==
    /\ source = {} /\ late = {}
    /\ rec = {} /\ updating = [v \in Cursor |-> 0]
    /\ mem = [p \in Process |-> 0]
    /\ lock = NoOne
    /\ pc = [c \in Caller |-> "idle"]
    /\ arg = [c \in Caller |-> 0]
    /\ resp = [c \in Caller |-> {}]
    /\ reply = [c \in Caller |-> -1]
    /\ docs = {} /\ indexing = {} /\ lost = {}
    /\ faults = 0

-----------------------------------------------------------------------------
(* The environment: MySQL rows, the lease, the calls nobody awaits.         *)

\* A transaction of another service commits a row; keys given out earlier may
\* commit later.
Commit(k) ==
    /\ k \in Key \ source
    /\ source' = source \cup {k}
    /\ late' = IF \E j \in source : j > k THEN late \cup {k} ELSE late
    /\ UNCHANGED <<sql, mem, lock, task, es, faults>>

\* The lease is 1000 ms; nothing extends it and no step of the task checks it.
LeaseExpires ==
    /\ lock # NoOne
    /\ lock' = NoOne
    /\ UNCHANGED <<upstream, sql, mem, task, es, faults>>

IndexDone(k) ==
    /\ k \in indexing
    /\ indexing' = indexing \ {k}
    /\ docs' = docs \cup {k}
    /\ UNCHANGED <<upstream, sql, mem, lock, task, lost, faults>>

IndexLost(k) ==
    /\ k \in indexing /\ faults < MaxFaults
    /\ indexing' = indexing \ {k}
    /\ lost' = lost \cup {k}
    /\ faults' = faults + 1
    /\ UNCHANGED <<upstream, sql, mem, lock, task, docs>>

\* A plausible mistake: a WHERE clause that matches no record.
SetPindexNowhere(recs, v) == recs

\* UPDATE bs_sync_rec SET pindex WHERE index, type and params are the job's.
SetPindex(recs, v) == IF recs = {} THEN {} ELSE {v}

\* A plausible mistake: the statement is taken to have run when none was sent.
UpdateDoneTwice(v) ==
    /\ updating' = [updating EXCEPT ![v] = @ - 1]
    /\ rec' = SetPindex(rec, v)
    /\ UNCHANGED <<upstream, mem, lock, task, es, faults>>

\* The pool has several connections: pending UPDATEs execute in any order.
UpdateDone(v) ==
    /\ updating[v] > 0
    /\ updating' = [updating EXCEPT ![v] = @ - 1]
    /\ rec' = SetPindex(rec, v)
    /\ UNCHANGED <<upstream, mem, lock, task, es, faults>>

UpdateLost(v) ==
    /\ updating[v] > 0 /\ faults < MaxFaults
    /\ updating' = [updating EXCEPT ![v] = @ - 1]
    /\ faults' = faults + 1
    /\ UNCHANGED <<upstream, rec, mem, lock, task, es>>

-----------------------------------------------------------------------------
(* The task.                                                                *)

Goto(c, place) == pc' = [pc EXCEPT ![c] = place]
Send(c, v)     == arg' = [arg EXCEPT ![c] = v]
Answer(c, a)   == resp' = [resp EXCEPT ![c] = a]
Tell(c, v)     == reply' = [reply EXCEPT ![c] = v]

\* doEsTask is called by the timer or by GET /api/es/sync.
Begin(c) ==
    /\ pc[c] = "idle"
    /\ \A v \in Cursor : updating[v] < MaxDup
    /\ Tell(c, -1)
    /\ Goto(c, "locking")
    /\ UNCHANGED <<upstream, sql, mem, lock, arg, resp, es, faults>>

Lock(c) ==
    /\ pc[c] = "locking" /\ lock = NoOne
    /\ lock' = c
    /\ Goto(c, "recRead")
    /\ UNCHANGED <<upstream, sql, mem, arg, resp, reply, es, faults>>

\* redlock gives up after retryCount attempts: lock() rejects before the try
\* and the controller replies with the error.
LockFails(c) ==
    /\ pc[c] = "locking" /\ lock # NoOne
    /\ Goto(c, "idle")
    /\ UNCHANGED <<upstream, sql, mem, lock, arg, resp, reply, es, faults>>

\* SELECT pindex FROM bs_sync_rec: no row, or the first of them in some order.
RecAnswer(c) ==
    /\ pc[c] = "recRead"
    /\ \E a \in {{v} : v \in rec} \cup (IF rec = {} THEN {{}} ELSE {}) : Answer(c, a)
    /\ Goto(c, "recAnswered")
    /\ UNCHANGED <<upstream, sql, mem, lock, arg, reply, es, faults>>

\* config.pindex is taken from the record, and the row query sent with it.
RecFound(c) ==
    /\ pc[c] = "recAnswered"
    /\ \E v \in resp[c] : mem' = [mem EXCEPT ![Home[c]] = v] /\ Send(c, v)
    /\ Answer(c, {})
    /\ Goto(c, "rowRead")
    /\ UNCHANGED <<upstream, sql, lock, reply, es, faults>>

\* No record: insert one with the process's own config.pindex.
RecMissing(c) ==
    /\ pc[c] = "recAnswered" /\ resp[c] = {}
    /\ Send(c, mem[Home[c]])
    /\ Goto(c, "recInsert")
    /\ UNCHANGED <<upstream, sql, mem, lock, resp, reply, es, faults>>

RecInsert(c) ==
    /\ pc[c] = "recInsert"
    /\ rec' = rec \cup {arg[c]}
    /\ Send(c, 0)
    /\ Goto(c, "recInserted")
    /\ UNCHANGED <<upstream, updating, mem, lock, resp, reply, es, faults>>

\* The row query is sent with config.pindex as it is by now.
RecInserted(c) ==
    /\ pc[c] = "recInserted"
    /\ Send(c, mem[Home[c]])
    /\ Goto(c, "rowRead")
    /\ UNCHANGED <<upstream, sql, mem, lock, resp, reply, es, faults>>

\* A plausible mistake: "order by ... desc limit", the newest rows first.
NewestRows(S, from) == {k \in S : k > from /\ Cardinality({j \in S : k <= j}) <= Batch}

\* "where key > :pindex order by key asc limit 200"
NextRows(S, from) == {k \in S : k > from /\ Cardinality({j \in S : from < j /\ j <= k}) <= Batch}

RowAnswer(c) ==
    /\ pc[c] = "rowRead"
    /\ Answer(c, NextRows(source, arg[c]))
    /\ Send(c, 0)
    /\ Goto(c, "rowAnswered")
    /\ UNCHANGED <<upstream, sql, mem, lock, reply, es, faults>>

\* A plausible mistake: the loop stops one row short.
CallsButLast(rows) == {k \in rows : \E j \in rows : k < j}

\* One esSearch.index call for each row of the batch.
Calls(rows) == rows

\* The cursor in memory moves to the last row; then one index call per row and
\* the UPDATE of the record are issued, and none of them is awaited.
HandOver(c) ==
    /\ pc[c] = "rowAnswered"
    /\ \E last \in resp[c] :
          /\ \A k \in resp[c] : k <= last
          /\ mem' = [mem EXCEPT ![Home[c]] = last]
          /\ updating' = [updating EXCEPT ![last] = @ + 1]
          /\ Tell(c, last)
    /\ indexing' = indexing \cup Calls(resp[c])
    /\ Answer(c, {})
    /\ Goto(c, "unlocking")
    /\ UNCHANGED <<upstream, rec, lock, arg, docs, lost, faults>>

\* Nothing new: the reply carries whatever config.pindex is by now.
NothingNew(c) ==
    /\ pc[c] = "rowAnswered" /\ resp[c] = {}
    /\ Tell(c, mem[Home[c]])
    /\ Goto(c, "unlocking")
    /\ UNCHANGED <<upstream, sql, mem, lock, arg, resp, es, faults>>

\* Any awaited call may reject, before or after the server has executed it.
Rejected(c) ==
    /\ pc[c] \in Await /\ faults < MaxFaults
    /\ faults' = faults + 1
    /\ Tell(c, -1)
    /\ Send(c, 0) /\ Answer(c, {})
    /\ Goto(c, "unlocking")
    /\ UNCHANGED <<upstream, sql, mem, lock, es>>

\* unlock() deletes the caller's own lease only; it rejects when that has
\* expired, and the caller gets the error reply instead of its result.
Unlock(c) ==
    /\ pc[c] = "unlocking"
    /\ IF lock = c THEN lock' = NoOne /\ UNCHANGED reply
                   ELSE Tell(c, -1) /\ UNCHANGED lock
    /\ Goto(c, "idle")
    /\ UNCHANGED <<upstream, sql, mem, arg, resp, es, faults>>

\* The process stops and is started again: its callers and config.pindex are
\* lost, its lease stays until it expires, calls already sent stay on their way.
Crash(p) ==
    /\ faults < MaxFaults
    /\ faults' = faults + 1
    /\ mem' = [mem EXCEPT ![p] = 0]
    /\ pc' = [c \in Caller |-> IF Home[c] = p THEN "idle" ELSE pc[c]]
    /\ arg' = [c \in Caller |-> IF Home[c] = p THEN 0 ELSE arg[c]]
    /\ resp' = [c \in Caller |-> IF Home[c] = p THEN {} ELSE resp[c]]
    /\ reply' = [c \in Caller |-> IF Home[c] = p THEN -1 ELSE reply[c]]
    /\ UNCHANGED <<upstream, sql, lock, es>>

-----------------------------------------------------------------------------
Step(c) ==
    \/ Begin(c) \/ Lock(c) \/ LockFails(c)
    \/ RecAnswer(c) \/ RecFound(c) \/ RecMissing(c) \/ RecInsert(c) \/ RecInserted(c)
    \/ RowAnswer(c) \/ HandOver(c) \/ NothingNew(c)
    \/ Unlock(c)

Fault == \/ \E c \in Caller : Rejected(c)
         \/ \E p \in Process : Crash(p)
         \/ \E k \in indexing : IndexLost(k)
         \/ \E v \in Cursor : UpdateLost(v)

Deliver == \/ \E k \in indexing : IndexDone(k)
           \/ \E v \in Cursor : UpdateDone(v)

Next == \/ \E c \in Caller : Step(c)
        \/ \E k \in Key : Commit(k)
        \/ LeaseExpires
        \/ Deliver
        \/ Fault

Spec == Init /\ [][Next]_vars

\* Timers fire again and again, servers answer, calls arrive, leases run out.
Fairness == /\ \A c \in Caller : WF_vars(Step(c))
            /\ WF_vars(LeaseExpires)
            /\ \A k \in Key : WF_vars(IndexDone(k))
            /\ \A v \in Cursor : WF_vars(UpdateDone(v))

FairSpec == Spec /\ Fairness

-----------------------------------------------------------------------------
(* Properties.                                                              *)

\* The types of all state (syncservice.js:11-67, config.default.js:220-257).
TypeOK ==
    /\ source \in SUBSET Key /\ late \in SUBSET source
    /\ rec \in SUBSET Cursor /\ updating \in [Cursor -> Nat]
    /\ mem \in [Process -> Cursor]
    /\ lock \in Caller \cup {NoOne}
    /\ pc \in [Caller -> Pc]
    /\ arg \in [Caller -> Cursor]
    /\ resp \in [Caller -> SUBSET Cursor]
    /\ reply \in [Caller -> Cursor \cup {-1}]
    /\ docs \in SUBSET Key /\ indexing \in SUBSET Key /\ lost \in SUBSET Key
    /\ faults \in 0..MaxFaults

Reached(v)  == v \in source \cup {0}
Covered(v)  == \A k \in source : k <= v => k \in Handed \cup late
Sound(v)    == Reached(v) /\ Covered(v)
NoHole(rows) == /\ rows \subseteq source
                /\ \A r \in rows : \A k \in source :
                      k < r => k \in rows \cup Handed \cup late

\* The record, its pending UPDATEs and the processes' copies of pindex only hold
\* keys of committed rows below which every row committed in key order has been
\* handed to Elasticsearch: no order of tasks, answers, expired leases, failures
\* or restarts makes the cursor skip a row (syncservice.js:25-57).
CursorNeverSkips ==
    /\ \A v \in rec : Sound(v)
    /\ \A v \in Cursor : updating[v] > 0 => Sound(v)
    /\ \A p \in Process : Sound(mem[p])

\* A success reply names a pindex up to which the rows really were handed over,
\* even when another task of the process moved config.pindex meanwhile
\* (syncservice.js:59).
ReplyIsTrue == \A c \in Caller : reply[c] # -1 => Sound(reply[c])

\* What is in flight inside a task: the pindex just read, the parameter just
\* sent, and the batch just read, which has no hole (syncservice.js:25-37).
TaskSound ==
    \A c \in Caller :
        /\ pc[c] # "rowAnswered" => \A v \in resp[c] : Sound(v)
        /\ Sound(arg[c])
        /\ pc[c] = "rowAnswered" => NoHole(resp[c])

\* The inductive invariant.
IInv == TypeOK /\ IsFiniteSet(source) /\ CursorNeverSkips /\ ReplyIsTrue /\ TaskSound

\* The rows are handed over without a hole: doEsTask implements EsFeed
\* (syncservice.js:37-57).
Feed == INSTANCE EsFeed WITH handed <- Handed
FeedSpec == Feed!Spec

\* Every row committed in key order is handed to Elasticsearch in the end,
\* after any bounded number of crashes, failed calls and expired leases, and
\* although pending UPDATEs may set the record back (syncservice.js:11-67).
EveryRowHandedOver == \A k \in Key : k \in source ~> k \in Handed \cup late
=============================================================================
