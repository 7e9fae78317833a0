# A TLA+ model of xdata-elasticsearch-service

The repository is an egg.js service that keeps copies of MySQL tables in Elasticsearch and ClickHouse, answers
queries on them, sends Kafka messages, and offers and calls a SOFA RPC service. It carries its own copy of the RPC
framework in `src/sofarpc`. This directory holds TLA+ modules translated from that code, configurations that
model-check them with TLC, and theorems about them checked with TLAPS.

## 1. Inventory

### The synchronisation tasks

| part | state it keeps | operations |
|---|---|---|
| Elasticsearch task: `app/service/syncservice.js` `doEsTask`, `app/schedule/syncesTask.js`, `app/controller/essync.js` | the cursor `pindex` of each job: in `app.config.elasticsearch[job]` of every process, and in the MySQL table `bs_sync_rec`; a redlock lease of 1000 ms | read or insert the record, query the next 200 rows, one un-awaited `index` call per row, un-awaited `UPDATE` of the record, unlock |
| ClickHouse task: `doCkTask`, `app/schedule/syncckTask.js`, `app/controller/cksync.js`, the SQL templates of `config.default.js` | the record's `reset`; the ClickHouse table; the column `xid` on both sides; a lease | rebuild (alter, clear `reset`, drop, create), insert rows above the maximum id, insert missing ids, replace rows with a larger `xid`, `OPTIMIZE ... FINAL` |

The tasks are started by timers in every worker of every process and by HTTP requests. Hard: overlapping runs after
the lease has run out, shared `config.pindex` around awaits, calls nobody awaits, swallowed errors, restarts.
What makes them correct: the cursor never passes a row that was not handed over; a reply is true; every row arrives;
a round of the ClickHouse task leaves one present version of each row; what a failure removes comes back.

### The RPC client (`src/sofarpc/lib/client`)

| part | state it keeps | operations |
|---|---|---|
| `circuit_breaker.js`, `metric/*` | `status`, `_circuitOpened`, a window of buckets per host | `allowRequest`, `update`, the window's tick, `reset`, `close` |
| `connection/rpc.js` (bolt) | `_sentReqs`, timers, `_connected`, `_closed`, `_isClosing` | connect, `invoke`, settle, heartbeat, graceful and forced close |
| `connection/grpc/*` | one HTTP/2 session, a call stream per request | `invoke`, headers, data, trailers, cancel, close |
| `connection_mgr.js` | one connection per host | `get`, `createAndGet`, forget on close |
| `address_group.js`, `loadbalancer/*` | all addresses, those in use, weights, faults, pool size, `_degradeEnable` | pushed list, window's end, connect, retry, refresh, select |
| `consumer.js`, `client.js` | consumer cache, address group, subscription | `createConsumer`, `invoke`, `close` |
| `scheduler.js` | one timer per period for the whole process | `interval`, `clear` |

A consumer takes a connection of its address group; the group asks the load balancer for an address and the
connection manager for its connection; the connection asks its breaker; the counters of breakers and groups are
driven by one scheduler; the group reads the breakers' counters and resets them. Hard: requests end in any order
relative to ticks and timers; handlers refresh the group in the middle; connections fail and close late; several
objects find each other by host name. What makes them correct: every request is settled once; a breaker never waits
for a result nobody will bring; it opens on fresh errors only and closes when the server is well again; addresses
that are lost are reconnected, those that recovered are used again, withdrawn ones are forgotten.

### Registry, server, proxies, Kafka, the rest

* `registry/zk/data_client.js`: `_registerMap`, `_subscribeMap`, watches and ephemeral nodes. `register` is exists,
  remove and create, each awaited; a reconnect registers everything again without waiting; `unRegister`, `subscribe`
  and `unSubscribe` run between those steps. Correct: what is registered is listed in the end, what is unregistered is not,
  and a subscriber ends with the latest list.
* `server/server.js`, `service.js`, `connection.js`, `response.js`, `grpc/*`: services by id, connections by remote
  address, publication. `publish` waits until the service's own URL is listed. Correct: every request gets one answer
  or none after its timeout; a withdrawn service gets no new consumer.
* `app/proxy/ProduceService.js`, `ConsumeService.js`, `app/schedule/sofaTask.js`: every context tries to publish
  the service unless `publishstatus` is set, which happens after two awaits. Correct: it is published once.
  `app/service/sofaservice.js` uses a counter it never declares; nothing calls it.
* `app/service/kafkaservice.js`, `app/kafka/message/*`, `kafkaTask.js`: two sends and a module-wide counter; the
  consumers take a 10 ms lease, log, and swallow all errors.
* `app.js` wires clients together in sequence and wraps handlers in a flow limiter; `where.helper.js` builds SQL
  conditions; the query controllers are stateless.
* Left aside: `docker*` (configuration of other systems), `typings`, `code.tmp`, `proto`, examples, test helpers.

The file PROJECT.json lists all components with what is modelled of each, and the hazards found in the code at their
lines, those no property covers yet included.

## 2. Plan

In the order of importance to what the service does. Done:

1. **EsFeed**, **EsSync**, **EsSyncProofs**: the Elasticsearch task, what it promises, the refinement, proofs.
2. **CkSync**, **CkSyncProofs**: the ClickHouse task.
3. **Admission**, **CircuitBreaker**, **CircuitBreakerProofs**: what a breaker promises; breaker, window and request settlement of
   one connection, which implement it.
4. **AddressGroup**, **AddressGroupProofs**: addresses, weights, faults, pool, connections, over abstract verdicts of the counters.
5. **SofaRegistry**, **SofaRegistryProofs**: the registry client step by step over a ZooKeeper with sessions and watches, composed with the
   provider that publishes itself, the server that withdraws it, and a consumer's address list.
6. **Settlement**: what a call promises, whichever transport carries it.
7. **RpcCall**, **RpcCallProofs**: calls over bolt from the consumer to the service and back, over generations of
   connections to one host; that this implements Settlement.
8. **GrpcCall**, **GrpcCallProofs**: the same over one gRPC session, with the events of each call's stream.
9. **NumberLemmas**: least and greatest numbers, sums and ranks, for the proofs of all modules. With it every invariant and
   every action property of the runs is proved.

Left:

10. Larger instances of AddressGroup (four addresses, where "at most 40 % isolated" and the replacement of dead addresses
    begin to mean something) need a coarser choice of addresses than the list's order.
11. `RpcServer.close()` as one operation over registry and sockets, and `RpcClient.close()` over several consumers.

## 3. Modules

| module | models | is used by |
|---|---|---|
| EsFeed | what `doEsTask` promises: rows are handed over in key order, without a hole | EsSync (`Feed`) |
| EsSync, MCEsSync | `doEsTask` in several processes | EsSyncProofs |
| CkSync, MCCkSync | `doCkTask` for one table | CkSyncProofs |
| Admission | what a breaker promises: one test once it has opened, closed only as a request it let through ends | CircuitBreaker (`Promise`) |
| CircuitBreaker, MCCircuitBreaker | breaker, counter, and `invoke` of one bolt or gRPC connection | CircuitBreakerProofs |
| AddressGroup, MCAddressGroup | address group, weighted round robin, connection manager | AddressGroupProofs |
| SofaRegistry, MCSofaRegistry | registry client, publication and withdrawal, subscription of one interface | SofaRegistryProofs |
| Settlement | what a call promises: it ends once, runs at most once, succeeds only if it ran | RpcCall, GrpcCall (`Promise`) |
| RpcCall, MCRpcCall | calls to one server over bolt; consumer, manager, connections, server | RpcCallProofs |
| GrpcCall, MCGrpcCall | calls over one gRPC session; call streams, timers, server | GrpcCallProofs |
| NumberLemmas | lemmas: least element of a set of naturals, `Max`, `SumFunction`, the first `k` of an order | CkSyncProofs, CircuitBreakerProofs, AddressGroupProofs |
| EsSyncProofs, CkSyncProofs, CircuitBreakerProofs, AddressGroupProofs, SofaRegistryProofs, RpcCallProofs, GrpcCallProofs | the theorems | |

PROJECT.json maps every definition to its lines. The breaker's decision is an input of RpcCall and GrpcCall (a call may
be refused or not), and what becomes of a call an input of CircuitBreaker and AddressGroup: each side allows
everything the other may do, so that every module holds what it says whatever the others decide.

### EsSync

State: `source` (rows in MySQL), `rec` and `updating` (the record, and `UPDATE`s sent and not executed), `mem` (each
process's `config.pindex`), `lock`, for each caller its place `pc` with the parameter sent (`arg`) and the answer not
used yet (`resp`), `reply`, and index calls in flight, done or lost. Every await is two actions, the server's answer and
its use, so that everything else may move before the statement executes and between the two. `HandOver` is the whole
synchronous stretch after the row query: cursor, index calls, `UPDATE`. `Crash` empties a process and leaves its lease
and the calls already sent. `Rejected` is any awaited call rejecting; `Unlock` rejects when the lease has expired, as
redlock does. `Commit` lets keys commit out of order: a row that commits below a key already there is `late`, and
nothing is promised about it, because the code asks for keys above the cursor.

### CkSync

One action per awaited statement with the code up to the next await; each statement executes or fails (`Failed`,
bounded), and the action says where the code goes on then: most errors are swallowed and the round continues.
A row is its contents `v`, the stamp of its last change, and its column `x` (`xid`). `ck` keeps the rows of each id in the order
they were inserted, as ClickHouse's ReplacingMergeTree does: a row that two rounds insert is there twice, changed in between or not, until
`OPTIMIZE ... FINAL` (`Dedup`) leaves the last. `calm` remembers whether anything
but the task itself has moved since its query; the properties of a round are about calm rounds. The maximum of an
empty table's ids is an empty string, below every id; that of its stamps is NULL, above which there is nothing.
Simplified: `CREATE ... AS SELECT` and `ALTER ... DELETE` are atomic, a statement is not executed after the client has
given up, stamps commit in order, differing `create_time` columns are left out.

### CircuitBreaker

Requests are slots; an action is one handler of node with its microtasks, or one `nextTick` callback, which run before
timers and socket events (`Quiet`). `Transport` selects where bolt and gRPC differ: over bolt a refused request is
settled in a `nextTick` and counted, over gRPC it is answered at once; over gRPC `invoke` may leave by an exception
without reporting. `buckets` is the rolling window; percentages are rounded as the code does. `forceOpen` and `forceClosed` have
their configured value, false. Response times decide nothing here and are left out; a request any answer reaches is counted as '00'.
`probe` and `fresh` are history variables that only properties read.
Admission is the abstract specification: `phase` is `status`, `out` the requests that were let through (`LetThrough`), those refused left out.
It has neither `_circuitOpened` nor a window, so whatever `allowRequest()` reads there must come to the same.

### AddressGroup

A handler may refresh the group in the middle (`_onNext` up to twice), so handlers are functions on the group's state,
and an action applies them in the code's order: resize, weigh, regulate. What the counters say of each connected address is an input
(`verdict`), the number of requests another (`size`). `Choose` keeps the order in which the code's two loops
fill the places (`Before`): healthy and new addresses, then unknown ones from the list's end, then bad ones; an address is chosen when fewer
come before it than there are places. `waiters` are the addresses
`_connectAll` waits for, `retrying` those that `ready()` or the retry timer waits for: an answer acts on the group as it is by then.
Before `ready()` neither the window nor the timer runs.
Not modelled: `close()`, and the full weight that an idle address is given for one request, which changes no state.

### SofaRegistry

One process, one interface. Requests to ZooKeeper are pipelined and answered in order, so `queue` holds those not
answered, and an operation that awaits several (`register`: mkdirp, exists, remove, create) is known by the one it waits for:
`Answer` executes the head of the queue and appends what its handler sends next. `node` says for each url whether its
ephemeral node belongs to this session or to an old one, which `OldExpires` takes away later. `Disconnect` rejects everything pending,
as the ZooKeeper client does, after ZooKeeper has executed any number of them (`NodeAfter`); `Connect` registers all of `_registerMap` again without waiting. A url carries the
millisecond it was made in (`startTime`), so two contexts that publish in one millisecond share a url and two that do not
leave two of them; `publishUrl` is that of the service the server has by then. Lists reach a listener by
the watch or, for a late one, by `setImmediate`, which may be overtaken (`overtaken`). `gone` and `raced` are history.
`IsMatch` is the filter of `_isMatch` over interface, category, enabled, group and version.
Not modelled: `close()` of the registry and the nodes of consumers, which nothing reads.

### Settlement, RpcCall, GrpcCall

Settlement is the abstract specification: `phase`, `good` and `ran`. Both transports implement it by the same
mapping, from `at`, `code` and `ran`.

In RpcCall an action is one handler of node with the microtasks and `nextTick`s it leaves behind, which run before any
other event. Connections are numbered as they are created; `entry` is the manager's map for the host, `ready` what the connection's
`ready()` says, `Sent(k)` its `_sentReqs`, `awaited` the promises its `close()` collected, `breaker`, `cache` and `dead` the
host's breakers by the connection that made them. `Closes` is the whole of the socket's close: all sent calls end, the
breaker closes, the manager forgets whatever connection it has for the host, be it this one or a newer one. `Drained` carries out
what an ended call sets off: a closing connection is destroyed with the last call it waits for. A call that goes out over a
destroyed socket is sent into nothing and ends by the close event or its timer. `crossed` and `lost` are history variables that only properties read.
The server answers, refuses what it does not know, stays silent or is late; its idle timer, its close and the client's may come at any time.
Times are not modelled, only their order: any timer may fire whenever it is set.

GrpcCall keeps of a call stream what decides its end: `stream`, `rst` (`rstCode`), `status` (`_mappedStatusCode`), the
message `got`, `kept` (`_sentReqs`) and `timers`. Calls are numbered in the order they come, which is that of `_sentReqs`. `coming` are the events the server's answer brings, one at a time; a
cancel, reset, GOAWAY or lost socket may come between any two. `Ends` is `_endCall`, `Closing` the stream's destroy.
`Throws` is a call whose request throws, before or after its stream is there. `Close` is the client's `close()` or that after a failed
ping, at any time: with calls in `_sentReqs` it waits for them before `ForceClose`; with none, as while the session still connects, it destroys the
session at once. `ForceClose` cancels calls up to the first that has no stream. The gRPC server answers 200 or, on failure, 500, and
its trailers say the same; other HTTP statuses would need another server.
Not modelled: back pressure of `_read` and `_write`, and metadata that cannot be decoded.

## 4. Runs

| run | shows | bounds |
|---|---|---|
| `es_safety` | Two overlapping tasks of one process never make the cursor skip a row, replies are true, and every step is one of EsFeed's | keys 1..3, batches of 2, one fault of any kind, one `UPDATE` pending per value when a round starts |
| `es_progress` | Under fairness every row committed in order is handed over | two processes, keys 1..2, batches of 1, one fault |
| `ck_round` | Overlapping rounds leave no id twice whenever no insertion waits for its deduplication, be it the same row that they insert; a calm round brings every row once and replaces newer ones | two tasks, two ids, one change, one reset, one failed statement |
| `ck_back` | Under fairness the row comes back whichever of two overlapping tasks deletes it or fails | two tasks, one id, one change, one failed statement |
| `ck_change` | *Violation*: a changed row stays outdated when a newer one was inserted in the same round | one task, two ids, two changes |
| `breaker_rpc` | Over bolt: the breaker implements Admission; state and flag agree, HALF_OPEN awaits a test that is out, the breaker trips on fresh errors only | three requests, three buckets, threshold 3 |
| `breaker_grpc` | Over gRPC: only timeouts reopen, and the breaker of a healthy server closes for good | two requests, two buckets, threshold 2 |
| `addr_fault` | Withdrawn addresses stay off the list of faults, connected ones keep a weight, lost ones are reconnected, and an address that is well again gets its share back | two addresses, two pushed lists, pool of 1..2, weights 0..3 |
| `registry_listed` | What is on record is listed in the end, publications end, the consumer catches up, and what is withdrawn with no registration under way stays out | two contexts, two milliseconds, two foreign providers (one of another group), one lost connection or foreign change |
| `registry_zombie` | *Violation*: a registration under way brings a withdrawn provider back | the same |
| `rpc_calls` | Over bolt: calls are settled once, run at most once and end; the live connection is the known one and its breaker counts; `close()` cuts no call off | three calls, two generations of connections |
| `grpc_calls` | Over gRPC: calls are settled once, run at most once and end, unless they wait for a session that was closed before it had connected; success only with the whole message, every call out has a timer, and `close()` closes | two calls, one session |

Why the bounds are enough for the questions. EsSync: three keys with batches of two give a full batch, a short one
and an empty one; two callers give every pair of overlapping steps, and a lease may expire at any time any number of times.
CkSync: two ids give one above and one below a maximum; a third would repeat either. `ck_back` has one id, since its hazard is what two
tasks do to the rows of one id, and liveness without symmetry is dear; that a calm round finds what is missing below the maximum is `ck_round`'s,
and all of `ck_round` is proved for any number of tasks, ids and changes. CircuitBreaker: one
request to be the test, one sent before the breaker opened, one refused; a window as long as the threshold needs,
that has to slide before errors are gone. AddressGroup: one address in use and one not, with a pool that grows and shrinks.
The weights keep the relations of the real ones (least below default, doubling overshoots). SofaRegistry: two contexts
publish the same or different urls; one connection lost may come between any two steps, with or without a new session.
RpcCall: the second connection is the newer one that a late close or failure of the first can hit, with a call on each and one
more; `LiveHasBreaker`, `LiveIsKnown`, `ClosesGracefully` and the refinement are proved for all numbers. GrpcCall: two calls share a
session whose end cuts both, at different events of their streams; its safety is proved for all numbers too.

`MaxPerBucket`, `MaxStamp`, `MaxResets`, `MaxFaults`, `MaxDup`, `MaxPushes`, `MaxTime`, `MaxEvents`, `MaxCalls` and `MaxConn` are bounds and nothing else; each is a conjunct of the guards it bounds.
Deadlock is checked in the runs of EsSync, CkSync, CircuitBreaker and AddressGroup, whose work never ends; the others may come to
rest: all calls are over and the client is closed, or everything is published, delivered and withdrawn. `es_safety`, `ck_round` and
`breaker_rpc` use the symmetry of callers or requests, which appear in no liveness property there; in RpcCall and GrpcCall calls are
numbered in the order they begin instead, which serves liveness too.

The violations, with the comments they contradict, are listed under `findings` in PROJECT.json.

### What the models show besides

The following behaviours are in the models and excepted by the properties named; no run is spent on a violation of them.

* A ClickHouse table that a failed round has dropped is not created again until the record's `reset` is set or a round starts in the second of midnight
  (`syncservice.js:86`, `:124`, `:139`): `RowsComeBack` speaks of a table that is there.
* A weight of 0 doubles to 0 (`address_group.js:247`; `dynamic_config.js:48` says that the weight recovers by that factor): the weight
  itself never rises again, but once connected the address takes its whole share, as a weight of 0 counts like none. `ShareRecovers` is about the share.
* Over bolt a request that HALF_OPEN refuses reopens the breaker (`rpc.js:211`); over gRPC an exception between `allowRequest`
  and `update` leaves HALF_OPEN with no test out (`grpc/index.js:148`). `OnlyTimeoutsReopen` and `HalfOpenAwaitsProbe` are each
  stated for the transport where they hold.
* A connection that fails to connect, or closes late, deletes the entry, and may close the breaker, of a newer one
  to the same host (`connection_mgr.js:73`, `:87`, `rpc.js:278`): the exceptions of `LiveIsKnown` and `LiveHasBreaker`.
* A connection closed while it connects, by the client's `close()` (`connection_mgr.js:95`), never answers `ready()`, over bolt
  (`rpc.js:288`) or over gRPC (`grpc/index.js:197-212`: `destroy()` emits 'close' alone), and whoever awaits it (`connection_mgr.js:76-78`) waits
  for ever: `Abandoned` in both modules. Nobody else does.
* A gRPC call that throws keeps its timer and its place in `_sentReqs` (`call_stream.js:281`): its timer reads a stream that is not there, and
  `close()` never reaches `forceClose()` (`grpc/index.js:210`): the exception of `CloseEnds`.
* The first `subscribe` may fail to set its watch for good (`data_client.js:129`): `Unwatched`. A cached list that is delivered after a newer one
  stands until the next change (`data_client.js:146`): `overtaken`.
* Contexts created before `publishstatus` is set publish the service again, in another millisecond under another URL, and only the last is
  withdrawn (`ProduceService.js:16`): `gone` is that URL, and `WithdrawnStaysOut` speaks of no other.
* A row whose un-awaited index call fails is not indexed again (`syncservice.js:47`): EsFeed's rows are handed over, not stored. A round whose `unlock()`
  rejects is reported as failed with its rows handed over (`:64`): `ReplyIsTrue` is about replies of success.

### Fairness

* Tasks go on (`WF` of a caller's `Step`): the timers of the schedule fire again and again, and every awaited call is
  answered or rejected. Which of them gets the lock is not assumed.
* A lease runs out; a call that was sent arrives or is lost. Faults are bounded, never fair.
* In SofaRegistry ZooKeeper answers, watches fire, the client reconnects and old sessions end. Losing the connection, changes of
  other processes, publication, withdrawal and closing are never fair.
* In RpcCall and GrpcCall timers fire, connecting succeeds or times out, a destroyed socket, stream or session emits 'close', and promises that
  are settled are gone on with. No server answers by fairness: `EveryCallEnds` holds with a server that is silent.
* In CircuitBreaker clients keep calling (some request, not a particular one), every request ends because it has a
  timer, and timers tick. In AddressGroup the window and the retry timer run, and connecting succeeds or times out;
  `Select`, drops and the servers are not fair, so `Reconnects` holds without any request.

## 5. Proofs

All theorems hold for every value of the constants that the named assumptions allow.

**EsSyncProofs.** `CursorNeverSkips` is not inductive: the cursor in memory comes from answers, parameters and batches
in flight. The inductive invariant `IInv` adds `TaskSound` (what a task has read or sent is sound; a batch just read has
no hole), `ReplyIsTrue`, types, and that `source` is finite, since `NextRows` counts rows. The heart is `BatchIsPrefix`: the next
`Batch` rows above a cursor are a prefix of all rows above it, so the last of them is a sound cursor once all have
been handed over. `SoundStable` and `SoundCommit` say why other steps keep cursors sound: calls issued are never forgotten,
and a row committed below a cursor is late. From `Invariance` follow `TypeCorrect`, `NeverSkips`,
`RepliesAreTrue`, `TasksAreSound`, and with it `ImplementsFeed`: every step maps to a step of EsFeed or to a stutter, with
`handed` = calls in flight, done or lost. Any number of callers, processes, faults, and any batch size.

**CkSyncProofs.** `NoDuplicatesAtRest` is inductive as the run states it, with a copy that keeps every row inserted, equal ones
too, because every statement that adds rows brings its task to a place that the property names (`Unmerged`), and the
statement it sends from there leaves one row of each id for all tasks (`DedupMerges`); only a failure breaks that, and the property speaks of runs without one. What a round brings needs more: `RoundSound` says for each place of a round
what a calm task has achieved by then: after the insertions no row is missing, after the deduplication each is there once, and after deleting and
inserting the changed ones those are as MySQL has them (`Progress`). `CopiesFinite`, that ids and rows are finite sets, is what makes a maximum a
maximum (`MaxOfNaturals`). Theorems: `TypeCorrect`, `NoDuplicates`, `EveryRowComes`, `NewerRowsAreReplaced`, for any number of callers, ids, changes and resets.

**CircuitBreakerProofs.** The invariant joins types, the agreement of `status` and `_circuitOpened`, and, over bolt,
that in HALF_OPEN the admitted test is in flight or waits for its `nextTick`: each end of a request leaves
HALF_OPEN (`Update`), so the test cannot have ended in it. Theorems: `TypeCorrect`, `StatusAgrees`, `RpcHalfOpenAwaitsProbe`
(under `Transport = "rpc"`), `GrpcOnlyTimeoutsReopen` (under `Transport = "grpc"`, where nothing is ever
counted as an error but a timeout).
`ImplementsAdmission` holds over both: an admitted request finds the breaker closed and a test finds it open because
`status` and `_circuitOpened` agree; the end of a refused request is Admission's `Reopen` or nothing, every other end its `End` (`EndIsAdmission`).
`TripsOnFreshErrors` compares a sum over the window with a history: `FreshCovers` says that the window's sums, up to `Threshold`, never exceed
what was counted since the breaker was last closed. Counting adds one to a sum (`SumAfterCount`), the shift adds nothing (`SumAfterSlide`), and
closing begins both anew. `RateFalls` carries the rounded percentage over from the requests there were to `Threshold` of them. From
`WindowIsFresh` follows `TripsOnFresh`, for any number of buckets and requests and any thresholds.

**AddressGroupProofs.** `TypeOK` and `FaultsAreInUse` are inductive together. A handler is a composition of functions on the group's state, so the lemmas
say what each function keeps (`Keeps`: a typed group in which the addresses to reconnect are in use), and what it spares
(`Spares`: no connection comes up within it, no connected address is left with weight 0). Theorems: `TypeCorrect`, `FaultsInUse`, the action property
`NoneIsStarved`, and `ChoosesBest`: for any list, the load balancer fills exactly the places it has and passes no address over
for one of a worse class. Assumed: finitely many addresses, weights and percentages as the configuration has them.

**SofaRegistryProofs.** `WithdrawnStaysOut` speaks of the time after the removal was answered; the invariant has to say what holds from `unPublish()` on. `GoneIsOut`: what is
withdrawn with no registration under way is not on record, and no request that would register it waits, be it asked for by a context or by
a reconnect. `RemovalsAreAsked`: a removal that waits is the withdrawal's and removes all that it withdrew, which takes `OneService`, that the server has one
service at most. `BringsNothingBack` collects what the other steps have in common, and `OutStable` that such a step keeps the invariant. Theorems: `TypeCorrect`,
`WithdrawnStays`, for any number of contexts, urls, lost connections, sessions and foreign providers.

**NumberLemmas.** The library's induction theorems take a predicate as a parameter, which the provers cannot instantiate. These lemmas do without: a least
number, or a smallest subset, without the property in question is a minimal element of a well-founded relation (`WFMin`). A sum is
defined by recursion over an arbitrary choice of elements; `MeasureExists` finds a function of subsets that satisfies the recursion whichever element is chosen, and
`SumIsMeasure` that the library's `SumFunction` is its value. `LeadingCount`: in an order of `n` exactly `k` have fewer than `k` before them.

**RpcCallProofs.** None of the properties is inductive: what the manager knows depends on the order in which connections come, connect
and close, and what a breaker is worth on who closed one. The invariant says, of each connection (`Ordered`), that connections come in the order of
their numbers and `ready` follows the socket; (`BreakerSound`) that, as long as no older one has failed to connect, the only connection not yet closed is the
one the manager knows, with the breaker of the cache, which has not been closed; (`CloseSound`) that a closing connection waits for
exactly the calls in its `_sentReqs` and is destroyed with the last of them. `CallSound` and `AnswersSound` tie calls, requests,
answers and runs together. From `Invariance` follow `TypeCorrect`, `LiveConnectionIsKnown`, `LiveConnectionCounts`, the action
property `NoneCutOff`, and `ImplementsSettlement`: a step ends the calls of a set (`Ending`), begins one, runs one, or
changes nothing there. Proving `LiveHasBreaker` for any number of connections corrected it: an earlier form, which excused only
a failed connection with the same breaker, held for up to four connections and failed with five.

**GrpcCallProofs.** The invariant says of each call (`Sound`) what may still come to an open stream by what has come
(`Coming`), that a request is handled once and nothing comes before, and that a stream closed without an error whose status is ok has its message. Theorems: `TypeCorrect`,
`SuccessWithMessage`, `OutIsGuarded`, `ImplementsSettlement`. Assumed of both modules: their bounds are natural numbers.

**Only model-checked.** All liveness properties (`EveryRowHandedOver`, `RowsComeBack`, `ClosesWhenHealthy`, `Reconnects`,
`ShareRecovers`, `RegisteredStaysListed`, `PublishEnds`, `ConsumerCatchesUp`, `EveryCallEnds`, `CloseEnds`): TLAPS proves no
liveness under fairness here, nor anything about ENABLED.

## 6. Not modelled

* Client: middlewares, addresses of `options.serverHost`, the cache of consumers, `RpcClient.close()` over several consumers, the other load
  balancers (pure choices nothing selects), the table of the scheduler (it shares timers and decides nothing).
* gRPC: back pressure of `_read` and `_write`, metadata that cannot be decoded, and responses of other servers, whose HTTP status may hide
  the `grpc-status` of the trailers (`call_stream.js:167`).
* Registry: `close()`, the nodes of consumers, a second consumer of another group or version of the interface (its filter would be the first one's).
* `RpcServer.close()` as one operation over registry and sockets; withdrawal is in SofaRegistry, the sockets in RpcCall.
* `ConsumeService.doTask` and the timers that only call and log; the Kafka clients (two sends with swallowed errors, no state that two steps could disagree
  on); `where.helper.js` (text in, text out, without a specification but its own text); query controllers, routes, configuration loading, the
  flow limiter (a dependency's counters), logging, test helpers, deployment files.
* AddressGroup's replacement of dead addresses runs, but at the two addresses TLC can exhaust its share thresholds mean little.

MySQL, ClickHouse, Elasticsearch, redis, ZooKeeper, HTTP/2 and the servers of a service appear as actions of the environment, from how the
code uses them.
