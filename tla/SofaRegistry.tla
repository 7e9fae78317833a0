---------------------------- MODULE SofaRegistry ----------------------------
(* One process and its ZooKeeper registry: the registry client              *)
(* (sofarpc/lib/registry/zk/data_client.js), the provider that publishes     *)
(* itself through it (server.js, service.js, app/proxy/ProduceService.js) and *)
(* the consumer that subscribes (client.js, consumer.js, ConsumeService.js), *)
(* for one interface.                                                        *)
(*                                                                           *)
(* Requests to ZooKeeper are pipelined over one connection: they execute and *)
(* are answered in the order they were sent.  An operation of the registry   *)
(* that awaits several requests is known by the one it is waiting for.       *)
EXTENDS Integers, Sequences, FiniteSets, SequencesExt

CONSTANTS Ctx,        \* contexts for which the proxy ProduceService is built
          Consumer,   \* the consumer's listener
          Foreign,    \* addresses that other processes publish
          Info,       \* what the url of each says of its provider
          Wanted,     \* interface, group and version of this process
          MaxTime,    \* bound: milliseconds in which a url is made
          MaxEvents   \* bound: lost connections and changes of other processes

ASSUME BoundAssumption == MaxTime \in Nat /\ MaxEvents \in Nat
ASSUME NameAssumption  == Consumer \notin Ctx

\* A provider's url carries the time it was made.
Url == 1..MaxTime

VARIABLES link,        \* the connection to ZooKeeper: new, up or down
          node,        \* each url's ephemeral node: none, of this session or an old one
          others,      \* nodes of other processes
          queue,       \* requests not yet answered, in their order
          registerMap, \* _registerMap
          subscribed,  \* _subscribeMap has the interface
          cached,      \* the list it has for it: none or one
          watching,    \* the children are watched
          listeners,   \* of the interface's event
          immediates   \* lists to be delivered by setImmediate

VARIABLES ctx,           \* how far each context's publication is
          urlOf,         \* the url it is publishing
          publishUrl,    \* of the service the server has now: none or one
          publishstatus,
          listening,     \* the server's start()
          now,           \* the millisecond
          withdrawal,    \* unPublish(): no, asked, done or failed
          consumer,      \* new, on or closed
          addresses,     \* the list last given to its address group: none or one
          events,        \* counted for the bound
          gone,          \* history: the url that unPublish() withdrew
          raced,         \* history: a registration of it was on its way
          overtaken      \* history: an older list came after a newer one

zk       == <<link, node, others>>
registry == <<queue, registerMap, subscribed, cached, watching, listeners, immediates>>
server   == <<publishUrl, publishstatus, listening, now>>
history  == <<gone, raced, overtaken>>
vars     == <<zk, registry, ctx, urlOf, server, withdrawal, consumer, addresses, history, events>>

\* app.js makes registry, server and client; nothing is connected yet.
Init ==
    /\ link = "new" /\ node = [u \in Url |-> "none"] /\ others = {}
    /\ queue = <<>> /\ registerMap = {}
    /\ subscribed = FALSE /\ cached = {} /\ watching = FALSE
    /\ listeners = {} /\ immediates = {}
    /\ ctx = [c \in Ctx |-> "idle"] /\ urlOf = [c \in Ctx |-> 0]
    /\ publishUrl = {} /\ publishstatus = FALSE /\ listening = "starting" /\ now = 1
    /\ withdrawal = "no" /\ consumer = "new" /\ addresses = {}
    /\ events = 0
    /\ gone = {} /\ raced = FALSE /\ overtaken = FALSE

-----------------------------------------------------------------------------
(* Requests.                                                                 *)

\* The first request of register(), for a context or, after a reconnect, for none.
Register(u, by) == [op |-> "mkdirp", url |-> u, by |-> by]

Registrations == {"mkdirp", "exists", "remove", "create"}

\* unRegister() of u.
Removal(u) == [op |-> "unregister", url |-> u, by |-> {}]

\* mkdirp() of subscribe().
WatchRequest == [op |-> "subscribe", url |-> 0, by |-> {}]

Request == [op : Registrations \cup {"unregister"}, url : Url, by : SUBSET Ctx]
           \cup {WatchRequest}

UnderWay(u) == \E i \in DOMAIN queue : queue[i].url = u /\ queue[i].op \in Registrations

\* What ZooKeeper does with a request; create() finds a node or makes one.
Executed(nodes, req) ==
    IF req.op \in {"remove", "unregister"} THEN [nodes EXCEPT ![req.url] = "none"]
    ELSE IF req.op = "create" /\ nodes[req.url] = "none" THEN [nodes EXCEPT ![req.url] = "mine"]
    ELSE nodes

\* A plausible mistake: a node that is there already is taken for a valid one.
CreatedOnly(req) == IF req.op = "mkdirp" THEN "exists" ELSE "create"

\* The request that register() sends next: a node that is there may be an old
\* session's, and is removed first.
NextRequest(req) ==
    IF req.op = "mkdirp" THEN "exists"
    ELSE IF req.op = "exists" /\ node[req.url] # "none" THEN "remove" ELSE "create"

-----------------------------------------------------------------------------
(* Subscriptions.                                                            *)

\* _isMatch(): what a url does not say, or the consumer does not ask, is no hindrance.
IsMatch(wanted, info) ==
    LET Agrees(a, b) == a = "" \/ b = "" \/ a = b
    IN /\ Agrees(wanted.interface, info.interface)
       /\ info.category \in {"", "providers"} /\ info.enabled \in {"", "true"}
       /\ Agrees(wanted.group, info.group) /\ Agrees(wanted.version, info.version)

\* The list the watch delivers.
Listed == {u \in Url : node[u] # "none"} \cup {f \in others : IsMatch(Wanted, Info[f])}

\* A plausible mistake: the list that is known already is kept from a new listener.
WaitForNextList(l) == {}

\* The known list, for a listener that comes later.
CachedFor(l) == {[to |-> l, list |-> list] : list \in cached}

\* subscribe(), whose request follows what is in q.
Subscribes(l, q) ==
    /\ queue' = IF subscribed THEN q ELSE Append(q, WatchRequest)
    /\ immediates' = immediates \cup CachedFor(l)
    /\ listeners' = listeners \cup {l} /\ subscribed' = TRUE

\* A plausible mistake: a new list is put beside the old one.
StoredBeside(known) == cached \cup known

Stored(known) == known

\* unSubscribe() for listeners L, after which known is the list in _subscribeMap.
Leave(L, known) ==
    LET last == L # {} /\ listeners \subseteq L
    IN /\ listeners' = listeners \ L
       /\ watching' = (watching /\ ~last)
       /\ subscribed' = ~last
       /\ cached' = IF last THEN {} ELSE Stored(known)

\* Contexts whose listener finds its own url: their publish() is over.
Publishes(C) ==
    /\ ctx' = [c \in Ctx |-> IF c \in C THEN "published" ELSE ctx[c]]
    /\ publishstatus' = (publishstatus \/ C # {})

\* The listener of a context that finds its own url.
Finds(c, list) == c \in Ctx /\ urlOf[c] \in list

\* The watch: the list is stored, and given to all listeners.
WatchFires ==
    /\ link = "up" /\ watching /\ cached # {Listed}
    /\ LET found == {c \in listeners : Finds(c, Listed)}
       IN Leave(found, {Listed}) /\ Publishes(found)
    /\ addresses' = IF Consumer \in listeners THEN {Listed} ELSE addresses
    /\ UNCHANGED <<zk, queue, registerMap, immediates, urlOf, publishUrl, listening, now,
                   withdrawal, consumer, history, events>>

\* A list delivered by setImmediate, whoever has left and whatever has been emitted
\* meanwhile.
Immediate(i) ==
    /\ i \in immediates /\ immediates' = immediates \ {i}
    /\ LET found == {c \in {i.to} : Finds(c, i.list)}
       IN /\ IF found # {} THEN Leave(found, cached)
             ELSE UNCHANGED <<listeners, watching, subscribed, cached>>
          /\ Publishes(found)
    /\ addresses' = IF i.to = Consumer THEN {i.list} ELSE addresses
    /\ overtaken' = (overtaken \/ (i.to = Consumer /\ cached # {i.list}))
    /\ UNCHANGED <<zk, queue, registerMap, urlOf, publishUrl, listening, now, withdrawal,
                   consumer, gone, raced, events>>

-----------------------------------------------------------------------------
(* Answers.                                                                  *)

\* register() goes on to its next request.  Once the directory is there, the url is
\* on record.
RegisterGoesOn ==
    /\ link = "up" /\ queue # <<>>
    /\ LET req == Head(queue)
       IN /\ req.op \in Registrations \ {"create"}
          /\ node' = Executed(node, req)
          /\ queue' = Append(Tail(queue), [req EXCEPT !.op = NextRequest(req)])
          /\ registerMap' = IF req.op = "mkdirp" THEN registerMap \cup {req.url} ELSE registerMap
    /\ UNCHANGED <<link, others, subscribed, cached, watching, listeners, immediates, ctx, urlOf,
                   server, withdrawal, consumer, addresses, history, events>>

\* create() has succeeded or found the node; then publish() subscribes.
Registered ==
    /\ link = "up" /\ queue # <<>>
    /\ LET req == Head(queue)
       IN /\ req.op = "create"
          /\ node' = Executed(node, req)
          /\ \/ /\ req.by = {} /\ queue' = Tail(queue)
                /\ UNCHANGED <<subscribed, listeners, immediates, ctx>>
             \/ \E c \in req.by :
                   /\ Subscribes(c, Tail(queue))
                   /\ ctx' = [ctx EXCEPT ![c] = "listing"]
    /\ UNCHANGED <<link, others, registerMap, cached, watching, urlOf, server, withdrawal,
                   consumer, addresses, history, events>>

UnRegistered ==
    /\ link = "up" /\ queue # <<>> /\ Head(queue).op = "unregister"
    /\ node' = Executed(node, Head(queue)) /\ queue' = Tail(queue)
    /\ withdrawal' = "done"
    /\ UNCHANGED <<link, others, registerMap, subscribed, cached, watching, listeners, immediates,
                   ctx, urlOf, server, consumer, addresses, history, events>>

\* subscribe() sets the watch, whether or not it is still wanted.
Watches ==
    /\ link = "up" /\ queue # <<>> /\ Head(queue).op = "subscribe"
    /\ watching' = TRUE /\ queue' = Tail(queue)
    /\ UNCHANGED <<zk, registerMap, subscribed, cached, listeners, immediates, ctx, urlOf, server,
                   withdrawal, consumer, addresses, history, events>>

Answer == RegisterGoesOn \/ Registered \/ UnRegistered \/ Watches

-----------------------------------------------------------------------------
(* The connection and the session.                                           *)

\* The node of u after the first n requests: made anew, gone, or as it was.
Removes(i, u) == queue[i].url = u /\ queue[i].op \in {"remove", "unregister"}
Creates(i, u) == queue[i].url = u /\ queue[i].op = "create"
NodeAfter(n, u) ==
    IF \E i \in 1..n : /\ Creates(i, u) /\ \A j \in i..n : ~Removes(j, u)
                       /\ node[u] = "none" \/ \E j \in 1..i : Removes(j, u)
    THEN "mine"
    ELSE IF \E i \in 1..n : Removes(i, u) THEN "none" ELSE node[u]

\* The connection is lost after some of the requests were executed: all are rejected.
Disconnect ==
    /\ link = "up" /\ events < MaxEvents /\ events' = events + 1
    /\ link' = "down"
    /\ \E n \in 0..Len(queue) : node' = [u \in Url |-> NodeAfter(n, u)]
    /\ queue' = <<>>
    /\ ctx' = [c \in Ctx |-> IF ctx[c] = "registering" THEN "failed" ELSE ctx[c]]
    /\ withdrawal' = IF withdrawal = "asked" THEN "failed" ELSE withdrawal
    /\ UNCHANGED <<others, registerMap, subscribed, cached, watching, listeners, immediates, urlOf,
                   server, consumer, addresses, history>>

\* The client will go on in a new session.
NewSession ==
    /\ link = "down"
    /\ \E u \in Url : node[u] = "mine"
    /\ node' = [u \in Url |-> IF node[u] = "mine" THEN "old" ELSE node[u]]
    /\ UNCHANGED <<link, others, registry, ctx, urlOf, server, withdrawal, consumer, addresses,
                   history, events>>

\* ZooKeeper ends an old session.
OldExpires ==
    /\ \E u \in Url : node[u] = "old"
    /\ node' = [u \in Url |-> IF node[u] = "old" THEN "none" ELSE node[u]]
    /\ UNCHANGED <<link, others, registry, ctx, urlOf, server, withdrawal, consumer, addresses,
                   history, events>>

\* A plausible mistake: what was registered is left to the old session.
NothingAgain(urls) == <<>>

\* _reRegister(), in some order.
ReRegister(urls) == [i \in DOMAIN urls |-> Register(urls[i], {})]

Connect ==
    /\ link # "up" /\ link' = "up"
    /\ \E urls \in SetToSeqs(registerMap) : queue' = queue \o ReRegister(urls)
    /\ UNCHANGED <<node, others, registerMap, subscribed, cached, watching, listeners, immediates,
                   ctx, urlOf, server, withdrawal, consumer, addresses, history, events>>

\* Another process comes or goes.
Moves(f) ==
    /\ events < MaxEvents /\ events' = events + 1
    /\ others' = IF f \in others THEN others \ {f} ELSE others \cup {f}
    /\ UNCHANGED <<link, node, registry, ctx, urlOf, server, withdrawal, consumer, addresses,
                   history>>

-----------------------------------------------------------------------------
(* The provider.                                                             *)

\* The proxy's timer: addService() puts a new service in place of the last.
AddService(c) ==
    /\ ctx[c] = "idle"
    /\ IF publishstatus THEN ctx' = [ctx EXCEPT ![c] = "skipped"] /\ UNCHANGED publishUrl
       ELSE ctx' = [ctx EXCEPT ![c] = "starting"] /\ publishUrl' = {}
    /\ UNCHANGED <<zk, registry, urlOf, publishstatus, listening, now, withdrawal, consumer,
                   addresses, history, events>>

\* start() is answered for all who wait, and will be.
Listens ==
    /\ listening = "starting" /\ \E c \in Ctx : ctx[c] = "starting"
    /\ listening' \in {"up", "failed"}
    /\ UNCHANGED <<zk, registry, ctx, urlOf, publishUrl, publishstatus, now, withdrawal, consumer,
                   addresses, history, events>>

StartFails(c) ==
    /\ ctx[c] = "starting" /\ listening = "failed"
    /\ ctx' = [ctx EXCEPT ![c] = "failed"]
    /\ UNCHANGED <<zk, registry, urlOf, server, withdrawal, consumer, addresses, history, events>>

\* publish() of the service the server has by now, under a url of this millisecond.
Publish(c) ==
    /\ ctx[c] = "starting" /\ listening = "up" /\ now \in Url
    /\ ctx' = [ctx EXCEPT ![c] = "registering"]
    /\ urlOf' = [urlOf EXCEPT ![c] = now]
    /\ publishUrl' = {now}
    /\ queue' = Append(queue, Register(now, {c}))
    /\ gone' = gone \ {now}
    /\ UNCHANGED <<zk, registerMap, subscribed, cached, watching, listeners, immediates,
                   publishstatus, listening, now, withdrawal, consumer, addresses, raced,
                   overtaken, events>>

\* The clock is of interest as long as a url is to be made.
TimePasses ==
    /\ now \in Url /\ now' = now + 1 /\ \E c \in Ctx : ctx[c] \in {"idle", "starting"}
    /\ UNCHANGED <<zk, registry, ctx, urlOf, publishUrl, publishstatus, listening, withdrawal,
                   consumer, addresses, history, events>>

\* A plausible mistake: the url stays on record, and a reconnect registers it again.
NotForgotten(urls) == {}

\* unRegister() takes the url off the record at once.
Forgotten(urls) == urls

\* unPublish(), of close() or after an uncaught error, for the service the server has.
UnPublish ==
    /\ withdrawal = "no" /\ listening = "up"
    /\ withdrawal' = IF publishUrl = {} THEN "done" ELSE "asked"
    /\ registerMap' = registerMap \ Forgotten(publishUrl)
    /\ \E urls \in SetToSeqs(publishUrl) :
          queue' = queue \o [i \in DOMAIN urls |-> Removal(urls[i])]
    /\ gone' = publishUrl
    /\ raced' = \E u \in publishUrl : UnderWay(u)
    /\ UNCHANGED <<zk, subscribed, cached, watching, listeners, immediates, ctx, urlOf, server,
                   consumer, addresses, overtaken, events>>

-----------------------------------------------------------------------------
(* The consumer.                                                             *)

\* createConsumer(), once the registry is ready.
ConsumerSubscribes ==
    /\ consumer = "new" /\ link # "new" /\ consumer' = "on"
    /\ Subscribes(Consumer, queue)
    /\ UNCHANGED <<zk, registerMap, cached, watching, ctx, urlOf, server, withdrawal, addresses,
                   history, events>>

ConsumerCloses ==
    /\ consumer = "on" /\ consumer' = "closed"
    /\ Leave({Consumer}, cached)
    /\ UNCHANGED <<zk, queue, registerMap, immediates, ctx, urlOf, server, withdrawal, addresses,
                   history, events>>

-----------------------------------------------------------------------------

Delivers == \E i \in immediates : Immediate(i)

Next ==
    \/ Answer \/ WatchFires \/ Delivers
    \/ Disconnect \/ NewSession \/ OldExpires \/ Connect
    \/ \E f \in Foreign : Moves(f)
    \/ \E c \in Ctx : AddService(c) \/ Publish(c) \/ StartFails(c)
    \/ Listens \/ TimePasses \/ UnPublish
    \/ ConsumerSubscribes \/ ConsumerCloses

Spec == Init /\ [][Next]_vars

\* Requests are answered, watches fire, the client reconnects, sessions end.
Fairness ==
    /\ WF_vars(Answer) /\ WF_vars(WatchFires) /\ WF_vars(Delivers)
    /\ WF_vars(Connect) /\ WF_vars(OldExpires)

FairSpec == Spec /\ Fairness

-----------------------------------------------------------------------------
(* Properties.                                                               *)

\* The types of all state (data_client.js:36-48).
TypeOK ==
    /\ link \in {"new", "up", "down"} /\ node \in [Url -> {"none", "mine", "old"}]
    /\ others \subseteq Foreign /\ registerMap \subseteq Url
    /\ queue \in Seq(Request)
    /\ subscribed \in BOOLEAN /\ watching \in BOOLEAN
    /\ cached \subseteq SUBSET (Url \cup Foreign) /\ Cardinality(cached) <= 1
    /\ listeners \subseteq Ctx \cup {Consumer}
    /\ immediates \subseteq [to : Ctx \cup {Consumer}, list : SUBSET (Url \cup Foreign)]
    /\ ctx \in [Ctx -> {"idle", "skipped", "starting", "registering", "listing", "published",
                        "failed"}]
    /\ urlOf \in [Ctx -> Url \cup {0}] /\ publishUrl \subseteq Url
    /\ publishstatus \in BOOLEAN /\ listening \in {"starting", "up", "failed"}
    /\ withdrawal \in {"no", "asked", "done", "failed"} /\ consumer \in {"new", "on", "closed"}
    /\ addresses \subseteq SUBSET (Url \cup Foreign) /\ now \in 1..(MaxTime + 1)

\* A url that unPublish() has withdrawn, with no registration of it on its way, is
\* neither listed nor registered again by a reconnect (data_client.js:59-63, 97-104).
WithdrawnStaysOut ==
    withdrawal = "done" /\ ~raced => \A u \in gone : node[u] = "none" /\ u \notin registerMap

\* Comment at server.js:219: closing withdraws the service from the registry.
WithdrawnIsGone ==
    withdrawal = "done" => \A u \in gone : node[u] = "none"

\* subscribe() has failed to set its watch, and nothing sets it later.
Unwatched ==
    subscribed /\ ~watching /\ \A i \in DOMAIN queue : queue[i].op # "subscribe"

\* What is on record is listed for good in the end, whatever connections, sessions
\* and registrations of the same url cross it (data_client.js:59-95).
RegisteredStaysListed ==
    \A u \in Url : <>[](u \in registerMap) => <>[](node[u] # "none")

\* A publish() that waits for its url to be listed ends, unless the watch was never
\* set or the url is withdrawn (service.js:85-106).
PublishEnds ==
    \A c \in Ctx : ctx[c] \in {"registering", "listing"} ~>
                       ctx[c] \in {"published", "failed"} \/ Unwatched \/ withdrawal # "no"

\* A consumer has the latest list of its providers in the end, unless the watch was
\* never set or the list it was given first came late (data_client.js:106-150).
ConsumerCatchesUp ==
    <>[](consumer = "on" /\ ~Unwatched /\ ~overtaken) => <>[](addresses = {Listed})
=============================================================================
