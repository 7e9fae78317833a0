------------------------- MODULE SofaRegistryProofs -------------------------
(* Proofs about SofaRegistry: its types, and that a provider withdrawn while  *)
(* no registration of it is on its way stays out of the registry, through any *)
(* number of contexts, lost connections, sessions and publications.           *)
EXTENDS SofaRegistry, FiniteSetTheorems, TLAPS

\* The server has one service at most, so that a withdrawal is one request.
OneService == publishUrl = {} \/ \E u \in Url : publishUrl = {u}

\* A request to remove a node is the withdrawal's, and removes all that it withdrew.
RemovalsAreAsked ==
    \A r \in ToSet(queue) : r.op = "unregister" => withdrawal # "no" /\ gone \subseteq {r.url}

\* What is withdrawn cannot come back: it is not on record, no request that would
\* register it is waiting, and its node is gone when the withdrawal is done.
OutForGood(u) ==
    /\ u \notin registerMap
    /\ \A r \in ToSet(queue) : r.url = u => r.op \notin Registrations
    /\ withdrawal = "done" => node[u] = "none"
GoneIsOut ==
    /\ gone \subseteq Url
    /\ withdrawal = "no" => gone = {}
    /\ ~raced => \A u \in gone : OutForGood(u)

IInv == TypeOK /\ OneService /\ RemovalsAreAsked /\ GoneIsOut

USE BoundAssumption, NameAssumption

-----------------------------------------------------------------------------
(* Lemmas about queues and lists.                                            *)

\* Taking the first request.
LEMMA TailQueue ==
    ASSUME NEW q \in Seq(Request), q # <<>>
    PROVE  /\ Head(q) \in Request /\ Head(q) \in ToSet(q)
           /\ Tail(q) \in Seq(Request) /\ ToSet(Tail(q)) \subseteq ToSet(q)
<1>1. Head(q) \in Request /\ Tail(q) \in Seq(Request)
  OBVIOUS
<1>2. Head(q) \in ToSet(q)
  <2>1. 1 \in DOMAIN q /\ Head(q) = q[1]
    OBVIOUS
  <2> QED BY <2>1 DEF ToSet
<1>3. ASSUME NEW i \in DOMAIN Tail(q) PROVE Tail(q)[i] \in ToSet(q)
  <2>1. i + 1 \in DOMAIN q /\ Tail(q)[i] = q[i + 1]
    OBVIOUS
  <2> QED BY <2>1 DEF ToSet
<1> QED BY <1>1, <1>2, <1>3 DEF ToSet

\* Adding one request.
LEMMA AppendQueue ==
    ASSUME NEW q \in Seq(Request), NEW e \in Request
    PROVE  Append(q, e) \in Seq(Request) /\ ToSet(Append(q, e)) = ToSet(q) \cup {e}
<1>1. Append(q, e) \in Seq(Request)
  OBVIOUS
<1>2. ASSUME NEW i \in DOMAIN Append(q, e) PROVE Append(q, e)[i] \in ToSet(q) \cup {e}
  <2>1. i \in DOMAIN q \/ i = Len(q) + 1
    OBVIOUS
  <2> QED BY <2>1 DEF ToSet
<1>3. ASSUME NEW i \in DOMAIN q PROVE q[i] \in ToSet(Append(q, e))
  <2>1. i \in DOMAIN Append(q, e) /\ Append(q, e)[i] = q[i]
    OBVIOUS
  <2> QED BY <2>1 DEF ToSet
<1>4. e \in ToSet(Append(q, e))
  <2>1. Len(q) + 1 \in DOMAIN Append(q, e) /\ Append(q, e)[Len(q) + 1] = e
    OBVIOUS
  <2> QED BY <2>1 DEF ToSet
<1> QED BY <1>1, <1>2, <1>3, <1>4 DEF ToSet

\* Adding several.
LEMMA ConcatQueue ==
    ASSUME NEW p \in Seq(Request), NEW q \in Seq(Request)
    PROVE  p \o q \in Seq(Request) /\ ToSet(p \o q) \subseteq ToSet(p) \cup ToSet(q)
<1>1. p \o q \in Seq(Request)
  OBVIOUS
<1>2. ASSUME NEW i \in DOMAIN (p \o q) PROVE (p \o q)[i] \in ToSet(p) \cup ToSet(q)
  <2>1. CASE i \in DOMAIN p
    <3>1. (p \o q)[i] = p[i]
      BY <2>1
    <3> QED BY <2>1, <3>1 DEF ToSet
  <2>2. CASE i \notin DOMAIN p
    <3>1. i - Len(p) \in DOMAIN q /\ (p \o q)[i] = q[i - Len(p)]
      BY <2>2
    <3> QED BY <3>1 DEF ToSet
  <2> QED BY <2>1, <2>2
<1> QED BY <1>1, <1>2 DEF ToSet

\* A url is under way when a request that registers it waits.
LEMMA UnderWayIsWaiting ==
    ASSUME NEW u
    PROVE  UnderWay(u) <=> \E r \in ToSet(queue) : r.url = u /\ r.op \in Registrations
BY DEF UnderWay, ToSet

\* Urls in some order are a sequence of them.
LEMMA UrlsTyped ==
    ASSUME NEW U \in SUBSET Url, NEW urls \in SetToSeqs(U)
    PROVE  urls \in Seq(U)
<1>1. IsFiniteSet(Url)
  BY FS_Interval DEF Url
<1>2. Cardinality(U) \in Nat
  BY <1>1, FS_Subset, FS_CardinalityType
<1>3. urls \in [1..Cardinality(U) -> U]
  BY DEF SetToSeqs
<1> QED BY <1>2, <1>3

\* What a reconnect sends: a registration of each url on record.
LEMMA ReRegisterTyped ==
    ASSUME NEW U \in SUBSET Url, NEW urls \in SetToSeqs(U)
    PROVE  /\ ReRegister(urls) \in Seq(Request)
           /\ \A r \in ToSet(ReRegister(urls)) : r.op = "mkdirp" /\ r.url \in U
<1>1. urls \in Seq(U)
  BY UrlsTyped
<1>2. \A u \in U : Register(u, {}) \in Request
  BY DEF Register, Request, Registrations
<1>3. ReRegister(urls) \in Seq(Request)
  BY <1>1, <1>2 DEF ReRegister
<1>4. \A r \in ToSet(ReRegister(urls)) : r.op = "mkdirp" /\ r.url \in U
  BY <1>1 DEF ReRegister, ToSet, Register
<1> QED BY <1>3, <1>4

\* What the withdrawal sends: the removal of each url it withdraws.
LEMMA RemovalTyped ==
    ASSUME NEW U \in SUBSET Url, NEW urls \in SetToSeqs(U)
    PROVE  LET sent == [i \in DOMAIN urls |-> Removal(urls[i])]
           IN /\ sent \in Seq(Request)
              /\ \A r \in ToSet(sent) : r.op = "unregister" /\ r.url \in U
<1>1. urls \in Seq(U)
  BY UrlsTyped
<1>2. \A u \in U : Removal(u) \in Request
  BY DEF Removal, Request
<1> QED BY <1>1, <1>2 DEF ToSet, Removal

\* The list the watch delivers is a list of urls.
LEMMA ListedTyped ==
    ASSUME TypeOK
    PROVE  Listed \subseteq Url \cup Foreign
BY DEF TypeOK, Listed

States == {"none", "mine", "old"}

\* What ZooKeeper does with a request: only create() makes a node, and a removal
\* leaves none.
LEMMA ExecutedTyped ==
    ASSUME NEW nodes \in [Url -> States], NEW req \in Request
    PROVE  /\ Executed(nodes, req) \in [Url -> States]
           /\ \A u \in Url : nodes[u] = "none" /\ ~(req.url = u /\ req.op = "create")
                                => Executed(nodes, req)[u] = "none"
           /\ req.op = "unregister" => \A u \in Url : req.url = u => Executed(nodes, req)[u] = "none"
<1>1. CASE req.op \in {"remove", "unregister"}
  BY <1>1 DEF Executed, States
<1>2. CASE req.op = "create" /\ nodes[req.url] = "none"
  BY <1>2 DEF Executed, States
<1>3. CASE req.op \notin {"remove", "unregister"} /\ ~(req.op = "create" /\ nodes[req.url] = "none")
  BY <1>3 DEF Executed
<1> QED BY <1>1, <1>2, <1>3

\* What is left of the nodes after the first n requests: one that nobody creates
\* is not there if it was not.
LEMMA NodeAfterTyped ==
    ASSUME TypeOK, NEW n \in 0..Len(queue), NEW u \in Url
    PROVE  /\ NodeAfter(n, u) \in States
           /\ node[u] = "none" /\ (\A r \in ToSet(queue) : r.url = u => r.op # "create")
                 => NodeAfter(n, u) = "none"
<1>1. node[u] \in States
  BY DEF TypeOK, States
<1>2. NodeAfter(n, u) \in {"mine", "none", node[u]}
  BY DEF NodeAfter
<1>3. \A i \in 1..n : queue[i] \in ToSet(queue)
  <2>1. DOMAIN queue = 1..Len(queue) /\ Len(queue) \in Nat
    BY DEF TypeOK
  <2> QED BY <2>1 DEF ToSet
<1>4. ASSUME node[u] = "none", \A r \in ToSet(queue) : r.url = u => r.op # "create"
      PROVE  NodeAfter(n, u) = "none"
  <2>1. \A i \in 1..n : ~Creates(i, u)
    BY <1>3, <1>4 DEF Creates
  <2> QED BY <1>4, <2>1 DEF NodeAfter
<1> QED BY <1>1, <1>2, <1>4 DEF States

-----------------------------------------------------------------------------
(* Types.                                                                    *)

\* subscribe() keeps the types, when what precedes its request is typed.
LEMMA SubscribesTyped ==
    ASSUME TypeOK, NEW l \in Ctx \cup {Consumer}, NEW q \in Seq(Request), Subscribes(l, q)
    PROVE  /\ queue' \in Seq(Request)
           /\ immediates' \subseteq [to : Ctx \cup {Consumer}, list : SUBSET (Url \cup Foreign)]
           /\ listeners' \subseteq Ctx \cup {Consumer} /\ subscribed' \in BOOLEAN
           /\ ToSet(queue') \subseteq ToSet(q) \cup {WatchRequest}
<1>1. WatchRequest \in Request
  BY DEF WatchRequest, Request
<1>2. queue' \in Seq(Request) /\ ToSet(queue') \subseteq ToSet(q) \cup {WatchRequest}
  BY <1>1, AppendQueue DEF Subscribes
<1>3. CachedFor(l) \subseteq [to : Ctx \cup {Consumer}, list : SUBSET (Url \cup Foreign)]
  BY DEF CachedFor, TypeOK
<1> QED BY <1>2, <1>3 DEF Subscribes, TypeOK

\* unSubscribe() keeps the types, and one list at most.
LEMMA LeaveTyped ==
    ASSUME TypeOK, NEW L, NEW known \in {cached, {Listed}}, Leave(L, known)
    PROVE  /\ listeners' \subseteq Ctx \cup {Consumer}
           /\ watching' \in BOOLEAN /\ subscribed' \in BOOLEAN
           /\ cached' \subseteq SUBSET (Url \cup Foreign) /\ Cardinality(cached') <= 1
<1>1. cached' \in {{}, cached, {Listed}}
  BY DEF Leave, Stored
<1>2. Cardinality({}) <= 1 /\ Cardinality({Listed}) <= 1
  <2>1. Cardinality({}) = 0 /\ Cardinality({Listed}) = 1
    BY FS_EmptySet, FS_Singleton
  <2> QED BY <2>1
<1>3. cached' \subseteq SUBSET (Url \cup Foreign)
  BY <1>1, ListedTyped DEF TypeOK
<1>4. Cardinality(cached') <= 1
  BY <1>1, <1>2 DEF TypeOK
<1> QED BY <1>3, <1>4 DEF Leave, TypeOK

\* A publication's end is typed.
LEMMA PublishesTyped ==
    ASSUME TypeOK, NEW C, Publishes(C)
    PROVE  /\ ctx' \in [Ctx -> {"idle", "skipped", "starting", "registering", "listing",
                                "published", "failed"}]
           /\ publishstatus' \in BOOLEAN
BY DEF TypeOK, Publishes

\* Answers keep the types.
LEMMA TypeAnswer == TypeOK /\ Answer => TypeOK'
<1> SUFFICES ASSUME TypeOK, Answer PROVE TypeOK'
  OBVIOUS
<1>1. queue \in Seq(Request) /\ node \in [Url -> States]
  BY DEF TypeOK, States
<1>2. CASE RegisterGoesOn
  <2> DEFINE req == Head(queue)
             next == [req EXCEPT !.op = NextRequest(req)]
  <2>1. /\ queue # <<>> /\ node' = Executed(node, req)
        /\ req.op \in Registrations \ {"create"}
        /\ queue' = Append(Tail(queue), next)
        /\ registerMap' = IF req.op = "mkdirp" THEN registerMap \cup {req.url} ELSE registerMap
    BY <1>2 DEF RegisterGoesOn
  <2>2. req \in Request /\ Tail(queue) \in Seq(Request)
    BY <1>1, <2>1, TailQueue
  <2>3. next \in Request /\ req.url \in Url
    BY <2>1, <2>2 DEF NextRequest, Request, Registrations, WatchRequest
  <2>4. node' \in [Url -> States]
    BY <1>1, <2>1, <2>2, ExecutedTyped
  <2>5. queue' \in Seq(Request) /\ registerMap' \subseteq Url
    <3> HIDE DEF next, req
    <3> QED BY <2>1, <2>2, <2>3, AppendQueue DEF TypeOK
  <2> QED BY <1>2, <2>4, <2>5 DEF RegisterGoesOn, TypeOK, server, history, States
<1>3. CASE Registered
  <2> DEFINE req == Head(queue)
  <2>1. queue # <<>> /\ req.op = "create" /\ node' = Executed(node, req)
    BY <1>3 DEF Registered
  <2>2. req \in Request /\ Tail(queue) \in Seq(Request) /\ req.by \in SUBSET Ctx
    BY <1>1, <2>1, TailQueue DEF Request, WatchRequest
  <2>3. node' \in [Url -> States]
    BY <1>1, <2>1, <2>2, ExecutedTyped
  <2>4. CASE req.by = {} /\ queue' = Tail(queue) /\ UNCHANGED <<subscribed, listeners, immediates, ctx>>
    BY <1>3, <2>2, <2>3, <2>4 DEF Registered, TypeOK, server, history, States
  <2>5. ASSUME NEW c \in req.by, Subscribes(c, Tail(queue)), ctx' = [ctx EXCEPT ![c] = "listing"]
        PROVE  TypeOK'
    <3>1. /\ queue' \in Seq(Request) /\ subscribed' \in BOOLEAN
          /\ immediates' \subseteq [to : Ctx \cup {Consumer}, list : SUBSET (Url \cup Foreign)]
          /\ listeners' \subseteq Ctx \cup {Consumer}
      BY <2>2, <2>5, SubscribesTyped
    <3>2. ctx' \in [Ctx -> {"idle", "skipped", "starting", "registering", "listing",
                            "published", "failed"}]
      BY <2>5 DEF TypeOK
    <3> QED BY <1>3, <2>3, <3>1, <3>2 DEF Registered, TypeOK, server, history, States
  <2> QED BY <1>3, <2>4, <2>5 DEF Registered
<1>4. CASE UnRegistered
  <2>1. queue # <<>> /\ node' = Executed(node, Head(queue)) /\ queue' = Tail(queue)
    BY <1>4 DEF UnRegistered
  <2>2. queue' \in Seq(Request) /\ node' \in [Url -> States]
    BY <1>1, <2>1, TailQueue, ExecutedTyped
  <2> QED BY <1>4, <2>2 DEF UnRegistered, TypeOK, server, history, States
<1>5. CASE Watches
  <2>1. queue' \in Seq(Request)
    BY <1>1, <1>5, TailQueue DEF Watches
  <2> QED BY <1>5, <2>1 DEF Watches, TypeOK, zk, server, history
<1> QED BY <1>2, <1>3, <1>4, <1>5 DEF Answer

\* Lists that are delivered keep the types.
LEMMA TypeLists == TypeOK /\ (WatchFires \/ Delivers) => TypeOK'
<1> SUFFICES ASSUME TypeOK, WatchFires \/ Delivers PROVE TypeOK'
  OBVIOUS
<1>1. CASE WatchFires
  <2>1. PICK found : found = {c \in listeners : Finds(c, Listed)}
    OBVIOUS
  <2>2. Leave(found, {Listed}) /\ Publishes(found)
    BY <1>1, <2>1 DEF WatchFires
  <2>3. /\ listeners' \subseteq Ctx \cup {Consumer}
        /\ watching' \in BOOLEAN /\ subscribed' \in BOOLEAN
        /\ cached' \subseteq SUBSET (Url \cup Foreign) /\ Cardinality(cached') <= 1
    BY <2>2, LeaveTyped
  <2>4. /\ ctx' \in [Ctx -> {"idle", "skipped", "starting", "registering", "listing",
                            "published", "failed"}]
        /\ publishstatus' \in BOOLEAN
    BY <2>2, PublishesTyped
  <2>5. addresses' \subseteq SUBSET (Url \cup Foreign)
    BY <1>1, ListedTyped DEF WatchFires, TypeOK
  <2> QED BY <1>1, <2>3, <2>4, <2>5 DEF WatchFires, TypeOK, zk, history
<1>2. ASSUME NEW i \in immediates, Immediate(i) PROVE TypeOK'
  <2>1. PICK found : found = {c \in {i.to} : Finds(c, i.list)}
    OBVIOUS
  <2>2. /\ IF found # {} THEN Leave(found, cached)
           ELSE UNCHANGED <<listeners, watching, subscribed, cached>>
        /\ Publishes(found)
    BY <1>2, <2>1 DEF Immediate
  <2>3. /\ listeners' \subseteq Ctx \cup {Consumer}
        /\ watching' \in BOOLEAN /\ subscribed' \in BOOLEAN
        /\ cached' \subseteq SUBSET (Url \cup Foreign) /\ Cardinality(cached') <= 1
    <3>1. CASE found # {}
      BY <2>2, <3>1, LeaveTyped
    <3>2. CASE found = {}
      BY <2>2, <3>2 DEF TypeOK
    <3> QED BY <3>1, <3>2
  <2>4. /\ ctx' \in [Ctx -> {"idle", "skipped", "starting", "registering", "listing",
                            "published", "failed"}]
        /\ publishstatus' \in BOOLEAN
    BY <2>2, PublishesTyped
  <2>5. /\ addresses' \subseteq SUBSET (Url \cup Foreign)
        /\ immediates' \subseteq immediates
    BY <1>2 DEF Immediate, TypeOK
  <2> QED BY <1>2, <2>3, <2>4, <2>5 DEF Immediate, TypeOK, zk
<1> QED BY <1>1, <1>2 DEF Delivers

\* What happens to the connection, the session and other processes keeps the types.
LEMMA TypeConnection ==
    ASSUME TypeOK,
           Disconnect \/ NewSession \/ OldExpires \/ Connect \/ \E f \in Foreign : Moves(f)
    PROVE  TypeOK'
<1>1. CASE Disconnect
  <2>1. node' \in [Url -> States]
    BY <1>1, NodeAfterTyped DEF Disconnect
  <2>2. queue' \in Seq(Request)
    BY <1>1 DEF Disconnect
  <2>3. ctx' \in [Ctx -> {"idle", "skipped", "starting", "registering", "listing",
                         "published", "failed"}]
    BY <1>1 DEF Disconnect, TypeOK
  <2>4. withdrawal' \in {"no", "asked", "done", "failed"} /\ link' \in {"new", "up", "down"}
    BY <1>1 DEF Disconnect, TypeOK
  <2> QED BY <1>1, <2>1, <2>2, <2>3, <2>4 DEF Disconnect, TypeOK, server, history, States
<1>2. CASE NewSession \/ OldExpires
  <2>1. node' \in [Url -> States]
    BY <1>2 DEF NewSession, OldExpires, TypeOK, States
  <2> QED BY <1>2, <2>1 DEF NewSession, OldExpires, TypeOK, registry, server, history, States
<1>3. CASE Connect
  <2>1. PICK urls \in SetToSeqs(registerMap) : queue' = queue \o ReRegister(urls)
    BY <1>3 DEF Connect
  <2>2. queue' \in Seq(Request)
    BY <2>1, ReRegisterTyped, ConcatQueue DEF TypeOK
  <2> QED BY <1>3, <2>2 DEF Connect, TypeOK, server, history
<1>4. ASSUME NEW f \in Foreign, Moves(f) PROVE TypeOK'
  BY <1>4 DEF Moves, TypeOK, registry, server, history
<1> QED BY <1>1, <1>2, <1>3, <1>4

\* What the provider and the consumer do keeps the types.
LEMMA TypeProcess ==
    ASSUME TypeOK,
           \/ \E c \in Ctx : AddService(c) \/ Publish(c) \/ StartFails(c)
           \/ Listens \/ TimePasses \/ UnPublish \/ ConsumerSubscribes \/ ConsumerCloses
    PROVE  TypeOK'
<1>1. ASSUME NEW c \in Ctx, AddService(c) PROVE TypeOK'
  BY <1>1 DEF AddService, TypeOK, zk, registry, history
<1>2. ASSUME NEW c \in Ctx, StartFails(c) PROVE TypeOK'
  BY <1>2 DEF StartFails, TypeOK, zk, registry, server, history
<1>3. ASSUME NEW c \in Ctx, Publish(c) PROVE TypeOK'
  <2>1. Register(now, {c}) \in Request
    BY <1>3 DEF Publish, Register, Request, Registrations
  <2>2. queue' \in Seq(Request)
    BY <1>3, <2>1, AppendQueue DEF Publish, TypeOK
  <2>3. /\ ctx' \in [Ctx -> {"idle", "skipped", "starting", "registering", "listing",
                            "published", "failed"}]
        /\ urlOf' \in [Ctx -> Url \cup {0}]
    BY <1>3 DEF Publish, TypeOK
  <2> QED BY <1>3, <2>2, <2>3 DEF Publish, TypeOK, zk
<1>4. CASE Listens
  BY <1>4 DEF Listens, TypeOK, zk, registry, history
<1>5. CASE TimePasses
  <2>1. now' \in 1..(MaxTime + 1)
    BY <1>5 DEF TimePasses, Url
  <2> QED BY <1>5, <2>1 DEF TimePasses, TypeOK, zk, registry, history
<1>6. CASE UnPublish
  <2>1. PICK urls \in SetToSeqs(publishUrl) :
           queue' = queue \o [i \in DOMAIN urls |-> Removal(urls[i])]
    BY <1>6 DEF UnPublish
  <2>2. queue' \in Seq(Request)
    BY <2>1, RemovalTyped, ConcatQueue DEF TypeOK
  <2> QED BY <1>6, <2>2 DEF UnPublish, TypeOK, zk, server
<1>7. CASE ConsumerSubscribes
  <2>1. Subscribes(Consumer, queue) /\ queue \in Seq(Request)
    BY <1>7 DEF ConsumerSubscribes, TypeOK
  <2>2. /\ queue' \in Seq(Request)
        /\ immediates' \subseteq [to : Ctx \cup {Consumer}, list : SUBSET (Url \cup Foreign)]
        /\ listeners' \subseteq Ctx \cup {Consumer} /\ subscribed' \in BOOLEAN
    BY <2>1, SubscribesTyped
  <2> QED BY <1>7, <2>2 DEF ConsumerSubscribes, TypeOK, zk, server, history
<1>8. CASE ConsumerCloses
  <2>1. Leave({Consumer}, cached)
    BY <1>8 DEF ConsumerCloses
  <2>2. /\ listeners' \subseteq Ctx \cup {Consumer}
        /\ watching' \in BOOLEAN /\ subscribed' \in BOOLEAN
        /\ cached' \subseteq SUBSET (Url \cup Foreign) /\ Cardinality(cached') <= 1
    BY <2>1, LeaveTyped
  <2> QED BY <1>8, <2>2 DEF ConsumerCloses, TypeOK, zk, server, history
<1> QED BY <1>1, <1>2, <1>3, <1>4, <1>5, <1>6, <1>7, <1>8

\* Every action keeps the types.
LEMMA TypeStep == TypeOK /\ [Next]_vars => TypeOK'
<1>1. TypeOK /\ UNCHANGED vars => TypeOK'
  BY DEF TypeOK, vars, zk, registry, server, history
<1> QED BY <1>1, TypeAnswer, TypeLists, TypeConnection, TypeProcess DEF Next

-----------------------------------------------------------------------------
(* The invariant.                                                            *)

\* The initial state satisfies the invariant.
LEMMA InitInvariant == Init => IInv
<1> SUFFICES ASSUME Init PROVE IInv
  OBVIOUS
<1>1. Cardinality(cached) <= 1
  BY FS_EmptySet DEF Init
<1>2. queue \in Seq(Request) /\ ToSet(queue) = {}
  BY DEF Init, ToSet
<1>3. node \in [Url -> {"none", "mine", "old"}] /\ now \in 1..(MaxTime + 1)
  BY DEF Init
<1>4. /\ ctx \in [Ctx -> {"idle", "skipped", "starting", "registering", "listing", "published",
                          "failed"}]
      /\ urlOf \in [Ctx -> Url \cup {0}]
  BY DEF Init
<1>5. TypeOK
  BY <1>1, <1>2, <1>3, <1>4 DEF Init, TypeOK
<1>6. OneService /\ RemovalsAreAsked /\ GoneIsOut
  BY <1>2 DEF Init, OneService, RemovalsAreAsked, GoneIsOut
<1> QED BY <1>5, <1>6 DEF IInv

\* A step brings nothing back when it adds no removal and no request that would
\* register what is withdrawn, and neither records it nor makes its node.
BringsNothingBack ==
    /\ gone' \subseteq gone /\ raced' = raced /\ (withdrawal' # "done" \/ withdrawal = "done")
    /\ withdrawal = "no" <=> withdrawal' = "no"
    /\ \A r \in ToSet(queue') \ ToSet(queue) :
          r.op # "unregister" /\ (raced \/ r.op \notin Registrations \/ r.url \notin gone')
    /\ raced \/ \A u \in gone' : u \in registerMap' => u \in registerMap
    /\ raced \/ \A u \in gone' : node[u] = "none" => node'[u] = "none"

\* What is withdrawn stays out under such a step.
LEMMA OutStable ==
    ASSUME IInv, BringsNothingBack
    PROVE  RemovalsAreAsked' /\ GoneIsOut'
<1> USE DEF IInv, RemovalsAreAsked, GoneIsOut, BringsNothingBack
<1>1. RemovalsAreAsked'
  OBVIOUS
<1>2. ASSUME ~raced, NEW u \in gone' PROVE OutForGood(u)'
  <2>1. OutForGood(u) /\ u \in Url
    BY <1>2
  <2>2. u \notin registerMap'
    BY <1>2, <2>1 DEF OutForGood
  <2>3. \A r \in ToSet(queue') : r.url = u => r.op \notin Registrations
    BY <1>2, <2>1 DEF OutForGood
  <2>4. withdrawal' = "done" => node'[u] = "none"
    BY <1>2, <2>1 DEF OutForGood
  <2> QED BY <2>2, <2>3, <2>4 DEF OutForGood
<1>3. GoneIsOut'
  BY <1>2
<1> QED BY <1>1, <1>3

\* Answers bring nothing back: a registration goes on with the same url.
LEMMA AnswerStep ==
    ASSUME IInv, Answer
    PROVE  OneService' /\ RemovalsAreAsked' /\ GoneIsOut'
<1> DEFINE req == Head(queue)
<1>1. queue \in Seq(Request) /\ node \in [Url -> States] /\ queue # <<>>
  BY DEF IInv, TypeOK, States, Answer, RegisterGoesOn, Registered, UnRegistered, Watches
<1>2. /\ req \in Request /\ req \in ToSet(queue)
      /\ Tail(queue) \in Seq(Request) /\ ToSet(Tail(queue)) \subseteq ToSet(queue)
  BY <1>1, TailQueue
<1> HIDE DEF req
<1>3. OneService'
  BY DEF IInv, OneService, Answer, RegisterGoesOn, Registered, UnRegistered, Watches, server
<1>4. ~raced /\ req.op \in Registrations => req.url \notin gone
  BY <1>2 DEF IInv, GoneIsOut, OutForGood
<1>5. CASE RegisterGoesOn
  <2>1. PICK next : next = [req EXCEPT !.op = NextRequest(req)]
    OBVIOUS
  <2>2. /\ node' = Executed(node, req) /\ req.op \in Registrations \ {"create"}
        /\ queue' = Append(Tail(queue), next)
        /\ registerMap' = IF req.op = "mkdirp" THEN registerMap \cup {req.url} ELSE registerMap
        /\ UNCHANGED <<gone, raced, withdrawal>>
    BY <1>5, <2>1 DEF RegisterGoesOn, history, req
  <2>3. next \in Request /\ next.url = req.url /\ next.op # "unregister"
    BY <1>2, <2>1, <2>2 DEF NextRequest, Request, Registrations, WatchRequest
  <2>5. ToSet(queue') \subseteq ToSet(queue) \cup {next}
    BY <1>2, <2>2, <2>3, AppendQueue
  <2>4. \A u \in gone : node[u] = "none" => node'[u] = "none"
    BY <1>1, <1>2, <2>2, ExecutedTyped DEF IInv, GoneIsOut
  <2>6. BringsNothingBack
    BY <1>4, <2>2, <2>3, <2>4, <2>5 DEF BringsNothingBack
  <2> QED BY <1>3, <2>6, OutStable
<1>6. CASE Registered
  <2>1. /\ node' = Executed(node, req) /\ req.op = "create"
        /\ UNCHANGED <<gone, raced, withdrawal, registerMap>>
    BY <1>6 DEF Registered, history, req
  <2>2. ToSet(queue') \subseteq ToSet(queue) \cup {WatchRequest}
    <3>1. CASE queue' = Tail(queue)
      BY <1>2, <3>1
    <3>2. ASSUME NEW c \in Ctx, Subscribes(c, Tail(queue))
          PROVE  ToSet(queue') \subseteq ToSet(queue) \cup {WatchRequest}
      BY <1>2, <3>2, SubscribesTyped DEF IInv
    <3>3. req.by \subseteq Ctx
      BY <1>2 DEF Request, WatchRequest
    <3> QED BY <1>6, <3>1, <3>2, <3>3 DEF Registered, req
  <2>3. WatchRequest.op # "unregister" /\ WatchRequest.url \notin Url
    BY DEF WatchRequest, Url
  <2>4. \A u \in Url : node[u] = "none" /\ u # req.url => node'[u] = "none"
    BY <1>1, <1>2, <2>1, ExecutedTyped
  <2>5. gone \subseteq Url /\ req.op \in Registrations
    BY <2>1 DEF IInv, GoneIsOut, Registrations
  <2>6. ~raced => \A u \in gone : node[u] = "none" => node'[u] = "none"
    BY <1>4, <2>4, <2>5
  <2>7. BringsNothingBack
    BY <2>1, <2>2, <2>3, <2>5, <2>6 DEF BringsNothingBack, Registrations, WatchRequest
  <2> QED BY <1>3, <2>7, OutStable
<1>7. CASE UnRegistered
  <2>1. /\ node' = Executed(node, req) /\ req.op = "unregister" /\ queue' = Tail(queue)
        /\ withdrawal' = "done" /\ UNCHANGED <<gone, raced, registerMap>>
    BY <1>7 DEF UnRegistered, history, req
  <2>2. gone \subseteq {req.url} /\ gone \subseteq Url
    BY <1>2, <2>1 DEF IInv, RemovalsAreAsked, GoneIsOut
  <2>3. \A u \in gone : node'[u] = "none"
    BY <1>1, <1>2, <2>1, <2>2, ExecutedTyped
  <2>4. RemovalsAreAsked'
    BY <1>2, <2>1 DEF IInv, RemovalsAreAsked
  <2>5. GoneIsOut'
    BY <1>2, <2>1, <2>3 DEF IInv, GoneIsOut, OutForGood
  <2> QED BY <1>3, <2>4, <2>5
<1>8. CASE Watches
  <2>1. /\ queue' = Tail(queue)
        /\ UNCHANGED <<gone, raced, withdrawal, registerMap, node>>
    BY <1>8 DEF Watches, history, zk
  <2>2. BringsNothingBack
    BY <1>2, <2>1 DEF BringsNothingBack
  <2> QED BY <1>3, <2>2, OutStable
<1> QED BY <1>5, <1>6, <1>7, <1>8 DEF Answer

\* Neither do the watch, the lists and the consumer, whose only request is a watch.
LEMMA ListStep ==
    ASSUME IInv, WatchFires \/ Delivers \/ ConsumerSubscribes \/ ConsumerCloses
    PROVE  OneService' /\ RemovalsAreAsked' /\ GoneIsOut'
<1>1. ToSet(queue') \subseteq ToSet(queue) \cup {WatchRequest}
  <2>1. CASE ConsumerSubscribes
    <3>1. queue \in Seq(Request) /\ TypeOK /\ Subscribes(Consumer, queue)
      BY <2>1 DEF ConsumerSubscribes, IInv, TypeOK
    <3> QED BY <3>1, SubscribesTyped
  <2>2. CASE WatchFires \/ Delivers \/ ConsumerCloses
    BY <2>2 DEF WatchFires, Delivers, Immediate, ConsumerCloses
  <2> QED BY <2>1, <2>2
<1>2. UNCHANGED <<node, registerMap, publishUrl, withdrawal, gone, raced>>
  BY DEF WatchFires, Delivers, Immediate, ConsumerSubscribes, ConsumerCloses, zk, server, history
<1>3. OneService'
  BY <1>2 DEF IInv, OneService
<1>4. BringsNothingBack
  BY <1>1, <1>2 DEF BringsNothingBack, Registrations, WatchRequest
<1> QED BY <1>3, <1>4, OutStable

\* Connections and sessions: a lost connection makes only the nodes that a waiting
\* request creates, and a reconnect registers only what is on record.
LEMMA ConnectionStep ==
    ASSUME IInv, Disconnect \/ NewSession \/ OldExpires \/ Connect \/ \E f \in Foreign : Moves(f)
    PROVE  OneService' /\ RemovalsAreAsked' /\ GoneIsOut'
<1>1. UNCHANGED <<registerMap, publishUrl, gone, raced>>
  BY DEF Disconnect, NewSession, OldExpires, Connect, Moves, registry, server, history
<1>2. OneService'
  BY <1>1 DEF IInv, OneService
<1>3. CASE Disconnect
  <2>1. PICK n \in 0..Len(queue) : node' = [u \in Url |-> NodeAfter(n, u)]
    BY <1>3 DEF Disconnect
  <2>2. /\ ToSet(queue') = {}
        /\ withdrawal' = IF withdrawal = "asked" THEN "failed" ELSE withdrawal
    BY <1>3 DEF Disconnect, ToSet
  <2>3. ASSUME ~raced, NEW u \in gone, node[u] = "none" PROVE node'[u] = "none"
    <3>1. u \in Url /\ \A r \in ToSet(queue) : r.url = u => r.op # "create"
      BY <2>3 DEF IInv, GoneIsOut, OutForGood, Registrations
    <3>2. NodeAfter(n, u) = "none"
      BY <2>3, <3>1, NodeAfterTyped DEF IInv
    <3> QED BY <2>1, <3>1, <3>2
  <2>4. BringsNothingBack
    BY <1>1, <2>2, <2>3 DEF BringsNothingBack
  <2> QED BY <1>2, <2>4, OutStable
<1>4. CASE NewSession \/ OldExpires
  <2>1. UNCHANGED <<queue, withdrawal>>
    BY <1>4 DEF NewSession, OldExpires, registry
  <2>2. \A u \in Url : node[u] = "none" => node'[u] = "none"
    BY <1>4 DEF NewSession, OldExpires
  <2>3. gone \subseteq Url
    BY DEF IInv, GoneIsOut
  <2>4. BringsNothingBack
    BY <1>1, <2>1, <2>2, <2>3 DEF BringsNothingBack
  <2> QED BY <1>2, <2>4, OutStable
<1>5. CASE Connect
  <2>1. PICK urls \in SetToSeqs(registerMap) : queue' = queue \o ReRegister(urls)
    BY <1>5 DEF Connect
  <2>2. queue \in Seq(Request) /\ registerMap \in SUBSET Url
    BY DEF IInv, TypeOK
  <2>3. /\ ReRegister(urls) \in Seq(Request)
        /\ \A r \in ToSet(ReRegister(urls)) : r.op = "mkdirp" /\ r.url \in registerMap
    BY <2>1, <2>2, ReRegisterTyped
  <2>4. ToSet(queue') \subseteq ToSet(queue) \cup ToSet(ReRegister(urls))
    BY <2>1, <2>2, <2>3, ConcatQueue
  <2>5. raced \/ \A u \in gone : u \notin registerMap
    BY DEF IInv, GoneIsOut, OutForGood
  <2>6. UNCHANGED <<node, withdrawal>>
    BY <1>5 DEF Connect
  <2>7. BringsNothingBack
    BY <1>1, <2>3, <2>4, <2>5, <2>6 DEF BringsNothingBack
  <2> QED BY <1>2, <2>7, OutStable
<1>6. CASE \E f \in Foreign : Moves(f)
  <2>1. UNCHANGED <<queue, node, withdrawal>>
    BY <1>6 DEF Moves, registry
  <2>2. BringsNothingBack
    BY <1>1, <2>1 DEF BringsNothingBack
  <2> QED BY <1>2, <2>2, OutStable
<1> QED BY <1>3, <1>4, <1>5, <1>6

\* The withdrawal itself: the first removal, of the one service the server has.
LEMMA UnPublishStep ==
    ASSUME IInv, UnPublish
    PROVE  OneService' /\ RemovalsAreAsked' /\ GoneIsOut'
<1>1. /\ withdrawal = "no" /\ gone' = publishUrl
      /\ withdrawal' = IF publishUrl = {} THEN "done" ELSE "asked"
      /\ registerMap' = registerMap \ publishUrl
      /\ raced' = \E u \in publishUrl : UnderWay(u)
      /\ UNCHANGED <<node, publishUrl>>
  BY DEF UnPublish, Forgotten, zk, server
<1>2. PICK urls \in SetToSeqs(publishUrl) :
         queue' = queue \o [i \in DOMAIN urls |-> Removal(urls[i])]
  BY DEF UnPublish
<1>3. PICK sent : sent = [i \in DOMAIN urls |-> Removal(urls[i])]
  OBVIOUS
<1>4. queue \in Seq(Request) /\ publishUrl \in SUBSET Url
  BY DEF IInv, TypeOK
<1>5. sent \in Seq(Request) /\ \A r \in ToSet(sent) : r.op = "unregister" /\ r.url \in publishUrl
  BY <1>2, <1>3, <1>4, RemovalTyped
<1>6. ToSet(queue') \subseteq ToSet(queue) \cup ToSet(sent)
  BY <1>2, <1>3, <1>4, <1>5, ConcatQueue
<1>7. OneService'
  BY <1>1 DEF IInv, OneService
<1>8. RemovalsAreAsked'
  <2>1. \A r \in ToSet(queue) : r.op # "unregister"
    BY <1>1 DEF IInv, RemovalsAreAsked
  <2>2. \A u \in publishUrl : publishUrl = {u}
    BY DEF IInv, OneService
  <2>3. withdrawal' # "no"
    BY <1>1
  <2> QED BY <1>1, <1>5, <1>6, <2>1, <2>2, <2>3 DEF RemovalsAreAsked
<1>9. GoneIsOut'
  <2>1. gone' \subseteq Url /\ withdrawal' # "no"
    BY <1>1, <1>4
  <2>2. ASSUME ~raced', NEW u \in gone' PROVE OutForGood(u)'
    <3>1. u \in publishUrl /\ u \notin registerMap' /\ withdrawal' # "done"
      BY <1>1, <2>2
    <3>2. \A r \in ToSet(queue) : r.url = u => r.op \notin Registrations
      BY <1>1, <2>2, <3>1, UnderWayIsWaiting
    <3>3. \A r \in ToSet(queue') : r.url = u => r.op \notin Registrations
      BY <1>5, <1>6, <3>2 DEF Registrations
    <3> QED BY <3>1, <3>3 DEF OutForGood
  <2> QED BY <2>1, <2>2 DEF GoneIsOut
<1> QED BY <1>7, <1>8, <1>9

\* The provider's other steps: what is published anew is no longer withdrawn.
LEMMA ProviderStep ==
    ASSUME IInv,
           \/ \E c \in Ctx : AddService(c) \/ Publish(c) \/ StartFails(c)
           \/ Listens \/ TimePasses
    PROVE  OneService' /\ RemovalsAreAsked' /\ GoneIsOut'
<1>1. UNCHANGED <<node, registerMap, withdrawal, raced>>
  BY DEF AddService, Publish, StartFails, Listens, TimePasses, zk, registry, history
<1>2. CASE \E c \in Ctx : Publish(c)
  <2>1. PICK c \in Ctx : /\ now \in Url /\ publishUrl' = {now} /\ gone' = gone \ {now}
                         /\ queue' = Append(queue, Register(now, {c}))
    BY <1>2 DEF Publish
  <2>2. queue \in Seq(Request) /\ Register(now, {c}) \in Request
    BY <2>1 DEF IInv, TypeOK, Register, Request, Registrations
  <2>3. ToSet(queue') \subseteq ToSet(queue) \cup {Register(now, {c})}
    BY <2>1, <2>2, AppendQueue
  <2>4. Register(now, {c}).op # "unregister" /\ Register(now, {c}).url \notin gone'
    BY <2>1 DEF Register
  <2>5. BringsNothingBack
    BY <1>1, <2>1, <2>3, <2>4 DEF BringsNothingBack
  <2>6. OneService'
    BY <2>1 DEF OneService
  <2> QED BY <2>5, <2>6, OutStable
<1>3. CASE (\E c \in Ctx : AddService(c) \/ StartFails(c)) \/ Listens \/ TimePasses
  <2>1. UNCHANGED <<queue, gone>>
    BY <1>3 DEF AddService, StartFails, Listens, TimePasses, registry, history
  <2>2. BringsNothingBack
    BY <1>1, <2>1 DEF BringsNothingBack
  <2>3. publishUrl' \in {{}, publishUrl}
    BY <1>3 DEF AddService, StartFails, Listens, TimePasses, server
  <2>4. OneService'
    BY <2>3 DEF IInv, OneService
  <2> QED BY <2>2, <2>4, OutStable
<1> QED BY <1>2, <1>3

\* A stuttering step changes nothing of the invariant.
LEMMA Stuttering ==
    ASSUME IInv, UNCHANGED vars
    PROVE  OneService' /\ RemovalsAreAsked' /\ GoneIsOut'
<1>1. UNCHANGED <<queue, node, registerMap, withdrawal, gone, raced, publishUrl>>
  BY DEF vars, zk, registry, server, history
<1>2. BringsNothingBack
  BY <1>1 DEF BringsNothingBack
<1>3. OneService'
  BY <1>1 DEF IInv, OneService
<1> QED BY <1>2, <1>3, OutStable

\* Every step keeps the invariant.
LEMMA StepInvariant == IInv /\ [Next]_vars => IInv'
<1> SUFFICES ASSUME IInv, [Next]_vars PROVE IInv'
  OBVIOUS
<1>1. TypeOK'
  BY TypeStep DEF IInv
<1>2. OneService' /\ RemovalsAreAsked' /\ GoneIsOut'
  BY AnswerStep, ListStep, ConnectionStep, UnPublishStep, ProviderStep, Stuttering DEF Next
<1> QED BY <1>1, <1>2 DEF IInv

-----------------------------------------------------------------------------
(* The theorems.                                                             *)

\* The invariant holds throughout.
THEOREM Invariance == Spec => []IInv
BY InitInvariant, StepInvariant, PTL DEF Spec

\* All state of the registry client, the provider and the consumer is typed
\* (data_client.js:36-48).
THEOREM TypeCorrect == Spec => []TypeOK
<1>1. IInv => TypeOK
  BY DEF IInv
<1> QED BY <1>1, Invariance, PTL

\* A url withdrawn while no registration of it is on its way is neither listed nor
\* registered again, whatever connections and sessions follow (data_client.js:59-104).
THEOREM WithdrawnStays == Spec => []WithdrawnStaysOut
<1>1. IInv => WithdrawnStaysOut
  BY DEF IInv, GoneIsOut, OutForGood, WithdrawnStaysOut
<1> QED BY <1>1, Invariance, PTL
=============================================================================
