------------------------------- MODULE RpcCall ------------------------------
(* Calls to one server over bolt, from the consumer to the service and back: *)
(* client/consumer.js and client.js, connection_mgr.js, connection/rpc.js,   *)
(* server/server.js, service.js, connection.js and response.js.              *)
(*                                                                           *)
(* An action is one handler of node with its microtasks and nextTicks.  The  *)
(* connections are the generations of the one that the manager keeps for the *)
(* server's host; each breaker is known by the connection that made it.      *)
EXTENDS Integers, FiniteSets

CONSTANTS MaxCalls, \* bound: calls
          MaxConn   \* bound: connections

ASSUME BoundAssumption == MaxCalls \in Nat /\ MaxConn \in Nat

Req  == 1..MaxCalls
Conn == 1..MaxConn

VARIABLES entry,    \* ConnectionManager: the connection of the host, or 0
          sock,     \* none, connecting, up, destroyed (its close event to come), closed
          ready,    \* of the connection's ready(): pending, ok or failed
          awaited,  \* calls that the connection's close() waits for
          closing,  \* connections with _isClosing
          breaker,  \* the breaker each connection has, or 0
          cache,    \* the breaker kept for the host, or 0
          dead,     \* closed breakers, whose counters have stopped
          at,       \* of each call: idle, connecting, sent or ended
          via,      \* the connection it uses, or 0
          code,     \* its resultCode in the end
          closed    \* the client's close() was called

VARIABLES listening, \* the server accepts connections
          served,    \* the server's open connections
          requests,  \* on their way to the server
          answers,   \* on their way back: call and resultCode
          running,   \* calls whose method runs
          ran,       \* how often each call's method has been started
          crossed,   \* history: a connection took another one's entry away
          lost       \* history: connections that were not closed by the client

client  == <<entry, sock, ready, awaited, closing, closed>>
breakers == <<breaker, cache, dead>>
calls   == <<at, via, code>>
network == <<requests, answers>>
server  == <<listening, served, running, ran>>
history == <<crossed, lost>>
vars    == <<client, breakers, calls, network, server, history>>

Init ==
    /\ entry = 0 /\ sock = [k \in Conn |-> "none"] /\ ready = [k \in Conn |-> "pending"]
    /\ awaited = [k \in Conn |-> {}] /\ closing = {} /\ closed = FALSE
    /\ breaker = [k \in Conn |-> 0] /\ cache = 0 /\ dead = {}
    /\ at = [r \in Req |-> "idle"] /\ via = [r \in Req |-> 0] /\ code = [r \in Req |-> "none"]
    /\ listening = TRUE /\ served = {} /\ running = {} /\ ran = [r \in Req |-> 0]
    /\ requests = {} /\ answers = {} /\ crossed = FALSE /\ lost = {}

-----------------------------------------------------------------------------
(* The client's calls.                                                       *)

\* _sentReqs of k, and the calls that wait for its ready().
Sent(k)    == {r \in Req : at[r] = "sent" /\ via[r] = k}
Waiting(k) == {r \in Req : at[r] = "connecting" /\ via[r] = k}

\* The calls E end with resultCode c; others move to the place p.
Ends(E, c, place) ==
    /\ at' = [r \in Req |-> IF r \in E THEN "ended" ELSE place[r]]
    /\ code' = [r \in Req |-> IF r \in E THEN c ELSE code[r]]

\* A plausible mistake: close() waits for the first of the calls only.
OneOver(k, E) == awaited[k] \cap E # {} \/ awaited[k] = {}

\* Promise.all() in close(): all it waits for are over when E are.
AllOver(k, E) == awaited[k] \subseteq E

\* The sockets when the calls E have ended: close() goes on to forceClose() when all
\* it waits for have.
Drained(E) ==
    [k \in Conn |-> IF sock[k] = "up" /\ k \in closing /\ AllOver(k, E)
                    THEN "destroyed" ELSE sock[k]]

\* A plausible mistake: a settled call is awaited once more.
AwaitedAgain(k, r) == awaited[k]

StillAwaited(k, r) == awaited[k] \ {r}

\* A call whose answer, error or timeout comes: settled once, by its entry in
\* _sentReqs.
Settles(r, c) ==
    /\ Ends({r}, c, at)
    /\ sock' = Drained({r})
    /\ awaited' = [k \in Conn |-> StillAwaited(k, r)]
    /\ UNCHANGED <<entry, ready, closing, closed, via, breakers>>

\* The calls of R go out over k; the breaker refuses some, or they cannot be encoded.
Send(R, k, refused) ==
    /\ Ends(refused, "02", [r \in Req |-> IF r \in R THEN "sent" ELSE at[r]])
    /\ via' = [r \in Req |-> IF r \in R THEN k ELSE via[r]]
    /\ requests' = requests \cup IF ready[k] = "ok" /\ sock[k] # "up" THEN {} ELSE R \ refused

\* Calls are numbered in the order they begin.
Begins(r) == at[r] = "idle" /\ \A q \in 1..(r - 1) : at[q] # "idle"

\* No address, or the client is closed: its address groups are empty.
NoProvider(r) ==
    /\ Begins(r)
    /\ Ends({r}, "04", at)
    /\ UNCHANGED <<client, breakers, via, network, server, history>>

\* createAndGet() finds a connection that has connected.
Reuse(r) ==
    /\ Begins(r) /\ ~closed /\ entry # 0 /\ ready[entry] = "ok"
    /\ \E refused \in SUBSET {r} : Send({r}, entry, refused)
    /\ UNCHANGED <<client, breakers, answers, server, history>>

\* createAndGet() finds one that has not, and waits for it.
Wait(r) ==
    /\ Begins(r) /\ ~closed /\ entry # 0 /\ ready[entry] # "ok"
    /\ at' = [at EXCEPT ![r] = "connecting"] /\ via' = [via EXCEPT ![r] = entry]
    /\ UNCHANGED <<client, breakers, code, network, server, history>>

\* A plausible mistake: only a connection that has connected is looked for.
NoneConnected(e) == IF e = 0 THEN TRUE ELSE ready[e] # "ok"

NoneKnown(e) == e = 0

\* createAndGet() finds none, and makes one with the host's breaker.
Create(r, k) ==
    /\ Begins(r) /\ ~closed /\ NoneKnown(entry)
    /\ sock[k] = "none" /\ \A j \in 1..(k - 1) : sock[j] # "none"
    /\ entry' = k /\ sock' = [sock EXCEPT ![k] = "connecting"]
    /\ cache' = IF cache = 0 THEN k ELSE cache
    /\ breaker' = [breaker EXCEPT ![k] = cache']
    /\ at' = [at EXCEPT ![r] = "connecting"] /\ via' = [via EXCEPT ![r] = k]
    /\ UNCHANGED <<ready, awaited, closing, closed, dead, code, network, server, history>>

\* A plausible mistake: an answer is taken for whatever call has its id.
AnyCall(r) == at[r] # "idle"

\* The answer is for a call that is still in _sentReqs.
Expected(r) == at[r] = "sent"

\* An answer arrives.
Receive(m) ==
    /\ m \in answers /\ sock[via[m.req]] = "up"
    /\ answers' = answers \ {m}
    /\ IF Expected(m.req) THEN Settles(m.req, m.code)
       ELSE UNCHANGED <<client, breakers, calls>>
    /\ UNCHANGED <<requests, server, history>>

TimesOut(r) ==
    /\ at[r] = "sent"
    /\ Settles(r, "03")
    /\ UNCHANGED <<network, server, history>>

-----------------------------------------------------------------------------
(* The client's connections.                                                 *)

Connects(k) ==
    /\ sock[k] = "connecting" /\ listening
    /\ sock' = [sock EXCEPT ![k] = "up"] /\ ready' = [ready EXCEPT ![k] = "ok"]
    /\ served' = served \cup {k}
    /\ \E refused \in SUBSET Waiting(k) : Send(Waiting(k), k, refused)
    /\ UNCHANGED <<entry, awaited, closing, closed, breakers, answers, listening, running, ran,
                   history>>

\* A plausible mistake: the connect timeout only closes the connection.
ToldNothing(k) == {}

\* The calls that ready(err) tells of the failure.
ToldOfFailure(k) == Waiting(k)

\* An error, or the connect timeout: each createAndGet() that waits deletes the host's entry before the
\* socket's close event comes.
ConnectFails(k) ==
    /\ sock[k] = "connecting"
    /\ sock' = [sock EXCEPT ![k] = "destroyed"] /\ ready' = [ready EXCEPT ![k] = "failed"]
    /\ Ends(ToldOfFailure(k), "04", at)
    /\ entry' = 0 /\ crossed' = (crossed \/ entry \notin {0, k})
    /\ UNCHANGED <<awaited, closing, closed, breakers, via, network, server, lost>>

\* The connection is lost, or the server has closed it.
Drops(k) ==
    /\ sock[k] = "up"
    /\ sock' = [sock EXCEPT ![k] = "destroyed"] /\ lost' = lost \cup {k}
    /\ UNCHANGED <<entry, ready, awaited, closing, closed, breakers, calls, network, server, crossed>>

\* A plausible mistake: the breaker is left in the cache although it has stopped.
StillCached(k) == cache

\* The cache after the breaker of k has closed.
CacheWithout(k) == IF cache = breaker[k] THEN 0 ELSE cache

\* _handleClose(): the calls end, the breaker closes, the manager deletes whatever
\* connection it has for the host.
Closes(k) ==
    /\ sock[k] = "destroyed"
    /\ Ends(Sent(k), "02", at)
    /\ sock' = [sock EXCEPT ![k] = "closed"]
    /\ awaited' = [awaited EXCEPT ![k] = {}] /\ closing' = closing \ {k}
    /\ entry' = 0 /\ crossed' = (crossed \/ entry \notin {0, k})
    /\ dead' = dead \cup {breaker[k]} /\ cache' = CacheWithout(k)
    /\ answers' = {m \in answers : via[m.req] # k}
    /\ UNCHANGED <<ready, closed, breaker, via, requests, server, lost>>

\* close() of the client and of the connection its manager has; one that has not
\* connected yet is destroyed, and its ready() is never answered.
ClientCloses ==
    /\ ~closed /\ closed' = TRUE
    /\ LET mine == {entry} \cap Conn
       IN /\ closing' = closing \cup mine
          /\ awaited' = [k \in Conn |-> IF k \in mine THEN Sent(k) ELSE awaited[k]]
          /\ sock' = [k \in Conn |-> IF k \in mine /\ Sent(k) = {} /\ sock[k] # "closed"
                                     THEN "destroyed" ELSE sock[k]]
    /\ UNCHANGED <<entry, ready, breakers, calls, network, server, history>>

-----------------------------------------------------------------------------
(* The server.                                                               *)

Answered(r, c) == answers \cup {[req |-> r, code |-> c]}

\* A request arrives; its service or its method may be unknown.
Handle(r) ==
    /\ r \in requests /\ via[r] \in served
    /\ requests' = requests \ {r}
    /\ \/ /\ answers' = Answered(r, "01") /\ UNCHANGED <<running, ran>>
       \/ /\ running' = running \cup {r} /\ ran' = [ran EXCEPT ![r] = @ + 1]
          /\ UNCHANGED answers
    /\ UNCHANGED <<client, breakers, calls, listening, served, history>>

\* Its method returns or throws; an answer that is late, or whose connection has closed,
\* is not sent.
Finish(r) ==
    /\ r \in running /\ running' = running \ {r}
    /\ \/ UNCHANGED answers
       \/ via[r] \in served /\ \E c \in {"00", "01"} : answers' = Answered(r, c)
    /\ UNCHANGED <<client, breakers, calls, requests, listening, served, ran, history>>

\* The server is left with the connections K; what was on its way over others is lost.
ServedOnly(K) ==
    /\ served' = K /\ requests' = {r \in requests : via[r] \in K}

\* The idle timer closes a connection on which nothing runs.
IdleCloses(k) ==
    /\ k \in served /\ \A r \in running : via[r] # k
    /\ ServedOnly(served \ {k})
    /\ UNCHANGED <<client, breakers, calls, answers, listening, running, ran, history>>

\* The server sees that the client's end is gone.
ServerNotices(k) ==
    /\ k \in served /\ sock[k] \in {"destroyed", "closed"}
    /\ ServedOnly(served \ {k})
    /\ UNCHANGED <<client, breakers, calls, answers, listening, running, ran, history>>

\* close(): no more connections, and those there are closed at once.
ServerCloses ==
    /\ listening /\ listening' = FALSE /\ ServedOnly({})
    /\ UNCHANGED <<client, breakers, calls, answers, running, ran, history>>

-----------------------------------------------------------------------------

Next ==
    \/ \E r \in Req : \/ NoProvider(r) \/ Reuse(r) \/ Wait(r) \/ TimesOut(r)
                      \/ Handle(r) \/ Finish(r)
                      \/ \E k \in Conn : Create(r, k)
    \/ \E m \in answers : Receive(m)
    \/ \E k \in Conn : \/ Connects(k) \/ ConnectFails(k) \/ Drops(k) \/ Closes(k)
                       \/ IdleCloses(k) \/ ServerNotices(k)
    \/ ClientCloses \/ ServerCloses

Spec == Init /\ [][Next]_vars

\* Calls have timers, connecting has a timeout, a destroyed socket closes.
Fairness ==
    /\ \A r \in Req : WF_vars(TimesOut(r))
    /\ \A k \in Conn : WF_vars(Connects(k) \/ ConnectFails(k)) /\ WF_vars(Closes(k))

FairSpec == Spec /\ Fairness

-----------------------------------------------------------------------------
(* Properties.                                                               *)

Codes == {"00", "01", "02", "03", "04"}

\* The types of all state (rpc.js:24-33, connection_mgr.js:25).
TypeOK ==
    /\ entry \in Conn \cup {0}
    /\ sock \in [Conn -> {"none", "connecting", "up", "destroyed", "closed"}]
    /\ ready \in [Conn -> {"pending", "ok", "failed"}]
    /\ awaited \in [Conn -> SUBSET Req] /\ closing \subseteq Conn /\ closed \in BOOLEAN
    /\ breaker \in [Conn -> Conn \cup {0}] /\ cache \in Conn \cup {0} /\ dead \subseteq Conn
    /\ at \in [Req -> {"idle", "connecting", "sent", "ended"}]
    /\ via \in [Req -> Conn \cup {0}] /\ code \in [Req -> Codes \cup {"none"}]
    /\ listening \in BOOLEAN /\ served \subseteq Conn
    /\ requests \subseteq Req /\ answers \subseteq [req : Req, code : Codes]
    /\ running \subseteq Req /\ ran \in [Req -> Nat] /\ crossed \in BOOLEAN /\ lost \subseteq Conn
    /\ \A k \in Conn : awaited[k] \subseteq Sent(k)

\* Every live connection is the one its manager knows, until a connection that failed
\* to connect takes another's entry away (connection_mgr.js:64-90).
LiveIsKnown ==
    ~crossed => \A k \in Conn : sock[k] \in {"connecting", "up"} => entry = k

\* The breaker of a live connection counts: only the close of that connection has
\* stopped it, unless one to the same host failed to connect before, which deletes and
\* closes what newer ones use (rpc.js:271-281, connection_mgr.js:64-90).
LiveHasBreaker ==
    \A k \in Conn : /\ sock[k] \in {"connecting", "up"} /\ breaker[k] \in dead
                    => \E j \in 1..(k - 1) : ready[j] = "failed"

\* The client's own close() cuts no call off: one that ends for want of its connection
\* had lost it otherwise (rpc.js:297-309).
ClosesGracefully ==
    [][\A r \in Req : at[r] = "sent" /\ at'[r] = "ended" /\ code'[r] = "02"
                        => via[r] \in lost]_vars

\* A call that was never going to be answered: its connection was closed before its
\* ready() had an answer.
Abandoned(r) ==
    /\ at[r] = "connecting" /\ ready[via[r]] = "pending"
    /\ sock[via[r]] \in {"destroyed", "closed"}

\* Every call ends, whatever happens to its connection, the client and the server,
\* unless the client was closed while it waited to be connected (rpc.js:159-213,
\* 255-281).
EveryCallEnds ==
    \A r \in Req : at[r] \in {"connecting", "sent"} ~> at[r] = "ended" \/ Abandoned(r)

\* Each call ends once, is run at most once and succeeds only if it was run
\* (rpc.js:215-225, server.js:269-292).
Promise == INSTANCE Settlement WITH
    phase <- [r \in Req |-> IF at[r] \in {"connecting", "sent"} THEN "called" ELSE at[r]],
    good  <- {r \in Req : code[r] = "00"}
SettlementSpec == Promise!Spec
=============================================================================
