---------------------------- MODULE AddressGroup ----------------------------
(* sofarpc/lib/client/address_group.js with the load balancer's choice of    *)
(* addresses (loadbalancer/base.js, weight_rr.js) and the connection manager *)
(* it works on (connection_mgr.js): the addresses of one service, which of   *)
(* them are in use, their weights, and how those that cannot be reached are  *)
(* noticed, taken out and tried again.                                       *)
(*                                                                           *)
(* An action is one handler with its microtasks.  A handler may refresh the  *)
(* group in the middle, so handlers are functions on the group's state g.    *)
EXTENDS Integers, FiniteSets, Sequences, SequencesExt

CONSTANTS Addr,             \* addresses
          Default,          \* DEFAULT_WEIGHT
          Least,            \* degradeLeastWeight
          Divisor,          \* 1 / weightDegradeRate
          Factor,           \* weightRecoverRate
          IsolatedPercent,  \* maxIsolatedPercentage
          EnableThreshold,  \* enableThreshold of the elastic pool
          MinPool, MaxPool, \* minAddressCount, maxAddressCount
          InitPool,         \* initConnectionSize
          MaxPushes         \* bound: lists the registry pushes

ASSUME AddrAssumption == IsFiniteSet(Addr)
ASSUME WeightAssumption ==
    /\ Default \in Nat /\ Least \in Nat \ {0} /\ Least < Default
    /\ Divisor \in Nat \ {0} /\ Factor \in Nat \ {0}
ASSUME PoolAssumption ==
    /\ IsolatedPercent \in 0..100 /\ EnableThreshold \in Nat
    /\ MinPool \in Nat \ {0} /\ MaxPool \in Nat /\ MinPool <= MaxPool
    /\ InitPool \in Nat \ {0} /\ MaxPushes \in Nat

VARIABLES all,       \* _allAddressList, in its shuffled order
          chosen,    \* the set of _addressList
          pool,      \* _connectionPoolSize
          weight,    \* _weightMap: the weight of each chosen address
          fault,     \* _faultAddressMap
          degrade,   \* _degradeEnable
          conn,      \* ConnectionManager: each host's connection
          waiters,   \* addresses whose connection _connectAll waits for
          retrying,  \* those of them that ready() or _retryFaultAddresses waits for
          retry,     \* _retryFaultAddresses: not started, sleeping or waiting
          reachable, \* servers that accept connections
          calm,      \* from some time on all servers work well
          pushes

group == <<chosen, weight, fault, degrade, conn, waiters>>
env   == <<reachable, calm, pushes>>
vars  == <<all, pool, group, retrying, retry, env>>

\* The part of the state that handlers compute with; found collects the
\* addresses that a microtask takes out of _faultAddressMap.
Group == [chosen |-> chosen, weight |-> weight, fault |-> fault, degrade |-> degrade,
          conn |-> conn, waiters |-> waiters, found |-> {}]

Becomes(g) ==
    /\ chosen' = g.chosen /\ weight' = g.weight /\ fault' = g.fault \ g.found
    /\ degrade' = g.degrade /\ conn' = g.conn /\ waiters' = g.waiters

\* The group before the registry, or the configured list, has answered.
Init ==
    /\ all = <<>> /\ chosen = {} /\ pool = InitPool
    /\ weight = [a \in {} |-> Default] /\ fault = {} /\ degrade = FALSE
    /\ conn = [a \in Addr |-> "none"]
    /\ waiters = {} /\ retrying = {} /\ retry = "unready"
    /\ reachable = Addr /\ calm = FALSE /\ pushes = 0

-----------------------------------------------------------------------------
(* The choice of addresses.                                                  *)

UnHealthy(g, a) == a \in g.fault \/ (a \in g.chosen /\ g.weight[a] < Default)
IsHealthy(g, a) == g.conn[a] # "none" /\ ~UnHealthy(g, a)

NeedElasticControl(n) == n >= MinPool /\ n > EnableThreshold

\* Healthy and newly pushed addresses first, then unknown ones, then unhealthy ones;
\* in the list's order, the unknown from its end.
Class(g, new, a) == IF IsHealthy(g, a) \/ a \in new THEN 1
                    ELSE IF UnHealthy(g, a) THEN 3 ELSE 2
Before(g, list, new, i, j) ==
    LET class(n) == Class(g, new, list[n])
    IN \/ class(i) < class(j)
       \/ class(i) = class(j) /\ IF class(i) = 2 THEN i > j ELSE i < j

\* As many addresses as fit.
Choose(g, list, new, size) ==
    IF ~NeedElasticControl(Len(list)) \/ size > Len(list) THEN ToSet(list)
    ELSE LET left == IF size > MaxPool THEN MaxPool ELSE size
         IN {list[j] : j \in {n \in DOMAIN list :
                 Cardinality({i \in DOMAIN list : Before(g, list, new, i, n)}) < left}}

\* createAndGet() for each address: the answer takes a connected one out of
\* _faultAddressMap, and waits for any other.
ConnectAll(g, S) ==
    LET open == {a \in S : g.conn[a] = "up"}
    IN [g EXCEPT !.conn = [a \in Addr |-> IF a \in S \ open THEN "connecting" ELSE @[a]],
                 !.waiters = @ \cup (S \ open),
                 !.found = @ \cup open]

\* The setter of addressList.
SetAddressList(g, list, new, size) ==
    LET c == Choose(g, list, new, size)
    IN ConnectAll([g EXCEPT
            !.chosen = c,
            !.weight = [a \in c |-> IF a \in g.chosen THEN g.weight[a] ELSE Default],
            !.fault = @ \cap c,
            !.degrade = TRUE], c)

Refresh(g, size) ==
    IF Len(all) > Cardinality(g.chosen) THEN SetAddressList(g, all, {}, size) ELSE g

\* The registry pushes a list, which is shuffled.  Before the group is ready, the
\* first of its lists to be connected makes it so.
Push(list) ==
    /\ pushes < MaxPushes /\ pushes' = pushes + 1
    /\ all' = list
    /\ \E g \in {SetAddressList(Group, list, ToSet(list) \ ToSet(all), pool)} :
          /\ Becomes(g)
          /\ retrying' = IF retry = "unready" /\ pushes = 0 THEN g.waiters ELSE retrying
    /\ UNCHANGED <<pool, retry, reachable, calm>>

\* ready(): the window's end is listened to from now on, and the timer started.
\* A later list may be connected before the first one.
Ready ==
    /\ retry = "unready" /\ pushes > 0
    /\ retrying = {} \/ waiters \cap chosen = {}
    /\ retry' = "sleeping" /\ retrying' = {}
    /\ UNCHANGED <<all, pool, group, env>>

-----------------------------------------------------------------------------
(* The weights.                                                              *)

\* A plausible mistake: no least weight.
DividedOnly(w) == w \div Divisor

\* A connected address that is much worse than the average.
Lowered(w) == IF w <= Least \/ w \div Divisor < Least THEN Least ELSE w \div Divisor

\* A plausible mistake: the weight is doubled beyond the default.
Multiplied(w) == w * Factor

\* A plausible mistake: a weight is only ever lowered.
NeverRaised(w) == w

\* A connected address that is not.
Raised(w) == IF w * Factor > Default THEN Default ELSE w * Factor

MaxIsolated(g) == (IsolatedPercent * Cardinality(g.chosen) + 99) \div 100

\* A plausible mistake: an address that has lost its connection is only weighed.
NoticedNothing(g) == {}

\* Addresses found without a connection.
Noticed(g) == {a \in g.chosen : g.conn[a] # "up"}

\* _onNext()'s loop; verdict: what the counters of each connection say.
Weighed(g, verdict) ==
    [g EXCEPT !.fault = @ \cup Noticed(g),
              !.weight = [a \in g.chosen |->
                  IF g.conn[a] # "up" THEN 0
                  ELSE IF g.degrade /\ verdict[a] = "bad" THEN Lowered(@[a])
                  ELSE IF g.degrade /\ verdict[a] = "good" THEN Raised(@[a])
                  ELSE @[a]]]

Degraded(g) == {a \in g.chosen : g.weight[a] < Default}

\* Too many degraded addresses: nothing is degraded any more, and others are tried.
Regulated(g, size) ==
    IF Cardinality(Degraded(g)) <= MaxIsolated(g)
    THEN [g EXCEPT !.degrade = TRUE]
    ELSE Refresh([g EXCEPT !.degrade = FALSE], size)

\* The window's end: the pool is adjusted to the number of requests, weights to
\* each connection's error rate and response time.
OnNext ==
    /\ retry # "unready"
    /\ \E size \in MinPool..MaxPool :
       \E verdict \in [{a \in Addr : conn[a] = "up"} -> {"bad", "good", "none"}] :
          /\ calm => size = pool /\ \A a \in DOMAIN verdict : verdict[a] = "good"
          /\ pool' = size
          /\ \E resized \in {IF size # pool THEN Refresh(Group, size) ELSE Group} :
             \E weighed \in {Weighed(resized, verdict)} :
             \E g \in {Regulated(weighed, size)} : Becomes(g)
    /\ UNCHANGED <<all, retrying, retry, env>>

-----------------------------------------------------------------------------
(* Requests.                                                                 *)

\* getWeight(); a weight of 0 counts as none.
EffectiveWeight(a) ==
    IF conn[a] # "up" THEN 0
    ELSE IF ~degrade \/ weight[a] = 0 THEN Default ELSE weight[a]

\* Round robin looks at some addresses and notes those without a connection; it
\* takes a connected one, or, when it has turned all of them down, any.
Select(a) ==
    /\ a \in chosen
    /\ \E seen \in SUBSET chosen :
          /\ \/ Cardinality(chosen) = 1 /\ seen = {}
             \/ Cardinality(chosen) > 1 /\ a \in seen /\ conn[a] = "up"
             \/ /\ Cardinality(chosen) > 1 /\ seen = chosen
                /\ \A b \in chosen : EffectiveWeight(b) < Default
          /\ fault' = fault \cup {b \in seen : conn[b] # "up"}
    /\ conn' = [conn EXCEPT ![a] = IF @ = "none" THEN "connecting" ELSE @]
    /\ UNCHANGED <<all, pool, chosen, weight, degrade, waiters, retrying, retry, env>>

-----------------------------------------------------------------------------
(* Connections.                                                              *)

\* The answer of _connectAll for a connected address; it is not asked whether
\* the address is still in use.
Connected(a) ==
    /\ conn[a] = "connecting" /\ a \in reachable
    /\ conn' = [conn EXCEPT ![a] = "up"]
    /\ fault' = IF a \in waiters THEN fault \ {a} ELSE fault
    /\ waiters' = waiters \ {a} /\ retrying' = retrying \ {a}
    /\ UNCHANGED <<all, pool, chosen, weight, degrade, retry, env>>

\* A plausible mistake: whatever address has failed is put on the list.
LostAnywhere(a) == {a} \cap waiters

\* The addresses that a failed connection puts on the list: in use, and waited for.
Lost(a) == {a} \cap waiters \cap DOMAIN weight

ConnectFails(a) ==
    /\ conn[a] = "connecting" /\ a \notin reachable
    /\ conn' = [conn EXCEPT ![a] = "none"]
    /\ fault' = fault \cup Lost(a)
    /\ weight' = [b \in chosen |-> IF b \in Lost(a) THEN 0 ELSE weight[b]]
    /\ waiters' = waiters \ {a} /\ retrying' = retrying \ {a}
    /\ UNCHANGED <<all, pool, chosen, degrade, retry, env>>

\* The socket is closed, and the manager forgets the connection.
Drops(a) ==
    /\ ~calm
    /\ conn[a] = "up"
    /\ conn' = [conn EXCEPT ![a] = "none"]
    /\ UNCHANGED <<all, pool, chosen, weight, fault, degrade, waiters, retrying, retry, env>>

\* The timer of _retryFaultAddresses; with no fault it goes on sleeping.
RetryFaultAddresses ==
    /\ retry = "sleeping" /\ fault # {}
    /\ \E g \in {ConnectAll(Group, fault)} : Becomes(g)
    /\ retrying' = {a \in fault : conn[a] # "up"}
    /\ retry' = "waiting"
    /\ UNCHANGED <<all, pool, env>>

\* All are connected or have failed; then others are tried for those that failed.
Retried ==
    /\ retry = "waiting" /\ retrying = {}
    /\ \E g \in {IF fault # {} THEN Refresh(Group, pool) ELSE Group} : Becomes(g)
    /\ retry' = "sleeping"
    /\ UNCHANGED <<all, pool, retrying, env>>

-----------------------------------------------------------------------------
(* The servers.                                                              *)

GoesUpOrDown(a) ==
    /\ ~calm
    /\ reachable' = IF a \in reachable THEN reachable \ {a} ELSE reachable \cup {a}
    /\ UNCHANGED <<all, pool, group, retrying, retry, calm, pushes>>

CalmsDown ==
    /\ ~calm
    /\ calm' = TRUE /\ reachable' = Addr
    /\ UNCHANGED <<all, pool, group, retrying, retry, pushes>>

Resolves(a) == Connected(a) \/ ConnectFails(a)

Next ==
    \/ \E S \in SUBSET Addr : \E list \in SetToSeqs(S) : Push(list)
    \/ Ready
    \/ OnNext
    \/ \E a \in Addr : Select(a) \/ Resolves(a) \/ Drops(a) \/ GoesUpOrDown(a)
    \/ RetryFaultAddresses \/ Retried
    \/ CalmsDown

Spec == Init /\ [][Next]_vars

\* Timers fire, and connecting succeeds or times out.
Fairness ==
    /\ WF_vars(Ready) /\ WF_vars(OnNext) /\ WF_vars(RetryFaultAddresses) /\ WF_vars(Retried)
    /\ \A a \in Addr : WF_vars(Resolves(a))

FairSpec == Spec /\ Fairness

-----------------------------------------------------------------------------
(* Properties.                                                               *)

\* The types of all state (address_group.js:22-39, 126-143).
TypeOK ==
    /\ all \in Seq(Addr) /\ chosen \subseteq ToSet(all)
    /\ pool \in MinPool..MaxPool \cup {InitPool}
    /\ weight \in [chosen -> 0..Default] /\ fault \subseteq Addr /\ degrade \in BOOLEAN
    /\ conn \in [Addr -> {"none", "connecting", "up"}]
    /\ waiters \subseteq Addr /\ retrying \subseteq waiters
    /\ retry \in {"unready", "sleeping", "waiting"}
    /\ reachable \subseteq Addr /\ calm \in BOOLEAN /\ pushes \in 0..MaxPushes

\* An address the registry has withdrawn, or that is not in use any more, does not
\* come back on the list of addresses to reconnect, however late its connection
\* fails (address_group.js:126-142, 288-302).
FaultsAreInUse == fault \subseteq chosen

\* A weight only falls to 0 for want of a connection: errors and slow answers leave
\* every connected address some requests to recover by (address_group.js:213-254).
ZeroOnlyWithoutConnection ==
    [][\A a \in chosen \cap chosen' :
          weight[a] # 0 /\ weight'[a] = 0 => conn'[a] # "up"]_vars

\* An address in use that has lost its connection gets it back without any request,
\* unless its server is down or it goes out of use (address_group.js:202-216,
\* 288-320).
Reconnects ==
    \A a \in Addr : a \in chosen /\ conn[a] = "none"
                      ~> conn[a] = "up" \/ a \notin chosen \/ a \notin reachable

\* Once all servers work well, every address in use takes its whole share again and for
\* good, although a weight that has fallen to 0 never rises and regulation may be off
\* (address_group.js:213-251, 279-285, 322-338).
ShareRecovers == calm ~> [](\A a \in chosen : EffectiveWeight(a) = Default)
=============================================================================
