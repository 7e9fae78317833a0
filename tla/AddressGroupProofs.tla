------------------------- MODULE AddressGroupProofs -------------------------
(* Proofs about AddressGroup: its types, that only addresses in use are to be *)
(* reconnected, and that no handler takes a connected address's weight away,  *)
(* for any addresses, weights, pool sizes and verdicts of the counters.       *)
(*                                                                            *)
(* Handlers are functions on the group's state, so the lemmas are about what  *)
(* each of these functions keeps.                                             *)
EXTENDS AddressGroup, NumberLemmas

\* The group's state in the middle of a handler, when list is its list.
GroupOK(g, list) ==
    /\ DOMAIN g = {"chosen", "weight", "fault", "degrade", "conn", "waiters", "found"}
    /\ g.chosen \subseteq ToSet(list)
    /\ g.weight \in [g.chosen -> 0..Default]
    /\ g.fault \subseteq g.chosen
    /\ g.degrade \in BOOLEAN
    /\ g.conn \in [Addr -> {"none", "connecting", "up"}]
    /\ g.waiters \subseteq Addr

\* Between g and h no connection comes up, and no connected address gets weight 0.
Spares(g, h) ==
    /\ \A a \in Addr : h.conn[a] = "up" => g.conn[a] = "up"
    /\ \A a \in h.chosen :
          h.conn[a] = "up" /\ h.weight[a] = 0 => a \in g.chosen /\ g.weight[a] = 0

IInv == TypeOK /\ FaultsAreInUse

USE AddrAssumption, WeightAssumption, PoolAssumption

-----------------------------------------------------------------------------
(* Lemmas about the operators.                                               *)

\* Dividing a weight does not raise it.
LEMMA QuotientTyped ==
    ASSUME NEW w \in Nat, NEW d \in Nat \ {0}
    PROVE  w \div d \in 0..w
OBVIOUS

\* A lowered weight is a weight, and not 0.
LEMMA LoweredTyped ==
    ASSUME NEW w \in 0..Default
    PROVE  Lowered(w) \in 0..Default /\ Lowered(w) # 0
<1>1. w \div Divisor \in 0..w
  BY QuotientTyped
<1> QED BY <1>1 DEF Lowered

\* A raised weight is a weight, and 0 only if it was.
LEMMA RaisedTyped ==
    ASSUME NEW w \in 0..Default
    PROVE  Raised(w) \in 0..Default /\ (Raised(w) = 0 => w = 0)
<1>1. w * Factor \in Nat /\ (w # 0 => w * Factor # 0)
  OBVIOUS
<1> QED BY <1>1 DEF Raised

\* The load balancer chooses from the list.
LEMMA ChooseTyped ==
    ASSUME NEW g, NEW list, NEW new, NEW size
    PROVE  Choose(g, list, new, size) \subseteq ToSet(list)
BY DEF Choose, ToSet

\* Connecting addresses in use keeps the group, and no connection comes up at once.
LEMMA ConnectAllKeeps ==
    ASSUME NEW list \in Seq(Addr), NEW g, GroupOK(g, list), NEW S \in SUBSET Addr
    PROVE  /\ GroupOK(ConnectAll(g, S), list)
           /\ Spares(g, ConnectAll(g, S))
           /\ g.waiters \subseteq ConnectAll(g, S).waiters
<1> DEFINE h == ConnectAll(g, S)
<1>1. /\ DOMAIN h = DOMAIN g
      /\ h.chosen = g.chosen /\ h.weight = g.weight /\ h.fault = g.fault
      /\ h.degrade = g.degrade
      /\ h.conn = [a \in Addr |-> IF a \in S \ {b \in S : g.conn[b] = "up"}
                                  THEN "connecting" ELSE g.conn[a]]
      /\ h.waiters = g.waiters \cup (S \ {b \in S : g.conn[b] = "up"})
  BY DEF ConnectAll, GroupOK
<1> HIDE DEF h
<1>2. GroupOK(h, list) /\ g.waiters \subseteq h.waiters
  BY <1>1 DEF GroupOK
<1>3. Spares(g, h)
  <2>1. ToSet(list) \subseteq Addr
    BY DEF ToSet
  <2> QED BY <1>1, <2>1 DEF Spares, GroupOK
<1> QED BY <1>2, <1>3 DEF h

\* Setting the list makes a group of the new list, whatever was in use before.
LEMMA SetAddressListKeeps ==
    ASSUME NEW old, NEW list \in Seq(Addr), NEW g, GroupOK(g, old), NEW new, NEW size
    PROVE  /\ GroupOK(SetAddressList(g, list, new, size), list)
           /\ Spares(g, SetAddressList(g, list, new, size))
           /\ g.waiters \subseteq SetAddressList(g, list, new, size).waiters
<1> DEFINE c == Choose(g, list, new, size)
           w == [a \in c |-> IF a \in g.chosen THEN g.weight[a] ELSE Default]
           h == [g EXCEPT !.chosen = c, !.weight = w, !.fault = @ \cap c, !.degrade = TRUE]
<1>1. c \subseteq ToSet(list) /\ ToSet(list) \subseteq Addr
  BY ChooseTyped DEF ToSet
<1> HIDE DEF c
<1>2. /\ DOMAIN h = DOMAIN g
      /\ h.chosen = c /\ h.weight = w
      /\ h.fault = g.fault \cap c /\ h.degrade = TRUE
      /\ h.conn = g.conn /\ h.waiters = g.waiters
  <2> HIDE DEF w
  <2>1. DOMAIN g = {"chosen", "weight", "fault", "degrade", "conn", "waiters", "found"}
    BY DEF GroupOK
  <2>2. DOMAIN h = DOMAIN g
    OBVIOUS
  <2>3. h.chosen = c /\ h.weight = w
    BY <2>1
  <2>4. h.fault = g.fault \cap c /\ h.degrade = TRUE
    BY <2>1
  <2>5. h.conn = g.conn /\ h.waiters = g.waiters
    BY <2>1
  <2> QED BY <2>2, <2>3, <2>4, <2>5
<1> HIDE DEF h
<1>3. GroupOK(h, list)
  <2>1. w \in [c -> 0..Default]
    BY DEF GroupOK
  <2> HIDE DEF w
  <2> QED BY <1>1, <1>2, <2>1 DEF GroupOK
<1>4. Spares(g, h)
  BY <1>2, <1>3 DEF GroupOK, Spares
<1>5. SetAddressList(g, list, new, size) = ConnectAll(h, c)
  BY DEF SetAddressList, h, w, c
<1>6. /\ GroupOK(ConnectAll(h, c), list) /\ Spares(h, ConnectAll(h, c))
      /\ h.waiters \subseteq ConnectAll(h, c).waiters
  BY <1>1, <1>3, ConnectAllKeeps
<1>7. Spares(g, ConnectAll(h, c))
  <2> DEFINE k == ConnectAll(h, c)
  <2> HIDE DEF k
  <2>1. GroupOK(k, list) /\ Spares(h, k) /\ k = ConnectAll(h, c)
    BY <1>6 DEF k
  <2>2. \A a \in k.chosen : a \in Addr
    BY <1>1, <2>1 DEF GroupOK
  <2>3. Spares(g, k)
    BY <1>4, <2>1, <2>2 DEF Spares
  <2> QED BY <2>1, <2>3
<1> QED BY <1>2, <1>5, <1>6, <1>7

\* What handlers do in their middle makes a group of the same list.
Keeps(g, h) == GroupOK(h, all) /\ Spares(g, h) /\ g.waiters \subseteq h.waiters

\* One thing after the other keeps what both keep.
LEMMA KeepsTransitive ==
    ASSUME all \in Seq(Addr), NEW g, NEW h, NEW k, Keeps(g, h), Keeps(h, k)
    PROVE  Keeps(g, k)
<1>1. GroupOK(k, all) /\ g.waiters \subseteq k.waiters
  BY DEF Keeps
<1>2. \A a \in k.chosen : a \in Addr
  BY <1>1 DEF GroupOK, ToSet
<1>3. Spares(g, k)
  BY <1>2 DEF Keeps, Spares
<1> QED BY <1>1, <1>3 DEF Keeps

LEMMA KeepsReflexive ==
    ASSUME NEW g, GroupOK(g, all)
    PROVE  Keeps(g, g)
BY DEF Keeps, Spares

\* Refreshing the group keeps it.
LEMMA RefreshKeeps ==
    ASSUME all \in Seq(Addr), NEW g, GroupOK(g, all), NEW size
    PROVE  Keeps(g, Refresh(g, size))
<1>1. CASE Len(all) > Cardinality(g.chosen)
  <2>1. Refresh(g, size) = SetAddressList(g, all, {}, size)
    BY <1>1 DEF Refresh
  <2> QED BY <2>1, SetAddressListKeeps DEF Keeps
<1>2. CASE ~(Len(all) > Cardinality(g.chosen))
  <2>1. Refresh(g, size) = g
    BY <1>2 DEF Refresh
  <2> QED BY <2>1, KeepsReflexive
<1> QED BY <1>1, <1>2

\* Noticing lost connections and weighing the others keeps the group.
LEMMA WeighedKeeps ==
    ASSUME all \in Seq(Addr), NEW g, GroupOK(g, all), NEW verdict
    PROVE  Keeps(g, Weighed(g, verdict))
<1> DEFINE w == [a \in g.chosen |->
                    IF g.conn[a] # "up" THEN 0
                    ELSE IF g.degrade /\ verdict[a] = "bad" THEN Lowered(g.weight[a])
                    ELSE IF g.degrade /\ verdict[a] = "good" THEN Raised(g.weight[a])
                    ELSE g.weight[a]]
           f == g.fault \cup Noticed(g)
           h == [g EXCEPT !.fault = f, !.weight = w]
<1>1. \A a \in g.chosen : g.weight[a] \in 0..Default
  BY DEF GroupOK
<1>2. w \in [g.chosen -> 0..Default]
  <2>1. \A a \in g.chosen : Lowered(g.weight[a]) \in 0..Default
                            /\ Raised(g.weight[a]) \in 0..Default
    BY <1>1, LoweredTyped, RaisedTyped
  <2> QED BY <1>1, <2>1
<1>3. \A a \in g.chosen : g.conn[a] = "up" /\ w[a] = 0 => g.weight[a] = 0
  <2>1. \A a \in g.chosen : Lowered(g.weight[a]) # 0
                            /\ (Raised(g.weight[a]) = 0 => g.weight[a] = 0)
    BY <1>1, LoweredTyped, RaisedTyped
  <2> QED BY <2>1
<1>4. f \subseteq g.chosen
  BY DEF GroupOK, Noticed
<1> HIDE DEF w, f
<1>5. DOMAIN g = {"chosen", "weight", "fault", "degrade", "conn", "waiters", "found"}
  BY DEF GroupOK
<1>6. /\ DOMAIN h = DOMAIN g
      /\ h.chosen = g.chosen /\ h.weight = w /\ h.fault = f
      /\ h.degrade = g.degrade /\ h.conn = g.conn /\ h.waiters = g.waiters
  BY <1>5
<1>7. Weighed(g, verdict) = h
  BY DEF Weighed, w, f
<1> HIDE DEF h
<1>8. GroupOK(h, all)
  BY <1>2, <1>4, <1>6 DEF GroupOK
<1>9. Spares(g, h)
  BY <1>3, <1>6 DEF Spares
<1> QED BY <1>6, <1>7, <1>8, <1>9 DEF Keeps

\* Regulation keeps the group.
LEMMA RegulatedKeeps ==
    ASSUME all \in Seq(Addr), NEW g, GroupOK(g, all), NEW size
    PROVE  Keeps(g, Regulated(g, size))
<1>1. ASSUME NEW d \in BOOLEAN
      PROVE  Keeps(g, [g EXCEPT !.degrade = d])
  <2> DEFINE h == [g EXCEPT !.degrade = d]
  <2>1. DOMAIN g = {"chosen", "weight", "fault", "degrade", "conn", "waiters", "found"}
    BY DEF GroupOK
  <2>2. /\ DOMAIN h = DOMAIN g
        /\ h.chosen = g.chosen /\ h.weight = g.weight /\ h.fault = g.fault
        /\ h.degrade = d /\ h.conn = g.conn /\ h.waiters = g.waiters
    BY <2>1
  <2> HIDE DEF h
  <2> QED BY <2>2 DEF Keeps, GroupOK, Spares, h
<1>2. GroupOK([g EXCEPT !.degrade = FALSE], all)
  BY <1>1 DEF Keeps
<1>3. Keeps(g, Refresh([g EXCEPT !.degrade = FALSE], size))
  BY <1>1, <1>2, RefreshKeeps, KeepsTransitive
<1> QED BY <1>1, <1>3 DEF Regulated

-----------------------------------------------------------------------------
(* The invariant.                                                            *)

\* The state between two handlers is such a group.
LEMMA GroupTyped == IInv => GroupOK(Group, all)
BY DEF IInv, TypeOK, FaultsAreInUse, GroupOK, Group

\* The initial state satisfies the invariant.
LEMMA InitInvariant == Init => IInv
<1> SUFFICES ASSUME Init PROVE IInv
  OBVIOUS
<1>1. all \in Seq(Addr) /\ ToSet(all) = {}
  BY DEF Init, ToSet
<1>2. weight \in [chosen -> 0..Default]
  BY DEF Init
<1>3. /\ chosen \subseteq ToSet(all) /\ fault \subseteq chosen /\ retrying \subseteq waiters
      /\ pool \in MinPool..MaxPool \cup {InitPool} /\ pushes \in 0..MaxPushes
  BY DEF Init
<1>4. /\ fault \subseteq Addr /\ degrade \in BOOLEAN /\ waiters \subseteq Addr
      /\ conn \in [Addr -> {"none", "connecting", "up"}]
      /\ retry \in {"unready", "sleeping", "waiting"}
      /\ reachable \subseteq Addr /\ calm \in BOOLEAN
  BY DEF Init
<1> QED BY <1>1, <1>2, <1>3, <1>4 DEF IInv, TypeOK, FaultsAreInUse

\* A handler that ends with a group leaves a typed state, with faults in use.
LEMMA BecomesTyped ==
    ASSUME NEW g, GroupOK(g, all'), Becomes(g)
    PROVE  /\ chosen' \subseteq ToSet(all') /\ weight' \in [chosen' -> 0..Default]
           /\ fault' \subseteq chosen' /\ degrade' \in BOOLEAN
           /\ conn' \in [Addr -> {"none", "connecting", "up"}] /\ waiters' \subseteq Addr
           /\ waiters' = g.waiters
BY DEF GroupOK, Becomes

\* The window's end leaves a group that keeps the one before it.
LEMMA OnNextKeeps ==
    ASSUME IInv, OnNext
    PROVE  \E g : Keeps(Group, g) /\ Becomes(g)
<1>a. PICK size \in MinPool..MaxPool :
         \E verdict, resized, weighed, g :
            /\ resized = IF size # pool THEN Refresh(Group, size) ELSE Group
            /\ weighed = Weighed(resized, verdict)
            /\ g = Regulated(weighed, size)
            /\ Becomes(g)
  BY DEF OnNext
<1>1. PICK verdict, resized, weighed, g :
         /\ resized = IF size # pool THEN Refresh(Group, size) ELSE Group
         /\ weighed = Weighed(resized, verdict)
         /\ g = Regulated(weighed, size)
         /\ Becomes(g)
  BY <1>a
<1>2. all \in Seq(Addr)
  BY DEF IInv, TypeOK
<1>3. Keeps(Group, resized)
  BY <1>1, <1>2, GroupTyped, RefreshKeeps, KeepsReflexive
<1>4. Keeps(resized, weighed)
  BY <1>1, <1>2, <1>3, WeighedKeeps DEF Keeps
<1>5. Keeps(weighed, g)
  BY <1>1, <1>2, <1>4, RegulatedKeeps DEF Keeps
<1>6. Keeps(Group, g)
  BY <1>2, <1>3, <1>4, <1>5, KeepsTransitive
<1> QED BY <1>1, <1>6

\* A list the registry pushes is a sequence of addresses.
LEMMA PushedTyped ==
    ASSUME NEW S \in SUBSET Addr, NEW list \in SetToSeqs(S)
    PROVE  list \in Seq(Addr)
<1>1. Cardinality(S) \in Nat
  BY FS_Subset, FS_CardinalityType
<1>2. list \in [1..Cardinality(S) -> S]
  BY DEF SetToSeqs
<1> QED BY <1>1, <1>2

\* The handlers that end with a group keep the invariant.
LEMMA GroupStep ==
    ASSUME IInv,
           \/ \E S \in SUBSET Addr : \E list \in SetToSeqs(S) : Push(list)
           \/ OnNext \/ RetryFaultAddresses \/ Retried
    PROVE  IInv'
<1> USE DEF IInv, FaultsAreInUse
<1>0. TypeOK /\ GroupOK(Group, all) /\ all \in Seq(Addr)
  BY GroupTyped DEF TypeOK
<1>1. ASSUME NEW g, GroupOK(g, all'), Becomes(g), all' \in Seq(Addr),
             pool' \in MinPool..MaxPool \cup {InitPool},
             retrying' \subseteq g.waiters, retry' \in {"unready", "sleeping", "waiting"},
             pushes' \in 0..MaxPushes, UNCHANGED <<reachable, calm>>
      PROVE  IInv'
  <2>1. reachable \subseteq Addr /\ calm \in BOOLEAN
    BY <1>0 DEF TypeOK
  <2>2. /\ chosen' \subseteq ToSet(all') /\ weight' \in [chosen' -> 0..Default]
        /\ fault' \subseteq chosen' /\ degrade' \in BOOLEAN
        /\ conn' \in [Addr -> {"none", "connecting", "up"}] /\ waiters' \subseteq Addr
        /\ retrying' \subseteq waiters'
    BY <1>1, BecomesTyped
  <2>3. fault' \subseteq Addr
    BY <1>1, <2>2 DEF ToSet
  <2> QED BY <1>1, <2>1, <2>2, <2>3 DEF TypeOK
<1>2. Group.waiters = waiters /\ retrying \subseteq waiters
  BY <1>0 DEF Group, TypeOK
<1>3. ASSUME NEW S \in SUBSET Addr, NEW list \in SetToSeqs(S), Push(list) PROVE IInv'
  <2>1. all' = list /\ all' \in Seq(Addr)
    BY <1>3, PushedTyped DEF Push
  <2>2. PICK g : /\ g = SetAddressList(Group, list, ToSet(list) \ ToSet(all), pool)
                 /\ Becomes(g)
                 /\ retrying' = IF retry = "unready" /\ pushes = 0 THEN g.waiters ELSE retrying
    BY <1>3 DEF Push
  <2>3. GroupOK(g, all') /\ waiters \subseteq g.waiters
    BY <2>1, <2>2, <1>0, <1>2, SetAddressListKeeps
  <2>4. pushes' \in 0..MaxPushes /\ UNCHANGED <<pool, retry, reachable, calm>>
    BY <1>3, <1>0 DEF Push, TypeOK
  <2>5. retrying' \subseteq g.waiters
    BY <2>2, <2>3, <1>2
  <2>6. pool \in MinPool..MaxPool \cup {InitPool} /\ retry \in {"unready", "sleeping", "waiting"}
    BY <1>0 DEF TypeOK
  <2> QED BY <1>1, <2>1, <2>2, <2>3, <2>4, <2>5, <2>6
<1>4. CASE OnNext
  <2>1. PICK g : Keeps(Group, g) /\ Becomes(g)
    BY <1>4, OnNextKeeps
  <2>2. pool' \in MinPool..MaxPool /\ UNCHANGED <<all, retrying, retry, reachable, calm, pushes>>
    BY <1>4 DEF OnNext, env
  <2>3. retry \in {"unready", "sleeping", "waiting"} /\ pushes \in 0..MaxPushes
    BY <1>0 DEF TypeOK
  <2>4. GroupOK(g, all') /\ retrying' \subseteq g.waiters
    BY <2>1, <2>2, <1>2 DEF Keeps
  <2> QED BY <1>0, <1>1, <2>1, <2>2, <2>3, <2>4
<1>5. CASE RetryFaultAddresses
  <2>1. Becomes(ConnectAll(Group, fault)) /\ UNCHANGED <<all, pool, reachable, calm, pushes>>
    BY <1>5 DEF RetryFaultAddresses, env
  <2>2. retrying' = {a \in fault : conn[a] # "up"} /\ retry' = "waiting"
    BY <1>5 DEF RetryFaultAddresses
  <2>3. fault \in SUBSET Addr
    BY <1>0 DEF TypeOK
  <2>4. GroupOK(ConnectAll(Group, fault), all)
    BY <1>0, <2>3, ConnectAllKeeps
  <2>5. retrying' \subseteq ConnectAll(Group, fault).waiters
    BY <2>2 DEF ConnectAll, Group
  <2>6. pool \in MinPool..MaxPool \cup {InitPool} /\ pushes \in 0..MaxPushes
    BY <1>0 DEF TypeOK
  <2> QED BY <1>0, <1>1, <2>1, <2>2, <2>4, <2>5, <2>6
<1>6. CASE Retried
  <2>1. PICK g : g = (IF fault # {} THEN Refresh(Group, pool) ELSE Group) /\ Becomes(g)
    BY <1>6 DEF Retried
  <2>2. /\ UNCHANGED <<all, pool, retrying, reachable, calm, pushes>>
        /\ retry' = "sleeping"
    BY <1>6 DEF Retried, env
  <2>3. Keeps(Group, g)
    BY <1>0, <2>1, RefreshKeeps, KeepsReflexive
  <2>4. pool \in MinPool..MaxPool \cup {InitPool} /\ pushes \in 0..MaxPushes
    BY <1>0 DEF TypeOK
  <2>5. GroupOK(g, all') /\ retrying' \subseteq g.waiters
    BY <2>2, <2>3, <1>2 DEF Keeps
  <2> QED BY <1>0, <1>1, <2>1, <2>2, <2>4, <2>5
<1> QED BY <1>3, <1>4, <1>5, <1>6

\* Requests, connections and servers keep the invariant.
LEMMA ConnectionStep ==
    ASSUME IInv,
           \/ Ready \/ CalmsDown \/ UNCHANGED vars
           \/ \E a \in Addr : Select(a) \/ Resolves(a) \/ Drops(a) \/ GoesUpOrDown(a)
    PROVE  IInv'
<1> USE DEF IInv, FaultsAreInUse, TypeOK
<1>1. CASE Ready
  BY <1>1 DEF Ready, group, env
<1>2. CASE CalmsDown
  BY <1>2 DEF CalmsDown, group
<1>3. CASE UNCHANGED vars
  BY <1>3 DEF vars, group, env
<1>4. ASSUME NEW a \in Addr, Select(a) PROVE IInv'
  <2>1. fault' \subseteq chosen' /\ chosen' = chosen
    BY <1>4 DEF Select
  <2>2. fault' \subseteq Addr
    BY <2>1 DEF ToSet
  <2>3. conn' \in [Addr -> {"none", "connecting", "up"}]
    BY <1>4 DEF Select
  <2> QED BY <1>4, <2>1, <2>2, <2>3 DEF Select, env
<1>5. ASSUME NEW a \in Addr, Connected(a) PROVE IInv'
  BY <1>5 DEF Connected, env
<1>6. ASSUME NEW a \in Addr, ConnectFails(a) PROVE IInv'
  BY <1>6 DEF ConnectFails, env, Lost
<1>7. ASSUME NEW a \in Addr, Drops(a) PROVE IInv'
  BY <1>7 DEF Drops, env
<1>8. ASSUME NEW a \in Addr, GoesUpOrDown(a) PROVE IInv'
  BY <1>8 DEF GoesUpOrDown, group
<1> QED BY <1>1, <1>2, <1>3, <1>4, <1>5, <1>6, <1>7, <1>8 DEF Resolves

\* Every action keeps the invariant.
LEMMA StepInvariant == IInv /\ [Next]_vars => IInv'
BY GroupStep, ConnectionStep DEF Next

-----------------------------------------------------------------------------
\* The invariant that the theorems below are read off.
THEOREM Invariance == Spec => []IInv
BY InitInvariant, StepInvariant, PTL DEF Spec

\* The types of the group's state hold in every reachable state; a weight is never
\* above the default.
THEOREM TypeCorrect == Spec => []TypeOK
<1>1. IInv => TypeOK
  BY DEF IInv
<1> QED BY Invariance, <1>1, PTL

\* No address that is not in use is ever on the list of addresses to reconnect.
THEOREM FaultsInUse == Spec => []FaultsAreInUse
<1>1. IInv => FaultsAreInUse
  BY DEF IInv
<1> QED BY Invariance, <1>1, PTL

\* No handler takes the whole weight of an address that stays connected.
THEOREM NoneIsStarved == Spec => ZeroOnlyWithoutConnection
<1> DEFINE Fair == \A a \in chosen \cap chosen' :
                      weight[a] # 0 /\ weight'[a] = 0 => conn'[a] # "up"
<1>1. ASSUME IInv, Next PROVE Fair
  <2>0. all \in Seq(Addr) /\ ToSet(all) \subseteq Addr
    BY <1>1 DEF IInv, TypeOK, ToSet
  <2>1. ASSUME NEW g, Spares(Group, g), Becomes(g) PROVE Fair
    BY <2>1 DEF Spares, Becomes, Group
  <2>2. ASSUME NEW S \in SUBSET Addr, NEW list \in SetToSeqs(S), Push(list) PROVE Fair
    <3>1. list \in Seq(Addr) /\ GroupOK(Group, all)
      BY PushedTyped, GroupTyped, <1>1
    <3>2. PICK g : /\ g = SetAddressList(Group, list, ToSet(list) \ ToSet(all), pool)
                   /\ Becomes(g)
      BY <2>2 DEF Push
    <3>3. Spares(Group, g)
      BY <3>1, <3>2, SetAddressListKeeps
    <3> QED BY <2>1, <3>2, <3>3
  <2>3. CASE OnNext
    BY <1>1, <2>1, <2>3, OnNextKeeps DEF Keeps
  <2>4. CASE RetryFaultAddresses
    <3>1. Becomes(ConnectAll(Group, fault)) /\ fault \in SUBSET Addr
      BY <1>1, <2>4 DEF RetryFaultAddresses, IInv, TypeOK
    <3> QED BY <1>1, <2>0, <2>1, <3>1, ConnectAllKeeps, GroupTyped
  <2>5. CASE Retried
    <3>1. PICK g : g = (IF fault # {} THEN Refresh(Group, pool) ELSE Group) /\ Becomes(g)
      BY <2>5 DEF Retried
    <3>2. Keeps(Group, g)
      BY <1>1, <2>0, <3>1, RefreshKeeps, KeepsReflexive, GroupTyped
    <3> QED BY <2>1, <3>1, <3>2 DEF Keeps
  <2>6. ASSUME NEW a \in Addr, ConnectFails(a) PROVE Fair
    BY <1>1, <2>6 DEF ConnectFails, Lost, IInv, TypeOK
  <2>7. ASSUME UNCHANGED weight PROVE Fair
    BY <2>7
  <2>8. CASE \/ Ready \/ CalmsDown
             \/ \E a \in Addr : Select(a) \/ Connected(a) \/ Drops(a) \/ GoesUpOrDown(a)
    BY <2>7, <2>8 DEF Ready, CalmsDown, Select, Connected, Drops, GoesUpOrDown, group
  <2> QED BY <1>1, <2>2, <2>3, <2>4, <2>5, <2>6, <2>8 DEF Next, Resolves
<1>2. IInv /\ [Next]_vars => [Fair]_vars
  BY <1>1
<1> QED BY Invariance, <1>2, PTL DEF Spec, ZeroOnlyWithoutConnection

-----------------------------------------------------------------------------
(* The choice of addresses.                                                  *)

\* The places of a list, in the order in which they are filled.
Filled(g, list, new) ==
    {ij \in (1..Len(list)) \X (1..Len(list)) : Before(g, list, new, ij[1], ij[2])}

\* That order is one: classes first, then places, from either end.
LEMMA BeforeOrders ==
    ASSUME NEW g, NEW new, NEW list \in Seq(Addr)
    PROVE  Orders(Filled(g, list, new), Len(list))
<1>1. PICK class : class = [n \in 1..Len(list) |-> Class(g, new, list[n])]
  OBVIOUS
<1>2. \A n \in 1..Len(list) : class[n] \in {1, 2, 3}
  BY <1>1 DEF Class
<1>3. \A i, j \in 1..Len(list) :
         Before(g, list, new, i, j) <=>
            \/ class[i] < class[j]
            \/ class[i] = class[j] /\ class[i] = 2 /\ i > j
            \/ class[i] = class[j] /\ class[i] # 2 /\ i < j
  <2> TAKE i, j \in 1..Len(list)
  <2>1. class[i] = Class(g, new, list[i]) /\ class[j] = Class(g, new, list[j])
    BY <1>1
  <2> QED BY <2>1 DEF Before
<1>4. \A i, j \in 1..Len(list) : <<i, j>> \in Filled(g, list, new) <=> Before(g, list, new, i, j)
  BY DEF Filled
<1>5. \A i \in 1..Len(list) : <<i, i>> \notin Filled(g, list, new)
  BY <1>2, <1>3, <1>4
<1>6. \A i, j \in 1..Len(list) :
         i = j \/ <<i, j>> \in Filled(g, list, new) \/ <<j, i>> \in Filled(g, list, new)
  <2> TAKE i, j \in 1..Len(list)
  <2>1. PICK x, y \in {1, 2, 3} : x = class[i] /\ y = class[j]
    BY <1>2
  <2>2. /\ Before(g, list, new, i, j) <=>
              x < y \/ (x = y /\ x = 2 /\ i > j) \/ (x = y /\ x # 2 /\ i < j)
        /\ Before(g, list, new, j, i) <=>
              y < x \/ (y = x /\ y = 2 /\ j > i) \/ (y = x /\ y # 2 /\ j < i)
    BY <1>3, <2>1
  <2>3. i \in Nat /\ j \in Nat
    OBVIOUS
  <2>4. i = j \/ Before(g, list, new, i, j) \/ Before(g, list, new, j, i)
    BY <2>2, <2>3
  <2> QED BY <1>4, <2>4
<1>7. \A i, j, k \in 1..Len(list) :
         Before(g, list, new, i, j) /\ Before(g, list, new, j, k) => Before(g, list, new, i, k)
  <2> TAKE i, j, k \in 1..Len(list)
  <2>1. PICK x, y, z \in {1, 2, 3} : x = class[i] /\ y = class[j] /\ z = class[k]
    BY <1>2
  <2>2. /\ Before(g, list, new, i, j) <=>
              x < y \/ (x = y /\ x = 2 /\ i > j) \/ (x = y /\ x # 2 /\ i < j)
        /\ Before(g, list, new, j, k) <=>
              y < z \/ (y = z /\ y = 2 /\ j > k) \/ (y = z /\ y # 2 /\ j < k)
        /\ Before(g, list, new, i, k) <=>
              x < z \/ (x = z /\ x = 2 /\ i > k) \/ (x = z /\ x # 2 /\ i < k)
    BY <1>3, <2>1
  <2>3. i \in Nat /\ j \in Nat /\ k \in Nat
    OBVIOUS
  <2> QED BY <2>2, <2>3
<1> QED BY <1>4, <1>5, <1>6, <1>7 DEF Orders

\* The load balancer fills exactly the places it has, with no address passed over for
\* one of a worse class: a bad one is only chosen when all others are, an unknown one
\* when all healthy and new ones are (base.js:93-142).
THEOREM ChoosesBest ==
    ASSUME NEW g, NEW new, NEW size \in Nat, NEW list \in Seq(Addr),
           \A i, j \in DOMAIN list : list[i] = list[j] => i = j
    PROVE  /\ Choose(g, list, new, size) \subseteq ToSet(list)
           /\ Cardinality(Choose(g, list, new, size)) =
                 IF ~NeedElasticControl(Len(list)) \/ size > Len(list) THEN Len(list)
                 ELSE IF size > MaxPool THEN MaxPool ELSE size
           /\ \A a \in Choose(g, list, new, size) :
                 \A b \in ToSet(list) \ Choose(g, list, new, size) :
                    Class(g, new, a) <= Class(g, new, b)
<1> DEFINE D == 1..Len(list)
           R == Filled(g, list, new)
           all_ == ~NeedElasticControl(Len(list)) \/ size > Len(list)
           left == IF size > MaxPool THEN MaxPool ELSE size
<1>1. Len(list) \in Nat /\ DOMAIN list = D /\ \A i \in D : list[i] \in Addr
  OBVIOUS
<1>2. \A S \in SUBSET D : Cardinality({list[j] : j \in S}) = Cardinality(S)
  <2> TAKE S \in SUBSET D
  <2>1. IsFiniteSet(S)
    <3>1. IsFiniteSet(D)
      BY <1>1, FS_Interval
    <3> QED BY <3>1, FS_Subset
  <2>2. PICK f : f = [j \in S |-> list[j]]
    OBVIOUS
  <2>3. f \in Bijection(S, {list[j] : j \in S})
    BY <1>1, <2>2 DEF Bijection, Injection, Surjection, IsInjective
  <2>4. ExistsBijection(S, {list[j] : j \in S})
    BY <2>3 DEF ExistsBijection
  <2> QED BY <2>1, <2>4, FS_Bijection
<1>3. CASE all_
  <2>1. Choose(g, list, new, size) = {list[j] : j \in D}
    BY <1>1, <1>3 DEF Choose, ToSet
  <2>2. Cardinality(D) = Len(list)
    BY <1>1, FS_Interval
  <2> QED BY <1>1, <1>2, <1>3, <2>1, <2>2 DEF ToSet
<1>4. CASE ~all_
  <2>1. left \in 0..Len(list)
    BY <1>1, <1>4
  <2>2. \A j \in D : Predecessors(R, Len(list), j) = {i \in D : Before(g, list, new, i, j)}
    BY DEF Predecessors, Filled
  <2>3. Choose(g, list, new, size) = {list[j] : j \in Leading(R, Len(list), left)}
    BY <1>1, <1>4, <2>2 DEF Choose, Leading
  <2>4. Cardinality(Leading(R, Len(list), left)) = left
    BY <1>1, <2>1, BeforeOrders, LeadingCount
  <2>5. Leading(R, Len(list), left) \in SUBSET D
    BY DEF Leading
  <2>6. Cardinality(Choose(g, list, new, size)) = left
    BY <1>2, <2>3, <2>4, <2>5
  <2>7. ASSUME NEW i \in Leading(R, Len(list), left), NEW j \in D \ Leading(R, Len(list), left)
        PROVE  Class(g, new, list[i]) <= Class(g, new, list[j])
    <3>1. SUFFICES ASSUME Class(g, new, list[j]) < Class(g, new, list[i]) PROVE FALSE
      <4>1. Class(g, new, list[i]) \in {1, 2, 3} /\ Class(g, new, list[j]) \in {1, 2, 3}
        BY DEF Class
      <4> QED BY <4>1
    <3>2. i \in D /\ j \in D
      BY <2>5
    <3>3. <<j, i>> \in R
      BY <3>1, <3>2 DEF Filled, Before
    <3>4. Orders(R, Len(list))
      BY BeforeOrders
    <3>5. Predecessors(R, Len(list), j) \in SUBSET Predecessors(R, Len(list), i)
      BY <3>2, <3>3, <3>4 DEF Predecessors, Orders
    <3>6. IsFiniteSet(D) /\ \A m \in D : Predecessors(R, Len(list), m) \in SUBSET D
      BY <1>1, FS_Interval DEF Predecessors
    <3>7. /\ IsFiniteSet(Predecessors(R, Len(list), i))
          /\ Cardinality(Predecessors(R, Len(list), i)) \in Nat
          /\ Cardinality(Predecessors(R, Len(list), j)) \in Nat
      BY <3>2, <3>6, FS_Subset, FS_CardinalityType
    <3>8. Cardinality(Predecessors(R, Len(list), j)) <= Cardinality(Predecessors(R, Len(list), i))
      BY <3>5, <3>7, FS_Subset
    <3>9. Cardinality(Predecessors(R, Len(list), i)) < left
      BY DEF Leading
    <3>10. ~(Cardinality(Predecessors(R, Len(list), j)) < left)
      BY <3>2 DEF Leading
    <3> QED BY <2>1, <3>7, <3>8, <3>9, <3>10
  <2>8. \A a \in Choose(g, list, new, size) :
           \A b \in ToSet(list) \ Choose(g, list, new, size) :
              Class(g, new, a) <= Class(g, new, b)
    <3> TAKE a \in Choose(g, list, new, size)
    <3> TAKE b \in ToSet(list) \ Choose(g, list, new, size)
    <3>1. PICK i \in Leading(R, Len(list), left) : a = list[i]
      BY <2>3
    <3>2. PICK j \in D : b = list[j]
      BY <1>1 DEF ToSet
    <3>3. j \notin Leading(R, Len(list), left)
      BY <2>3, <3>2
    <3> QED BY <2>7, <3>1, <3>2, <3>3
  <2> QED BY <1>4, <2>6, <2>8, ChooseTyped
<1> QED BY <1>3, <1>4
=============================================================================
