----------------------- MODULE CircuitBreakerProofs -------------------------
(* What holds of the breaker for every number of requests, buckets and every *)
(* threshold.  TypeOK and StatusMatchesOpened are inductive together; that   *)
(* the single test is out (over bolt) needs them both, because HALF_OPEN is  *)
(* only entered with a request that is sent, and every end of a request,     *)
(* that one's included, leaves HALF_OPEN.                                    *)
EXTENDS CircuitBreaker, NumberLemmas

\* Over gRPC nothing ever waits for a nextTick.
NoPendingOverGrpc == Transport = "grpc" => Quiet

ProbeIsOut == Transport = "rpc" => HalfOpenAwaitsProbe

Inv == TypeOK /\ StatusMatchesOpened /\ ProbeIsOut /\ NoPendingOverGrpc

\* Sums and rates are not looked into: the latest bucket is one of the window's.
LEMMA CountIsTyped ==
    ASSUME TypeOK, NEW code PROVE Count(code) \in [1..NumBuckets -> Counts]
<1>1. NumBuckets \in 1..NumBuckets
  BY WindowAssumption
<1>2. \A c \in Counts : Plus(c, code) \in Counts
  BY DEF Plus, Counts
<1> QED BY <1>1, <1>2 DEF Count, TypeOK

LEMMA SlideIsTyped ==
    ASSUME TypeOK PROVE Slide \in [1..NumBuckets -> Counts]
<1>1. \A i \in 1..NumBuckets : i < NumBuckets => i + 1 \in 1..NumBuckets
  BY WindowAssumption
<1> QED BY <1>1 DEF Slide, TypeOK, Zero, Counts

LEMMA EmptyIsTyped == Zero \in Counts /\ NoCounts \in [1..NumBuckets -> Counts]
BY DEF Zero, Counts, NoCounts

LEMMA UpToIsTyped == \A k \in Nat : UpTo(k) \in 0..Threshold
BY WindowAssumption DEF UpTo

LEMMA GrownIsTyped == ASSUME TypeOK, NEW code PROVE Grown(code) \in Counts
<1>1. Plus(fresh, code) \in Counts
  BY DEF Plus, Counts, TypeOK
<1>2. UpTo(Plus(fresh, code).n) \in Nat /\ UpTo(Plus(fresh, code).err) \in Nat
  BY <1>1, UpToIsTyped, WindowAssumption DEF Counts
<1> QED BY <1>2 DEF Grown, Counts

\* update() keeps the state typed and the two variables of the breaker together,
\* and a breaker that is in HALF_OPEN is no longer so afterwards.
LEMMA UpdateKeeps ==
    ASSUME TypeOK, StatusMatchesOpened, NEW code, Update(code)
    PROVE  /\ status' \in {"CLOSED", "OPEN"} /\ sleep' \in {"none", "running", "over"}
           /\ buckets' \in [1..NumBuckets -> Counts] /\ fresh' \in Counts
           /\ StatusMatchesOpened'
<1>1. CASE status # "HALF_OPEN"
  BY <1>1, CountIsTyped, GrownIsTyped
     DEF Update, breaker, TypeOK, StatusMatchesOpened
<1>2. CASE status = "HALF_OPEN" /\ code = "00"
  BY <1>2, EmptyIsTyped DEF Update, Close, Reset, StatusMatchesOpened
<1>3. CASE status = "HALF_OPEN" /\ code # "00"
  BY <1>3, CountIsTyped, GrownIsTyped DEF Update, Reopen, StatusMatchesOpened
<1> QED BY <1>1, <1>2, <1>3

LEMMA InitInv == Init => Inv
BY EmptyIsTyped, WindowAssumption
   DEF Init, Inv, TypeOK, StatusMatchesOpened, ProbeIsOut, HalfOpenAwaitsProbe,
       NoPendingOverGrpc, Quiet, Pending, InFlight

LEMMA StepInv == Inv /\ [Next]_vars => Inv'
<1> SUFFICES ASSUME Inv, [Next]_vars PROVE Inv'
  OBVIOUS
<1> USE DEF Pending, InFlight
<1>0. TypeOK /\ StatusMatchesOpened
  BY DEF Inv
<1>1. ASSUME NEW r \in Req, Invoke(r) PROVE Inv'
  <2>1. CASE Admitted(r)
    BY <2>1, TransportAssumption, ReqAssumption DEF Inv, TypeOK, StatusMatchesOpened,
       ProbeIsOut, HalfOpenAwaitsProbe, NoPendingOverGrpc, Quiet, Admitted, Send, breaker, Free
  <2>2. CASE AdmittedAsProbe(r)
    BY <2>2, TransportAssumption, ReqAssumption DEF Inv, TypeOK, StatusMatchesOpened,
       ProbeIsOut, HalfOpenAwaitsProbe, NoPendingOverGrpc, Quiet, AdmittedAsProbe, Send, Free
  <2>3. CASE Refused(r)
    BY <2>3, TransportAssumption, ReqAssumption DEF Inv, TypeOK, StatusMatchesOpened,
       ProbeIsOut, HalfOpenAwaitsProbe, NoPendingOverGrpc, Quiet, Refused, Refuse, Free,
       breaker, history
  <2> QED BY <1>1, <2>1, <2>2, <2>3 DEF Invoke
<1>2. ASSUME NEW r \in Req, NEW code, Ends(r), Update(code),
             UNCHANGED healthy
      PROVE  Inv'
  <2>1. TypeOK'
    BY <1>0, <1>2, UpdateKeeps DEF TypeOK, Ends
  <2>2. StatusMatchesOpened' /\ ProbeIsOut'
    BY <1>0, <1>2, UpdateKeeps DEF ProbeIsOut, HalfOpenAwaitsProbe
  <2>3. NoPendingOverGrpc'
    BY <1>0, <1>2 DEF Inv, NoPendingOverGrpc, Quiet, Ends, TypeOK
  <2> QED BY <2>1, <2>2, <2>3 DEF Inv
<1>3. ASSUME NEW r \in Req, End(r) PROVE Inv'
  <2>1. CASE EndsUnsent(r)
    BY <2>1, <1>2 DEF EndsUnsent
  <2>2. CASE Answered(r)
    BY <2>2, <1>2 DEF Answered
  <2>3. CASE TimesOut(r)
    BY <2>3, <1>2 DEF TimesOut
  <2>4. CASE Throws(r)
    BY <2>4 DEF Throws, Ends, breaker, Inv, TypeOK, StatusMatchesOpened, ProbeIsOut,
       NoPendingOverGrpc, Quiet
  <2> QED BY <1>3, <2>1, <2>2, <2>3, <2>4 DEF End
<1>4. ASSUME NEW r \in Req, Loses(r) PROVE Inv'
  BY <1>4 DEF Loses, breaker, history, Inv, TypeOK, StatusMatchesOpened, ProbeIsOut,
     HalfOpenAwaitsProbe, NoPendingOverGrpc, Quiet
<1>5. CASE Tick
  <2>1. TypeOK'
    BY <1>0, <1>5, SlideIsTyped, WindowAssumption DEF Tick, Open, breaker, TypeOK
  <2>2. StatusMatchesOpened' /\ ProbeIsOut' /\ NoPendingOverGrpc'
    BY <1>5 DEF Tick, Open, breaker, Inv, StatusMatchesOpened, ProbeIsOut,
       HalfOpenAwaitsProbe, NoPendingOverGrpc, Quiet
  <2> QED BY <2>1, <2>2 DEF Inv
<1>6. CASE SleepEnds
  BY <1>6 DEF SleepEnds, history, Inv, TypeOK, StatusMatchesOpened, ProbeIsOut,
     HalfOpenAwaitsProbe, NoPendingOverGrpc, Quiet
<1>7. CASE ResetCounter
  BY <1>7, EmptyIsTyped, WindowAssumption DEF ResetCounter, breaker, Inv, TypeOK,
     StatusMatchesOpened, ProbeIsOut, HalfOpenAwaitsProbe, NoPendingOverGrpc, Quiet
<1>8. CASE Reconnect
  BY <1>8, EmptyIsTyped, WindowAssumption DEF Reconnect, Inv, TypeOK,
     StatusMatchesOpened, ProbeIsOut, HalfOpenAwaitsProbe, NoPendingOverGrpc, Quiet
<1>9. CASE Heals
  BY <1>9 DEF Heals, breaker, history, Inv, TypeOK, StatusMatchesOpened, ProbeIsOut,
     HalfOpenAwaitsProbe, NoPendingOverGrpc, Quiet
<1>10. CASE UNCHANGED vars
  BY <1>10 DEF vars, breaker, history, Inv, TypeOK, StatusMatchesOpened, ProbeIsOut,
     HalfOpenAwaitsProbe, NoPendingOverGrpc, Quiet
<1> QED BY <1>1, <1>3, <1>4, <1>5, <1>6, <1>7, <1>8, <1>9, <1>10 DEF Next

\* The inductive invariant of the breaker and its requests.
THEOREM Invariance == Spec => []Inv
BY InitInv, StepInv, PTL DEF Spec

\* All state keeps its type (circuit_breaker.js, metric/rolling_counter.js).
THEOREM TypeCorrect == Spec => []TypeOK
<1>1. Inv => TypeOK
  BY DEF Inv
<1> QED BY Invariance, <1>1, PTL

\* status and _circuitOpened never disagree (circuit_breaker.js:82-93, 108-121).
THEOREM StatusAgrees == Spec => []StatusMatchesOpened
<1>1. Inv => StatusMatchesOpened
  BY DEF Inv
<1> QED BY Invariance, <1>1, PTL

\* Over bolt, HALF_OPEN always has its single test out: no sequence of refused,
\* answered and timed-out requests leaves the breaker refusing everything with
\* nothing to wait for (circuit_breaker.js:85-93, connection/rpc.js:159-213).
THEOREM RpcHalfOpenAwaitsProbe == ASSUME Transport = "rpc" PROVE Spec => []HalfOpenAwaitsProbe
<1>1. Inv => HalfOpenAwaitsProbe
  BY DEF Inv, ProbeIsOut
<1> QED BY Invariance, <1>1, PTL

\* Over gRPC only the timeout of a request that was let through starts the sleep
\* window again (connection/grpc/index.js:118-153).
THEOREM GrpcOnlyTimeoutsReopen == ASSUME Transport = "grpc" PROVE Spec => OnlyTimeoutsReopen
<1> DEFINE A == status = "HALF_OPEN" /\ status' = "OPEN"
                  => \E r \in Req : req[r] = "lost" /\ req'[r] = "idle"
<1>1. Inv /\ [Next]_vars => [A]_vars
  <2> SUFFICES ASSUME Inv, Next, status = "HALF_OPEN", status' = "OPEN"
               PROVE \E r \in Req : req[r] = "lost" /\ req'[r] = "idle"
    BY DEF vars, breaker
  <2>0. Quiet /\ req \in [Req -> {"idle"} \cup Pending \cup InFlight]
    BY DEF Inv, NoPendingOverGrpc, TypeOK
  <2>1. ASSUME NEW r \in Req, Invoke(r) PROVE FALSE
    BY <2>1 DEF Invoke, Admitted, AdmittedAsProbe, Refused, Refuse, breaker
  <2>2. ASSUME NEW r \in Req, Loses(r) PROVE FALSE
    BY <2>2 DEF Loses, breaker
  <2>3. ASSUME NEW r \in Req, End(r) PROVE req[r] = "lost" /\ req'[r] = "idle"
    <3>1. ~EndsUnsent(r)
      BY <2>0 DEF EndsUnsent, Quiet
    <3>2. ~Answered(r) /\ ~Throws(r)
      BY DEF Answered, Update, Close, Throws, breaker
    <3> QED BY <2>0, <2>3, <3>1, <3>2 DEF End, TimesOut, Ends
  <2>4. ~SleepEnds /\ ~ResetCounter /\ ~Reconnect /\ ~Heals
    BY DEF SleepEnds, ResetCounter, Reconnect, Heals, breaker
  <2>5. ~Tick
    BY DEF Tick, Trips, breaker
  <2> QED BY <2>1, <2>2, <2>3, <2>4, <2>5 DEF Next
<1> QED BY Invariance, <1>1, PTL DEF Spec, OnlyTimeoutsReopen

-----------------------------------------------------------------------------
(* The breaker implements Admission.                                         *)

\* The end of a request: it decides the test, whichever request it is, and a
\* request that was refused can only open the breaker again.
LEMMA EndIsAdmission ==
    ASSUME TypeOK, NEW r \in Req, NEW code, Ends(r), Update(code),
           req[r] # "idle", req[r] = "refused" => code # "00"
    PROVE  Promise!Next \/ UNCHANGED Promise!vars
<1>1. LetThrough' = LetThrough \ {r}
  BY DEF Ends, LetThrough, InFlight, TypeOK
<1>2. \/ UNCHANGED status
      \/ status = "HALF_OPEN" /\ status' = "OPEN"
      \/ status = "HALF_OPEN" /\ status' = "CLOSED" /\ code = "00"
  BY DEF Update, Close, Reopen, breaker
<1>3. CASE r \in LetThrough
  <2>1. Promise!End(r)
    BY <1>1, <1>2, <1>3 DEF Promise!End
  <2> QED BY <2>1 DEF Promise!Next
<1>4. CASE r \notin LetThrough /\ req[r] = "refused"
  <2>1. UNCHANGED LetThrough /\ code # "00"
    BY <1>1, <1>4
  <2>2. Promise!Reopen \/ UNCHANGED Promise!vars
    BY <1>2, <2>1 DEF Promise!Reopen, Promise!vars
  <2> QED BY <2>2 DEF Promise!Next
<1> QED BY <1>3, <1>4 DEF LetThrough, Pending, InFlight, TypeOK

\* Every step lets through what Admission lets through, or changes nothing of it.
LEMMA StepIsAdmission ==
    ASSUME Inv, [Next]_vars PROVE [Promise!Next]_(Promise!vars)
<1>0. TypeOK /\ StatusMatchesOpened
  BY DEF Inv
<1>1. ASSUME NEW r \in Req, Send(r), req[r] = "idle"
      PROVE  LetThrough' = LetThrough \cup {r} /\ r \notin LetThrough
  BY <1>0, <1>1 DEF Send, LetThrough, InFlight, TypeOK
<1>2. ASSUME NEW r \in Req, Admitted(r) PROVE Promise!LetThrough(r)
  BY <1>0, <1>1, <1>2 DEF Admitted, Free, breaker, StatusMatchesOpened, Promise!LetThrough
<1>3. ASSUME NEW r \in Req, AdmittedAsProbe(r) PROVE Promise!Test(r)
  <2>1. status = "OPEN"
    BY <1>0, <1>3 DEF AdmittedAsProbe, StatusMatchesOpened, TypeOK
  <2> QED BY <1>1, <1>3, <2>1 DEF AdmittedAsProbe, Free, Promise!Test
<1>4. ASSUME NEW r \in Req, Refused(r) \/ Loses(r) PROVE UNCHANGED Promise!vars
  <2>1. UNCHANGED status
    BY <1>4 DEF Refused, Refuse, Loses, breaker
  <2>2. UNCHANGED LetThrough
    BY <1>0, <1>4 DEF Refused, Refuse, Free, Loses, LetThrough, InFlight, TypeOK
  <2> QED BY <2>1, <2>2 DEF Promise!vars
<1>5. ASSUME NEW r \in Req, End(r) PROVE Promise!Next \/ UNCHANGED Promise!vars
  <2>1. CASE EndsUnsent(r)
    BY <1>0, <2>1, EndIsAdmission DEF EndsUnsent, Pending
  <2>2. CASE Answered(r)
    BY <1>0, <2>2, EndIsAdmission DEF Answered
  <2>3. CASE TimesOut(r)
    BY <1>0, <2>3, EndIsAdmission DEF TimesOut
  <2>4. CASE Throws(r)
    <3>1. r \in LetThrough /\ LetThrough' = LetThrough \ {r} /\ UNCHANGED status
      BY <1>0, <2>4 DEF Throws, Ends, breaker, LetThrough, InFlight, TypeOK
    <3>2. Promise!End(r)
      BY <3>1 DEF Promise!End
    <3> QED BY <3>2 DEF Promise!Next
  <2> QED BY <1>5, <2>1, <2>2, <2>3, <2>4 DEF End
<1>6. CASE Tick
  <2>1. UNCHANGED LetThrough
    BY <1>6 DEF Tick, LetThrough
  <2>2. Promise!Trip \/ UNCHANGED Promise!vars
    BY <1>6, <2>1 DEF Tick, Trips, Open, breaker, Promise!Trip, Promise!vars
  <2> QED BY <2>2 DEF Promise!Next
<1>7. CASE Reconnect
  <2>1. LetThrough' = {} /\ status' = "CLOSED"
    BY <1>7 DEF Reconnect, LetThrough, InFlight
  <2> QED BY <2>1 DEF Promise!Renew, Promise!Next
<1>8. CASE SleepEnds \/ ResetCounter \/ Heals \/ UNCHANGED vars
  <2>1. UNCHANGED <<status, LetThrough>>
    BY <1>8 DEF SleepEnds, ResetCounter, Heals, vars, breaker, LetThrough
  <2> QED BY <2>1 DEF Promise!vars
<1> QED BY <1>2, <1>3, <1>4, <1>5, <1>6, <1>7, <1>8 DEF Next, Invoke, Promise!Next

\* Once it has opened, the breaker lets a single request through, and it closes only
\* as a request that was let through ends (circuit_breaker.js:75-121).
THEOREM ImplementsAdmission == Spec => AdmissionSpec
<1>1. Init => Promise!Init
  BY DEF Init, Promise!Init, LetThrough, InFlight
<1>2. Inv /\ [Next]_vars => [Promise!Next]_(Promise!vars)
  BY StepIsAdmission
<1> QED BY Invariance, <1>1, <1>2, PTL DEF Spec, AdmissionSpec, Promise!Spec

-----------------------------------------------------------------------------
(* What the breaker opens on: the sums of the window never exceed what was   *)
(* counted since the breaker was last closed.                                *)

\* The sums of window b, up to Threshold of each, do not exceed history c.
Covers(c, b) ==
    /\ c \in Counts /\ c.n <= Threshold /\ c.err <= Threshold
    /\ UpTo(Sum(b, "n")) <= c.n /\ UpTo(Sum(b, "err")) <= c.err

\* The window holds nothing older than the history.
FreshCovers == Covers(fresh, buckets)

Windows == [1..NumBuckets -> Counts]
Fields  == {"n", "err"}

\* One number of each bucket is a natural, and so is its sum over the window.
LEMMA SumIsTyped ==
    ASSUME NEW b \in Windows, NEW field \in Fields
    PROVE  /\ [i \in 1..NumBuckets |-> b[i][field]] \in [1..NumBuckets -> Nat]
           /\ Sum(b, field) \in Nat
<1>1. [i \in 1..NumBuckets |-> b[i][field]] \in [1..NumBuckets -> Nat]
  BY DEF Windows, Counts, Fields
<1>2. IsFiniteSet(1..NumBuckets)
  BY FS_Interval, WindowAssumption
<1>3. PICK f \in [1..NumBuckets -> Nat] : f = [i \in 1..NumBuckets |-> b[i][field]]
  BY <1>1
<1>4. SumFunction(f) \in Nat
  BY <1>2, SumTyped
<1> QED BY <1>1, <1>3, <1>4 DEF Sum

\* When the latest bucket's number grows, so does the sum over the window.
LEMMA SumAfterCount ==
    ASSUME NEW b \in Windows, NEW d \in Windows, NEW field \in Fields, NEW k \in Nat,
           d[NumBuckets][field] = b[NumBuckets][field] + k,
           \A i \in (1..NumBuckets) \ {NumBuckets} : d[i] = b[i]
    PROVE  Sum(d, field) = Sum(b, field) + k
<1>1. NumBuckets \in 1..NumBuckets /\ IsFiniteSet(1..NumBuckets)
  BY FS_Interval, WindowAssumption
<1>2. PICK f \in [1..NumBuckets -> Nat] : f = [i \in 1..NumBuckets |-> b[i][field]]
  BY SumIsTyped
<1>3. PICK g \in [1..NumBuckets -> Nat] : g = [i \in 1..NumBuckets |-> d[i][field]]
  BY SumIsTyped
<1>4. /\ g[NumBuckets] = f[NumBuckets] + k
      /\ \A i \in (1..NumBuckets) \ {NumBuckets} : g[i] = f[i]
  BY <1>1, <1>2, <1>3
<1>5. SumFunction(g) = SumFunction(f) + k
  <2>1. PICK z \in 1..NumBuckets : z = NumBuckets
    BY <1>1
  <2>2. g = [f EXCEPT ![z] = f[z] + k]
    BY <1>4, <2>1
  <2>3. PICK I : I = 1..NumBuckets
    OBVIOUS
  <2>4. f \in [I -> Nat] /\ IsFiniteSet(I) /\ z \in I
    BY <1>1, <2>3
  <2>5. SumFunction([f EXCEPT ![z] = f[z] + k]) = SumFunction(f) + k
    BY <2>4, SumGrows
  <2> QED BY <2>2, <2>5
<1> QED BY <1>2, <1>3, <1>5 DEF Sum

\* Shifting the oldest bucket out adds nothing (rolling_counter.js).
LEMMA SumAfterSlide ==
    ASSUME NEW b \in Windows, NEW d \in Windows, NEW field \in Fields,
           d = [i \in 1..NumBuckets |-> IF i < NumBuckets THEN b[i + 1] ELSE Zero]
    PROVE  Sum(d, field) <= Sum(b, field)
<1>1. PICK f \in [1..NumBuckets -> Nat] : f = [i \in 1..NumBuckets |-> b[i][field]]
  BY SumIsTyped
<1>2. PICK g \in [1..NumBuckets -> Nat] : g = [i \in 1..NumBuckets |-> d[i][field]]
  BY SumIsTyped
<1>3. g[NumBuckets] = 0
  BY <1>2, WindowAssumption DEF Zero, Fields
<1>4. \A i \in 1..(NumBuckets - 1) : g[i] = f[i + 1]
  BY <1>1, <1>2, WindowAssumption
<1>5. SumFunction(g) <= SumFunction(f)
  BY <1>3, <1>4, SumShrinks, WindowAssumption
<1> QED BY <1>1, <1>2, <1>5 DEF Sum

\* An empty window has nothing to add up.
LEMMA SumOfNothing ==
    ASSUME NEW field \in Fields
    PROVE  Sum(NoCounts, field) = 0
<1>1. PICK f \in [1..NumBuckets -> Nat] : f = [i \in 1..NumBuckets |-> NoCounts[i][field]]
  BY SumIsTyped, EmptyIsTyped DEF Windows
<1>2. \A i \in 1..NumBuckets : f[i] = 0
  BY <1>1 DEF NoCounts, Zero, Fields
<1>3. IsFiniteSet(1..NumBuckets)
  BY FS_Interval, WindowAssumption
<1>4. SumFunction(f) = 0
  BY <1>2, <1>3, SumOfZeros
<1> QED BY <1>1, <1>4 DEF Sum

\* A window with less in it is covered by the same history.
LEMMA SlideIsCovered ==
    ASSUME TypeOK, FreshCovers
    PROVE  Covers(fresh, Slide)
<1>1. buckets \in Windows /\ Slide \in Windows
  BY SlideIsTyped DEF TypeOK, Windows
<1>2. \A field \in Fields : /\ Sum(buckets, field) \in Nat /\ Sum(Slide, field) \in Nat
                            /\ Sum(Slide, field) <= Sum(buckets, field)
  BY <1>1, SumIsTyped, SumAfterSlide DEF Slide
<1>3. Sum(Slide, "n") <= Sum(buckets, "n") /\ Sum(Slide, "err") <= Sum(buckets, "err")
  BY <1>2 DEF Fields
<1>4. /\ Sum(buckets, "n") \in Nat /\ Sum(Slide, "n") \in Nat
      /\ Sum(buckets, "err") \in Nat /\ Sum(Slide, "err") \in Nat
  BY <1>2 DEF Fields
<1> QED BY <1>3, <1>4, WindowAssumption DEF FreshCovers, Covers, UpTo, Counts

\* One more request is counted in the window and in the history.
LEMMA CountIsCovered ==
    ASSUME TypeOK, FreshCovers, NEW code
    PROVE  Covers(Grown(code), Count(code))
<1>1. buckets \in Windows /\ Count(code) \in Windows /\ NumBuckets \in 1..NumBuckets
  BY CountIsTyped, WindowAssumption DEF TypeOK, Windows
<1>2. PICK k \in {0, 1} : k = IF code = "00" THEN 0 ELSE 1
  OBVIOUS
<1>3. /\ Count(code)[NumBuckets]["n"] = buckets[NumBuckets]["n"] + 1
      /\ Count(code)[NumBuckets]["err"] = buckets[NumBuckets]["err"] + k
      /\ \A i \in (1..NumBuckets) \ {NumBuckets} : Count(code)[i] = buckets[i]
  BY <1>1, <1>2 DEF Count, Plus, Windows, Counts
<1>4. Sum(Count(code), "n") = Sum(buckets, "n") + 1
  BY <1>1, <1>3, SumAfterCount DEF Fields
<1>5. Sum(Count(code), "err") = Sum(buckets, "err") + k
  BY <1>1, <1>3, SumAfterCount DEF Fields
<1>6. Sum(buckets, "n") \in Nat /\ Sum(buckets, "err") \in Nat
  BY <1>1, SumIsTyped DEF Fields
<1>7. Grown(code).n = UpTo(fresh.n + 1) /\ Grown(code).err = UpTo(fresh.err + k)
  BY <1>2 DEF Grown, Plus, TypeOK, Counts
<1>8. fresh.n \in Nat /\ fresh.err \in Nat /\ Grown(code) \in Counts
  BY GrownIsTyped DEF TypeOK, Counts
<1> QED BY <1>4, <1>5, <1>6, <1>7, <1>8, WindowAssumption DEF FreshCovers, Covers, UpTo

\* Nothing at all is covered by any history.
LEMMA NothingIsCovered ==
    ASSUME NEW c \in Counts, c.n <= Threshold, c.err <= Threshold
    PROVE  Covers(c, NoCounts)
<1>1. Sum(NoCounts, "n") = 0 /\ Sum(NoCounts, "err") = 0
  BY SumOfNothing DEF Fields
<1> QED BY <1>1, WindowAssumption DEF Covers, UpTo, Counts

\* A history begun anew covers an empty window.
LEMMA BeginsAnew == Covers(Zero, NoCounts)
<1>1. Zero \in Counts /\ Zero.n = 0 /\ Zero.err = 0
  BY DEF Zero, Counts
<1> QED BY <1>1, NothingIsCovered, WindowAssumption

\* Every step keeps the history ahead of the window.
LEMMA CoverStep == Inv /\ FreshCovers /\ [Next]_vars => FreshCovers'
<1> SUFFICES ASSUME Inv, FreshCovers, [Next]_vars PROVE Covers(fresh', buckets')
  BY DEF FreshCovers
<1>1. TypeOK /\ Covers(fresh, buckets)
  BY DEF Inv, FreshCovers
<1>2. ASSUME NEW r \in Req, Invoke(r) \/ Loses(r) PROVE UNCHANGED <<buckets, fresh>>
  BY <1>2 DEF Invoke, Admitted, AdmittedAsProbe, Refused, Refuse, Send, Loses, history
<1>3. ASSUME NEW code, Update(code) PROVE Covers(fresh', buckets')
  <2>1. \/ buckets' = Count(code) /\ fresh' = Grown(code)
        \/ buckets' = NoCounts /\ fresh' = Zero
    BY <1>3 DEF Update, Reset
  <2> QED BY <1>1, <2>1, CountIsCovered, BeginsAnew
<1>4. ASSUME NEW r \in Req, End(r) PROVE Covers(fresh', buckets')
  <2>1. CASE EndsUnsent(r) \/ Answered(r) \/ TimesOut(r)
    BY <1>3, <2>1 DEF EndsUnsent, Answered, TimesOut
  <2>2. CASE Throws(r)
    BY <1>1, <2>2 DEF Throws
  <2> QED BY <1>4, <2>1, <2>2 DEF End
<1>5. CASE Tick
  <2>1. buckets' = Slide /\ fresh' = fresh
    BY <1>5 DEF Tick
  <2> QED BY <1>1, <2>1, SlideIsCovered
<1>6. CASE ResetCounter
  <2>1. buckets' = NoCounts /\ fresh' = fresh
    BY <1>6 DEF ResetCounter
  <2> QED BY <1>1, <2>1, NothingIsCovered DEF Covers
<1>7. CASE Reconnect
  <2>1. buckets' = NoCounts /\ fresh' = Zero
    BY <1>7 DEF Reconnect
  <2> QED BY <2>1, BeginsAnew
<1>8. CASE SleepEnds \/ Heals \/ UNCHANGED vars
  BY <1>1, <1>8 DEF SleepEnds, Heals, vars, history
<1> QED BY <1>1, <1>2, <1>4, <1>5, <1>6, <1>7, <1>8 DEF Next

\* The window is covered from the beginning.
LEMMA CoverInit == Init => FreshCovers
BY BeginsAnew DEF Init, FreshCovers

\* The invariant that the window's sums are bounded by the history.
THEOREM WindowIsFresh == Spec => []FreshCovers
BY Invariance, CoverInit, CoverStep, PTL DEF Spec

\* A rate that reaches the threshold, without the division.
LEMMA RateReached ==
    ASSUME NEW e \in Nat, NEW n \in Nat \ {0}, NEW p \in Nat
    PROVE  ErrorRate(e, n) >= p <=> 200 * e + n >= (2 * n) * p
<1>1. PICK a \in Nat, d \in Nat \ {0} : a = 200 * e + n /\ d = 2 * n
  OBVIOUS
<1>2. PICK q \in Nat : q = a \div d
  OBVIOUS
<1>3. d * q <= a /\ a < d * (q + 1)
  BY <1>2
<1>4. CASE q >= p
  <2>1. d * q >= d * p
    BY <1>4
  <2> QED BY <1>1, <1>2, <1>3, <1>4, <2>1 DEF ErrorRate
<1>5. CASE q < p
  <2>1. q + 1 <= p
    BY <1>5
  <2>2. d * (q + 1) <= d * p
    BY <2>1
  <2> QED BY <1>1, <1>2, <1>3, <1>5, <2>2 DEF ErrorRate
<1> QED BY <1>4, <1>5

\* More requests with as many errors have no higher rate, and a window full of
\* errors has the highest (circuit_breaker.js:20-24).
LEMMA RateFalls ==
    ASSUME NEW e \in Nat, NEW n \in Nat, n >= Threshold, ErrorRate(e, n) >= ErrorPercent
    PROVE  ErrorRate(e, Threshold) >= ErrorPercent
<1>1. /\ n \in Nat \ {0} /\ Threshold \in Nat \ {0}
      /\ ErrorPercent \in Nat /\ 2 * ErrorPercent - 1 \in Nat
  BY WindowAssumption
<1>2. 200 * e + n >= (2 * n) * ErrorPercent
  BY <1>1, RateReached
<1>3. (2 * n) * ErrorPercent = n * (2 * ErrorPercent - 1) + n
  BY <1>1
<1>4. (2 * Threshold) * ErrorPercent = Threshold * (2 * ErrorPercent - 1) + Threshold
  BY <1>1
<1>5. n * (2 * ErrorPercent - 1) >= Threshold * (2 * ErrorPercent - 1)
  BY <1>1
<1>6. /\ n * (2 * ErrorPercent - 1) \in Nat /\ Threshold * (2 * ErrorPercent - 1) \in Nat
      /\ 200 * e \in Nat
  BY <1>1
<1>7. 200 * e + Threshold >= (2 * Threshold) * ErrorPercent
  BY <1>1, <1>2, <1>3, <1>4, <1>5, <1>6
<1> QED BY <1>1, <1>7, RateReached

\* The least number of errors that opens the breaker.
LEMMA LeastErrorsBounds ==
    /\ LeastErrors \in 0..Threshold
    /\ \A e \in 0..Threshold : ErrorRate(e, Threshold) >= ErrorPercent => LeastErrors <= e
<1> DEFINE E == {e \in 0..Threshold : ErrorRate(e, Threshold) >= ErrorPercent}
<1>1. Threshold \in Nat \ {0} /\ ErrorPercent \in Nat /\ ErrorPercent <= 100
  BY WindowAssumption
<1>2. (2 * Threshold) * ErrorPercent <= 200 * Threshold + Threshold
  <2>1. Threshold * ErrorPercent <= Threshold * 100
    BY <1>1
  <2> QED BY <1>1, <2>1
<1>3. Threshold \in E
  BY <1>1, <1>2, RateReached
<1>4. E \in SUBSET Nat /\ E # {}
  BY <1>1, <1>3
<1> HIDE DEF E
<1>5. \E m \in E : \A e \in E : m <= e
  BY <1>4, LeastNumber
<1>6. Min(E) \in E /\ \A e \in E : Min(E) <= e
  BY <1>5 DEF Min
<1> QED BY <1>6 DEF E, LeastErrors

\* The breaker opens on at least Threshold requests counted since it was last closed,
\* with as many errors among them as the threshold asks for (circuit_breaker.js:17-34,
\* 108-114).
THEOREM TripsOnFresh == Spec => TripsOnFreshErrors
<1> DEFINE A == status = "CLOSED" /\ status' = "OPEN"
                  => fresh.n = Threshold /\ fresh.err >= LeastErrors
<1>1. Inv /\ FreshCovers /\ [Next]_vars => [A]_vars
  <2> SUFFICES ASSUME Inv, FreshCovers, Next, status = "CLOSED", status' = "OPEN"
               PROVE  fresh.n = Threshold /\ fresh.err >= LeastErrors
    BY DEF vars, breaker
  <2>1. Trips
    <3>1. ASSUME NEW r \in Req, Invoke(r) \/ End(r) \/ Loses(r) PROVE FALSE
      BY <3>1 DEF Invoke, Admitted, AdmittedAsProbe, Refused, Refuse, End, EndsUnsent, Answered,
         TimesOut, Throws, Update, Loses, breaker
    <3>2. ~SleepEnds /\ ~ResetCounter /\ ~Reconnect /\ ~Heals
      BY DEF SleepEnds, ResetCounter, Reconnect, Heals, breaker
    <3>3. Tick
      BY <3>1, <3>2 DEF Next
    <3> QED BY <3>3 DEF Tick, breaker
  <2>2. PICK n, e : n = Sum(buckets, "n") /\ e = Sum(buckets, "err")
    OBVIOUS
  <2>3. n \in Nat /\ e \in Nat
    BY <2>2, SumIsTyped DEF Inv, TypeOK, Windows, Fields
  <2>4. n >= Threshold /\ ErrorRate(e, n) >= ErrorPercent
    BY <2>1, <2>2 DEF Trips, Total
  <2>5. /\ fresh.n \in Nat /\ fresh.n <= Threshold /\ UpTo(n) <= fresh.n
        /\ fresh.err \in Nat /\ UpTo(e) <= fresh.err
    BY <2>2 DEF FreshCovers, Covers, Counts
  <2>6. fresh.n = Threshold
    BY <2>3, <2>4, <2>5, WindowAssumption DEF UpTo
  <2>7. ErrorRate(e, Threshold) >= ErrorPercent
    BY <2>3, <2>4, RateFalls
  <2>8. fresh.err >= LeastErrors
    BY <2>3, <2>5, <2>7, LeastErrorsBounds, WindowAssumption DEF UpTo
  <2> QED BY <2>6, <2>8
<1> QED BY Invariance, WindowIsFresh, <1>1, PTL DEF Spec, TripsOnFreshErrors
=============================================================================
