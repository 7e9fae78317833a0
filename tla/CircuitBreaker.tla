--------------------------- MODULE CircuitBreaker ---------------------------
(* The circuit breaker of one client connection (sofarpc/lib/client/         *)
(* circuit_breaker.js) with the rolling counter it decides by (metric/) and  *)
(* the requests of the connection, as RpcConnection.invoke (connection/      *)
(* rpc.js) or GRpcConnection.invoke (connection/grpc/index.js) makes them.   *)
(*                                                                           *)
(* Node runs one handler at a time, and the microtasks and nextTick          *)
(* callbacks it leaves behind before the next timer or socket event: an      *)
(* action is a handler with its microtasks, or one nextTick callback.        *)
(* forceOpen and forceClosed are false, as in dynamic_config.js.             *)
EXTENDS Integers, FiniteSets, FiniteSetsExt, Functions

CONSTANTS Req,          \* slots of concurrent requests
          None,         \* no request
          Transport,    \* "rpc" or "grpc"
          NumBuckets,   \* buckets of the window
          Threshold,    \* requestVolumeThreshold
          ErrorPercent, \* errorThresholdPercentage
          MaxPerBucket  \* bound: requests that may end within one bucket

ASSUME ReqAssumption == None \notin Req
ASSUME TransportAssumption == Transport \in {"rpc", "grpc"}
ASSUME WindowAssumption ==
    NumBuckets \in Nat \ {0} /\ Threshold \in Nat \ {0} /\ ErrorPercent \in 1..100
ASSUME BoundAssumption == MaxPerBucket \in Nat

VARIABLES status,   \* CircuitBreaker#status
          sleep,    \* _circuitOpened: -1 ("none"), or the sleep window since is running or over
          buckets,  \* the window; n requests counted, err of them as errors
          req,      \* each request's progress
          healthy,  \* from some time on the server answers every request in time
          probe,    \* history: the request admitted into HALF_OPEN
          fresh     \* history: requests counted since the breaker was closed, up to Threshold

breaker == <<status, sleep>>
history == <<probe, fresh>>
vars    == <<breaker, buckets, req, healthy, history>>

\* A request that was refused or could not be encoded waits for its nextTick; one
\* that was sent is lost when its answer will not come in time.
Pending  == {"refused", "unsent"}
InFlight == {"sent", "lost"}
Counts   == [n : Nat, err : Nat]
Zero     == [n |-> 0, err |-> 0]
NoCounts == [i \in 1..NumBuckets |-> Zero]

Init ==
    /\ status = "CLOSED" /\ sleep = "none" /\ buckets = NoCounts
    /\ req = [r \in Req |-> "idle"]
    /\ healthy \in BOOLEAN
    /\ probe = None /\ fresh = Zero

-----------------------------------------------------------------------------
(* The rolling counter.                                                      *)

Sum(b, field) == SumFunction([i \in 1..NumBuckets |-> b[i][field]])
Total(field)  == Sum(buckets, field)

\* Math.round(errorCount / totalCount * 100); the volume is checked first.
ErrorRate(err, n) == (200 * err + n) \div (2 * n)

\* HealthCounter.update on the latest bucket.
Plus(c, code)  == [n |-> c.n + 1, err |-> IF code = "00" THEN c.err ELSE c.err + 1]
Count(code)    == [buckets EXCEPT ![NumBuckets] = Plus(@, code)]

\* A plausible mistake: a bucket is pushed and none shifted out.
SlideNoShift == [i \in 1..NumBuckets + 1 |-> IF i <= NumBuckets THEN buckets[i] ELSE Zero]

\* buckets.shift(), buckets.push(empty)
Slide == [i \in 1..NumBuckets |-> IF i < NumBuckets THEN buckets[i + 1] ELSE Zero]

\* A plausible mistake: markSuccess() leaves the window as it is.
ResetNothing(b) == b

\* RollingCounter.reset
Reset(b) == NoCounts

\* The history of what was counted: both numbers up to Threshold.
UpTo(k) == IF k > Threshold THEN Threshold ELSE k
Grown(code) == LET c == Plus(fresh, code) IN [n |-> UpTo(c.n), err |-> UpTo(c.err)]

-----------------------------------------------------------------------------
(* The breaker.                                                              *)

\* A plausible mistake: markSuccess() forgets _circuitOpened.
CloseStatus == status' = "CLOSED" /\ UNCHANGED sleep

Close  == status' = "CLOSED" /\ sleep' = "none"

\* A plausible mistake: markNonSuccess() does nothing.
ReopenNothing == UNCHANGED breaker

Reopen == status' = "OPEN" /\ sleep' = "running"

\* The same, by the handler of the counter.
Open == status' = "OPEN" /\ sleep' = "running"

\* update(meta): the counter first, then markSuccess() or markNonSuccess(), which
\* do something in HALF_OPEN only, and whichever request it was that ended.
Update(code) ==
    \/ /\ status # "HALF_OPEN"
       /\ buckets' = Count(code) /\ fresh' = Grown(code)
       /\ UNCHANGED breaker
    \/ /\ status = "HALF_OPEN" /\ code = "00"
       /\ buckets' = Reset(Count(code)) /\ fresh' = Zero
       /\ Close
    \/ /\ status = "HALF_OPEN" /\ code # "00"
       /\ buckets' = Count(code) /\ fresh' = Grown(code)
       /\ Reopen

\* The request leaves its slot.
Ends(r) == req' = [req EXCEPT ![r] = "idle"] /\ probe' = IF probe = r THEN None ELSE probe

\* Timers and the socket wait for nextTick callbacks.
Quiet == \A r \in Req : req[r] \notin Pending

-----------------------------------------------------------------------------
(* invoke()                                                                  *)

Outstanding == {r \in Req : req[r] # "idle"}

\* The bound: whatever is outstanding can end within the latest bucket.
Free(r) == req[r] = "idle" /\ buckets[NumBuckets].n + Cardinality(Outstanding) < MaxPerBucket

\* bolt's encoder hands an encoding error back; protobuf's throws (see Throws).
Send(r) ==
    /\ \E p \in {"sent"} \cup (IF Transport = "rpc" THEN {"unsent"} ELSE {}) :
          req' = [req EXCEPT ![r] = p]
    /\ UNCHANGED <<buckets, healthy, fresh>>

\* allowRequest(): _circuitOpened is -1.
Admitted(r) ==
    /\ Free(r)
    /\ sleep = "none"
    /\ Send(r)
    /\ UNCHANGED <<breaker, probe>>

\* A plausible mistake: the test is let through and HALF_OPEN not entered.
AdmittedUnmarked(r) ==
    /\ Free(r)
    /\ sleep = "over" /\ status # "HALF_OPEN"
    /\ Send(r)
    /\ UNCHANGED <<breaker, probe>>

\* allowRequest(): the sleep window is over, and this is the single test.
AdmittedAsProbe(r) ==
    /\ Free(r)
    /\ sleep = "over" /\ status # "HALF_OPEN"
    /\ status' = "HALF_OPEN" /\ probe' = r
    /\ Send(r)
    /\ UNCHANGED sleep

\* A plausible mistake: gRPC passes a refused request through the counter, too.
CountRefused(r) ==
    /\ Update("02")
    /\ UNCHANGED <<req, healthy, probe>>

\* RPC settles a refused request in a nextTick; gRPC returns an error at once.
Refuse(r) ==
    /\ req' = IF Transport = "rpc" THEN [req EXCEPT ![r] = "refused"] ELSE req
    /\ UNCHANGED <<breaker, buckets, healthy, history>>

Refused(r) ==
    /\ Free(r)
    /\ sleep = "running" \/ status = "HALF_OPEN"
    /\ Refuse(r)

-----------------------------------------------------------------------------
(* The end of a request.                                                     *)

\* nextTick: _handleRpcError, and invoke goes on to update() with '02'.
EndsUnsent(r) ==
    /\ req[r] \in Pending
    /\ Ends(r)
    /\ Update("02")
    /\ UNCHANGED healthy

\* Any answer leaves resultCode at '00': a business error and, over gRPC, a
\* stream that was reset or closed with an error, too.
Answered(r) ==
    /\ Quiet /\ req[r] = "sent"
    /\ Ends(r)
    /\ Update("00")
    /\ UNCHANGED healthy

TimesOut(r) ==
    /\ Quiet /\ req[r] = "lost"
    /\ Ends(r)
    /\ Update("03")
    /\ UNCHANGED healthy

\* gRPC: callStream.call() rejects, and invoke with it, before update().
Throws(r) ==
    /\ Transport = "grpc"
    /\ Quiet /\ req[r] = "sent"
    /\ Ends(r)
    /\ UNCHANGED <<breaker, buckets, healthy, fresh>>

-----------------------------------------------------------------------------
(* The clock, the connection and the server.                                 *)

\* The counter's interval: 'next' with the sums of the window, then the shift.
Trips == /\ status = "CLOSED"
         /\ Total("n") >= Threshold
         /\ ErrorRate(Total("err"), Total("n")) >= ErrorPercent

Tick ==
    /\ Quiet
    /\ \/ Trips /\ Open
       \/ ~Trips /\ UNCHANGED breaker
    /\ buckets' = Slide
    /\ UNCHANGED <<req, healthy, probe, fresh>>

SleepEnds ==
    /\ sleep = "running"
    /\ sleep' = "over"
    /\ UNCHANGED <<status, buckets, req, healthy, history>>

\* AddressGroup has lowered the address's weight, and calls resetCounter().
ResetCounter ==
    /\ Quiet
    /\ buckets' = NoCounts
    /\ UNCHANGED <<breaker, req, healthy, probe, fresh>>

\* The socket closes: _cleanRequest settles every request, and close() drops the
\* breaker and its counter; the next connection to the host has new ones.
Reconnect ==
    /\ Quiet
    /\ status' = "CLOSED" /\ sleep' = "none" /\ buckets' = NoCounts
    /\ req' = [r \in Req |-> "idle"]
    /\ probe' = None /\ fresh' = Zero
    /\ UNCHANGED healthy

Loses(r) ==
    /\ ~healthy /\ req[r] = "sent"
    /\ req' = [req EXCEPT ![r] = "lost"]
    /\ UNCHANGED <<breaker, buckets, healthy, history>>

Heals ==
    /\ ~healthy
    /\ healthy' = TRUE
    /\ UNCHANGED <<breaker, buckets, req, history>>

-----------------------------------------------------------------------------
Invoke(r) == Admitted(r) \/ AdmittedAsProbe(r) \/ Refused(r)
End(r)    == EndsUnsent(r) \/ Answered(r) \/ TimesOut(r) \/ Throws(r)

Next ==
    \/ \E r \in Req : Invoke(r) \/ End(r) \/ Loses(r)
    \/ Tick \/ SleepEnds \/ ResetCounter \/ Reconnect \/ Heals

Spec == Init /\ [][Next]_vars

\* Clients keep calling, every request ends (its timer sees to that), time passes.
Fairness ==
    /\ WF_vars(\E r \in Req : Invoke(r))
    /\ \A r \in Req : WF_vars(End(r))
    /\ WF_vars(Tick) /\ WF_vars(SleepEnds)

FairSpec == Spec /\ Fairness

-----------------------------------------------------------------------------
(* Properties.                                                               *)

\* The types of all state (circuit_breaker.js:12-35, rolling_counter.js:48-54).
TypeOK ==
    /\ status \in {"CLOSED", "OPEN", "HALF_OPEN"}
    /\ sleep \in {"none", "running", "over"}
    /\ buckets \in [1..NumBuckets -> Counts]
    /\ req \in [Req -> {"idle"} \cup Pending \cup InFlight]
    /\ healthy \in BOOLEAN
    /\ probe \in Req \cup {None}
    /\ fresh \in Counts

\* status and _circuitOpened are two variables for one state: allowRequest() asks
\* the one, the counter's handler and update() the other (circuit_breaker.js:28,
\* 82-93, 108-121). A breaker that is not closed has a time it was opened at,
\* and a single test is only out once the sleep window is over.
StatusMatchesOpened ==
    /\ status = "CLOSED" <=> sleep = "none"
    /\ status = "HALF_OPEN" => sleep = "over"

\* HALF_OPEN waits for a single test that is really out: whatever else ends
\* meanwhile, the breaker is never left in HALF_OPEN, where all requests are
\* refused, with nothing to wait for (circuit_breaker.js:24-26, 85-91).
HalfOpenAwaitsProbe ==
    status = "HALF_OPEN" => probe \in Req /\ req[probe] \in InFlight \cup {"unsent"}

\* The breaker and its requests do what Admission promises: once opened it lets a
\* single request through, and only the end of one that was let through closes it
\* (circuit_breaker.js:75-121).
LetThrough    == {r \in Req : req[r] \in InFlight \cup {"unsent"}}
Promise       == INSTANCE Admission WITH phase <- status, out <- LetThrough
AdmissionSpec == Promise!Spec

\* The breaker opens on what it counted since it was last closed and on nothing
\* older: on at least Threshold requests, and so many errors among them that the
\* threshold can be reached (circuit_breaker.js:17-34, 108-114).
LeastErrors == Min({e \in 0..Threshold : ErrorRate(e, Threshold) >= ErrorPercent})
TripsOnFreshErrors ==
    [][status = "CLOSED" /\ status' = "OPEN"
         => fresh.n = Threshold /\ fresh.err >= LeastErrors]_vars

\* Over gRPC the sleep window starts again only when a request that was let
\* through has timed out; refusing requests does not prolong it
\* (connection/grpc/index.js:124-131).
OnlyTimeoutsReopen ==
    [][status = "HALF_OPEN" /\ status' = "OPEN"
         => \E r \in Req : req[r] = "lost" /\ req'[r] = "idle"]_vars

\* Over gRPC, when the server has recovered, the breaker closes for good, however
\* many requests clients go on sending: the only other end is that an exception
\* has taken the single test away (circuit_breaker.js:75-93, 108-121).
Wedged == status = "HALF_OPEN" /\ probe = None
ClosesWhenHealthy == healthy ~> ([](status = "CLOSED") \/ []Wedged)
=============================================================================
