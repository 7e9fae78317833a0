------------------------------ MODULE GrpcCall ------------------------------
(* Calls over one gRPC connection: client/connection/grpc/index.js and       *)
(* call_stream.js, with the server's answers (server/grpc/server.js and      *)
(* response.js, service.js).  A call has an HTTP/2 stream, whose events may  *)
(* come in many orders, a timer, and a place in _sentReqs until its stream   *)
(* has closed.                                                               *)
EXTENDS Integers, Sequences, FiniteSets

CONSTANT MaxCalls   \* bound: calls

ASSUME CallAssumption == MaxCalls \in Nat

Req == 1..MaxCalls

VARIABLES session,  \* connecting, up, leaving (no new streams), destroyed or closed
          ready,    \* of the connection's ready(): pending, ok or failed
          closing,  \* close(): no, waiting, failed or forced
          awaited   \* calls it waits for

VARIABLES at,      \* of each call: idle, connecting, sent or ended
          code,    \* its resultCode in the end
          stream,  \* its stream: none, open, closing (its close event to come) or closed
          rst,     \* the stream's rstCode: none, no_error, cancel or other
          status,  \* _mappedStatusCode: unknown, ok or error
          got,     \* calls whose message has arrived
          kept,    \* _sentReqs
          timers,  \* calls whose timer runs
          threw    \* calls whose promise was rejected

VARIABLES requests, \* on their way to the server
          coming,   \* events on their way to each stream
          running,  \* calls whose method runs
          ran       \* how often each call's method has been started

connection == <<session, ready, closing, awaited>>
call       == <<at, code, stream, rst, status, got, kept, timers, threw>>
server     == <<requests, coming, running, ran>>
vars       == <<connection, call, server>>

Init ==
    /\ session = "connecting" /\ ready = "pending" /\ closing = "no" /\ awaited = {}
    /\ at = [r \in Req |-> "idle"] /\ code = [r \in Req |-> "none"]
    /\ stream = [r \in Req |-> "none"] /\ rst = [r \in Req |-> "none"]
    /\ status = [r \in Req |-> "unknown"]
    /\ got = {} /\ kept = {} /\ timers = {} /\ threw = {}
    /\ requests = {} /\ coming = [r \in Req |-> <<>>] /\ running = {} /\ ran = [r \in Req |-> 0]

-----------------------------------------------------------------------------
(* Calls.                                                                    *)

Begins(r) == at[r] = "idle" /\ \A q \in 1..(r - 1) : at[q] # "idle"

\* A plausible mistake: a call ends with whatever comes last.
EndedBy(r) == at[r] # "idle"

\* _endCall() takes effect while there is no _response.
Open(r) == at[r] = "sent"

\* A plausible mistake: the connection has one timer for all its calls.
OneTimer(E, c) ==
    LET over == {r \in E : Open(r)}
    IN /\ at' = [r \in Req |-> IF r \in over THEN "ended" ELSE at[r]]
       /\ code' = [r \in Req |-> IF r \in over THEN c ELSE code[r]]
       /\ timers' = {}

\* A plausible mistake: the timer is cleared, but nobody is told.
ClearsOnly(E, c) == timers' = timers \ E /\ UNCHANGED <<at, code>>

\* _endCall() for the calls E; the timers of those it takes effect for are cleared.
Ends(E, c) ==
    LET over == {r \in E : Open(r)}
    IN /\ at' = [r \in Req |-> IF r \in over THEN "ended" ELSE at[r]]
       /\ code' = [r \in Req |-> IF r \in over THEN c ELSE code[r]]
       /\ timers' = timers \ E

\* The streams of S are closed with code c, unless they are closed already.
Closing(S, c) ==
    LET open == {r \in S : stream[r] = "open"}
    IN /\ stream' = [r \in Req |-> IF r \in open THEN "closing" ELSE stream[r]]
       /\ rst' = [r \in Req |-> IF r \in open THEN c ELSE rst[r]]

\* invoke() before the connection is there: the consumer waits for its ready().
Wait(r) ==
    /\ Begins(r) /\ ready = "pending" /\ session # "closed"
    /\ at' = [at EXCEPT ![r] = "connecting"]
    /\ UNCHANGED <<connection, code, stream, rst, status, got, kept, timers, threw, server>>

\* ready() tells those who wait for it in the order they came.
Turn(r) ==
    /\ ready = "ok" /\ session # "closed"
    /\ at[r] = "connecting" \/ Begins(r)
    /\ \A q \in 1..(r - 1) : at[q] # "connecting"

\* The breaker answers at once.
Refused(r) ==
    /\ Turn(r)
    /\ at' = [at EXCEPT ![r] = "ended"] /\ code' = [code EXCEPT ![r] = "02"]
    /\ UNCHANGED <<connection, stream, rst, status, got, kept, timers, threw, server>>

\* call(): the stream is opened, the request written.
Sends(r) ==
    /\ Turn(r) /\ session = "up"
    /\ at' = [at EXCEPT ![r] = "sent"] /\ stream' = [stream EXCEPT ![r] = "open"]
    /\ kept' = kept \cup {r} /\ timers' = timers \cup {r}
    /\ requests' = requests \cup {r}
    /\ UNCHANGED <<connection, code, rst, status, got, threw, coming, running, ran>>

\* call() throws: the session takes no more streams, or, with the stream open, the
\* request cannot be encoded.  The timer goes on.
Throws(r) ==
    /\ Turn(r)
    /\ at' = [at EXCEPT ![r] = "ended"] /\ code' = [code EXCEPT ![r] = "01"]
    /\ stream' = IF session = "up" THEN [stream EXCEPT ![r] = "open"] ELSE stream
    /\ kept' = kept \cup {r} /\ timers' = timers \cup {r} /\ threw' = threw \cup {r}
    /\ UNCHANGED <<connection, rst, status, got, server>>

\* The timer cancels the call; of a call whose request threw, the stream, if it has one.
TimesOut(r) ==
    /\ r \in timers
    /\ Ends({r}, "03") /\ Closing({r}, "cancel")
    /\ UNCHANGED <<connection, status, got, kept, threw, server>>

-----------------------------------------------------------------------------
(* Events of a stream.                                                       *)

\* A plausible mistake: the HTTP status is taken for the one of the call.
Unmapped(event) == event

\* statusMappings: 500 is not in it.
Mapped(event) == IF event = "200" THEN "ok" ELSE "unknown"

\* The trailers' grpc-status counts when the HTTP status has said nothing.
AfterTrailers(s, event) ==
    IF s # "unknown" THEN s ELSE IF event = "grpc-0" THEN "ok" ELSE "error"

\* _mappedStatusCode after an event.
After(s, event) ==
    IF event \in {"200", "500"} THEN Mapped(event)
    ELSE IF event \in {"grpc-0", "grpc-2"} THEN AfterTrailers(s, event) ELSE s

\* Headers, message, trailers or the end; at the end the stream is closed.
Event(r) ==
    /\ stream[r] = "open" /\ coming[r] # <<>>
    /\ LET event == Head(coming[r])
       IN /\ status' = [status EXCEPT ![r] = After(@, event)]
          /\ got' = IF event = "message" THEN got \cup {r} ELSE got
          /\ Closing(IF event = "end" THEN {r} ELSE {}, "no_error")
    /\ coming' = [coming EXCEPT ![r] = Tail(@)]
    /\ UNCHANGED <<connection, at, code, kept, timers, threw, requests, running, ran>>

\* The server resets the stream: 'error' ends the call before 'close' does.
Reset(r) ==
    /\ stream[r] = "open"
    /\ Ends({r}, "01") /\ Closing({r}, "other")
    /\ UNCHANGED <<connection, status, got, kept, threw, server>>

\* A plausible mistake: the reason for which the stream was closed is not looked at.
ByStatusOnly(r) == status[r] = "ok"

\* _handleClose(): the call has succeeded.
Succeeds(r) == status[r] = "ok" /\ rst[r] = "no_error"

\* The stream's 'close': the call ends if it has not, and leaves _sentReqs.  Its message
\* may turn out not to be decodable, and its timer goes on.
StreamCloses(r) ==
    /\ stream[r] = "closing" /\ stream' = [stream EXCEPT ![r] = "closed"]
    /\ \/ Ends({r}, IF Succeeds(r) THEN "00" ELSE "02") /\ UNCHANGED threw
       \/ /\ Open(r) /\ Succeeds(r)
          /\ at' = [at EXCEPT ![r] = "ended"] /\ code' = [code EXCEPT ![r] = "01"]
          /\ threw' = threw \cup {r}
          /\ UNCHANGED timers
    /\ kept' = kept \ {r} /\ coming' = [coming EXCEPT ![r] = <<>>]
    /\ UNCHANGED <<connection, rst, status, got, requests, running, ran>>

-----------------------------------------------------------------------------
(* The session.                                                              *)

\* Those who waited for the connection go on before the next event is looked at.
NobodyWaits == \A r \in Req : at[r] # "connecting"

Connects ==
    /\ session = "connecting" /\ session' = "up" /\ ready' = "ok"
    /\ UNCHANGED <<closing, awaited, call, server>>

\* A plausible mistake: a failed attempt is reported to those who come later only.
NobodyTold(r) == FALSE

ToldOfFailure(r) == at[r] = "connecting"

\* An error or the connect timeout; the consumers that wait find no connection.
ConnectFails ==
    /\ session = "connecting" /\ session' = "destroyed" /\ ready' = "failed"
    /\ at' = [r \in Req |-> IF ToldOfFailure(r) THEN "ended" ELSE at[r]]
    /\ code' = [r \in Req |-> IF ToldOfFailure(r) THEN "04" ELSE code[r]]
    /\ UNCHANGED <<closing, awaited, stream, rst, status, got, kept, timers, threw, server>>

\* The server wants to go: the session ends when its streams have.
Leaves ==
    /\ session = "up" /\ NobodyWaits /\ session' = "leaving"
    /\ UNCHANGED <<ready, closing, awaited, call, server>>

Left ==
    /\ session = "leaving" /\ \A r \in Req : stream[r] \notin {"open", "closing"}
    /\ session' = "destroyed"
    /\ UNCHANGED <<ready, closing, awaited, call, server>>

\* The socket is closed, which cancels all streams.
Drops ==
    /\ session \in {"up", "leaving"} /\ NobodyWaits /\ session' = "destroyed"
    /\ Closing(Req, "cancel")
    /\ UNCHANGED <<ready, closing, awaited, at, code, status, got, kept, timers, threw, server>>

\* The session's 'close'.
SessionCloses ==
    /\ session = "destroyed" /\ session' = "closed"
    /\ UNCHANGED <<ready, closing, awaited, call, server>>

\* close(), of the client or after a ping that failed, also while the session still
\* connects.  With no call to wait for, forceClose() destroys the session at once, and a
\* ready() that was pending is never answered.
Close ==
    /\ closing = "no" /\ session # "closed" /\ (ready = "ok" => NobodyWaits)
    /\ closing' = IF kept = {} THEN "forced" ELSE IF kept \cap threw = {} THEN "waiting" ELSE "failed"
    /\ awaited' = kept
    /\ session' = IF kept = {} THEN "destroyed" ELSE session
    /\ UNCHANGED <<ready, call, server>>

\* One of the calls it waits for is rejected: forceClose() is never reached.
CloseFails ==
    /\ closing = "waiting" /\ awaited \cap threw # {} /\ closing' = "failed"
    /\ UNCHANGED <<session, ready, awaited, call, server>>

\* forceClose(): the calls that are left are cancelled in the order they were sent, then
\* the session is destroyed.  A call that never had a stream makes it throw half-way.
ForceClose ==
    /\ closing = "waiting" /\ session # "closed"
    /\ \A r \in awaited : at[r] = "ended" /\ r \notin threw
    /\ LET streamless == {r \in kept : stream[r] = "none"}
           cut == {r \in kept : \A q \in streamless : r < q}
       IN /\ Ends(cut \ threw, "02") /\ Closing(cut, "cancel")
          /\ closing' = IF streamless = {} THEN "forced" ELSE "failed"
          /\ session' = IF streamless = {} THEN "destroyed" ELSE session
    /\ UNCHANGED <<ready, awaited, status, got, kept, threw, server>>

-----------------------------------------------------------------------------
(* The server.                                                               *)

\* The request is complete: its method runs, or is not found.
Handle(r) ==
    /\ r \in requests /\ requests' = requests \ {r}
    /\ \/ running' = running \cup {r} /\ ran' = [ran EXCEPT ![r] = @ + 1] /\ UNCHANGED coming
       \/ coming' = [coming EXCEPT ![r] = <<"500", "grpc-2", "end">>] /\ UNCHANGED <<running, ran>>
    /\ UNCHANGED <<connection, call>>

\* The method returns or throws; an answer that is late, or whose stream has closed, is
\* not sent.
Finish(r) ==
    /\ r \in running /\ running' = running \ {r}
    /\ \E answer \in {<<"200", "message", "grpc-0", "end">>, <<"500", "grpc-2", "end">>, <<>>} :
          coming' = [coming EXCEPT ![r] = IF stream[r] = "open" THEN answer ELSE <<>>]
    /\ UNCHANGED <<connection, call, requests, ran>>

-----------------------------------------------------------------------------

Next ==
    \/ \E r \in Req : \/ Wait(r) \/ Refused(r) \/ Sends(r) \/ Throws(r) \/ TimesOut(r)
                      \/ Event(r) \/ Reset(r) \/ StreamCloses(r) \/ Handle(r) \/ Finish(r)
    \/ Connects \/ ConnectFails \/ Leaves \/ Left \/ Drops \/ SessionCloses
    \/ Close \/ CloseFails \/ ForceClose

Spec == Init /\ [][Next]_vars

\* Timers fire, connecting has a timeout, callers go on once it is over; streams and
\* sessions that are closed emit 'close', and promises settle.
Fairness ==
    /\ \A r \in Req : /\ WF_vars(TimesOut(r)) /\ WF_vars(StreamCloses(r))
                      /\ WF_vars(Refused(r) \/ Sends(r) \/ Throws(r))
    /\ WF_vars(Connects \/ ConnectFails) /\ WF_vars(SessionCloses)
    /\ WF_vars(CloseFails) /\ WF_vars(ForceClose)

FairSpec == Spec /\ Fairness

-----------------------------------------------------------------------------
(* Properties.                                                               *)

\* The types of all state (grpc/index.js:24-35, call_stream.js:63-72); a call leaves
\* _sentReqs with its stream.
TypeOK ==
    /\ session \in {"connecting", "up", "leaving", "destroyed", "closed"}
    /\ ready \in {"pending", "ok", "failed"} /\ closing \in {"no", "waiting", "failed", "forced"}
    /\ awaited \subseteq Req /\ at \in [Req -> {"idle", "connecting", "sent", "ended"}]
    /\ code \in [Req -> {"none", "00", "01", "02", "03", "04"}]
    /\ stream \in [Req -> {"none", "open", "closing", "closed"}]
    /\ rst \in [Req -> {"none", "no_error", "cancel", "other"}]
    /\ status \in [Req -> {"unknown", "ok", "error"}]
    /\ got \subseteq Req /\ kept \subseteq Req /\ timers \subseteq Req /\ threw \subseteq Req
    /\ requests \subseteq Req /\ running \subseteq Req /\ ran \in [Req -> Nat]
    /\ coming \in [Req -> Seq({"200", "500", "message", "grpc-0", "grpc-2", "end"})]

\* A call succeeds only with its whole message, whenever its stream, its session or its
\* timer ends it (call_stream.js:146-154, 183-213).
SuccessIsWhole == \A r \in Req : code[r] = "00" => r \in got

\* A call that is out is in _sentReqs with a timer, or nothing would end it when its
\* stream stays silent or its connection is closed (grpc/index.js:133-153, 174-184).
SentIsGuarded == \A r \in Req : at[r] = "sent" => r \in kept /\ r \in timers

\* A call that nothing will ever answer: the session was destroyed before ready() was
\* answered, and the consumer still awaits it (connection_mgr.js:76-78).
Abandoned(r) == at[r] = "connecting" /\ ready = "pending" /\ session \in {"destroyed", "closed"}

\* Every call ends, whatever happens to its stream, the session and the server, unless
\* the client was closed while it waited to be connected (grpc/index.js:118-153, 197-214).
EveryCallEnds ==
    \A r \in Req : at[r] \in {"connecting", "sent"} ~> at[r] = "ended" \/ Abandoned(r)

\* close() closes the session, unless a call has thrown (grpc/index.js:186-214).
CloseEnds == closing \in {"waiting", "forced"} ~> session = "closed" \/ threw # {}

\* Each call ends once, is run at most once and succeeds only if it was run
\* (call_stream.js:146-154, server.js:269-292).
Promise == INSTANCE Settlement WITH
    phase <- [r \in Req |-> IF at[r] \in {"connecting", "sent"} THEN "called" ELSE at[r]],
    good  <- {r \in Req : code[r] = "00"}
SettlementSpec == Promise!Spec
=============================================================================
