--------------------------- MODULE GrpcCallProofs ---------------------------
(* Proofs about GrpcCall, for any number of calls: calls that are out are     *)
(* guarded, a success is whole, and every step is a step of Settlement.       *)
EXTENDS GrpcCall, TLAPS

\* What is still to come to an open stream, by what has come.
Coming(r) ==
    \/ coming[r] = <<>> /\ status[r] = "unknown"
    \/ coming[r] = <<"200", "message", "grpc-0", "end">> /\ status[r] = "unknown" /\ ran[r] = 1
    \/ coming[r] = <<"message", "grpc-0", "end">> /\ status[r] = "ok"
    \/ coming[r] \in {<<"grpc-0", "end">>, <<"end">>} /\ status[r] = "ok" /\ r \in got
    \/ coming[r] \in {<<"500", "grpc-2", "end">>, <<"grpc-2", "end">>} /\ status[r] = "unknown"
    \/ coming[r] = <<"end">> /\ status[r] = "error"

\* An open stream has not ended, one that never was has carried nothing.
StreamSound(r) ==
    /\ at[r] \in {"idle", "connecting"} => stream[r] = "none"
    /\ stream[r] = "none" => /\ at[r] # "sent" /\ rst[r] = "none"
                             /\ r \notin requests \cup running
                             /\ status[r] = "unknown" /\ ran[r] = 0 /\ coming[r] = <<>>
    /\ stream[r] = "open" => rst[r] = "none" /\ Coming(r)

\* A request is handled once, and nothing comes before it was.
ServerSound(r) ==
    /\ r \in requests => ran[r] = 0 /\ r \notin running
    /\ r \in running => ran[r] = 1
    /\ r \in requests \cup running => coming[r] = <<>> /\ status[r] = "unknown"

\* What has ended well was run and has its message.
EndSound(r) ==
    /\ at[r] # "ended" => code[r] = "none"
    /\ status[r] = "ok" => ran[r] = 1
    /\ status[r] = "ok" /\ rst[r] = "no_error" => r \in got
    /\ code[r] = "00" => ran[r] = 1

\* SentIsGuarded and SuccessIsWhole of one call, and what they rest on.
Sound(r) ==
    /\ at[r] = "sent" => r \in kept /\ r \in timers
    /\ code[r] = "00" => r \in got
    /\ StreamSound(r) /\ ServerSound(r) /\ EndSound(r)

\* The inductive invariant.
IInv == TypeOK /\ \A r \in Req : Sound(r)

\* The events of a stream and the answers they come in.
Events == {"200", "500", "message", "grpc-0", "grpc-2", "end"}

\* The first event of what comes, and what comes after it.
LEMMA Parts ==
    /\ Head(<<"200", "message", "grpc-0", "end">>) = "200"
    /\ Tail(<<"200", "message", "grpc-0", "end">>) = <<"message", "grpc-0", "end">>
    /\ Head(<<"message", "grpc-0", "end">>) = "message"
    /\ Tail(<<"message", "grpc-0", "end">>) = <<"grpc-0", "end">>
    /\ Head(<<"grpc-0", "end">>) = "grpc-0" /\ Tail(<<"grpc-0", "end">>) = <<"end">>
    /\ Head(<<"500", "grpc-2", "end">>) = "500"
    /\ Tail(<<"500", "grpc-2", "end">>) = <<"grpc-2", "end">>
    /\ Head(<<"grpc-2", "end">>) = "grpc-2" /\ Tail(<<"grpc-2", "end">>) = <<"end">>
    /\ Head(<<"end">>) = "end" /\ Tail(<<"end">>) = <<>>
OBVIOUS

\* The answers of the server are events.
LEMMA Answers ==
    /\ <<>> \in Seq(Events)
    /\ <<"200", "message", "grpc-0", "end">> \in Seq(Events)
    /\ <<"500", "grpc-2", "end">> \in Seq(Events)
    /\ \A s \in Seq(Events) : s # <<>> => Tail(s) \in Seq(Events)
BY DEF Events

LEMMA InitInvariant == Init => IInv
<1> SUFFICES ASSUME Init PROVE IInv
  OBVIOUS
<1> USE DEF Init
<1>1. TypeOK
  BY Answers DEF TypeOK, Events
<1>2. \A r \in Req : Sound(r)
  BY DEF Sound, StreamSound, ServerSound, EndSound
<1> QED BY <1>1, <1>2 DEF IInv

\* What comes to a stream stays a sequence of events.
LEMMA ComingStep ==
    ASSUME coming \in [Req -> Seq(Events)], [Next]_vars
    PROVE  coming' \in [Req -> Seq(Events)]
<1> USE DEF connection, call, server
<1>1. ASSUME NEW r \in Req, Event(r) \/ StreamCloses(r) \/ Handle(r)
      PROVE  coming' \in [Req -> Seq(Events)]
  <2>1. \E s \in Seq(Events) : coming' \in {coming, [coming EXCEPT ![r] = s]}
    BY <1>1, Answers DEF Event, StreamCloses, Handle
  <2> QED BY <2>1
<1>2. ASSUME NEW r \in Req, Finish(r)
      PROVE  coming' \in [Req -> Seq(Events)]
  <2>1. \E s \in Seq(Events) : coming' = [coming EXCEPT ![r] = s]
    <3>1. PICK answer \in {<<"200", "message", "grpc-0", "end">>, <<"500", "grpc-2", "end">>, <<>>} :
             coming' = [coming EXCEPT ![r] = IF stream[r] = "open" THEN answer ELSE <<>>]
      BY <1>2 DEF Finish
    <3>2. answer \in Seq(Events)
      BY Answers
    <3> QED BY <3>1, <3>2, Answers
  <2> QED BY <2>1
<1>3. ASSUME NEW r \in Req, Wait(r) \/ Refused(r) \/ Sends(r) \/ Throws(r) \/ TimesOut(r) \/ Reset(r)
      PROVE  UNCHANGED coming
  BY <1>3 DEF Wait, Refused, Sends, Throws, TimesOut, Reset
<1>4. CASE Connects \/ ConnectFails \/ Leaves \/ Left \/ Drops \/ SessionCloses
           \/ Close \/ CloseFails \/ ForceClose \/ UNCHANGED vars
  BY <1>4 DEF Connects, ConnectFails, Leaves, Left, Drops, SessionCloses, Close, CloseFails,
     ForceClose, vars
<1> QED BY <1>1, <1>2, <1>3, <1>4 DEF Next

\* Every step keeps the types.
LEMMA TypeStep == TypeOK /\ [Next]_vars => TypeOK'
<1> SUFFICES ASSUME TypeOK, [Next]_vars PROVE TypeOK'
  OBVIOUS
<1>0. coming' \in [Req -> Seq({"200", "500", "message", "grpc-0", "grpc-2", "end"})]
  BY ComingStep DEF TypeOK, Events
<1> USE <1>0 DEF TypeOK, connection, call, server
<1>1. ASSUME NEW r \in Req, Wait(r) \/ Refused(r) \/ Sends(r) \/ Throws(r) PROVE TypeOK'
  <2>1. CASE Wait(r)
    BY <2>1 DEF Wait
  <2>2. CASE Refused(r)
    BY <2>2 DEF Refused
  <2>3. CASE Sends(r)
    BY <2>3 DEF Sends
  <2>4. CASE Throws(r)
    BY <2>4 DEF Throws
  <2> QED BY <1>1, <2>1, <2>2, <2>3, <2>4
<1>2. ASSUME NEW r \in Req, TimesOut(r) \/ Reset(r) PROVE TypeOK'
  BY <1>2 DEF TimesOut, Reset, Ends, Closing
<1>3. ASSUME NEW r \in Req, Event(r) PROVE TypeOK'
  <2>1. status' \in [Req -> {"unknown", "ok", "error"}]
    BY <1>3 DEF Event, After, Mapped, AfterTrailers
  <2>2. /\ stream' \in [Req -> {"none", "open", "closing", "closed"}]
        /\ rst' \in [Req -> {"none", "no_error", "cancel", "other"}]
    BY <1>3 DEF Event, Closing
  <2> QED BY <1>3, <2>1, <2>2 DEF Event
<1>4. ASSUME NEW r \in Req, StreamCloses(r) PROVE TypeOK'
  <2>1. /\ at' \in [Req -> {"idle", "connecting", "sent", "ended"}]
        /\ threw' \subseteq Req /\ timers' \subseteq Req
    BY <1>4 DEF StreamCloses, Ends
  <2>2. stream' \in [Req -> {"none", "open", "closing", "closed"}] /\ kept' \subseteq Req
    BY <1>4 DEF StreamCloses
  <2>3. code' \in [Req -> {"none", "00", "01", "02", "03", "04"}]
    BY <1>4 DEF StreamCloses, Ends
  <2> QED BY <1>4, <2>1, <2>2, <2>3 DEF StreamCloses
<1>5. ASSUME NEW r \in Req, Handle(r) \/ Finish(r) PROVE TypeOK'
  <2>1. UNCHANGED <<connection, call>>
    BY <1>5 DEF Handle, Finish
  <2>2. requests' \subseteq Req /\ running' \subseteq Req
    BY <1>5 DEF Handle, Finish
  <2>3. ran' \in [Req -> Nat]
    <3>1. ran' = ran \/ ran' = [ran EXCEPT ![r] = ran[r] + 1]
      BY <1>5 DEF Handle, Finish
    <3>2. ran \in [Req -> Nat]
      OBVIOUS
    <3> HIDE DEF TypeOK
    <3> QED BY ONLY <3>1, <3>2
  <2> QED BY <2>1, <2>2, <2>3
<1>6. CASE Connects \/ ConnectFails \/ Leaves \/ Left \/ Drops \/ SessionCloses
  BY <1>6 DEF Connects, ConnectFails, Leaves, Left, Drops, SessionCloses, Closing
<1>7. CASE Close \/ CloseFails
  BY <1>7 DEF Close, CloseFails
<1>8. CASE ForceClose
  <2>1. PICK cut \in SUBSET Req : Ends(cut \ threw, "02") /\ Closing(cut, "cancel")
    BY <1>8 DEF ForceClose
  <2>2. /\ at' \in [Req -> {"idle", "connecting", "sent", "ended"}]
        /\ code' \in [Req -> {"none", "00", "01", "02", "03", "04"}]
        /\ timers' \subseteq Req
    BY <2>1 DEF Ends
  <2>3. /\ stream' \in [Req -> {"none", "open", "closing", "closed"}]
        /\ rst' \in [Req -> {"none", "no_error", "cancel", "other"}]
    BY <2>1 DEF Closing
  <2> QED BY <1>8, <2>2, <2>3 DEF ForceClose
<1>9. CASE UNCHANGED vars
  BY <1>9 DEF vars
<1> QED BY <1>1, <1>2, <1>3, <1>4, <1>5, <1>6, <1>7, <1>8, <1>9 DEF Next

\* A call keeps what it is when a step leaves it alone.
LEMMA LeftAlone ==
    ASSUME NEW q \in Req, Sound(q),
           at'[q] = at[q], code'[q] = code[q], stream'[q] = stream[q], rst'[q] = rst[q],
           status'[q] = status[q], coming'[q] = coming[q], ran'[q] = ran[q],
           q \in got => q \in got', q \in kept => q \in kept',
           q \in timers => q \in timers',
           q \in requests' => q \in requests, q \in running' => q \in running
    PROVE  Sound(q)'
BY DEF Sound, StreamSound, ServerSound, EndSound, Coming

\* A call begins.
LEMMA BeginStep ==
    ASSUME IInv, NEW r \in Req, Wait(r) \/ Refused(r) \/ Sends(r) \/ Throws(r), NEW q \in Req
    PROVE  Sound(q)'
<1> USE DEF IInv, TypeOK, connection, call, server
<1>1. CASE q # r
  <2>1. /\ at'[q] = at[q] /\ code'[q] = code[q] /\ stream'[q] = stream[q]
        /\ q \in kept => q \in kept' 
        /\ q \in timers => q \in timers' 
        /\ q \in requests' => q \in requests
    BY <1>1 DEF Wait, Refused, Sends, Throws
  <2>2. UNCHANGED <<rst, status, got, running, coming, ran>>
    BY DEF Wait, Refused, Sends, Throws
  <2> QED BY <2>1, <2>2, LeftAlone
<1>2. CASE q = r
  <2> USE <1>2 DEF Sound, StreamSound, ServerSound, EndSound, Coming, Begins, Turn
  <2>1. at[r] \in {"idle", "connecting"}
    BY DEF Wait, Refused, Sends, Throws
  <2>2. CASE Wait(r)
    BY <2>1, <2>2 DEF Wait
  <2>3. CASE Refused(r)
    BY <2>1, <2>3 DEF Refused
  <2>4. CASE Sends(r)
    BY <2>1, <2>4 DEF Sends
  <2>5. CASE Throws(r)
    BY <2>1, <2>5 DEF Throws
  <2> QED BY <2>2, <2>3, <2>4, <2>5
<1> QED BY <1>1, <1>2
\* The timer or a reset ends a call.
LEMMA CutStep ==
    ASSUME IInv, NEW r \in Req, TimesOut(r) \/ Reset(r), NEW q \in Req
    PROVE  Sound(q)'
<1>0. Sound(q)
  BY DEF IInv
<1> USE DEF IInv, TypeOK, connection, call, server
<1>1. UNCHANGED <<status, got, kept, requests, running, coming, ran>>
  BY DEF TimesOut, Reset
<1>2. CASE q # r
  <2>1. /\ at'[q] = at[q] /\ code'[q] = code[q] /\ stream'[q] = stream[q] /\ rst'[q] = rst[q]
        /\ q \in timers => q \in timers'
    BY <1>2 DEF TimesOut, Reset, Ends, Closing
  <2> HIDE DEF IInv, TypeOK
  <2> QED BY <1>0, <1>1, <2>1, LeftAlone
<1>3. CASE q = r
  <2> USE <1>1, <1>3 DEF Sound, StreamSound, ServerSound, EndSound, Coming, Ends, Closing, Open
  <2>1. CASE TimesOut(r)
    BY <2>1 DEF TimesOut
  <2>2. CASE Reset(r)
    BY <2>2 DEF Reset
  <2> QED BY <2>1, <2>2
<1> QED BY <1>2, <1>3

\* The next event of a stream.
LEMMA EventStep ==
    ASSUME IInv, NEW r \in Req, Event(r), NEW q \in Req
    PROVE  Sound(q)'
<1>0. Sound(q)
  BY DEF IInv
<1> USE DEF IInv, TypeOK, connection, call, server
<1>1. UNCHANGED <<at, code, kept, timers, requests, running, ran>>
  BY DEF Event
<1>2. CASE q # r
  <2>1. /\ stream'[q] = stream[q] /\ rst'[q] = rst[q] /\ status'[q] = status[q]
        /\ coming'[q] = coming[q] /\ (q \in got => q \in got')
    BY <1>2 DEF Event, Closing
  <2> HIDE DEF IInv, TypeOK
  <2> QED BY <1>0, <1>1, <2>1, LeftAlone
<1>3. CASE q = r
  <2>1. /\ stream[r] = "open" /\ coming[r] # <<>> /\ rst[r] = "none" /\ Coming(r) /\ Sound(r)
        /\ r \notin requests \cup running
    BY DEF Event, Sound, StreamSound, ServerSound
  <2>2. /\ coming'[r] = Tail(coming[r]) /\ status'[r] = After(status[r], Head(coming[r]))
        /\ r \in got' <=> r \in got \/ Head(coming[r]) = "message"
    BY DEF Event
  <2>3. /\ Head(coming[r]) # "end" => stream'[r] = "open" /\ rst'[r] = "none"
        /\ Head(coming[r]) = "end" => stream'[r] = "closing" /\ rst'[r] = "no_error"
    BY <2>1 DEF Event, Closing
  <2> DEFINE Good ==
        /\ stream'[r] = "open" => Coming(r)'
        /\ status'[r] = "ok" => ran[r] = 1
        /\ status'[r] = "ok" /\ rst'[r] = "no_error" => r \in got'
  <2> HIDE DEF IInv, TypeOK
  <2>4. status[r] = "ok" => ran[r] = 1
    BY <2>1 DEF Sound, EndSound
  <2>5. ASSUME coming[r] = <<"200", "message", "grpc-0", "end">> /\ status[r] = "unknown" /\ ran[r] = 1
       PROVE  Good
    <3>1. coming'[r] = <<"message", "grpc-0", "end">> /\ status'[r] = "ok" /\ rst'[r] = "none"
      BY <2>2, <2>3, <2>5, Parts DEF After, Mapped, AfterTrailers
    <3> QED BY <1>1, <2>4, <2>5, <3>1 DEF Coming
  <2>6. ASSUME coming[r] = <<"message", "grpc-0", "end">> /\ status[r] = "ok"
       PROVE  Good
    <3>1. coming'[r] = <<"grpc-0", "end">> /\ status'[r] = "ok" /\ r \in got' /\ rst'[r] = "none"
      BY <2>2, <2>3, <2>6, Parts DEF After, Mapped, AfterTrailers
    <3> QED BY <1>1, <2>4, <2>6, <3>1 DEF Coming
  <2>7. ASSUME coming[r] = <<"grpc-0", "end">> /\ status[r] = "ok" /\ r \in got
       PROVE  Good
    <3>1. coming'[r] = <<"end">> /\ status'[r] = "ok" /\ r \in got' /\ rst'[r] = "none"
      BY <2>2, <2>3, <2>7, Parts DEF After, Mapped, AfterTrailers
    <3> QED BY <1>1, <2>4, <2>7, <3>1 DEF Coming
  <2>8. ASSUME coming[r] = <<"end">> /\ status[r] = "ok" /\ r \in got
       PROVE  Good
    <3>1. stream'[r] = "closing" /\ status'[r] = status[r] /\ (r \in got => r \in got')
      BY <2>2, <2>3, <2>8, Parts DEF After, Mapped, AfterTrailers
    <3> QED BY <2>4, <2>8, <3>1
  <2>9. ASSUME coming[r] = <<"500", "grpc-2", "end">> /\ status[r] = "unknown"
       PROVE  Good
    <3>1. coming'[r] = <<"grpc-2", "end">> /\ status'[r] = "unknown" /\ rst'[r] = "none"
      BY <2>2, <2>3, <2>9, Parts DEF After, Mapped, AfterTrailers
    <3> QED BY <1>1, <2>4, <2>9, <3>1 DEF Coming
  <2>10. ASSUME coming[r] = <<"grpc-2", "end">> /\ status[r] = "unknown"
       PROVE  Good
    <3>1. coming'[r] = <<"end">> /\ status'[r] = "error" /\ rst'[r] = "none"
      BY <2>2, <2>3, <2>10, Parts DEF After, Mapped, AfterTrailers
    <3> QED BY <1>1, <2>4, <2>10, <3>1 DEF Coming
  <2>11. ASSUME coming[r] = <<"end">> /\ status[r] = "error"
       PROVE  Good
    <3>1. stream'[r] = "closing" /\ status'[r] = status[r] /\ (r \in got => r \in got')
      BY <2>2, <2>3, <2>11, Parts DEF After, Mapped, AfterTrailers
    <3> QED BY <2>4, <2>11, <3>1
  <2>12. Good
    BY <2>1, <2>5, <2>6, <2>7, <2>8, <2>9, <2>10, <2>11 DEF Coming
  <2> QED BY <1>1, <1>3, <2>1, <2>2, <2>3, <2>12 DEF Sound, StreamSound, ServerSound, EndSound
<1> QED BY <1>2, <1>3

\* A stream has closed.
LEMMA CloseStep ==
    ASSUME IInv, NEW r \in Req, StreamCloses(r), NEW q \in Req
    PROVE  Sound(q)'
<1>0. Sound(q)
  BY DEF IInv
<1> USE DEF IInv, TypeOK, connection, call, server
<1>1. UNCHANGED <<rst, status, got, requests, running, ran>>
  BY DEF StreamCloses
<1>2. CASE q # r
  <2>1. /\ at'[q] = at[q] /\ code'[q] = code[q] /\ (q \in timers => q \in timers')
    BY <1>2 DEF StreamCloses, Ends
  <2>2. /\ stream'[q] = stream[q] /\ coming'[q] = coming[q] /\ (q \in kept => q \in kept')
    BY <1>2 DEF StreamCloses
  <2> HIDE DEF IInv, TypeOK
  <2> QED BY <1>0, <1>1, <2>1, <2>2, LeftAlone
<1>3. CASE q = r
  <2>1. stream[r] = "closing" /\ stream'[r] = "closed" /\ coming'[r] = <<>> /\ Sound(r)
    BY DEF StreamCloses
  <2>2. at[r] \in {"sent", "ended"}
    BY <2>1 DEF Sound, StreamSound
  <2>3. at'[r] = "ended" /\ (code'[r] = code[r] \/ code'[r] # "00" \/ Succeeds(r))
    BY <2>2 DEF StreamCloses, Ends, Open
  <2> QED BY <1>1, <1>3, <2>1, <2>3 DEF Sound, StreamSound, ServerSound, EndSound, Succeeds
<1> QED BY <1>2, <1>3

\* The server's steps.
LEMMA ServerStep ==
    ASSUME IInv, NEW r \in Req, Handle(r) \/ Finish(r), NEW q \in Req
    PROVE  Sound(q)'
<1>0. Sound(q)
  BY DEF IInv
<1> USE DEF IInv, TypeOK, connection, call, server
<1>1. UNCHANGED <<at, code, stream, rst, status, got, kept, timers>>
  BY DEF Handle, Finish
<1>2. CASE q # r
  <2>1. /\ coming'[q] = coming[q] /\ ran'[q] = ran[q]
        /\ (q \in requests' => q \in requests) /\ (q \in running' => q \in running)
    BY <1>2 DEF Handle, Finish
  <2> HIDE DEF IInv, TypeOK
  <2> QED BY <1>0, <1>1, <2>1, LeftAlone
<1>3. CASE q = r
  <2> USE <1>1, <1>3 DEF Sound, StreamSound, ServerSound, EndSound, Coming
  <2>1. CASE Handle(r)
    BY <2>1 DEF Handle
  <2>2. CASE Finish(r)
    BY <2>2 DEF Finish
  <2> QED BY <2>1, <2>2
<1> QED BY <1>2, <1>3

\* The session's steps, and the client's close().
LEMMA SessionStep ==
    ASSUME IInv, NEW q \in Req,
           Connects \/ ConnectFails \/ Leaves \/ Left \/ Drops \/ SessionCloses
             \/ Close \/ CloseFails \/ ForceClose \/ UNCHANGED vars
    PROVE  Sound(q)'
<1>0. Sound(q)
  BY DEF IInv
<1> USE DEF IInv, TypeOK, connection, call, server
<1>1. CASE Connects \/ Leaves \/ Left \/ SessionCloses \/ Close \/ CloseFails \/ UNCHANGED vars
  <2>1. UNCHANGED <<call, server>>
    BY <1>1 DEF Connects, Leaves, Left, SessionCloses, Close, CloseFails, vars
  <2> HIDE DEF IInv, TypeOK
  <2> QED BY <1>0, <2>1, LeftAlone
<1>2. CASE ConnectFails
  <2>1. UNCHANGED <<stream, rst, status, got, kept, timers, server>>
    BY <1>2 DEF ConnectFails
  <2>2. /\ at[q] = "connecting" => at'[q] = "ended" /\ code'[q] = "04"
        /\ at[q] # "connecting" => at'[q] = at[q] /\ code'[q] = code[q]
    BY <1>2 DEF ConnectFails, ToldOfFailure
  <2> QED BY <2>1, <2>2 DEF Sound, StreamSound, ServerSound, EndSound, Coming
<1>3. CASE Drops
  <2>1. UNCHANGED <<at, code, status, got, kept, timers, server>>
    BY <1>3 DEF Drops
  <2>2. /\ stream[q] = "open" => stream'[q] = "closing" /\ rst'[q] = "cancel"
        /\ stream[q] # "open" => stream'[q] = stream[q] /\ rst'[q] = rst[q]
    BY <1>3 DEF Drops, Closing
  <2> QED BY <2>1, <2>2 DEF Sound, StreamSound, ServerSound, EndSound, Coming
<1>4. CASE ForceClose
  <2>1. UNCHANGED <<status, got, kept, server>>
    BY <1>4 DEF ForceClose
  <2>2. \/ /\ stream'[q] = "closing" /\ rst'[q] = "cancel" /\ stream[q] = "open"
        \/ /\ stream'[q] = stream[q] /\ rst'[q] = rst[q]
    BY <1>4 DEF ForceClose, Closing
  <2>3. \/ /\ at[q] = "sent" /\ at'[q] = "ended" /\ code'[q] = "02"
        \/ at'[q] = at[q] /\ code'[q] = code[q] /\ (at[q] = "sent" /\ q \in timers => q \in timers')
    BY <1>4 DEF ForceClose, Ends, Open
  <2> QED BY <2>1, <2>2, <2>3 DEF Sound, StreamSound, ServerSound, EndSound, Coming
<1> QED BY <1>1, <1>2, <1>3, <1>4

\* The inductive step.
LEMMA StepInvariant == IInv /\ [Next]_vars => IInv'
<1> SUFFICES ASSUME IInv, [Next]_vars PROVE IInv'
  OBVIOUS
<1>1. TypeOK'
  BY TypeStep DEF IInv
<1>2. ASSUME NEW q \in Req PROVE Sound(q)'
  BY BeginStep, CutStep, EventStep, CloseStep, ServerStep, SessionStep DEF Next
<1> QED BY <1>1, <1>2 DEF IInv

\* IInv holds in every reachable state.
THEOREM Invariance == Spec => []IInv
BY InitInvariant, StepInvariant, PTL DEF Spec

\* The types of the state of grpc/index.js and call_stream.js hold in every reachable
\* state.
THEOREM TypeCorrect == Spec => []TypeOK
<1>1. IInv => TypeOK
  BY DEF IInv
<1> QED BY Invariance, <1>1, PTL

\* Wherever a stream, its session or a timer cuts a call off, it succeeds only with its
\* whole message (call_stream.js:146-213).
THEOREM SuccessWithMessage == Spec => []SuccessIsWhole
<1>1. IInv => SuccessIsWhole
  BY DEF IInv, Sound, SuccessIsWhole
<1> QED BY Invariance, <1>1, PTL

\* A call that is out always has a timer and a place in _sentReqs (grpc/index.js:133-184).
THEOREM OutIsGuarded == Spec => []SentIsGuarded
<1>1. IInv => SentIsGuarded
  BY DEF IInv, Sound, SentIsGuarded
<1> QED BY Invariance, <1>1, PTL

\* The calls E end in this step, and those of G well.
Ending(E, G) ==
    /\ E \subseteq Req /\ G \subseteq E /\ UNCHANGED ran
    /\ \A r \in E : at[r] \in {"connecting", "sent"} /\ at'[r] = "ended"
    /\ \A r \in Req \ E : at'[r] = at[r] \/ (at[r] = "connecting" /\ at'[r] = "sent")
    /\ \A r \in Req : code'[r] = "00" <=> code[r] = "00" \/ r \in G
    /\ \A r \in G : ran[r] = 1

\* Calls that end are one step of Settlement, and so is a step in which none does.
LEMMA EndIsEnd == ASSUME NEW E, NEW G, Ending(E, G) PROVE Promise!Next
<1> USE DEF Ending
<1> DEFINE phase == [r \in Req |-> IF at[r] \in {"connecting", "sent"} THEN "called" ELSE at[r]]
           good  == {r \in Req : code[r] = "00"}
<1>1. \A r \in E : phase[r] = "called"
  OBVIOUS
<1>2. phase' = [r \in Req |-> IF r \in E THEN "ended" ELSE phase[r]]
  OBVIOUS
<1>3. good' = good \cup G
  OBVIOUS
<1>4. Promise!End(E, G)
  BY <1>1, <1>2, <1>3 DEF Promise!End
<1> QED BY <1>4 DEF Promise!Next

\* A call that begins is one step of Settlement, even when it ends at once.
LEMMA BeginIsCall ==
    ASSUME TypeOK, NEW r \in Req, at[r] = "idle", UNCHANGED ran,
           NEW place \in {"connecting", "sent", "ended"}, at' = [at EXCEPT ![r] = place],
           code[r] # "00",
           UNCHANGED code \/ \E c \in {"01", "02"} : code' = [code EXCEPT ![r] = c]
    PROVE  Promise!Next
<1> DEFINE phase == [q \in Req |-> IF at[q] \in {"connecting", "sent"} THEN "called" ELSE at[q]]
           good  == {q \in Req : code[q] = "00"}
<1>1. phase[r] = "idle"
  OBVIOUS
<1>2. \E p \in {"called", "ended"} : phase' = [phase EXCEPT ![r] = p]
  BY DEF TypeOK
<1>3. good' = good
  BY DEF TypeOK
<1>4. Promise!Call(r)
  BY <1>1, <1>2, <1>3 DEF Promise!Call
<1> QED BY <1>4 DEF Promise!Next

\* Every step is a step of Settlement or changes nothing there.
LEMMA StepSettles == IInv /\ [Next]_vars => [Promise!Next]_(Promise!vars)
<1> SUFFICES ASSUME IInv, [Next]_vars PROVE [Promise!Next]_(Promise!vars)
  OBVIOUS
<1>0. TypeOK /\ \A r \in Req : Sound(r)
  BY DEF IInv
<1> USE DEF connection, call, server
<1>1. CASE UNCHANGED <<at, code, ran>>
  BY <1>1 DEF Promise!vars
<1>2. ASSUME NEW r \in Req, Wait(r) \/ Refused(r) \/ Sends(r) \/ Throws(r) PROVE Promise!Next
  <2>1. at[r] \in {"idle", "connecting"} /\ code[r] = "none" /\ UNCHANGED ran
    BY <1>0, <1>2 DEF Wait, Refused, Sends, Throws, Begins, Turn, Sound, EndSound
  <2>2. \E place \in {"connecting", "sent", "ended"} : 
            /\ at' = [at EXCEPT ![r] = place]
            /\ place = "connecting" => at[r] = "idle"
            /\ IF place = "ended" THEN \E c \in {"01", "02"} : code' = [code EXCEPT ![r] = c]
               ELSE UNCHANGED code
    BY <1>2 DEF Wait, Refused, Sends, Throws, Begins
  <2>3. CASE at[r] = "idle"
    BY <1>0, <2>1, <2>2, <2>3, BeginIsCall
  <2>4. CASE at[r] = "connecting"
    <3>1. CASE at'[r] = "ended"
      <4>0. /\ \A q \in Req \ {r} : at'[q] = at[q]
            /\ \A q \in Req : code'[q] = "00" <=> code[q] = "00"
        BY <1>0, <2>1, <2>2 DEF TypeOK
      <4>1. Ending({r}, {})
        BY <2>1, <2>4, <3>1, <4>0 DEF Ending
      <4> QED BY <4>1, EndIsEnd
    <3>2. CASE at'[r] # "ended"
      <4>0. /\ \A q \in Req : at'[q] = at[q] \/ (at[q] = "connecting" /\ at'[q] = "sent")
            /\ UNCHANGED code
        BY <1>0, <2>1, <2>2, <2>4, <3>2 DEF TypeOK
      <4>1. Ending({}, {})
        BY <2>1, <4>0 DEF Ending
      <4> QED BY <4>1, EndIsEnd
    <3> QED BY <3>1, <3>2
  <2> QED BY <2>1, <2>3, <2>4
<1>3. ASSUME NEW E \in SUBSET Req, NEW c \in {"01", "02", "03"}, Ends(E, c), UNCHANGED ran
      PROVE  Promise!Next
  <2> DEFINE over == {r \in E : Open(r)}
  <2>0. /\ \A r \in over : at[r] = "sent" /\ at'[r] = "ended"
        /\ \A r \in Req \ over : at'[r] = at[r]
        /\ \A r \in Req : code'[r] = "00" <=> code[r] = "00"
    BY <1>0, <1>3 DEF Ends, Open, Sound, EndSound
  <2>1. Ending(over, {})
    BY <1>3, <2>0 DEF Ending
  <2> HIDE DEF over
  <2> QED BY <2>1, EndIsEnd
<1>4. ASSUME NEW r \in Req, TimesOut(r) \/ Reset(r) PROVE Promise!Next
  BY <1>3, <1>4 DEF TimesOut, Reset
<1>5. ASSUME NEW r \in Req, StreamCloses(r) PROVE Promise!Next
  <2>1. CASE Ends({r}, "02")
    BY <1>3, <1>5, <2>1 DEF StreamCloses
  <2>2. CASE Succeeds(r) /\ Ends({r}, "00")
    <3> DEFINE over == {q \in {r} : Open(q)}
    <3>1. ran[r] = 1 /\ UNCHANGED ran
      BY <1>0, <1>5, <2>2 DEF Sound, EndSound, Succeeds, StreamCloses
    <3>3. /\ \A q \in over : at[q] = "sent" /\ at'[q] = "ended"
          /\ \A q \in Req \ over : at'[q] = at[q]
          /\ \A q \in Req : code'[q] = "00" <=> code[q] = "00" \/ q \in over
      BY <2>2 DEF Ends, Open
    <3>2. Ending(over, over)
      BY <3>1, <3>3 DEF Ending
    <3> HIDE DEF over
    <3> QED BY <3>2, EndIsEnd
  <2>3. CASE Open(r) /\ at' = [at EXCEPT ![r] = "ended"] /\ code' = [code EXCEPT ![r] = "01"]
    <3>0. /\ \A q \in {r} : at[q] = "sent" /\ at'[q] = "ended"
          /\ \A q \in Req \ {r} : at'[q] = at[q]
          /\ \A q \in Req : code'[q] = "00" <=> code[q] = "00"
      BY <1>0, <2>3 DEF Open, TypeOK, Sound, EndSound
    <3>1. Ending({r}, {})
      BY <1>5, <3>0 DEF StreamCloses, Ending
    <3> QED BY <3>1, EndIsEnd
  <2> QED BY <1>5, <2>1, <2>2, <2>3 DEF StreamCloses
<1>6. ASSUME NEW r \in Req, Handle(r), ran' # ran PROVE Promise!Next
  <2>1. ran[r] = 0 /\ ran' = [ran EXCEPT ![r] = 1] /\ UNCHANGED <<at, code>>
    BY <1>0, <1>6 DEF Handle, Sound, ServerSound
  <2>2. at[r] \in {"sent", "ended"}
    BY <1>0, <1>6 DEF Handle, Sound, StreamSound, TypeOK
  <2>3. Promise!Run(r)
    BY <2>1, <2>2 DEF Promise!Run
  <2> QED BY <2>3 DEF Promise!Next
<1>7. CASE ConnectFails
  <2> DEFINE over == {r \in Req : at[r] = "connecting"}
  <2>0. /\ \A r \in over : at[r] = "connecting" /\ at'[r] = "ended"
        /\ \A r \in Req \ over : at'[r] = at[r]
        /\ \A r \in Req : code'[r] = "00" <=> code[r] = "00"
        /\ UNCHANGED ran
    BY <1>0, <1>7 DEF ConnectFails, ToldOfFailure, Sound, EndSound
  <2>1. Ending(over, {})
    BY <2>0 DEF Ending
  <2> HIDE DEF over
  <2> QED BY <2>1, EndIsEnd
<1>8. CASE ForceClose
  <2>1. PICK E \in SUBSET Req : Ends(E, "02") /\ UNCHANGED ran
    BY <1>0, <1>8 DEF ForceClose, TypeOK
  <2> QED BY <1>3, <2>1
<1>9. ASSUME NEW r \in Req, Handle(r), ran' = ran PROVE UNCHANGED <<at, code, ran>>
  BY <1>9 DEF Handle
<1>10. ASSUME NEW r \in Req, Event(r) \/ Finish(r) PROVE UNCHANGED <<at, code, ran>>
  BY <1>10 DEF Event, Finish
<1>11. CASE Connects \/ Leaves \/ Left \/ Drops \/ SessionCloses \/ Close \/ CloseFails \/ UNCHANGED vars
  BY <1>1, <1>11 DEF Connects, Leaves, Left, Drops, SessionCloses, Close, CloseFails, vars
<1> QED BY <1>1, <1>2, <1>4, <1>5, <1>6, <1>7, <1>8, <1>9, <1>10, <1>11 DEF Next

\* Over gRPC each call ends once, is run at most once and succeeds only if it was run:
\* the connection implements Settlement.
THEOREM ImplementsSettlement == Spec => SettlementSpec
<1>1. Init => Promise!Init
  BY DEF Init, Promise!Init
<1> QED BY <1>1, StepSettles, Invariance, PTL DEF Spec, SettlementSpec, Promise!Spec
=============================================================================
