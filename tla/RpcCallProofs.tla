--------------------------- MODULE RpcCallProofs ----------------------------
(* Proofs about RpcCall, for any number of calls and of connections: what the *)
(* manager knows, what a connection's breaker is worth, that close() cuts no  *)
(* call off, and that every step is a step of Settlement.                     *)
EXTENDS RpcCall, TLAPS

-----------------------------------------------------------------------------
(* The inductive invariant.                                                  *)

\* A call that has not gone out has left no trace; one that is handled has.
CallSound(r) ==
    /\ at[r] # "ended" => code[r] = "none"
    /\ at[r] \in {"idle", "connecting"} => ran[r] = 0 /\ r \notin requests \cup running
    /\ r \in requests => ran[r] = 0 /\ r \notin running
    /\ r \in running => ran[r] = 1
    /\ code[r] = "00" => ran[r] = 1

\* The server answers what it has run.
AnswersSound ==
    \A m \in answers : m.code \in {"00", "01"} /\ (m.code = "00" => ran[m.req] = 1)

\* Connections are numbered as they come; what ready() says follows the socket.
Ordered(k) ==
    /\ sock[k] = "none" => /\ \A j \in Conn : k <= j => sock[j] = "none"
                           /\ k \notin dead /\ cache # k /\ entry # k /\ breaker[k] = 0
    /\ sock[k] \in {"none", "connecting"} => ready[k] = "pending"
    /\ sock[k] = "up" => ready[k] = "ok"
    /\ sock[k] = "closed" => entry # k
    /\ sock[k] # "none" => breaker[k] \in 1..k

\* No connection before k has failed to connect.
NoFailure(k) == \A j \in Conn : j < k => ready[j] # "failed"

\* While none has failed, the connection that is not closed is the one the manager
\* knows, and the breaker in the cache is its own.
BreakerSound(k) ==
    NoFailure(k) /\ ready[k] # "failed" /\ sock[k] \in {"connecting", "up", "destroyed"}
        => /\ entry = k /\ cache = breaker[k] /\ breaker[k] \notin dead
           /\ \A j \in Conn : k < j => sock[j] = "none"

CacheSound == (\A j \in Conn : ready[j] # "failed") /\ entry = 0 => cache = 0

\* A connection that the client closes has calls until it is destroyed.
CloseSound(k) ==
    /\ sock[k] \in {"none", "connecting", "closed"} => Sent(k) = {}
    /\ sock[k] = "destroyed" /\ k \notin lost => Sent(k) = {} /\ (ready[k] = "ok" => closed)
    /\ k \in closing => closed /\ sock[k] \in {"up", "destroyed"}
    /\ k \in closing /\ sock[k] = "up" => awaited[k] = Sent(k)

IInv ==
    /\ TypeOK /\ LiveIsKnown /\ CacheSound /\ AnswersSound
    /\ \A r \in Req : CallSound(r)
    /\ \A k \in Conn : Ordered(k) /\ BreakerSound(k) /\ CloseSound(k)

-----------------------------------------------------------------------------
(* Types.                                                                    *)

USE BoundAssumption

LEMMA InitInvariant == Init => IInv
<1> SUFFICES ASSUME Init PROVE IInv
  OBVIOUS
<1>1. TypeOK
  BY DEF Init, TypeOK, Codes, Sent, Conn, Req
<1>2. LiveIsKnown /\ CacheSound /\ AnswersSound
  BY DEF Init, LiveIsKnown, CacheSound, AnswersSound
<1>3. \A r \in Req : CallSound(r)
  BY DEF Init, CallSound
<1>4. \A k \in Conn : Ordered(k) /\ BreakerSound(k) /\ CloseSound(k)
  BY DEF Init, Ordered, BreakerSound, CloseSound, Sent, Conn
<1> QED BY <1>1, <1>2, <1>3, <1>4 DEF IInv

\* Ends() keeps the types of what it changes.
LEMMA EndsTypes ==
    ASSUME TypeOK, NEW E, NEW c \in Codes, NEW place \in [Req -> {"idle", "connecting", "sent", "ended"}],
           Ends(E, c, place)
    PROVE  /\ at' \in [Req -> {"idle", "connecting", "sent", "ended"}]
           /\ code' \in [Req -> Codes \cup {"none"}]
BY DEF TypeOK, Ends

\* A call is settled.
LEMMA SettlesTypes ==
    ASSUME TypeOK, NEW r \in Req, NEW c \in Codes, Settles(r, c)
    PROVE  /\ at' \in [Req -> {"idle", "connecting", "sent", "ended"}]
           /\ code' \in [Req -> Codes \cup {"none"}]
           /\ sock' \in [Conn -> {"none", "connecting", "up", "destroyed", "closed"}]
           /\ awaited' \in [Conn -> SUBSET Req]
           /\ \A k \in Conn : awaited'[k] \subseteq Sent(k)'
<1>1. /\ at' \in [Req -> {"idle", "connecting", "sent", "ended"}]
      /\ code' \in [Req -> Codes \cup {"none"}]
  BY EndsTypes DEF Settles, TypeOK
<1>2. sock' \in [Conn -> {"none", "connecting", "up", "destroyed", "closed"}]
  BY DEF Settles, Drained, TypeOK
<1>3. awaited' = [k \in Conn |-> awaited[k] \ {r}] /\ UNCHANGED via
  BY DEF Settles, StillAwaited
<1>4. \A q \in Req \ {r} : at'[q] = at[q]
  BY DEF Settles, Ends
<1> QED BY <1>1, <1>2, <1>3, <1>4 DEF TypeOK, Sent

\* Calls go out.
LEMMA SendTypes ==
    ASSUME TypeOK, NEW R \in SUBSET Req, NEW k \in Conn, NEW refused \in SUBSET R,
           Send(R, k, refused), \A r \in R : at[r] # "sent"
    PROVE  /\ at' \in [Req -> {"idle", "connecting", "sent", "ended"}]
           /\ code' \in [Req -> Codes \cup {"none"}]
           /\ via' \in [Req -> Conn \cup {0}] /\ requests' \subseteq Req
           /\ \A j \in Conn : Sent(j) \subseteq Sent(j)'
<1> DEFINE place == [r \in Req |-> IF r \in R THEN "sent" ELSE at[r]]
<1>1. place \in [Req -> {"idle", "connecting", "sent", "ended"}]
  BY DEF TypeOK
<1>2. Ends(refused, "02", place)
  BY DEF Send
<1>3. /\ at' \in [Req -> {"idle", "connecting", "sent", "ended"}]
      /\ code' \in [Req -> Codes \cup {"none"}]
  <2> HIDE DEF place
  <2> QED BY <1>1, <1>2, EndsTypes DEF Codes
<1>4. via' \in [Req -> Conn \cup {0}] /\ requests' \subseteq Req
  BY DEF Send, TypeOK
<1>5. \A r \in Req \ R : at'[r] = at[r] /\ via'[r] = via[r]
  BY DEF Send, Ends
<1> QED BY <1>3, <1>4, <1>5 DEF Sent

\* What waits for a connection that closes or leaves is what it was.
LEMMA SentKept ==
    ASSUME TypeOK, UNCHANGED via, \A r \in Req : at[r] = "sent" => at'[r] = "sent",
           awaited' = awaited
    PROVE  \A k \in Conn : awaited'[k] \subseteq Sent(k)'
BY DEF TypeOK, Sent

\* Every step keeps the types.
LEMMA TypeStep == IInv /\ [Next]_vars => TypeOK'
<1> SUFFICES ASSUME IInv, TypeOK, [Next]_vars PROVE TypeOK'
  BY DEF IInv
<1> USE DEF client, breakers, calls, network, server, history
<1>1. ASSUME NEW r \in Req, NoProvider(r) PROVE TypeOK'
  <2>1. Ends({r}, "04", at) /\ at[r] = "idle" /\ "04" \in Codes /\ at \in [Req -> {"idle", "connecting", "sent", "ended"}]
    BY <1>1 DEF NoProvider, Begins, TypeOK, Codes
  <2>2. \A q \in Req : at[q] = "sent" => at'[q] = "sent"
    BY <2>1 DEF Ends
  <2> QED BY <1>1, <2>1, <2>2, EndsTypes, SentKept DEF NoProvider, TypeOK
<1>2. ASSUME NEW r \in Req, Reuse(r) PROVE TypeOK'
  <2>1. entry \in Conn /\ at[r] = "idle"
    BY <1>2 DEF Reuse, TypeOK, Begins
  <2>2. PICK refused \in SUBSET {r} : Send({r}, entry, refused)
    BY <1>2 DEF Reuse
  <2>3. /\ at' \in [Req -> {"idle", "connecting", "sent", "ended"}]
        /\ code' \in [Req -> Codes \cup {"none"}]
        /\ via' \in [Req -> Conn \cup {0}] /\ requests' \subseteq Req
        /\ \A j \in Conn : Sent(j) \subseteq Sent(j)'
    <3>1. {r} \in SUBSET Req /\ \A q \in {r} : at[q] # "sent"
      BY <2>1
    <3> QED BY <2>1, <2>2, <3>1, SendTypes
  <2> QED BY <1>2, <2>3 DEF Reuse, TypeOK
<1>3. ASSUME NEW r \in Req, Wait(r) PROVE TypeOK'
  BY <1>3 DEF Wait, Begins, TypeOK, Sent
<1>4. ASSUME NEW r \in Req, NEW k \in Conn, Create(r, k) PROVE TypeOK'
  <2>1. \A j \in Conn : Sent(j) \subseteq Sent(j)'
    BY <1>4 DEF Create, Begins, TypeOK, Sent
  <2>2. cache' \in Conn \cup {0} /\ breaker' \in [Conn -> Conn \cup {0}]
    BY <1>4 DEF Create, TypeOK
  <2>3. /\ sock' \in [Conn -> {"none", "connecting", "up", "destroyed", "closed"}]
        /\ at' \in [Req -> {"idle", "connecting", "sent", "ended"}]
        /\ via' \in [Req -> Conn \cup {0}] /\ entry' \in Conn \cup {0}
    BY <1>4 DEF Create, TypeOK
  <2> QED BY <1>4, <2>1, <2>2, <2>3 DEF Create, TypeOK
<1>5. ASSUME NEW r \in Req, TimesOut(r) PROVE TypeOK'
  <2>1. Settles(r, "03") /\ "03" \in Codes
    BY <1>5 DEF TimesOut, Codes
  <2> QED BY <1>5, <2>1, SettlesTypes DEF TimesOut, Settles, TypeOK
<1>6. ASSUME NEW m \in answers, Receive(m) PROVE TypeOK'
  <2>1. m.req \in Req /\ m.code \in Codes /\ answers' \subseteq answers
    BY <1>6 DEF Receive, TypeOK
  <2>2. CASE Settles(m.req, m.code)
    BY <1>6, <2>1, <2>2, SettlesTypes DEF Receive, Settles, TypeOK
  <2>3. CASE UNCHANGED <<client, breakers, calls>>
    BY <1>6, <2>1, <2>3, SentKept DEF Receive, TypeOK
  <2> QED BY <1>6, <2>2, <2>3 DEF Receive
<1>7. ASSUME NEW r \in Req, Handle(r) \/ Finish(r) PROVE TypeOK'
  <2>1. answers' \subseteq [req : Req, code : Codes] /\ ran' \in [Req -> Nat]
    BY <1>7 DEF Handle, Finish, Answered, TypeOK, Codes
  <2>2. running' \subseteq Req /\ requests' \subseteq Req
    BY <1>7 DEF Handle, Finish, TypeOK
  <2>3. UNCHANGED <<client, breakers, calls, listening, served, history>>
    BY <1>7 DEF Handle, Finish
  <2> QED BY <2>1, <2>2, <2>3, SentKept DEF TypeOK
<1>8. ASSUME NEW k \in Conn, Connects(k) PROVE TypeOK'
  <2>1. PICK refused \in SUBSET Waiting(k) : Send(Waiting(k), k, refused)
    BY <1>8 DEF Connects
  <2>2. /\ at' \in [Req -> {"idle", "connecting", "sent", "ended"}]
        /\ code' \in [Req -> Codes \cup {"none"}]
        /\ via' \in [Req -> Conn \cup {0}] /\ requests' \subseteq Req
        /\ \A j \in Conn : Sent(j) \subseteq Sent(j)'
    <3>1. Waiting(k) \in SUBSET Req /\ \A r \in Waiting(k) : at[r] # "sent"
      BY DEF Waiting
    <3> QED BY <2>1, <3>1, SendTypes
  <2>3. /\ sock' \in [Conn -> {"none", "connecting", "up", "destroyed", "closed"}]
        /\ ready' \in [Conn -> {"pending", "ok", "failed"}] /\ served' \subseteq Conn
    BY <1>8 DEF Connects, TypeOK
  <2> QED BY <1>8, <2>2, <2>3 DEF Connects, TypeOK
<1>9. ASSUME NEW k \in Conn, ConnectFails(k) PROVE TypeOK'
  <2>1. /\ Ends(Waiting(k), "04", at) /\ "04" \in Codes
        /\ at \in [Req -> {"idle", "connecting", "sent", "ended"}]
    BY <1>9 DEF ConnectFails, ToldOfFailure, TypeOK, Codes
  <2>2. /\ at' \in [Req -> {"idle", "connecting", "sent", "ended"}]
        /\ code' \in [Req -> Codes \cup {"none"}]
    BY <2>1, EndsTypes
  <2>3. \A q \in Req : at[q] = "sent" => at'[q] = "sent"
    BY <2>1 DEF Ends, Waiting
  <2>4. \A j \in Conn : awaited'[j] \subseteq Sent(j)'
    BY <1>9, <2>3, SentKept DEF ConnectFails
  <2> QED BY <1>9, <2>2, <2>4 DEF ConnectFails, TypeOK
<1>10. ASSUME NEW k \in Conn, Drops(k) PROVE TypeOK'
  <2>1. \A j \in Conn : awaited'[j] \subseteq Sent(j)'
    BY <1>10, SentKept DEF Drops
  <2> QED BY <1>10, <2>1 DEF Drops, TypeOK
<1>11. ASSUME NEW k \in Conn, Closes(k) PROVE TypeOK'
  <2>1. /\ Ends(Sent(k), "02", at) /\ "02" \in Codes
        /\ at \in [Req -> {"idle", "connecting", "sent", "ended"}]
    BY <1>11 DEF Closes, TypeOK, Codes
  <2>2. /\ at' \in [Req -> {"idle", "connecting", "sent", "ended"}]
        /\ code' \in [Req -> Codes \cup {"none"}]
    BY <2>1, EndsTypes
  <2>3. \A j \in Conn : awaited'[j] \subseteq Sent(j)'
    BY <1>11, <2>1 DEF Closes, Ends, Sent, TypeOK
  <2>4. breaker[k] \in Conn
    BY <1>11 DEF IInv, Ordered, Closes, Conn
  <2>5. dead' \subseteq Conn /\ cache' \in Conn \cup {0} /\ answers' \subseteq answers
    BY <1>11, <2>4 DEF Closes, CacheWithout, TypeOK
  <2> QED BY <1>11, <2>2, <2>3, <2>5 DEF Closes, TypeOK
<1>12. CASE ClientCloses
  <2>1. \A j \in Conn : Sent(j)' = Sent(j)
    BY <1>12 DEF ClientCloses, Sent
  <2>2. /\ sock' \in [Conn -> {"none", "connecting", "up", "destroyed", "closed"}]
        /\ awaited' \in [Conn -> SUBSET Req] /\ \A k \in Conn : awaited'[k] \subseteq Sent(k)
        /\ closing' \subseteq Conn
    BY <1>12 DEF ClientCloses, TypeOK, Sent
  <2> QED BY <1>12, <2>1, <2>2 DEF ClientCloses, TypeOK
<1>13. ASSUME NEW k \in Conn, IdleCloses(k) \/ ServerNotices(k) PROVE TypeOK'
  BY <1>13, SentKept DEF IdleCloses, ServerNotices, ServedOnly, TypeOK
<1>14. CASE ServerCloses
  BY <1>14, SentKept DEF ServerCloses, ServedOnly, TypeOK
<1>15. CASE UNCHANGED vars
  BY <1>15, SentKept DEF vars, TypeOK
<1> QED BY <1>1, <1>2, <1>3, <1>4, <1>5, <1>6, <1>7, <1>8, <1>9, <1>10, <1>11, <1>12, <1>13,
           <1>14, <1>15 DEF Next

-----------------------------------------------------------------------------
(* Calls.                                                                    *)

\* A call keeps what it is when a step leaves it alone.
LEMMA CallLeftAlone ==
    ASSUME NEW q \in Req, CallSound(q),
           at'[q] = at[q], code'[q] = code[q], ran'[q] = ran[q],
           q \in requests' => q \in requests, q \in running' => q \in running
    PROVE  CallSound(q)'
BY DEF CallSound

\* A call is settled; by a success only when its method was run.
LEMMA SettlesCall ==
    ASSUME IInv, NEW r \in Req, NEW c \in Codes, Settles(r, c), c = "00" => ran[r] = 1,
           at[r] \in {"sent", "ended"}, UNCHANGED <<requests, running, ran>>, NEW q \in Req
    PROVE  CallSound(q)'
<1>1. CallSound(q) /\ CallSound(r)
  BY DEF IInv
<1>2. CASE q # r
  <2>1. at'[q] = at[q] /\ code'[q] = code[q]
    BY <1>2 DEF Settles, Ends
  <2> QED BY <1>1, <2>1, CallLeftAlone
<1>3. CASE q = r
  <2>1. at'[r] = "ended" /\ code'[r] = c
    BY DEF Settles, Ends
  <2> QED BY <1>1, <1>3, <2>1 DEF CallSound
<1> QED BY <1>2, <1>3

\* Calls go out that have not yet.
LEMMA SendCall ==
    ASSUME IInv, NEW R \in SUBSET Req, NEW k \in Conn, NEW refused \in SUBSET R,
           Send(R, k, refused), \A r \in R : at[r] \in {"idle", "connecting"},
           UNCHANGED <<running, ran>>, NEW q \in Req
    PROVE  CallSound(q)'
<1>1. CallSound(q)
  BY DEF IInv
<1>2. CASE q \notin R
  <2>1. at'[q] = at[q] /\ code'[q] = code[q] /\ (q \in requests' => q \in requests)
    BY <1>2 DEF Send, Ends
  <2> QED BY <1>1, <2>1, CallLeftAlone
<1>3. CASE q \in R
  <2>1. \/ at'[q] = "sent" /\ code'[q] = code[q]
        \/ at'[q] = "ended" /\ code'[q] = "02"
    BY <1>3 DEF Send, Ends
  <2> QED BY <1>1, <1>3, <2>1 DEF CallSound
<1> QED BY <1>2, <1>3

\* Every step keeps what is known of calls.
LEMMA CallStep ==
    ASSUME IInv, [Next]_vars, NEW q \in Req
    PROVE  CallSound(q)'
<1> USE DEF client, breakers, calls, network, server, history
<1>0. TypeOK /\ CallSound(q) /\ \A r \in Req : CallSound(r)
  BY DEF IInv
<1>1. ASSUME NEW r \in Req, NoProvider(r) PROVE CallSound(q)'
  <2>1. /\ q = r => at'[q] = "ended" /\ code'[q] = "04"
        /\ q # r => at'[q] = at[q] /\ code'[q] = code[q]
        /\ UNCHANGED <<requests, running, ran>>
    BY <1>1 DEF NoProvider, Ends
  <2> QED BY <1>0, <2>1 DEF CallSound
<1>2. ASSUME NEW r \in Req, Reuse(r) PROVE CallSound(q)'
  <2>1. PICK refused \in SUBSET {r} : Send({r}, entry, refused)
    BY <1>2 DEF Reuse
  <2>2. entry \in Conn /\ {r} \in SUBSET Req /\ \A p \in {r} : at[p] \in {"idle", "connecting"}
    BY <1>0, <1>2 DEF Reuse, TypeOK, Begins
  <2>3. UNCHANGED <<running, ran>>
    BY <1>2 DEF Reuse
  <2> QED BY <2>1, <2>2, <2>3, SendCall
<1>3. ASSUME NEW r \in Req, Wait(r) \/ \E k \in Conn : Create(r, k) PROVE CallSound(q)'
  <2>1. /\ q = r => at[q] = "idle" /\ at'[q] = "connecting"
        /\ q # r => at'[q] = at[q]
        /\ UNCHANGED <<code, requests, running, ran>>
    BY <1>0, <1>3 DEF Wait, Create, Begins, TypeOK
  <2> QED BY <1>0, <2>1 DEF CallSound
<1>4. ASSUME NEW r \in Req, TimesOut(r) PROVE CallSound(q)'
  <2>1. /\ Settles(r, "03") /\ "03" \in Codes /\ at[r] \in {"sent", "ended"}
        /\ UNCHANGED <<requests, running, ran>>
    BY <1>4 DEF TimesOut, Codes
  <2> QED BY <2>1, SettlesCall
<1>5. ASSUME NEW m \in answers, Receive(m) PROVE CallSound(q)'
  <2>1. m.req \in Req /\ m.code \in Codes /\ (m.code = "00" => ran[m.req] = 1)
    BY <1>0 DEF IInv, TypeOK, AnswersSound
  <2>2. UNCHANGED <<requests, running, ran>>
    BY <1>5 DEF Receive
  <2>3. CASE Expected(m.req)
    <3>1. Settles(m.req, m.code) /\ at[m.req] \in {"sent", "ended"}
      BY <1>5, <2>3 DEF Receive, Expected
    <3> QED BY <2>1, <2>2, <3>1, SettlesCall
  <2>4. CASE ~Expected(m.req)
    BY <1>0, <1>5, <2>2, <2>4, CallLeftAlone DEF Receive
  <2> QED BY <2>3, <2>4
<1>6. ASSUME NEW r \in Req, Handle(r) PROVE CallSound(q)'
  <2>1. UNCHANGED <<at, code>> /\ requests' = requests \ {r} /\ r \in requests
    BY <1>6 DEF Handle
  <2>2. \/ UNCHANGED <<running, ran>>
        \/ running' = running \cup {r} /\ ran' = [ran EXCEPT ![r] = @ + 1]
    BY <1>6 DEF Handle
  <2> QED BY <1>0, <2>1, <2>2 DEF CallSound, TypeOK
<1>7. ASSUME NEW r \in Req, Finish(r) PROVE CallSound(q)'
  BY <1>0, <1>7, CallLeftAlone DEF Finish
<1>8. ASSUME NEW k \in Conn, Connects(k) PROVE CallSound(q)'
  <2>1. PICK refused \in SUBSET Waiting(k) : Send(Waiting(k), k, refused)
    BY <1>8 DEF Connects
  <2>2. /\ Waiting(k) \in SUBSET Req /\ \A p \in Waiting(k) : at[p] \in {"idle", "connecting"}
        /\ UNCHANGED <<running, ran>>
    BY <1>8 DEF Waiting, Connects
  <2> QED BY <2>1, <2>2, SendCall
<1>9. ASSUME NEW k \in Conn, ConnectFails(k) \/ Closes(k) PROVE CallSound(q)'
  <2>1. \/ at'[q] = at[q] /\ code'[q] = code[q]
        \/ at'[q] = "ended" /\ code'[q] \in {"02", "04"}
    BY <1>9 DEF ConnectFails, Closes, Ends
  <2>2. UNCHANGED <<requests, running, ran>>
    BY <1>9 DEF ConnectFails, Closes
  <2> QED BY <1>0, <2>1, <2>2 DEF CallSound
<1>10. ASSUME NEW k \in Conn, Drops(k) \/ IdleCloses(k) \/ ServerNotices(k) PROVE CallSound(q)'
  <2>1. UNCHANGED <<calls, running, ran>> /\ requests' \subseteq requests
    BY <1>10 DEF Drops, IdleCloses, ServerNotices, ServedOnly
  <2> QED BY <1>0, <2>1, CallLeftAlone
<1>11. CASE ClientCloses \/ ServerCloses \/ UNCHANGED vars
  <2>1. UNCHANGED <<calls, running, ran>> /\ requests' \subseteq requests
    BY <1>11 DEF ClientCloses, ServerCloses, ServedOnly, vars
  <2> QED BY <1>0, <2>1, CallLeftAlone
<1> QED BY <1>1, <1>2, <1>3, <1>4, <1>5, <1>6, <1>7, <1>8, <1>9, <1>10, <1>11 DEF Next

\* Every step keeps what is known of answers.
LEMMA AnswerStep == IInv /\ [Next]_vars => AnswersSound'
<1> SUFFICES ASSUME IInv, [Next]_vars PROVE AnswersSound'
  OBVIOUS
<1> USE DEF client, breakers, calls, network, server, history
<1>0. TypeOK /\ AnswersSound /\ \A r \in Req : CallSound(r)
  BY DEF IInv
<1>1. CASE answers' \subseteq answers /\ UNCHANGED ran
  BY <1>0, <1>1 DEF AnswersSound
<1>2. ASSUME NEW r \in Req, Handle(r) PROVE AnswersSound'
  <2>1. CASE UNCHANGED ran /\ answers' = Answered(r, "01")
    BY <1>0, <2>1 DEF AnswersSound, Answered
  <2>2. CASE ran' = [ran EXCEPT ![r] = @ + 1] /\ UNCHANGED answers
    <3>1. \A q \in Req : ran[q] = 1 => ran'[q] = 1
      BY <1>0, <1>2, <2>2 DEF CallSound, TypeOK, Handle
    <3> QED BY <1>0, <2>2, <3>1 DEF AnswersSound, TypeOK
  <2> QED BY <1>2, <2>1, <2>2 DEF Handle
<1>3. ASSUME NEW r \in Req, Finish(r) PROVE AnswersSound'
  <2>1. ran[r] = 1 /\ UNCHANGED ran
    BY <1>0, <1>3 DEF Finish, CallSound
  <2>2. answers' = answers \/ \E c \in {"00", "01"} : answers' = Answered(r, c)
    BY <1>3 DEF Finish
  <2> QED BY <1>0, <2>1, <2>2 DEF AnswersSound, Answered
<1>4. ASSUME NEW r \in Req, NoProvider(r) \/ Reuse(r) \/ Wait(r) \/ TimesOut(r) \/ \E k \in Conn : Create(r, k)
      PROVE  answers' \subseteq answers /\ UNCHANGED ran
  BY <1>4 DEF NoProvider, Reuse, Wait, TimesOut, Create
<1>5. ASSUME NEW k \in Conn, Connects(k) \/ ConnectFails(k) \/ Drops(k) \/ Closes(k) \/ IdleCloses(k) \/ ServerNotices(k)
      PROVE  answers' \subseteq answers /\ UNCHANGED ran
  BY <1>5 DEF Connects, ConnectFails, Drops, Closes, IdleCloses, ServerNotices
<1>6. ASSUME ClientCloses \/ ServerCloses \/ UNCHANGED vars \/ \E m \in answers : Receive(m)
      PROVE  answers' \subseteq answers /\ UNCHANGED ran
  BY <1>6 DEF ClientCloses, ServerCloses, vars, Receive
<1> QED BY <1>1, <1>2, <1>3, <1>4, <1>5, <1>6 DEF Next

-----------------------------------------------------------------------------
(* Connections and breakers.                                                 *)

\* What the manager knows and what the breakers are worth.
ConnSound ==
    /\ LiveIsKnown /\ CacheSound
    /\ \A k \in Conn : Ordered(k) /\ BreakerSound(k)

\* Sockets that only go down change nothing of it.
LEMMA GoingDown ==
    ASSUME IInv, UNCHANGED <<entry, ready, breakers, crossed>>,
           \A k \in Conn : \/ sock'[k] = sock[k]
                           \/ sock[k] \in {"connecting", "up", "destroyed"} /\ sock'[k] = "destroyed"
    PROVE  ConnSound'
<1> USE DEF breakers
<1>1. LiveIsKnown'
  BY DEF IInv, LiveIsKnown
<1>2. CacheSound'
  BY DEF IInv, CacheSound
<1>3. ASSUME NEW k \in Conn PROVE Ordered(k)'
  <2>1. Ordered(k)
    BY DEF IInv
  <2> QED BY <2>1 DEF Ordered
<1>4. ASSUME NEW k \in Conn PROVE BreakerSound(k)'
  <2>1. BreakerSound(k)
    BY DEF IInv
  <2>2. NoFailure(k)' <=> NoFailure(k)
    BY DEF NoFailure
  <2> QED BY <2>1, <2>2 DEF BreakerSound
<1> QED BY <1>1, <1>2, <1>3, <1>4 DEF ConnSound

\* A connection is made when the manager knows none.
LEMMA CreateConn ==
    ASSUME IInv, NEW r \in Req, NEW c \in Conn, Create(r, c)
    PROVE  ConnSound'
<1>0. /\ TypeOK /\ LiveIsKnown /\ CacheSound
      /\ \A k \in Conn : Ordered(k) /\ BreakerSound(k)
  BY DEF IInv
<1>1. /\ entry = 0 /\ sock[c] = "none" /\ entry' = c /\ sock' = [sock EXCEPT ![c] = "connecting"]
      /\ cache' = (IF cache = 0 THEN c ELSE cache) /\ breaker' = [breaker EXCEPT ![c] = cache']
      /\ UNCHANGED <<ready, dead, crossed>> /\ \A j \in 1..(c - 1) : sock[j] # "none"
  BY DEF Create, NoneKnown, history
<1>2. /\ \A k \in Conn : k # c => sock'[k] = sock[k] /\ breaker'[k] = breaker[k]
      /\ sock'[c] = "connecting" /\ breaker'[c] = cache'
  BY <1>0, <1>1 DEF TypeOK
<1>3. c \notin dead /\ cache # c /\ ready[c] = "pending" /\ \A j \in Conn : c <= j => sock[j] = "none"
  BY <1>0, <1>1 DEF Ordered
<1>4. cache' \in 1..c
  <2>1. CASE cache = 0
    BY <1>1, <2>1 DEF Conn
  <2>2. CASE cache # 0
    <3>1. cache \in Conn /\ sock[cache] # "none"
      BY <1>0, <2>2 DEF TypeOK, Ordered
    <3>2. cache < c
      BY <1>3, <3>1 DEF Conn
    <3> QED BY <1>1, <2>2, <3>1, <3>2 DEF Conn
  <2> QED BY <2>1, <2>2
<1>5. LiveIsKnown'
  BY <1>0, <1>1, <1>2 DEF LiveIsKnown, Conn
<1>6. CacheSound'
  BY <1>1 DEF CacheSound, Conn
<1>7. ASSUME NEW k \in Conn PROVE Ordered(k)'
  <2>1. CASE k = c
    BY <1>1, <1>2, <1>3, <1>4, <2>1 DEF Ordered
  <2>2. CASE k # c
    <3>1. sock[k] = "none" => c < k
      BY <1>1, <2>2 DEF Conn
    <3>2. sock[k] = "none" => \A j \in Conn : k <= j => sock'[j] = "none"
      BY <1>0, <1>2, <3>1 DEF Ordered, Conn
    <3>3. sock[k] = "none" => cache' # k
      BY <1>0, <1>1, <2>2 DEF Ordered
    <3> QED BY <1>0, <1>1, <1>2, <2>2, <3>2, <3>3 DEF Ordered
  <2> QED BY <2>1, <2>2
<1>8. ASSUME NEW k \in Conn PROVE BreakerSound(k)'
  <2>1. CASE k = c
    <3>1. ASSUME NoFailure(c) PROVE cache = 0
      <4>1. \A j \in Conn : ready[j] # "failed"
        <5>1. ASSUME NEW j \in Conn PROVE ready[j] # "failed"
          <6>1. CASE j < c
            BY <3>1, <6>1 DEF NoFailure
          <6>2. CASE c <= j
            BY <1>0, <1>3, <6>2 DEF Ordered
          <6> QED BY <6>1, <6>2 DEF Conn
        <5> QED BY <5>1
      <4> QED BY <1>0, <1>1, <4>1 DEF CacheSound
    <3>2. NoFailure(k)' => NoFailure(c)
      BY <1>1, <2>1 DEF NoFailure
    <3>3. \A j \in Conn : c < j => sock'[j] = "none"
      BY <1>2, <1>3 DEF Conn
    <3> QED BY <1>1, <1>2, <1>3, <2>1, <3>1, <3>2, <3>3 DEF BreakerSound
  <2>2. CASE k # c
    <3>1. NoFailure(k)' => NoFailure(k)
      BY <1>1 DEF NoFailure
    <3>2. entry # k
      BY <1>1 DEF Conn
    <3>3. BreakerSound(k)
      BY <1>0
    <3> QED BY <1>1, <1>2, <2>2, <3>1, <3>2, <3>3 DEF BreakerSound
  <2> QED BY <2>1, <2>2
<1> QED BY <1>5, <1>6, <1>7, <1>8 DEF ConnSound

\* A connection connects.
LEMMA ConnectsConn ==
    ASSUME IInv, NEW c \in Conn, Connects(c)
    PROVE  ConnSound'
<1>0. /\ TypeOK /\ LiveIsKnown /\ CacheSound
      /\ \A k \in Conn : Ordered(k) /\ BreakerSound(k)
  BY DEF IInv
<1>1. /\ sock[c] = "connecting" /\ sock'[c] = "up" /\ ready[c] = "pending" /\ ready'[c] = "ok"
      /\ \A k \in Conn : k # c => sock'[k] = sock[k] /\ ready'[k] = ready[k]
      /\ UNCHANGED <<entry, breaker, cache, dead, crossed>>
  BY <1>0 DEF Connects, TypeOK, Ordered, breakers, history
<1>2. LiveIsKnown'
  BY <1>0, <1>1 DEF LiveIsKnown
<1>3. CacheSound'
  BY <1>0, <1>1 DEF CacheSound
<1>4. ASSUME NEW k \in Conn PROVE Ordered(k)'
  BY <1>0, <1>1 DEF Ordered
<1>5. ASSUME NEW k \in Conn PROVE BreakerSound(k)'
  <2>1. NoFailure(k)' => NoFailure(k)
    BY <1>1 DEF NoFailure
  <2>2. BreakerSound(k)
    BY <1>0
  <2>3. \A j \in Conn : sock[j] = "none" => sock'[j] = "none"
    BY <1>1
  <2> QED BY <1>1, <2>1, <2>2, <2>3 DEF BreakerSound
<1> QED BY <1>2, <1>3, <1>4, <1>5 DEF ConnSound

\* A connection fails to connect.
LEMMA FailsConn ==
    ASSUME IInv, NEW c \in Conn, ConnectFails(c)
    PROVE  ConnSound'
<1>0. /\ TypeOK /\ LiveIsKnown /\ CacheSound
      /\ \A k \in Conn : Ordered(k) /\ BreakerSound(k)
  BY DEF IInv
<1>1. /\ sock[c] = "connecting" /\ sock'[c] = "destroyed" /\ ready'[c] = "failed"
      /\ \A k \in Conn : k # c => sock'[k] = sock[k] /\ ready'[k] = ready[k]
      /\ UNCHANGED <<breaker, cache, dead>> /\ entry' = 0
      /\ crossed' = (crossed \/ entry \notin {0, c})
  BY <1>0 DEF ConnectFails, TypeOK, breakers
<1>2. LiveIsKnown'
  BY <1>0, <1>1 DEF LiveIsKnown, Conn
<1>3. CacheSound'
  BY <1>1 DEF CacheSound
<1>4. ASSUME NEW k \in Conn PROVE Ordered(k)'
  BY <1>0, <1>1 DEF Ordered, Conn
<1>5. ASSUME NEW k \in Conn PROVE BreakerSound(k)'
  <2>1. CASE k = c
    BY <1>1, <2>1 DEF BreakerSound
  <2>2. CASE k # c /\ c < k
    BY <1>1, <2>2 DEF BreakerSound, NoFailure
  <2>3. CASE k < c
    <3>1. NoFailure(k)' => NoFailure(k)
      BY <1>1, <2>3 DEF NoFailure, Conn
    <3> QED BY <1>0, <1>1, <2>3, <3>1 DEF BreakerSound, Conn
  <2> QED BY <2>1, <2>2, <2>3 DEF Conn
<1> QED BY <1>2, <1>3, <1>4, <1>5 DEF ConnSound

\* A connection has closed.
LEMMA ClosesConn ==
    ASSUME IInv, NEW c \in Conn, Closes(c)
    PROVE  ConnSound'
<1>0. /\ TypeOK /\ LiveIsKnown /\ CacheSound
      /\ \A k \in Conn : Ordered(k) /\ BreakerSound(k)
  BY DEF IInv
<1>1. /\ sock[c] = "destroyed" /\ sock'[c] = "closed"
      /\ \A k \in Conn : k # c => sock'[k] = sock[k]
      /\ UNCHANGED <<breaker, ready>> /\ entry' = 0
      /\ dead' = dead \cup {breaker[c]} /\ cache' = (IF cache = breaker[c] THEN 0 ELSE cache)
      /\ crossed' = (crossed \/ entry \notin {0, c})
  BY <1>0 DEF Closes, CacheWithout, TypeOK
<1>2. LiveIsKnown'
  BY <1>0, <1>1 DEF LiveIsKnown, Conn
<1>3. CacheSound'
  <2>1. ASSUME \A j \in Conn : ready[j] # "failed" PROVE cache = breaker[c]
    BY <1>0, <1>1, <2>1 DEF BreakerSound, NoFailure
  <2> QED BY <1>1, <2>1 DEF CacheSound
<1>4. ASSUME NEW k \in Conn PROVE Ordered(k)'
  <2>1. breaker[c] \in 1..c
    BY <1>0, <1>1 DEF Ordered
  <2>2. sock[k] = "none" => c < k
    BY <1>0, <1>1 DEF Ordered, Conn
  <2>3. sock[k] = "none" => breaker[c] # k
    BY <2>1, <2>2 DEF Conn
  <2>4. k # 0
    BY DEF Conn
  <2>5. Ordered(k) /\ (sock[k] = "none" => k \notin dead' /\ cache' # k /\ entry' # k)
    BY <1>0, <1>1, <2>3, <2>4 DEF Ordered
  <2>6. sock[k] = "none" => \A j \in Conn : k <= j => sock'[j] = "none"
    BY <1>1, <2>2, <2>5 DEF Ordered, Conn
  <2> QED BY <1>1, <2>4, <2>5, <2>6 DEF Ordered
<1>5. ASSUME NEW k \in Conn PROVE BreakerSound(k)'
  <2>1. CASE k = c
    BY <1>1, <2>1 DEF BreakerSound
  <2>2. CASE k # c
    <3>1. SUFFICES ASSUME NoFailure(k), ready[k] # "failed", sock[k] \in {"connecting", "up", "destroyed"}
                   PROVE  FALSE
      BY <1>1, <2>2 DEF BreakerSound, NoFailure
    <3>2. CASE k < c
      BY <1>0, <1>1, <3>1, <3>2 DEF BreakerSound
    <3>3. CASE c < k
      <4>1. NoFailure(c) /\ ready[c] # "failed"
        BY <3>1, <3>3 DEF NoFailure, Conn
      <4> QED BY <1>0, <1>1, <3>1, <3>3, <4>1 DEF BreakerSound
    <3> QED BY <2>2, <3>2, <3>3 DEF Conn
  <2> QED BY <2>1, <2>2
<1> QED BY <1>2, <1>3, <1>4, <1>5 DEF ConnSound

\* Every step keeps it.
LEMMA ConnStep == IInv /\ [Next]_vars => ConnSound'
<1> SUFFICES ASSUME IInv, [Next]_vars PROVE ConnSound'
  OBVIOUS
<1> USE DEF client, breakers, history
<1>0. TypeOK /\ \A k \in Conn : Ordered(k)
  BY DEF IInv
<1>1. CASE UNCHANGED <<entry, sock, ready, breakers, crossed>>
  BY <1>1, GoingDown
<1>2. ASSUME NEW r \in Req, NEW c \in Codes, Settles(r, c), UNCHANGED history PROVE ConnSound'
  <2>1. \A k \in Conn : sock'[k] = sock[k] \/ (sock[k] = "up" /\ sock'[k] = "destroyed")
    BY <1>0, <1>2 DEF Settles, Drained, TypeOK
  <2> QED BY <1>2, <2>1, GoingDown DEF Settles
<1>3. ASSUME NEW r \in Req, TimesOut(r) PROVE ConnSound'
  BY <1>2, <1>3 DEF TimesOut, Codes
<1>4. ASSUME NEW m \in answers, Receive(m) PROVE ConnSound'
  BY <1>0, <1>1, <1>2, <1>4 DEF Receive, TypeOK
<1>5. ASSUME NEW k \in Conn, Drops(k) PROVE ConnSound'
  <2>1. \A j \in Conn : sock'[j] = sock[j] \/ (sock[j] = "up" /\ sock'[j] = "destroyed")
    BY <1>0, <1>5 DEF Drops, TypeOK
  <2> QED BY <1>5, <2>1, GoingDown DEF Drops
<1>6. CASE ClientCloses
  <2>1. \A j \in Conn : \/ sock'[j] = sock[j]
                        \/ j = entry /\ sock[j] # "closed" /\ sock'[j] = "destroyed"
    BY <1>0, <1>6 DEF ClientCloses, TypeOK
  <2>2. \A j \in Conn : j = entry => sock[j] # "none"
    BY <1>0 DEF Ordered
  <2>3. \A j \in Conn : sock[j] \in {"none", "connecting", "up", "destroyed", "closed"}
    BY <1>0 DEF TypeOK
  <2> QED BY <1>6, <2>1, <2>2, <2>3, GoingDown DEF ClientCloses
<1>7. ASSUME NEW r \in Req, NoProvider(r) \/ Reuse(r) \/ Wait(r) \/ Handle(r) \/ Finish(r)
      PROVE  UNCHANGED <<entry, sock, ready, breakers, crossed>>
  BY <1>7 DEF NoProvider, Reuse, Wait, Handle, Finish
<1>8. ASSUME NEW k \in Conn, IdleCloses(k) \/ ServerNotices(k)
      PROVE  UNCHANGED <<entry, sock, ready, breakers, crossed>>
  BY <1>8 DEF IdleCloses, ServerNotices
<1>9. ASSUME ServerCloses \/ UNCHANGED vars
      PROVE  UNCHANGED <<entry, sock, ready, breakers, crossed>>
  BY <1>9 DEF ServerCloses, vars
<1> QED BY <1>1, <1>3, <1>4, <1>5, <1>6, <1>7, <1>8, <1>9,
           CreateConn, ConnectsConn, FailsConn, ClosesConn DEF Next

-----------------------------------------------------------------------------
(* Closing.                                                                  *)

\* Where a step changes nothing of a connection, its calls are what they were.
LEMMA CloseLeftAlone ==
    ASSUME NEW k \in Conn, CloseSound(k), sock'[k] = sock[k], Sent(k)' = Sent(k),
           ready'[k] = ready[k], k \in lost => k \in lost', closed => closed',
           k \in closing' => k \in closing, awaited'[k] = awaited[k]
    PROVE  CloseSound(k)'
BY DEF CloseSound

\* A settled call is not awaited any more.
LEMMA SettlesClose ==
    ASSUME IInv, NEW r \in Req, NEW c \in Codes, Settles(r, c), at[r] = "sent",
           UNCHANGED history, NEW k \in Conn
    PROVE  CloseSound(k)'
<1>0. TypeOK /\ CloseSound(k) /\ Ordered(k)
  BY DEF IInv
<1>1. /\ Sent(k)' = Sent(k) \ {r} /\ awaited'[k] = awaited[k] \ {r}
      /\ UNCHANGED <<ready, closing, closed, lost>>
  <2>1. at'[r] = "ended" /\ \A q \in Req \ {r} : at'[q] = at[q]
    BY DEF Settles, Ends
  <2>2. UNCHANGED via
    BY DEF Settles
  <2>3. Sent(k)' = Sent(k) \ {r}
    BY <2>1, <2>2 DEF Sent
  <2> QED BY <2>3, <1>0 DEF Settles, StillAwaited, TypeOK, history
<1>2. \/ sock'[k] = sock[k]
      \/ sock[k] = "up" /\ k \in closing /\ awaited[k] \subseteq {r} /\ sock'[k] = "destroyed"
  BY <1>0 DEF Settles, Drained, AllOver, TypeOK
<1>3. CASE sock'[k] = sock[k]
  BY <1>0, <1>1, <1>3 DEF CloseSound
<1>4. CASE sock[k] = "up" /\ k \in closing /\ awaited[k] \subseteq {r} /\ sock'[k] = "destroyed"
  <2>1. closed /\ Sent(k)' = {}
    BY <1>0, <1>1, <1>4 DEF CloseSound
  <2> QED BY <1>1, <1>4, <2>1 DEF CloseSound
<1> QED BY <1>2, <1>3, <1>4

\* Calls go out over a connection that is up or has been lost.
LEMMA SendClose ==
    ASSUME IInv, NEW R \in SUBSET Req, NEW c \in Conn, NEW refused \in SUBSET R, Send(R, c, refused),
           \A r \in R : at[r] \in {"idle", "connecting"},
           NEW k \in Conn
    PROVE  k # c => Sent(k)' = Sent(k)
<1>1. \A q \in Req : q \notin R => at'[q] = at[q] /\ via'[q] = via[q]
  BY DEF Send, Ends
<1>2. \A q \in R : via'[q] = c /\ at[q] # "sent"
  BY DEF Send
<1> QED BY <1>1, <1>2 DEF Sent

\* Every step keeps what is known of closing.
LEMMA CloseStep ==
    ASSUME IInv, [Next]_vars, NEW k \in Conn
    PROVE  CloseSound(k)'
<1> USE DEF client, calls, server, history
<1>0. /\ TypeOK /\ CloseSound(k) /\ Ordered(k) /\ \A j \in Conn : CloseSound(j) /\ Ordered(j)
  BY DEF IInv
<1>1. CASE UNCHANGED <<sock, ready, awaited, closing, closed, calls, lost>>
  <2>1. Sent(k)' = Sent(k)
    BY <1>1 DEF Sent
  <2> QED BY <1>0, <1>1, <2>1, CloseLeftAlone
<1>2. ASSUME NEW r \in Req, NoProvider(r) \/ Wait(r) PROVE CloseSound(k)'
  <2>1. /\ UNCHANGED <<sock, ready, awaited, closing, closed, lost>>
        /\ Sent(k)' = Sent(k)
    BY <1>0, <1>2 DEF NoProvider, Wait, Begins, Ends, Sent, TypeOK
  <2> QED BY <1>0, <2>1, CloseLeftAlone
<1>3. ASSUME NEW r \in Req, Reuse(r) PROVE CloseSound(k)'
  <2>1. /\ entry \in Conn /\ ready[entry] = "ok" /\ ~closed /\ at[r] = "idle"
        /\ UNCHANGED <<sock, ready, awaited, closing, closed, lost>>
    BY <1>0, <1>3 DEF Reuse, TypeOK, Begins
  <2>2. k # entry => Sent(k)' = Sent(k)
    BY <1>3, <2>1, SendClose DEF Reuse
  <2>3. CASE k # entry
    BY <1>0, <2>1, <2>2, <2>3, CloseLeftAlone
  <2>4. CASE k = entry
    BY <1>0, <2>1, <2>4 DEF CloseSound, Ordered
  <2> QED BY <2>3, <2>4
<1>4. ASSUME NEW r \in Req, NEW c \in Conn, Create(r, c) PROVE CloseSound(k)'
  <2>1. /\ UNCHANGED <<ready, awaited, closing, closed, lost>> /\ sock[c] = "none"
        /\ sock' = [sock EXCEPT ![c] = "connecting"]
        /\ Sent(k)' = Sent(k)
    BY <1>0, <1>4 DEF Create, Begins, Sent, TypeOK
  <2> QED BY <1>0, <2>1 DEF CloseSound, TypeOK
<1>5. ASSUME NEW r \in Req, TimesOut(r) PROVE CloseSound(k)'
  BY <1>5, SettlesClose DEF TimesOut, Codes
<1>6. ASSUME NEW m \in answers, Receive(m) PROVE CloseSound(k)'
  <2>1. m.req \in Req /\ m.code \in Codes
    BY <1>0 DEF TypeOK
  <2> QED BY <1>1, <1>6, <2>1, SettlesClose DEF Receive, Expected
<1>7. ASSUME NEW c \in Conn, Connects(c) PROVE CloseSound(k)'
  <2>1. /\ sock[c] = "connecting" /\ sock' = [sock EXCEPT ![c] = "up"]
        /\ ready' = [ready EXCEPT ![c] = "ok"] /\ UNCHANGED <<awaited, closing, closed, lost>>
    BY <1>7 DEF Connects
  <2>2. k # c => Sent(k)' = Sent(k)
    <3>1. Waiting(c) \in SUBSET Req /\ \A r \in Waiting(c) : at[r] \in {"idle", "connecting"}
      BY DEF Waiting
    <3> QED BY <1>7, <3>1, SendClose DEF Connects
  <2>3. CASE k # c
    BY <1>0, <2>1, <2>2, <2>3, CloseLeftAlone DEF TypeOK
  <2>4. CASE k = c
    BY <1>0, <2>1, <2>4 DEF CloseSound, TypeOK
  <2> QED BY <2>3, <2>4
<1>8. ASSUME NEW c \in Conn, ConnectFails(c) PROVE CloseSound(k)'
  <2>1. /\ sock[c] = "connecting" /\ sock' = [sock EXCEPT ![c] = "destroyed"]
        /\ ready' = [ready EXCEPT ![c] = "failed"] /\ UNCHANGED <<awaited, closing, closed, lost>>
    BY <1>8 DEF ConnectFails
  <2>2. Sent(k)' = Sent(k)
    BY <1>8 DEF ConnectFails, ToldOfFailure, Waiting, Ends, Sent
  <2>3. CASE k # c
    BY <1>0, <2>1, <2>2, <2>3, CloseLeftAlone DEF TypeOK
  <2>4. CASE k = c
    BY <1>0, <2>1, <2>2, <2>4 DEF CloseSound, TypeOK
  <2> QED BY <2>3, <2>4
<1>9. ASSUME NEW c \in Conn, Drops(c) PROVE CloseSound(k)'
  <2>1. /\ sock[c] = "up" /\ sock' = [sock EXCEPT ![c] = "destroyed"] /\ lost' = lost \cup {c}
        /\ UNCHANGED <<ready, awaited, closing, closed, calls>>
    BY <1>9 DEF Drops
  <2>2. Sent(k)' = Sent(k)
    BY <2>1 DEF Sent
  <2> QED BY <1>0, <2>1, <2>2 DEF CloseSound, TypeOK
<1>10. ASSUME NEW c \in Conn, Closes(c) PROVE CloseSound(k)'
  <2>1. /\ sock' = [sock EXCEPT ![c] = "closed"] /\ closing' = closing \ {c}
        /\ awaited' = [awaited EXCEPT ![c] = {}] /\ UNCHANGED <<ready, closed, lost>>
    BY <1>10 DEF Closes
  <2>2. Sent(k)' = IF k = c THEN {} ELSE Sent(k)
    BY <1>10 DEF Closes, Ends, Sent
  <2> QED BY <1>0, <2>1, <2>2 DEF CloseSound, TypeOK
<1>11. CASE ClientCloses
  <2>1. UNCHANGED <<ready, calls, lost>> /\ closed' /\ Sent(k)' = Sent(k)
    BY <1>11 DEF ClientCloses, Sent
  <2>2. CASE k # entry
    <3>1. sock'[k] = sock[k] /\ awaited'[k] = awaited[k] /\ (k \in closing' => k \in closing)
      BY <1>0, <1>11, <2>2 DEF ClientCloses, TypeOK
    <3> QED BY <1>0, <2>1, <3>1, CloseLeftAlone
  <2>3. CASE k = entry
    <3>1. sock[k] \in {"connecting", "up", "destroyed"}
      BY <1>0, <2>3 DEF Ordered, TypeOK
    <3>2. /\ awaited'[k] = Sent(k)
          /\ sock'[k] = IF Sent(k) = {} THEN "destroyed" ELSE sock[k]
      BY <1>0, <1>11, <2>3, <3>1 DEF ClientCloses, TypeOK
    <3> QED BY <1>0, <2>1, <3>1, <3>2 DEF CloseSound
  <2> QED BY <2>2, <2>3
<1>12. ASSUME NEW r \in Req, Handle(r) \/ Finish(r)
       PROVE  UNCHANGED <<sock, ready, awaited, closing, closed, calls, lost>>
  BY <1>12 DEF Handle, Finish
<1>13. ASSUME NEW c \in Conn, IdleCloses(c) \/ ServerNotices(c)
       PROVE  UNCHANGED <<sock, ready, awaited, closing, closed, calls, lost>>
  BY <1>13 DEF IdleCloses, ServerNotices
<1>14. ASSUME ServerCloses \/ UNCHANGED vars
       PROVE  UNCHANGED <<sock, ready, awaited, closing, closed, calls, lost>>
  BY <1>14 DEF ServerCloses, vars
<1> QED BY <1>1, <1>2, <1>3, <1>4, <1>5, <1>6, <1>7, <1>8, <1>9, <1>10, <1>11, <1>12, <1>13,
           <1>14 DEF Next

-----------------------------------------------------------------------------
(* What holds in every reachable state.                                      *)

\* The inductive step.
LEMMA StepInvariant == IInv /\ [Next]_vars => IInv'
BY TypeStep, CallStep, AnswerStep, ConnStep, CloseStep DEF IInv, ConnSound

\* IInv holds in every reachable state.
THEOREM Invariance == Spec => []IInv
BY InitInvariant, StepInvariant, PTL DEF Spec

\* The types of the state of rpc.js and connection_mgr.js hold in every reachable state.
THEOREM TypeCorrect == Spec => []TypeOK
<1>1. IInv => TypeOK
  BY DEF IInv
<1> QED BY Invariance, <1>1, PTL

\* The manager knows every live connection until one that failed to connect, or closed
\* late, takes another's entry away (connection_mgr.js:64-90).
THEOREM LiveConnectionIsKnown == Spec => []LiveIsKnown
<1>1. IInv => LiveIsKnown
  BY DEF IInv
<1> QED BY Invariance, <1>1, PTL

\* The breaker of a live connection has not been stopped, unless an older connection to
\* the same host failed to connect (rpc.js:271-281).
THEOREM LiveConnectionCounts == Spec => []LiveHasBreaker
<1>1. IInv => LiveHasBreaker
  <2> SUFFICES ASSUME IInv, NEW k \in Conn, sock[k] \in {"connecting", "up"}, breaker[k] \in dead
               PROVE  \E j \in 1..(k - 1) : ready[j] = "failed"
    BY DEF LiveHasBreaker
  <2>1. ready[k] # "failed"
    BY DEF IInv, Ordered
  <2>2. ~NoFailure(k)
    BY <2>1 DEF IInv, BreakerSound
  <2> QED BY <2>2 DEF NoFailure, Conn
<1> QED BY Invariance, <1>1, PTL

\* The client's own close() cuts no call off (rpc.js:297-309).
THEOREM NoneCutOff == Spec => ClosesGracefully
<1>1. ASSUME IInv, [Next]_vars, NEW r \in Req, at[r] = "sent", at'[r] = "ended", code'[r] = "02"
      PROVE  via[r] \in lost
  <2> USE DEF client, breakers, calls, network, server, history
  <2>0. TypeOK /\ AnswersSound /\ \A k \in Conn : CloseSound(k)
    BY <1>1 DEF IInv
  <2>1. ASSUME NEW k \in Conn, Closes(k) PROVE via[r] \in lost
    <3>1. r \in Sent(k) /\ sock[k] = "destroyed"
      BY <1>1, <2>1 DEF Closes, Ends
    <3>2. via[r] = k /\ Sent(k) # {}
      BY <3>1 DEF Sent
    <3> QED BY <2>0, <3>1, <3>2 DEF CloseSound
  <2>2. ASSUME NEW q \in Req, NEW c \in {"00", "01", "03"}, Settles(q, c) PROVE FALSE
    BY <1>1, <2>2 DEF Settles, Ends
  <2>3. ASSUME NEW R \in SUBSET Req, NEW k \in Conn, NEW refused \in SUBSET R, Send(R, k, refused),
               r \notin R
        PROVE  FALSE
    BY <1>1, <2>3 DEF Send, Ends
  <2>4. ASSUME NEW q \in Req, NoProvider(q) \/ Wait(q) \/ TimesOut(q) \/ Handle(q) \/ Finish(q)
                                \/ \E k \in Conn : Create(q, k)
        PROVE  FALSE
    BY <1>1, <2>0, <2>2, <2>4 DEF NoProvider, Wait, TimesOut, Handle, Finish, Create, Begins, Ends, TypeOK
  <2>5. ASSUME NEW q \in Req, Reuse(q) PROVE FALSE
    <3>1. {q} \in SUBSET Req /\ entry \in Conn /\ r \notin {q}
      BY <1>1, <2>0, <2>5 DEF Reuse, Begins, TypeOK
    <3> QED BY <2>3, <2>5, <3>1 DEF Reuse
  <2>6. ASSUME NEW m \in answers, Receive(m) PROVE FALSE
    <3>1. m.req \in Req /\ m.code \in {"00", "01"}
      BY <2>0 DEF TypeOK, AnswersSound
    <3> QED BY <1>1, <2>2, <2>6, <3>1 DEF Receive
  <2>7. ASSUME NEW k \in Conn, Connects(k) PROVE FALSE
    <3>1. Waiting(k) \in SUBSET Req /\ r \notin Waiting(k)
      BY <1>1 DEF Waiting
    <3> QED BY <2>3, <2>7, <3>1 DEF Connects
  <2>8. ASSUME NEW k \in Conn, ConnectFails(k) \/ Drops(k) \/ IdleCloses(k) \/ ServerNotices(k)
        PROVE  FALSE
    BY <1>1, <2>8 DEF ConnectFails, ToldOfFailure, Waiting, Ends, Drops, IdleCloses, ServerNotices
  <2>9. CASE ClientCloses \/ ServerCloses \/ UNCHANGED vars
    BY <1>1, <2>9 DEF ClientCloses, ServerCloses, vars
  <2> QED BY <1>1, <2>1, <2>4, <2>5, <2>6, <2>7, <2>8, <2>9 DEF Next
<1>2. IInv /\ [Next]_vars =>
        [\A r \in Req : at[r] = "sent" /\ at'[r] = "ended" /\ code'[r] = "02"
                          => via[r] \in lost]_vars
  BY <1>1
<1> QED BY <1>2, Invariance, PTL DEF Spec, ClosesGracefully

-----------------------------------------------------------------------------
(* RpcCall implements Settlement.                                            *)

\* The calls E end in this step, and those of G well.
Ending(E, G) ==
    /\ E \subseteq Req /\ G \subseteq E /\ UNCHANGED ran
    /\ \A r \in E : at[r] \in {"connecting", "sent"} /\ at'[r] = "ended"
    /\ \A r \in Req \ E : at'[r] = at[r] \/ (at[r] = "connecting" /\ at'[r] = "sent")
    /\ \A r \in Req : code'[r] = "00" <=> code[r] = "00" \/ r \in G
    /\ \A r \in G : ran[r] = 1

\* Calls that end are one step of Settlement, and so is a step in which none does.
LEMMA EndIsEnd == ASSUME NEW E, NEW G, Ending(E, G) PROVE Promise!Next
<1> USE DEF Ending
<1> DEFINE phase == [r \in Req |-> IF at[r] \in {"connecting", "sent"} THEN "called" ELSE at[r]]
           good  == {r \in Req : code[r] = "00"}
<1>1. \A r \in E : phase[r] = "called"
  OBVIOUS
<1>2. phase' = [r \in Req |-> IF r \in E THEN "ended" ELSE phase[r]]
  OBVIOUS
<1>3. good' = good \cup G
  OBVIOUS
<1>4. Promise!End(E, G)
  BY <1>1, <1>2, <1>3 DEF Promise!End
<1> QED BY <1>4 DEF Promise!Next

\* A call that begins is one step of Settlement, even when it ends at once.
LEMMA BeginIsCall ==
    ASSUME TypeOK, NEW r \in Req, at[r] = "idle", UNCHANGED ran,
           NEW place \in {"connecting", "sent", "ended"}, at'[r] = place,
           at' \in [Req -> {"idle", "connecting", "sent", "ended"}],
           \A q \in Req \ {r} : at'[q] = at[q],
           \A q \in Req : code'[q] = "00" <=> code[q] = "00"
    PROVE  Promise!Next
<1> DEFINE phase == [q \in Req |-> IF at[q] \in {"connecting", "sent"} THEN "called" ELSE at[q]]
           good  == {q \in Req : code[q] = "00"}
<1>1. phase[r] = "idle"
  OBVIOUS
<1>2. \E p \in {"called", "ended"} : phase' = [phase EXCEPT ![r] = p]
  <2>1. CASE place = "ended"
    <3>1. phase' = [phase EXCEPT ![r] = "ended"]
      BY <2>1 DEF TypeOK
    <3> QED BY <3>1
  <2>2. CASE place # "ended"
    <3>1. phase' = [phase EXCEPT ![r] = "called"]
      BY <2>2 DEF TypeOK
    <3> QED BY <3>1
  <2> QED BY <2>1, <2>2
<1>3. good' = good
  BY DEF TypeOK
<1>4. Promise!Call(r)
  BY <1>1, <1>2, <1>3 DEF Promise!Call
<1> QED BY <1>4 DEF Promise!Next

\* Every step is a step of Settlement or changes nothing there.
LEMMA StepSettles == IInv /\ [Next]_vars => [Promise!Next]_(Promise!vars)
<1> SUFFICES ASSUME IInv, [Next]_vars PROVE [Promise!Next]_(Promise!vars)
  OBVIOUS
<1>0. TypeOK /\ TypeOK' /\ \A r \in Req : CallSound(r)
  BY TypeStep DEF IInv
<1> USE DEF client, breakers, calls, network, server, history
<1>1. CASE UNCHANGED <<at, code, ran>>
  BY <1>1 DEF Promise!vars
<1>2. ASSUME NEW r \in Req, NoProvider(r) \/ Reuse(r) \/ Wait(r) \/ \E k \in Conn : Create(r, k)
      PROVE  Promise!Next
  <2>1. at[r] = "idle" /\ UNCHANGED ran
    BY <1>2 DEF NoProvider, Reuse, Wait, Create, Begins
  <2>2. /\ at'[r] \in {"connecting", "sent", "ended"}
        /\ \A q \in Req \ {r} : at'[q] = at[q]
    BY <1>0, <1>2 DEF NoProvider, Reuse, Wait, Create, Ends, Send, TypeOK
  <2>3. \A q \in Req : code'[q] = "00" <=> code[q] = "00"
    BY <1>0, <1>2, <2>1 DEF NoProvider, Reuse, Wait, Create, Ends, Send, CallSound
  <2> QED BY <1>0, <2>1, <2>2, <2>3, BeginIsCall DEF TypeOK
<1>3. ASSUME NEW r \in Req, NEW c \in Codes, Settles(r, c), at[r] = "sent", UNCHANGED ran,
             c = "00" => ran[r] = 1
      PROVE  Promise!Next
  <2>1. /\ at'[r] = "ended" /\ code'[r] = c
        /\ \A q \in Req \ {r} : at'[q] = at[q] /\ code'[q] = code[q]
    BY <1>3 DEF Settles, Ends
  <2>2. code[r] # "00"
    BY <1>0, <1>3 DEF CallSound
  <2>3. CASE c = "00"
    <3>1. Ending({r}, {r})
      BY <1>3, <2>1, <2>2, <2>3 DEF Ending
    <3> QED BY <3>1, EndIsEnd
  <2>4. CASE c # "00"
    <3>1. Ending({r}, {})
      BY <1>3, <2>1, <2>2, <2>4 DEF Ending
    <3> QED BY <3>1, EndIsEnd
  <2> QED BY <2>3, <2>4
<1>4. ASSUME NEW r \in Req, TimesOut(r) PROVE Promise!Next
  BY <1>3, <1>4 DEF TimesOut, Codes
<1>5. ASSUME NEW m \in answers, Receive(m) PROVE Promise!Next
  <2>1. m.req \in Req /\ m.code \in Codes /\ (m.code = "00" => ran[m.req] = 1) /\ UNCHANGED ran
    BY <1>5 DEF IInv, TypeOK, AnswersSound, Receive
  <2>2. CASE Expected(m.req)
    BY <1>3, <1>5, <2>1, <2>2 DEF Receive, Expected
  <2>3. CASE ~Expected(m.req)
    <3>1. Ending({}, {})
      BY <1>5, <2>1, <2>3 DEF Receive, Ending
    <3> QED BY <3>1, EndIsEnd
  <2> QED BY <2>2, <2>3
<1>6. ASSUME NEW r \in Req, Handle(r) PROVE Promise!Next \/ UNCHANGED <<at, code, ran>>
  <2>1. UNCHANGED <<at, code>> /\ r \in requests
    BY <1>6 DEF Handle
  <2>2. ran[r] = 0 /\ at[r] \in {"sent", "ended"}
    BY <1>0, <2>1 DEF CallSound, TypeOK
  <2>3. CASE ran' = [ran EXCEPT ![r] = @ + 1]
    <3>1. ran' = [ran EXCEPT ![r] = 1]
      BY <1>0, <2>2, <2>3
    <3>2. Promise!Run(r)
      BY <2>1, <2>2, <3>1 DEF Promise!Run
    <3> QED BY <3>2 DEF Promise!Next
  <2>4. CASE UNCHANGED ran
    BY <2>1, <2>4
  <2> QED BY <1>6, <2>3, <2>4 DEF Handle
<1>7. ASSUME NEW k \in Conn, Connects(k) PROVE Promise!Next
  <2>1. PICK refused \in SUBSET Waiting(k) : Send(Waiting(k), k, refused)
    BY <1>7 DEF Connects
  <2>2. /\ \A r \in refused : at[r] = "connecting" /\ at'[r] = "ended"
        /\ \A r \in Req \ refused : at'[r] = at[r] \/ (at[r] = "connecting" /\ at'[r] = "sent")
    BY <2>1 DEF Send, Ends, Waiting
  <2>3. \A r \in Req : code'[r] = "00" <=> code[r] = "00"
    BY <1>0, <2>1, <2>2 DEF Send, Ends, CallSound
  <2>4. UNCHANGED ran /\ refused \subseteq Req
    BY <1>7 DEF Connects, Waiting
  <2>5. Ending(refused, {})
    BY <2>2, <2>3, <2>4 DEF Ending
  <2> QED BY <2>5, EndIsEnd
<1>8. ASSUME NEW k \in Conn, ConnectFails(k) \/ Closes(k) PROVE Promise!Next
  <2>1. PICK E \in {Waiting(k), Sent(k)}, c \in {"02", "04"} : Ends(E, c, at)
    BY <1>8 DEF ConnectFails, ToldOfFailure, Closes
  <2>2. UNCHANGED ran /\ E \subseteq Req /\ \A r \in E : at[r] \in {"connecting", "sent"}
    BY <1>8 DEF ConnectFails, Closes, Waiting, Sent
  <2>3. /\ \A r \in E : at'[r] = "ended"
        /\ \A r \in Req \ E : at'[r] = at[r]
    BY <2>1, <2>2 DEF Ends
  <2>4. \A r \in Req : code'[r] = "00" <=> code[r] = "00"
    BY <1>0, <2>1, <2>2 DEF Ends, CallSound
  <2>5. Ending(E, {})
    BY <2>2, <2>3, <2>4 DEF Ending
  <2> QED BY <2>5, EndIsEnd
<1>9. ASSUME NEW r \in Req, Finish(r) PROVE UNCHANGED <<at, code, ran>>
  BY <1>9 DEF Finish
<1>10. ASSUME NEW k \in Conn, Drops(k) \/ IdleCloses(k) \/ ServerNotices(k)
       PROVE  UNCHANGED <<at, code, ran>>
  BY <1>10 DEF Drops, IdleCloses, ServerNotices
<1>11. ASSUME ClientCloses \/ ServerCloses \/ UNCHANGED vars
       PROVE  UNCHANGED <<at, code, ran>>
  BY <1>11 DEF ClientCloses, ServerCloses, vars
<1> QED BY <1>1, <1>2, <1>4, <1>5, <1>6, <1>7, <1>8, <1>9, <1>10, <1>11 DEF Next

\* Over bolt each call ends once, is run at most once and succeeds only if it was run:
\* consumer, connection and server together implement Settlement.
THEOREM ImplementsSettlement == Spec => SettlementSpec
<1>1. Init => Promise!Init
  BY DEF Init, Promise!Init
<1> QED BY <1>1, StepSettles, Invariance, PTL DEF Spec, SettlementSpec, Promise!Spec
=============================================================================
