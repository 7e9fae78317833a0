----------------------------- MODULE Admission ------------------------------
(* What a circuit breaker promises of the requests of its connection: a     *)
(* breaker that has opened lets one new request through, the test, and no    *)
(* other before it is closed or has opened again; it closes only as a        *)
(* request that was let through ends (sofarpc/lib/client/circuit_breaker.js). *)
CONSTANT Req   \* slots of concurrent requests

VARIABLES phase,  \* of the breaker
          out     \* requests let through and not ended

vars == <<phase, out>>

Init == phase = "CLOSED" /\ out = {}

LetThrough(r) ==
    /\ phase = "CLOSED" /\ r \notin out
    /\ out' = out \cup {r} /\ UNCHANGED phase

\* One request is let through to test the server.
Test(r) ==
    /\ phase = "OPEN" /\ r \notin out
    /\ out' = out \cup {r} /\ phase' = "HALF_OPEN"

\* The end of any request that is out may decide the test.
End(r) ==
    /\ r \in out /\ out' = out \ {r}
    /\ \/ UNCHANGED phase
       \/ phase = "HALF_OPEN" /\ phase' \in {"CLOSED", "OPEN"}

\* So may a refused request, which closes nothing.
Reopen == phase = "HALF_OPEN" /\ phase' = "OPEN" /\ UNCHANGED out

Trip == phase = "CLOSED" /\ phase' = "OPEN" /\ UNCHANGED out

\* Another connection has another breaker.
Renew == phase' = "CLOSED" /\ out' = {}

Next == \/ \E r \in Req : LetThrough(r) \/ Test(r) \/ End(r)
        \/ Reopen \/ Trip \/ Renew

Spec == Init /\ [][Next]_vars
=============================================================================
