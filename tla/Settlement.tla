----------------------------- MODULE Settlement -----------------------------
(* What a call through the RPC client promises, whichever transport carries  *)
(* it: it ends at most once, its method is run at most once, even after the  *)
(* caller has been told of a failure, and it succeeds only if it was run     *)
(* (sofarpc/lib/client/consumer.js, connection/rpc.js, connection/grpc).     *)
EXTENDS Naturals

CONSTANT Req   \* calls

VARIABLES phase,  \* of each call: idle, called or ended
          good,   \* calls that have succeeded
          ran     \* how often each call's method was run

vars == <<phase, good, ran>>

Init ==
    /\ phase = [r \in Req |-> "idle"] /\ good = {} /\ ran = [r \in Req |-> 0]

\* A call begins; it may end in the same step.
Call(r) ==
    /\ phase[r] = "idle"
    /\ \E p \in {"called", "ended"} : phase' = [phase EXCEPT ![r] = p]
    /\ UNCHANGED <<good, ran>>

Run(r) ==
    /\ phase[r] # "idle" /\ ran[r] = 0
    /\ ran' = [ran EXCEPT ![r] = 1]
    /\ UNCHANGED <<phase, good>>

\* Some calls end, and those of G succeed.
End(E, G) ==
    /\ \A r \in E : phase[r] = "called"
    /\ G \subseteq E /\ \A r \in G : ran[r] = 1
    /\ phase' = [r \in Req |-> IF r \in E THEN "ended" ELSE phase[r]]
    /\ good' = good \cup G
    /\ UNCHANGED ran

Next ==
    \/ \E r \in Req : Call(r) \/ Run(r)
    \/ \E E \in SUBSET Req : \E G \in SUBSET E : End(E, G)

Spec == Init /\ [][Next]_vars
=============================================================================
