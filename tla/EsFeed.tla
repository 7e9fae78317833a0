------------------------------- MODULE EsFeed -------------------------------
(* What the MySQL -> Elasticsearch synchronisation promises, whatever the   *)
(* number of service processes, of overlapping tasks and of crashes: rows   *)
(* are handed to Elasticsearch in key order and without a hole.  A row may  *)
(* be handed over again (at-least-once), and a row that MySQL commits below *)
(* a key that is already there is not promised anything.                    *)
EXTENDS Integers

CONSTANT Key            \* values of the sync column (serialid or id)

VARIABLES source,       \* keys of the rows committed in the MySQL table
          late,         \* those committed below a key already committed
          handed        \* keys for which an index call has been issued

vars == <<source, late, handed>>

Init == source = {} /\ late = {} /\ handed = {}

\* A row appears upstream; it is late when a larger key is there already.
Commit(k) ==
    /\ k \in Key \ source
    /\ source' = source \cup {k}
    /\ late' = IF \E j \in source : j > k THEN late \cup {k} ELSE late
    /\ UNCHANGED handed

\* A batch leaves no row behind: every committed row below one of its rows is
\* in it, or has been handed over before, or was late.
Hand(rows) ==
    /\ rows \subseteq source
    /\ \A r \in rows : \A k \in source : k < r => k \in handed \cup rows \cup late
    /\ handed' = handed \cup rows
    /\ UNCHANGED <<source, late>>

Next == \/ \E k \in Key : Commit(k)
        \/ \E rows \in SUBSET source : Hand(rows)

Spec == Init /\ [][Next]_vars
=============================================================================
