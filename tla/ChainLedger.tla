----------------------------- MODULE ChainLedger -----------------------------
(***************************************************************************)
(* What the migration runner promises of a fleet one operator works on:    *)
(* each database stands at a position of one chain.  Its applied set grows *)
(* only by the least missing migration and shrinks only by the greatest    *)
(* applied one.                                                            *)
(***************************************************************************)
EXTENDS Naturals

CONSTANTS
    Databases,
    Chain       \* the numbers of the fleet chain

VARIABLE applied    \* per database: the migrations in effect

Init == applied = [d \in Databases |-> {}]

Push(d) ==
    \E m \in Chain \ applied[d] :
        /\ \A o \in Chain \ applied[d] : m <= o
        /\ applied' = [applied EXCEPT ![d] = @ \cup {m}]

Pop(d) ==
    \E m \in applied[d] :
        /\ \A o \in applied[d] : o <= m
        /\ applied' = [applied EXCEPT ![d] = @ \ {m}]

Next == \E d \in Databases : Push(d) \/ Pop(d)

Spec == Init /\ [][Next]_applied

\* Every database has a prefix of the chain: nothing below its head is missing.
IsPrefix == \A d \in Databases : \A m \in applied[d], o \in Chain : o < m => o \in applied[d]
=============================================================================
