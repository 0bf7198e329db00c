--------------------------- MODULE PolicyAdmission ---------------------------
(****************************************************************************)
(* What concurrency/lock/policy_barrier.hpp promises its users, without the *)
(* word of bits it is built from: a table when<op>::can<...>::concurrency<n>*)
(* says which operations may be entered while which others are running, and *)
(* how many threads may be inside one operation together.                   *)
(****************************************************************************)
EXTENDS Naturals, FiniteSets

CONSTANTS
    Thread,         \* the threads that use the barrier
    Op,             \* the operations named by the when<> clauses
    Share,          \* Share[op]: the list of when<op>::can<...>
    Concurrency,    \* Concurrency[op]: flow<...>::max_concurrency
    Outside         \* the value of inside[t] when t runs no operation

VARIABLE inside     \* inside[t]: the operation thread t is running

Runners(op) == {t \in Thread : inside[t] = op}

Init == inside = [t \in Thread |-> Outside]

(* A thread enters op only beside operations op shares with, and only while *)
(* op still has a free channel.                                             *)
Enter(t, op) ==
    /\ inside[t] = Outside
    /\ \A u \in Thread : inside[u] # Outside => inside[u] \in Share[op]
    /\ Cardinality(Runners(op)) < Concurrency[op]
    /\ inside' = [inside EXCEPT ![t] = op]

Leave(t) ==
    /\ inside[t] # Outside
    /\ inside' = [inside EXCEPT ![t] = Outside]

Next == \E t \in Thread : Leave(t) \/ \E op \in Op : Enter(t, op)

Spec == Init /\ [][Next]_inside
==============================================================================
