------------------------------ MODULE IndexSystem ------------------------------
(****************************************************************************)
(* math/index_system.hpp: the intervals of indices that slices, views and   *)
(* removals take.  A negative index counts from the end, -1 being the place *)
(* after the last item; an interval runs downwards when its left end lies   *)
(* behind its right end, and an open end moves one step inwards.            *)
(****************************************************************************)
EXTENDS Integers, Sequences

Interval == {"cc", "co", "oc", "oo"}

(* xindex_rollback(length, index, +1)                                       *)
Rollback(n, index) == IF index < 0 THEN index + n + 1 ELSE index

(* normalize: the first and the last index                                  *)
Normalized(kind, l, r, n) ==
    LET a    == Rollback(n, l)
        b    == Rollback(n, r)
        step == IF a <= b THEN 1 ELSE -1
    IN  [left  |-> IF kind \in {"oc", "oo"} THEN a + step ELSE a,
         right |-> IF kind \in {"co", "oo"} THEN b - step ELSE b]

(* The indices from left to right, upwards or downwards                     *)
Run(i) ==
    IF i.left <= i.right THEN [k \in 1 .. i.right - i.left + 1 |-> i.left + k - 1]
                         ELSE [k \in 1 .. i.left - i.right + 1 |-> i.left - k + 1]

Inside(i, n) == i.left \in 0 .. n - 1 /\ i.right \in 0 .. n - 1

(* What an interval means: the indices it holds, by its ends alone          *)
Meant(kind, l, r, n) ==
    LET a == Rollback(n, l)
        b == Rollback(n, r)
    IN  {i \in 0 .. n : /\ (a <= i /\ i <= b) \/ (b <= i /\ i <= a)
                        /\ kind \in {"oc", "oo"} => i /= a
                        /\ kind \in {"co", "oo"} => i /= b}
==============================================================================
