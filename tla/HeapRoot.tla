------------------------------ MODULE HeapRoot ------------------------------
(****************************************************************************)
(* algo/heap_root.hpp: the operations of a binary heap, as operators on     *)
(* arrays.  An array is a function from 0 .. n - 1; `key` orders its items  *)
(* as the compare function does, which returns 0 for equal ones (:49).      *)
(****************************************************************************)
EXTENDS Integers, FiniteSets

Parent(i) == (i - 1) \div 2
LeftOf(i) == 2 * i + 1

Compare(key, l, r) == IF key[l] > key[r] THEN 1 ELSE IF key[l] < key[r] THEN -1 ELSE 0

(* the indexes from the root to i                                           *)
RootPath(i) ==
    LET path[j \in Nat] == IF j = 0 THEN {0} ELSE {j} \cup path[Parent(j)] IN path[i]

Largest(S) == CHOOSE i \in S : \A j \in S : j <= i
Smallest(S) == CHOOSE i \in S : \A j \in S : i <= j

(* push_core goes up from `length` until it meets an item that is not       *)
(* larger than value; what it passes moves down.                            *)
PushEnd(a, length, value, key) ==
    Largest({i \in RootPath(length) : i = 0 \/ Compare(key, a[Parent(i)], value) <= 0})

PushPath(a, length, value, key) ==
    {i \in RootPath(length) : i >= PushEnd(a, length, value, key)}

PushCore(a, length, value, key) ==
    LET path == PushPath(a, length, value, key)
    IN  [i \in DOMAIN a \cup {length} |->
            IF i \notin path THEN a[i]
            ELSE IF i = PushEnd(a, length, value, key) THEN value
            ELSE a[Parent(i)]]

(* pop_core goes down to i from its parent: i is the smaller child, and     *)
(* smaller than value.                                                      *)
GoesDown(a, length, i, value, key) ==
    LET left == LeftOf(Parent(i))
    IN  /\ i < length /\ Compare(key, a[i], value) < 0
        /\ left + 1 < length =>
            i = IF Compare(key, a[left], a[left + 1]) > 0 THEN left + 1 ELSE left

PopPath(a, length, index, value, key) ==
    {i \in index .. length - 1 :
        /\ index \in RootPath(i)
        /\ \A j \in RootPath(i) : j > index => GoesDown(a, length, j, value, key)}

PopEnd(a, length, index, value, key) ==
    Largest(PopPath(a, length, index, value, key))

(* pop_core: smaller children move up, value takes the place of the last    *)
PopCore(a, length, index, value, key) ==
    LET path == PopPath(a, length, index, value, key)
    IN  [i \in DOMAIN a |->
            IF i \notin path THEN a[i]
            ELSE IF i = PopEnd(a, length, index, value, key) THEN value
            ELSE a[Smallest({j \in path : j > i})]]

(* pop: the last item fills the place of the first                          *)
Pop(a, length, key) == PopCore(a, length, 0, a[length - 1], key)

(* A mistake: pop_core alone, what fills the hole never moves up.           *)
PopByIndex_NeverUp(a, length, index, value, key) == PopCore(a, length, index, value, key)

(* pop_by_index: value fills the hole, and where it is smaller than         *)
(* seq[index >> 1] it moves up from there.                                  *)
GoesUp(b, index, key) == Compare(key, b[index], b[index \div 2]) < 0

PopByIndex(a, length, index, value, key) ==
    LET b == PopCore(a, length, index, value, key)
    IN  IF GoesUp(b, index, key) THEN PushCore(b, index, b[index], key) ELSE b
-----------------------------------------------------------------------------
HeapOrdered(a, length, key) ==
    \A i \in 1 .. length - 1 : key[a[Parent(i)]] <= key[a[i]]
=============================================================================
