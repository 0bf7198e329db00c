------------------------------- MODULE SortSearch -------------------------------
(****************************************************************************)
(* algo/sort.hpp, binary_search.hpp, distinct.hpp and shuffle.hpp, and the  *)
(* draws of math/distribution/probability.hpp.  A list is a function from   *)
(* 0 .. n - 1.  An item is a number of Digits digits to                     *)
(* the base Base (bytes in the source), and stands for an unsigned or a     *)
(* signed integer or for a float: a sign in the highest bit, a magnitude    *)
(* in the others.                                                           *)
(****************************************************************************)
EXTENDS Integers, Sequences, FiniteSets

CONSTANTS
    Base, Digits,
    Item,           \* the items that lists are made of
    MaxList         \* bound: the items of a list

ASSUME SortAssumption ==
    /\ Base \in {2^k : k \in 1 .. 8} /\ Digits \in Nat \ {0} /\ MaxList \in Nat
    /\ Item \subseteq 0 .. Base^Digits - 1

VARIABLES
    list,
    sorting         \* the last operation, its list, arguments and result

sortVars == <<list, sorting>>

Heap == INSTANCE HeapRoot

NoMatch == -1                               \* not_exist
Half    == Base \div 2
Digit(v, i) == (v \div Base^i) % Base
Size(r) == Cardinality(DOMAIN r)
Swapped(r, a, b) == [r EXCEPT ![a] = r[b], ![b] = r[a]]
Least(S) == CHOOSE x \in S : \A y \in S : x <= y

(* What an item of a type is worth: operator > on it                        *)
Worth(kind, v) ==
    LET negative == Digit(v, Digits - 1) >= Half
    IN  CASE kind = "unsigned" -> v
          [] kind = "signed"   -> IF negative THEN v - Base^Digits ELSE v
          [] kind = "float"    -> IF negative THEN -(v - Half * Base^(Digits - 1)) ELSE v

(* map: the bucket of an item by its digit i.  The highest digit of a float *)
(* is turned round where it is negative, whichever the direction; `flip` is *)
(* type_v, `des` is mode_v.                                                 *)
Bucket(kind, flip, des, i, v) ==
    LET d == Digit(v, i)
        e == IF flip THEN (d + Half) % Base ELSE d
    IN  CASE kind = "float" /\ i = Digits - 1 -> IF d >= Half THEN Base - 1 - d ELSE d + Half
          [] kind = "float" /\ i < Digits - 1 -> IF des THEN Base - 1 - d ELSE d
          [] OTHER -> IF des THEN Base - 1 - e ELSE e

RECURSIVE Permute(_, _, _, _, _, _, _), Radix(_, _, _, _, _, _, _), SortBuckets(_, _, _, _, _, _, _, _)

(* The loop that swaps every item into its bucket: next[b] is the first     *)
(* place of bucket b that is not filled, last[b] the place behind it, open  *)
(* the buckets that are not full.                                           *)
Permute(r, map, ofs, j, next, last, open) ==
    LET b     == map[r[j + ofs]]
        r1    == IF j /= next[b] THEN Swapped(r, j + ofs, next[b] + ofs) ELSE r
        next1 == [next EXCEPT ![b] = @ + 1]
        full  == next1[b] = last[b]
        open1 == IF full THEN open \ {b} ELSE open
    IN  IF open1 = {} THEN r1
        ELSE Permute(r1, map, ofs,
                     IF full THEN next1[Least(open1)] ELSE IF j /= next[b] THEN j ELSE j + 1,
                     next1, last, open1)

(* A mistake: the digits below are mapped as the highest one is.            *)
FlipBelow_Kept(kind, flip) == flip

(* type_v of the digits below, and whether two items are put downwards      *)
FlipBelow(kind, flip) == kind = "float" /\ flip
Pair(kind, flip, des) == IF kind = "float" /\ ~flip THEN ~des ELSE des

(* The buckets that are left, the part of the next one beginning at t       *)
SortBuckets(r, kind, flip, des, i, ofs, t, ends) ==
    LET b    == Least(DOMAIN ends)
        rest == [c \in DOMAIN ends \ {b} |-> ends[c]]
        n    == ends[b] - t
        a    == t + ofs
        down == kind = "float" /\ i = Digits - 1 /\ b < Half
        r1   == CASE n = 1 -> r
                  [] n = 2 -> IF (Worth(kind, r[a]) > Worth(kind, r[a + 1])) /= Pair(kind, flip, des)
                              THEN Swapped(r, a, a + 1) ELSE r
                  [] n > 2 -> IF down THEN Radix(r, kind, FALSE, ~des, i - 1, a, n)
                              ELSE Radix(r, kind, FlipBelow(kind, flip), des, i - 1, a, n)
    IN  IF ends = <<>> THEN r ELSE SortBuckets(r1, kind, flip, des, i, ofs, ends[b], rest)

(* radix_sort_core on the length items from ofs, by digit i and those below *)
Radix(r, kind, flip, des, i, ofs, length) ==
    LET map  == [v \in Item |-> Bucket(kind, flip, des, i, v)]
        used == {map[r[j + ofs]] : j \in 0 .. length - 1}
        UpTo(b) == Cardinality({j \in 0 .. length - 1 : map[r[j + ofs]] <= b})
        last == [b \in used |-> UpTo(b)]
        next == [b \in used |-> UpTo(b - 1)]
        r1   == Permute(r, map, ofs, 0, next, last, used)
    IN  IF i = 0 THEN r1 ELSE SortBuckets(r1, kind, flip, des, i, ofs, 0, last)

(* radix_asc and radix_des                                                  *)
RadixSorted(r, kind, des) == Radix(r, kind, kind /= "unsigned", des, Digits - 1, 0, Size(r))

(* sort::heap: a heap with the largest item first, then that item is put    *)
(* behind what is left of the heap                                          *)
HeapSorted(r) ==
    LET key == [v \in Item |-> -v]
        heap[i \in 0 .. Size(r)] ==
            IF i <= 1 THEN r ELSE Heap!PushCore(heap[i - 1], i - 1, heap[i - 1][i - 1], key)
        rest[i \in 0 .. Size(r)] ==
            IF i = 0 THEN heap[Size(r)]
            ELSE LET a == rest[i - 1]
                     n == Size(r) - i
                 IN  IF n = 0 THEN a ELSE [Heap!Pop(a, n + 1, key) EXCEPT ![n] = a[0]]
    IN  rest[Size(r)]

(* match_core: where value is, and the places of the next smaller and the   *)
(* next larger item where it is not there                                   *)
RECURSIVE Narrow(_, _, _, _, _, _)
Narrow(r, value, left, center, right, before) ==
    LET n    == Size(r)
        cmp  == r[center] - value
        last == r[before] - value
    IN  CASE left > right /\ last > 0 ->
               [match |-> NoMatch, greater |-> before, less |-> IF before > 0 THEN before - 1 ELSE NoMatch]
          [] left > right /\ last <= 0 ->
               [match |-> NoMatch, less |-> before, greater |-> IF before + 1 < n THEN before + 1 ELSE NoMatch]
          [] left <= right /\ cmp > 0 ->
               Narrow(r, value, left, (left + center - 1) \div 2, center - 1, center)
          [] left <= right /\ cmp < 0 ->
               Narrow(r, value, center + 1, (center + 1 + right) \div 2, right, center)
          [] left <= right /\ cmp = 0 -> [match |-> center, greater |-> NoMatch, less |-> NoMatch]

MatchCore(r, value)     == Narrow(r, value, 0, Size(r) \div 2, Size(r) - 1, 0)
Match(r, value)         == MatchCore(r, value).match
GreaterEquals(r, value) ==
    LET m == MatchCore(r, value) IN IF m.match = NoMatch THEN m.greater ELSE m.match
LessEquals(r, value)    ==
    LET m == MatchCore(r, value) IN IF m.match = NoMatch THEN m.less ELSE m.match

(* distinct: a map from each item to its number among the different ones    *)
Distinct(r) ==
    LET map[i \in 0 .. Size(r)] ==
            IF i = 0 THEN <<>>
            ELSE LET m == map[i - 1]
                     v == r[i - 1]
                 IN  IF v \in DOMAIN m THEN m
                     ELSE [w \in DOMAIN m \cup {v} |-> IF w = v THEN Cardinality(DOMAIN m) ELSE m[w]]
        m == map[Size(r)]
    IN  [k \in 0 .. Cardinality(DOMAIN m) - 1 |-> CHOOSE v \in DOMAIN m : m[v] = k]
(* probability: the shares as the last number of each item's interval, and  *)
(* the item that the number r is looked up as                               *)
Guide(shares) ==
    LET upto[i \in DOMAIN shares] == IF i = 0 THEN shares[0] - 1 ELSE upto[i - 1] + shares[i]
    IN  upto

Drawn(guide, r) == LessEquals(guide, r)
------------------------------------------------------------------------------
NotSorting == [op |-> "none"]
Lists == UNION {[0 .. n - 1 -> Item] : n \in 1 .. MaxList}

SortBecomes(op, arg, r) == list' = r /\ sorting' = [op |-> op, of |-> list, arg |-> arg, result |-> r]
Answers(op, arg, r) == UNCHANGED list /\ sorting' = [op |-> op, of |-> list, arg |-> arg, result |-> r]

SortHeap  == SortBecomes("heap", "unsigned", HeapSorted(list))
RadixAsc  == \E kind \in {"unsigned", "signed", "float"} : SortBecomes("asc", kind, RadixSorted(list, kind, FALSE))
RadixDes  == \E kind \in {"unsigned", "signed"} : SortBecomes("des", kind, RadixSorted(list, kind, TRUE))
Shuffle   == \E a, b \in DOMAIN list : SortBecomes("shuffle", <<a, b>>, Swapped(list, a, b))
MakeDistinct == Answers("distinct", <<>>, Distinct(list))
LookUp    ==
    /\ \A i \in DOMAIN list : i > 0 => list[i - 1] <= list[i]
    /\ \E v \in Item :
        \/ Answers("match", v, Match(list, v))
        \/ Answers("less_equals", v, LessEquals(list, v))
        \/ Answers("greater_equals", v, GreaterEquals(list, v))
Draw ==
    /\ \A i \in DOMAIN list : list[i] > 0
    /\ \E r \in 0 .. Guide(list)[Size(list) - 1] : Answers("draw", r, Drawn(Guide(list), r))
Done == sorting /= NotSorting /\ sorting' = NotSorting /\ UNCHANGED list

SortInit == list \in Lists /\ sorting = NotSorting
SortNext ==
    \/ sorting = NotSorting /\ \/ SortHeap \/ RadixAsc \/ RadixDes \/ Shuffle \/ MakeDistinct \/ LookUp \/ Draw
    \/ Done
SortSpec == SortInit /\ [][SortNext]_sortVars
------------------------------------------------------------------------------
SortTypeOK == list \in Lists

Times(r, v) == Cardinality({i \in DOMAIN r : r[i] = v})

(* Every sort keeps all the items and leaves them in the order of its type  *)
(* and direction; a search in an ascending list finds an item that fits,    *)
(* where there is one; distinct keeps one of each, in the order of their    *)
(* first places.  What a draw answers is SharesAsTold's.                    *)
SortExact ==
    LET old == sorting.of
        new == sorting.result
        v   == sorting.arg
        First(w) == Least({i \in DOMAIN old : old[i] = w})
    IN  /\ sorting.op \in {"heap", "asc", "des", "shuffle"} =>
             \A w \in Item : Times(new, w) = Times(old, w)
        /\ sorting.op \in {"heap", "asc"} =>
             \A i \in DOMAIN new : i > 0 => Worth(v, new[i - 1]) <= Worth(v, new[i])
        /\ sorting.op = "des" =>
             \A i \in DOMAIN new : i > 0 => Worth(v, new[i - 1]) >= Worth(v, new[i])
        /\ sorting.op = "match" =>
             IF \E i \in DOMAIN old : old[i] = v THEN old[new] = v ELSE new = NoMatch
        /\ sorting.op = "less_equals" =>
             IF \A i \in DOMAIN old : old[i] > v THEN new = NoMatch
             ELSE old[new] <= v /\ \A i \in DOMAIN old : old[i] <= v => old[i] <= old[new]
        /\ sorting.op = "greater_equals" =>
             IF \A i \in DOMAIN old : old[i] < v THEN new = NoMatch
             ELSE old[new] >= v /\ \A i \in DOMAIN old : old[i] >= v => old[i] >= old[new]
        /\ sorting.op = "distinct" =>
             /\ {new[k] : k \in DOMAIN new} = {old[i] : i \in DOMAIN old}
             /\ \A j, k \in DOMAIN new : j < k => First(new[j]) < First(new[k])

(* probability.hpp:99-102: an item's share of the sum of all shares is its  *)
(* probability, so as many numbers are looked up as item i as its share     *)
(* says.  The code does not keep this (117): less_equals looks for the      *)
(* bound below the number, the bounds are the ends of the intervals, so     *)
(* that the first item gets the second one's share, and the lowest numbers  *)
(* find no item at all.                                                     *)
SharesAsTold ==
    sorting.op = "draw" =>
        LET guide == Guide(sorting.of)
        IN  \A i \in DOMAIN guide :
                Cardinality({r \in 0 .. guide[Size(guide) - 1] : Drawn(guide, r) = i}) = sorting.of[i]
==============================================================================
