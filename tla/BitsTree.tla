------------------------------- MODULE BitsTree -------------------------------
(****************************************************************************)
(* utils/private/bits_indicator.hpp and adapter.bits_indicator.hpp: a bit   *)
(* map with levels of words above it; a bit of a level tells whether the    *)
(* word below it holds a bit.  The tree is searched from its top for the    *)
(* first or last bit, or from a boundary upwards and down again.            *)
(* `bit_map[i]` is level i, from the bits up, each word the set of its bits;    *)
(* `found` is the last question and its answer.                             *)
(****************************************************************************)
EXTENDS Integers, Sequences, FiniteSetsExt

CONSTANTS BitWidth,     \* bits of a word: bwidth
          TotalBits     \* the numbers of bits to make a tree for

ASSUME BitWidthAssumption == BitWidth \in Nat \ {0, 1} /\ TotalBits \subseteq Nat \ {0}

VARIABLES total, bit_map, found
bitsVars == <<total, bit_map, found>>

WordBits == 0 .. BitWidth - 1
NoBit == -1
NoSearch == [op |-> "none", at |-> 0, answer |-> NoBit, defined |-> TRUE]

(* level_lut: how many words a level has, until one is enough               *)
Words(n) == n \div BitWidth + (IF n % BitWidth /= 0 THEN 1 ELSE 0)
RECURSIVE LevelsOver(_)
LevelsOver(n) == IF Words(n) <= 1 THEN <<Words(n)>> ELSE <<Words(n)>> \o LevelsOver(Words(n))

Cleared(n) == [i \in DOMAIN LevelsOver(n) |-> [w \in 0 .. LevelsOver(n)[i] - 1 |-> {}]]
Height == Len(bit_map)

(* index_of_first_set, index_of_last_set of one word                        *)
Pick(last, word) == IF word = {} THEN NoBit ELSE IF last THEN Max(word) ELSE Min(word)

(* bmp_set of set: up while the word was empty before                       *)
RECURSIVE SetFrom(_, _, _)
SetFrom(b, i, index) ==
    LET j   == index \div BitWidth
        new == [b EXCEPT ![i][j] = @ \cup {index % BitWidth}]
    IN  IF b[i][j] /= {} \/ i = Len(b) THEN new ELSE SetFrom(new, i + 1, j)

(* A slip: reset tells the words above though another bit is left           *)
RECURSIVE ResetFrom_Always(_, _, _)
ResetFrom_Always(b, i, index) ==
    LET j   == index \div BitWidth
        new == [b EXCEPT ![i][j] = @ \ {index % BitWidth}]
    IN  IF i = Len(b) THEN new ELSE ResetFrom_Always(new, i + 1, j)

(* bmp_set of reset: up while the word is empty afterwards                  *)
RECURSIVE ResetFrom(_, _, _)
ResetFrom(b, i, index) ==
    LET j   == index \div BitWidth
        new == [b EXCEPT ![i][j] = @ \ {index % BitWidth}]
    IN  IF new[i][j] /= {} \/ i = Len(b) THEN new ELSE ResetFrom(new, i + 1, j)

(* bmp_find from the top                                                    *)
RECURSIVE Descend(_, _, _)
Descend(last, i, index) ==
    LET offset == Pick(last, bit_map[i][index])
    IN  IF offset = NoBit THEN NoBit
        ELSE IF i = 1 THEN index * BitWidth + offset ELSE Descend(last, i - 1, index * BitWidth + offset)

(* bmp_find from a boundary: the words of a level beside word w.  The mask  *)
(* of the word above is a shift by the whole width when nothing lies        *)
(* beside w in it: `wide` is what such a shift gives                        *)
Shifted(last, w) == IF last THEN BitWidth - (w % BitWidth) ELSE (w % BitWidth) + 1
Beside(last, w, wide) ==
    IF Shifted(last, w) = BitWidth THEN wide
    ELSE {k \in WordBits : IF last THEN k < w % BitWidth ELSE k > w % BitWidth}

RECURSIVE Climb(_, _, _, _)
Climb(last, i, w, wide) ==
    IF i = Height THEN NoBit
    ELSE LET r == Pick(last, bit_map[i + 1][w \div BitWidth] \cap Beside(last, w, wide))
         IN  IF r = NoBit THEN Climb(last, i + 1, w \div BitWidth, wide)
                          ELSE Descend(last, i, (w \div BitWidth) * BitWidth + r)

(* Whether every shift on the way up is by less than the width              *)
RECURSIVE ClimbDefined(_, _, _)
ClimbDefined(last, i, w) ==
    \/ i = Height
    \/ /\ Shifted(last, w) < BitWidth
       /\ \/ bit_map[i + 1][w \div BitWidth] \cap Beside(last, w, {}) /= {}
          \/ ClimbDefined(last, i + 1, w \div BitWidth)

NearWord(last, boundary) ==
    {k \in bit_map[1][boundary \div BitWidth] :
        IF last THEN k <= boundary % BitWidth ELSE k >= boundary % BitWidth}

BitsInit ==
    \E n \in TotalBits : total = n /\ bit_map = Cleared(n) /\ found = NoSearch

Bit == 0 .. total - 1

SetBit ==
    \E k \in Bit : bit_map' = SetFrom(bit_map, 1, k) /\ found' = NoSearch /\ UNCHANGED total

ResetBit ==
    \E k \in Bit : bit_map' = ResetFrom(bit_map, 1, k) /\ found' = NoSearch /\ UNCHANGED total

ClearBits == bit_map' = Cleared(total) /\ found' = NoSearch /\ UNCHANGED total

(* index_of_first_set(), index_of_last_set()                                *)
FindBit ==
    \E last \in BOOLEAN :
        /\ found' = [op |-> IF last THEN "last" ELSE "first", at |-> 0,
                     answer |-> Descend(last, Height, 0), defined |-> TRUE]
        /\ UNCHANGED <<total, bit_map>>

(* pop_first(), pop_last()                                                  *)
PopBit ==
    \E last \in BOOLEAN :
        LET index == Descend(last, Height, 0)
        IN  /\ bit_map' = IF index = NoBit THEN bit_map ELSE ResetFrom(bit_map, 1, index)
            /\ found' = [op |-> IF last THEN "pop_last" ELSE "pop_first", at |-> 0,
                         answer |-> index, defined |-> TRUE]
            /\ UNCHANGED total

(* index_of_first_set(start), index_of_last_set(end)                        *)
FindFrom ==
    \E last \in BOOLEAN, boundary \in 0 .. total, wide \in {{}, WordBits} :
        LET w    == boundary \div BitWidth
            near == Pick(last, NearWord(last, boundary))
        IN  /\ last => boundary < total
            /\ found' =
                 IF w >= LevelsOver(total)[1]
                 THEN [op |-> "first_from", at |-> boundary, answer |-> NoBit, defined |-> TRUE]
                 ELSE [op |-> IF last THEN "last_from" ELSE "first_from", at |-> boundary,
                       answer |-> IF near /= NoBit THEN w * BitWidth + near
                                                   ELSE Climb(last, 1, w, wide),
                       defined |-> near /= NoBit \/ ClimbDefined(last, 1, w)]
            /\ UNCHANGED <<total, bit_map>>

(* get(index)                                                               *)
GetBit ==
    \E k \in Bit :
        /\ found' = [op |-> "get", at |-> k, defined |-> TRUE,
                     answer |-> IF k % BitWidth \in bit_map[1][k \div BitWidth] THEN k ELSE NoBit]
        /\ UNCHANGED <<total, bit_map>>

BitsNext ==
    \/ SetBit
    \/ ResetBit
    \/ ClearBits
    \/ FindBit
    \/ PopBit
    \/ FindFrom
    \/ GetBit

BitsSpec == BitsInit /\ [][BitsNext]_bitsVars
------------------------------------------------------------------------------
BitsTypeOK ==
    /\ total \in TotalBits
    /\ \A i \in DOMAIN bit_map : bit_map[i] \in [0 .. LevelsOver(total)[i] - 1 -> SUBSET WordBits]
    /\ found.answer \in Bit \cup {NoBit}

(* The bits that are set.                                                   *)
BitsSet == {k \in Bit : k % BitWidth \in bit_map[1][k \div BitWidth]}

(* The answer that the set of bits gives.                                   *)
Expected ==
    CASE found.op \in {"first", "last"} -> Pick(found.op = "last", BitsSet)
      [] found.op = "first_from" -> Pick(FALSE, {k \in BitsSet : k >= found.at})
      [] found.op = "last_from"  -> Pick(TRUE, {k \in BitsSet : k <= found.at})
      [] found.op = "get" -> IF found.at \in BitsSet THEN found.at ELSE NoBit

(* Every bit of an upper level tells whether the word under it holds a bit, *)
(* and a search answers what the set of bits answers; what pop took is gone *)
(* and lay before (or behind) the bits that are left.  A search from a      *)
(* boundary whose way up shifts by a whole word (132) is left out of this:  *)
(* it is only said to answer a bit that is set, or none.                    *)
TreeExact ==
    /\ \A i \in 1 .. Height - 1 : \A w \in DOMAIN bit_map[i] :
           (bit_map[i][w] /= {}) <=> (w % BitWidth \in bit_map[i + 1][w \div BitWidth])
    /\ found.op \in {"first", "last", "first_from", "last_from", "get"} =>
           IF found.defined THEN found.answer = Expected
                            ELSE found.answer \in BitsSet \cup {NoBit}
    /\ found.op = "pop_first" => \A k \in BitsSet : found.answer < k
    /\ found.op = "pop_last"  => found.answer \notin BitsSet /\ \A k \in BitsSet : k < found.answer

(* A search from a boundary does not pass it, as its comment says.  The     *)
(* code does not keep this when the shift by a whole word (132) gives a     *)
(* mask of ones.                                                            *)
BoundaryKept ==
    /\ found.op = "first_from" => found.answer = NoBit \/ found.answer >= found.at
    /\ found.op = "last_from"  => found.answer <= found.at
==============================================================================
