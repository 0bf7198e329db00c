-------------------------------- MODULE VarArray --------------------------------
(****************************************************************************)
(* algo/mmu.hpp, var_array: an array that grows by pages, the first two of  *)
(* the initial length, every further one twice as long as the one before,   *)
(* so that no item ever moves; docker/private/page_array.hpp is a shell     *)
(* around it.  What is given back must be named with the size it was        *)
(* allocated with: the allocator finds its list by that size.               *)
(****************************************************************************)
EXTENDS Integers, Sequences, FiniteSets

CONSTANTS
    Initial,        \* values of initial_alloc_length, powers of two
    MaxLength,      \* bound: no push onto an array of so many items
    Missing         \* nullptr

ASSUME VarArrayAssumption ==
    Initial \subseteq {1, 2, 4, 8, 16} /\ MaxLength \in Nat

VARIABLES
    initial,        \* initial_alloc_length
    length,
    table,          \* the page table, <<>> where there is none; page n at n + 1
    misnamed,       \* history: something was freed with another size than it has
    fault           \* history: a call read or wrote through nullptr

arrayVars == <<initial, length, table, misnamed, fault>>

(* index_of_last_set, -1 for 0                                              *)
LastSet(n) == CHOOSE b \in -1 .. 64 :
                IF n = 0 THEN b = -1 ELSE b >= 0 /\ 2^b <= n /\ n < 2^(b + 1)
IsPower(n) == n = 0 \/ n = 2^LastSet(n)             \* (n & (n - 1)) == 0
AtLeast(n) == IF n > initial - 1 THEN n ELSE initial - 1

(* Mistakes, named after the definition they stand for.                     *)
SizeOfPage_Doubles(n) == initial * 2^n

(* The page of an index, its place there, and the length that `clear` and   *)
(* `pop` compute for a page                                                 *)
PageOf(index)   == LastSet(AtLeast(index)) - LastSet(initial - 1)
OffsetOf(index) == index % (IF index < initial THEN initial ELSE 2^LastSet(index))
SizeOfPage(n)   == IF n = 0 THEN initial ELSE initial * 2^(n - 1)

VarPage(size, item) == [size |-> size, at |-> [o \in 0 .. size - 1 |-> IF o = 0 THEN item ELSE Missing]]
WithPage(t, n, page) == [t EXCEPT ![n + 1] = page]
Access(index) == table[PageOf(index) + 1].at[OffsetOf(index)]

(* free(tab[n], size)                                                       *)
Named(n, size) == table[n + 1].size = size

ArrayInit ==
    /\ initial \in Initial /\ length = 0 /\ table = <<>>
    /\ misnamed = FALSE /\ fault = FALSE

(* Items are named by their index.  The table grows by two pages when an    *)
(* even page is needed; a page that is still there from before is not       *)
(* looked at, and the item is written through a pointer that is still null. *)
Push ==
    LET n    == PageOf(length)
        wide == IF n % 2 = 0 THEN Append(Append(SubSeq(table, 1, n), Missing), Missing) ELSE table
    IN  /\ length < MaxLength
        /\ length' = length + 1
        /\ IF length = 0 THEN table' = <<VarPage(initial, 0), Missing>> /\ UNCHANGED fault
           ELSE IF IsPower(length) /\ length >= initial
           THEN IF wide[n + 1] = Missing
                THEN table' = WithPage(wide, n, VarPage(length, length)) /\ UNCHANGED fault
                ELSE table' = wide /\ fault' = TRUE
           ELSE /\ table' = [table EXCEPT ![n + 1].at[OffsetOf(length)] = length]
                /\ UNCHANGED fault
        /\ UNCHANGED <<initial, misnamed>>

(* An even page is freed when its last item goes, and the page behind it    *)
(* with it if there is one; an odd page stays until then, the first two     *)
(* until the array is empty.                                                *)
Pop ==
    LET last  == length - 1
        n     == PageOf(last)
        taken == [table EXCEPT ![n + 1].at[OffsetOf(last)] = Missing]
    IN  /\ length > 0
        /\ length' = last
        /\ IF IsPower(last) /\ last >= initial * 2 /\ n % 2 = 0
           THEN /\ table' = SubSeq(taken, 1, n)
                /\ misnamed' = (misnamed \/ ~Named(n, last)
                                \/ (table[n + 2] # Missing /\ ~Named(n + 1, last * 2)))
                /\ UNCHANGED fault
           ELSE IF last = 0
           THEN /\ table' = <<>>
                /\ fault' = (table[2] = Missing)
                /\ misnamed' = (misnamed \/ ~Named(0, initial)
                                \/ (table[2] # Missing /\ ~Named(1, initial)))
           ELSE table' = taken /\ UNCHANGED <<misnamed, fault>>
        /\ UNCHANGED initial

(* clear(): the pages up to that of the last item, and one more if it is    *)
(* left behind it                                                           *)
ClearArray ==
    LET last  == PageOf(length - 1)
        freed == {n \in 0 .. Len(table) - 1 : n <= last \/ (last % 2 = 0 /\ n = last + 1)}
    IN  /\ length > 0
        /\ length' = 0
        /\ table' = IF \A n \in 0 .. Len(table) - 1 : n \in freed \/ table[n + 1] = Missing
                    THEN <<>> ELSE [n \in 1 .. Len(table) |-> IF n - 1 \in freed THEN Missing ELSE table[n]]
        /\ misnamed' = (misnamed \/ \E n \in freed :
                            table[n + 1] # Missing /\ ~Named(n, SizeOfPage(n)))
        /\ UNCHANGED <<initial, fault>>

ArrayNext == ~fault /\ (Push \/ Pop \/ ClearArray)

ArraySpec == ArrayInit /\ [][ArrayNext]_arrayVars
------------------------------------------------------------------------------
ArrayTypeOK ==
    /\ initial \in Initial /\ length \in 0 .. MaxLength
    /\ misnamed \in BOOLEAN /\ fault \in BOOLEAN
    /\ \A n \in DOMAIN table :
        table[n] # Missing => DOMAIN table[n].at = 0 .. table[n].size - 1

(* Up to the first call that goes through nullptr (ArrayUnbroken says when) *)
(* the index finds the item, inside its page, after any pushes, pops and    *)
(* clears; every page was given back with the size it has, and an empty     *)
(* array holds none.                                                        *)
ArrayExact ==
    ~fault =>
        /\ \A i \in 0 .. length - 1 :
              PageOf(i) < Len(table) /\ table[PageOf(i) + 1] # Missing /\ Access(i) = i
        /\ ~misnamed
        /\ length = 0 => table = <<>>

(* No push and no pop goes through nullptr.  The code does not keep this: a *)
(* push that needs an odd page a pop has left behind writes the item        *)
(* through a null pointer (217-223), and a pop of the last item frees the   *)
(* second page when it was never made (286).                                *)
ArrayUnbroken == ~fault

================================================================================
