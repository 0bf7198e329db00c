----------------------------- MODULE RtosMemory -----------------------------
(****************************************************************************)
(* extern/rtos/memory.hpp: the allocator for microcontrollers.  Pages are   *)
(* mounted by the program and stay.  As in PageHeap a bitmap marks the ends *)
(* of the blocks in use and free blocks carry their length at both ends,    *)
(* but there are two levels of lists: level 0 has one list per length, level*)
(* 1 one per SlotCount lengths.  One task at a time is inside (critical).   *)
(****************************************************************************)
EXTENDS Integers, SequencesExt

CONSTANTS
    Region,         \* memory that the program may mount as pages
    RegionBlocks,   \* page_header::blocks, the units (size_one) of a page
    SlotCount,          \* max_slot: 64 in the source
    Request         \* the lengths, in units, that the program asks for

ASSUME RegionAssumption ==
    /\ SlotCount \in Nat \ {0} /\ RegionBlocks \in 1 .. SlotCount * SlotCount
    /\ Request \subseteq 1 .. RegionBlocks

VARIABLES
    mounted,        \* page_list
    ends,           \* ends[p]: the bits set in bmp_area
    tags,           \* tags[p][u]: node_plus::blocks where it is stored in unit u
    slot,           \* free_list_array; area says which are not empty
    taken,          \* the blocks handed out: <<page, first unit, length>>
    mistaken        \* history: alloc has handed out a block that does not fit

rtosVars == <<mounted, ends, tags, slot, taken, mistaken>>

RtosUnit == 0 .. RegionBlocks - 1
Edge     == {-1, RegionBlocks}
SlotId   == {0, 1} \X (0 .. SlotCount - 1)

RtosInit ==
    /\ mounted = {}
    /\ ends = [p \in Region |-> {}]
    /\ tags = [p \in Region |-> [u \in RtosUnit |-> 0]]
    /\ slot = [s \in SlotId |-> <<>>]
    /\ taken = {}
    /\ mistaken = FALSE

(* put_back and remove: the list of the free blocks of a length             *)
SlotOf(length) ==
    IF length - 1 < SlotCount THEN <<0, length - 1>> ELSE <<1, (length - 2) \div SlotCount>>

(* Mistakes, each named after the definition it stands for.                 *)
Rest_OneLong(p, u, real, length) ==
    IF real > length + 1 THEN <<p, u + length, real - length>> ELSE <<p, u, 0>>

FreeRightOf_WithTag(p, u) ==
    IF u \in ends[p] THEN 0 ELSE IF u + 1 \in ends[p] THEN 1 ELSE tags[p][u + 1] - 1

SetTags_HeadOnly(t, u, length) == IF length <= 1 THEN t ELSE [t EXCEPT ![u + 1] = length]

SetTags(t, u, length) ==
    IF length <= 1 THEN t ELSE [t EXCEPT ![u + 1] = length, ![u + length - 1] = length]

(* what the user may write into a block in use is not a length              *)
Scribble(t, u, length) ==
    [x \in RtosUnit |-> IF x \in u .. u + length - 1 THEN 0 ELSE t[x]]

FileFree(lists, p, u, length) == [lists EXCEPT ![SlotOf(length)] = Append(@, <<p, u>>)]
Unfile(lists, p, u, length) ==
    IF length = 0 THEN lists ELSE [lists EXCEPT ![SlotOf(length)] =
        LET at == {i \in DOMAIN @ : @[i] = <<p, u>>}
        IN  [i \in 1 .. Len(@) - Cardinality(at) |-> IF \E j \in at : j <= i THEN @[i + 1] ELSE @[i]]]

(* mount: the sentinels, and the page as one free block                     *)
Mount(p) ==
    /\ p \notin mounted
    /\ mounted' = mounted \cup {p}
    /\ ends' = [ends EXCEPT ![p] = Edge]
    /\ slot' = FileFree(slot, p, 0, RegionBlocks)
    /\ tags' = [tags EXCEPT ![p] = SetTags(@, 0, RegionBlocks)]
    /\ UNCHANGED <<taken, mistaken>>

(* the lists of a level that alloc looks at for a length                    *)
Fitting(level, length) ==
    LET from == IF level = 0 THEN length - 1 ELSE (length - 1) \div SlotCount
    IN  {i \in from .. SlotCount - 1 : slot[<<level, i>>] # <<>>}

(* the free block that take_out puts back, with length 0 if there is none   *)
Rest(p, u, real, length) ==
    IF real > length THEN <<p, u + length, real - length>> ELSE <<p, u, 0>>

MarkInUse(p, u, length) == [ends EXCEPT ![p] = @ \cup {u, u + length - 1}]
MarkFree(p, u, length)  == [ends EXCEPT ![p] = @ \ {u, u + length - 1}]

(* What alloc does not look at: the length of the first block of the list s.*)
(* It may be less than was asked for, as a list of level 1 holds blocks of  *)
(* several lengths (line 258); and if one unit was asked for and the block  *)
(* is longer, the rest is lost (line 393).                                  *)
FirstLength(s) == IF s = <<0, 0>> THEN 1 ELSE tags[Head(slot[s])[1]][Head(slot[s])[2] + 1]
Misfit(s, length) == FirstLength(s) < length \/ (length = 1 /\ FirstLength(s) > 1)

(* take_out: the first block of a list; the front is handed out, the rest   *)
(* put back.                                                                *)
RtosTakeOut(s, length) ==
    LET p    == Head(slot[s])[1]
        u    == Head(slot[s])[2]
        real == IF length = 1 THEN 1 ELSE tags[p][u + 1]
        rest == Rest(p, u, real, length)
        less == [slot EXCEPT ![s] = Tail(@)]
        used == Scribble(tags[p], u, length)
    IN  /\ taken' = taken \cup {<<p, u, length>>}
        /\ ends' = MarkInUse(p, u, length)
        /\ slot' = IF rest[3] = 0 THEN less ELSE FileFree(less, p, rest[2], rest[3])
        /\ tags' = [tags EXCEPT ![p] = SetTags(used, rest[2], rest[3])]
        /\ mistaken' = Misfit(s, length)
        /\ UNCHANGED mounted

(* alloc: from level 0 if it has a block, otherwise from level 1            *)
Take(length) ==
    LET level == IF Fitting(0, length) # {} THEN 0 ELSE 1
        fit   == Fitting(level, length)
    IN  \E k \in fit : (\A j \in fit : k <= j) /\ RtosTakeOut(<<level, k>>, length)

(* left_free_block_of and right_free_block_of: lengths, 0 if there is none  *)
FreeLeftOf(p, u) ==
    IF u - 1 \in ends[p] THEN 0 ELSE IF u - 2 \in ends[p] THEN 1 ELSE tags[p][u - 1]

FreeRightOf(p, u) ==
    IF u \in ends[p] THEN 0 ELSE IF u + 1 \in ends[p] THEN 1 ELSE tags[p][u + 1]

(* free: merges with both neighbours, and files the result                  *)
GiveBack(p, u, length) ==
    LET left  == FreeLeftOf(p, u)
        right == FreeRightOf(p, u + length)
        size  == left + length + right
    IN  /\ <<p, u, length>> \in taken
        /\ taken' = taken \ {<<p, u, length>>}
        /\ ends' = MarkFree(p, u, length)
        /\ slot' = FileFree(Unfile(Unfile(slot, p, u - left, left), p, u + length, right),
                        p, u - left, size)
        /\ tags' = [tags EXCEPT ![p] = SetTags(@, u - left, size)]
        /\ UNCHANGED <<mounted, mistaken>>

(* After a block that does not fit, what the lists and marks hold depends on*)
(* what the program writes: the model ends there.                           *)
RtosNext ==
    /\ ~mistaken
    /\ \/ \E p \in Region : Mount(p)
       \/ \E length \in Request : Take(length)
       \/ \E b \in taken : GiveBack(b[1], b[2], b[3])

RtosSpec == RtosInit /\ [][RtosNext]_rtosVars
-----------------------------------------------------------------------------
RtosTypeOK ==
    /\ mounted \subseteq Region
    /\ ends \in [Region -> SUBSET (-1 .. 2 * RegionBlocks)]
    /\ tags \in [Region -> [RtosUnit -> 0 .. RegionBlocks]]
    /\ slot \in [SlotId -> Seq(Region \X RtosUnit)]
    /\ taken \subseteq Region \X RtosUnit \X Request
    /\ mistaken \in BOOLEAN

(* the free blocks, with the lengths the code finds in them                 *)
FreeIn(s) == {slot[s][i] : i \in DOMAIN slot[s]}
RtosFree ==
    UNION {{<<b[1], b[2], IF s = <<0, 0>> THEN 1 ELSE tags[b[1]][b[2] + 1]>> : b \in FreeIn(s)}
                : s \in SlotId}

Extent(b) == {<<b[1], u>> : u \in b[2] .. b[2] + b[3] - 1}

(* No block in use reaches into a neighbour or over the end of its page.    *)
RtosBlocksApart ==
    /\ \A b \in taken : b[2] + b[3] <= RegionBlocks
    /\ \A a, b \in taken \cup RtosFree : a # b => Extent(a) \cap Extent(b) = {}

(* The comment at memory.hpp:248: alloc looks for the block closest to, but *)
(* not smaller than, what is asked for.  It is refuted by a list of level 1 *)
(* with a shorter block, and for a single unit the closest block is cut and *)
(* its rest lost.                                                           *)
NeverMistaken == ~mistaken

(* Requests that never meet this: of two units or more, where no list of    *)
(* level 1 that alloc looks at mixes them with shorter ones.                *)
SafeRequest(length) ==
    length > 1 /\ (length > SlotCount => length <= SlotCount * ((length - 1) \div SlotCount) + 2)

(* Whatever lengths are requested, single units and mixed ones included, up *)
(* to the first block handed out that does not fit: the blocks tile the     *)
(* mounted pages, free ones are never neighbours, the bitmap and both       *)
(* length tags are true, and each free block is filed once, by length.      *)
RtosPagesSound == ~mistaken =>
    /\ RtosBlocksApart
    /\ UNION {Extent(b) : b \in taken \cup RtosFree} = mounted \X RtosUnit
    /\ \A a, b \in RtosFree : a[1] = b[1] => a[2] + a[3] # b[2]
    /\ \A p \in mounted : ends[p] =
        Edge \cup UNION {{b[2], b[2] + b[3] - 1} : b \in {c \in taken : c[1] = p}}
    /\ \A b \in RtosFree : b[3] > 1 => tags[b[1]][b[2] + b[3] - 1] = b[3]
    /\ \A s \in SlotId : IsInjective(slot[s]) /\ \A b \in RtosFree :
        <<b[1], b[2]>> \in FreeIn(s) => SlotOf(b[3]) = s
=============================================================================
