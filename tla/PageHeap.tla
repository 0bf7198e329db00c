------------------------------- MODULE PageHeap -------------------------------
(****************************************************************************)
(* utils/private/memory_flow.hpp: how a thread cuts its pages into blocks   *)
(* and merges them again.  A page has BlocksPerPage units.  The bitmap of a *)
(* page has the bit of the first and of the last unit of every block in use *)
(* and two sentinels around the page; nothing else says where blocks begin. *)
(* A free block of two or more units carries its length in its second and   *)
(* in its last unit (node_plus::blocks seen from its head and from its      *)
(* end).  Free blocks are linked in lists by size: one list per size up to  *)
(* Boundary units, then one list per Boundary units.  A bit of slot or      *)
(* slot_plus says that a list is not empty: here, that the sequence is not. *)
(****************************************************************************)
EXTENDS Integers, Sequences, FiniteSets

CONSTANTS
    Page,           \* the pages the underlying allocator may hand out
    BlocksPerPage,  \* 4062 in the source
    Boundary        \* 64 in the source

ASSUME HeapAssumption ==
    /\ BlocksPerPage \in Nat \ {0}
    /\ Boundary \in Nat \ {0}

Unit == 0 .. BlocksPerPage - 1
Sentinels == {-1, BlocksPerPage}

(* the lists of free blocks: slot / free_list_array and slot_plus /         *)
(* free_list_array_plus                                                     *)
Small == {"small"} \X (0 .. Boundary - 1)
Plus  == {"plus"} \X (0 .. BlocksPerPage \div Boundary)

(* append and remove, lines 623 to 632 and 650 to 657                       *)
ListOf(length) ==
    IF length - 1 < Boundary THEN <<"small", length - 1>>
                             ELSE <<"plus", (length - 1) \div Boundary - 1>>

VARIABLES
    pages,          \* page_list: the pages of the token
    bmp,            \* bmp[p]: the bits set in the bitmap of p
    blocks,         \* blocks[p][u]: node_plus::blocks as stored in unit u of p
    free_list,      \* the lists of free blocks, heads first
    in_use          \* the blocks handed out: <<page, first unit, length>>

heapVars == <<pages, bmp, blocks, free_list, in_use>>

Get(p, u) == u \in bmp[p]

HeapInit ==
    /\ pages = {}
    /\ bmp = [p \in Page |-> {}]
    /\ blocks = [p \in Page |-> [u \in Unit |-> 0]]
    /\ free_list = [l \in Small \cup Plus |-> <<>>]
    /\ in_use = {}

(* Plausible mistakes in the code below.  None is part of the model: each   *)
(* stands for the definition it is named after and must break a property.   *)

AppendFree_PlusTooHigh(lists, p, u, length) ==
    LET l == IF length - 1 < Boundary THEN <<"small", length - 1>>
                                      ELSE <<"plus", (length - 1) \div Boundary>>
    IN  [lists EXCEPT ![l] = Append(@, <<p, u>>)]

RemoveFree_Forgotten(lists, p, u, length) == lists

SetRest_HeadOnly(tags, u, length) ==
    IF length <= 1 THEN tags ELSE [tags EXCEPT ![u + 1] = length]

LeftFree_WithBoundary(p, u) ==
    IF u - 1 \in bmp[p] THEN 0
    ELSE IF u - 2 \in bmp[p] THEN 1
    ELSE blocks[p][u - 1] + 1

LeftFree_SingleIgnored(p, u) ==
    IF u - 1 \in bmp[p] \/ u - 2 \in bmp[p] THEN 0 ELSE blocks[p][u - 1]

------------------------------------------------------------------------------
(* append: at the end of the circular list of its size                      *)
AppendFree(lists, p, u, length) ==
    [lists EXCEPT ![ListOf(length)] = Append(@, <<p, u>>)]

RemoveFree(lists, p, u, length) ==
    [lists EXCEPT ![ListOf(length)] =
        LET at == {i \in DOMAIN @ : @[i] = <<p, u>>}
        IN  [i \in 1 .. Len(@) - Cardinality(at) |-> IF \E j \in at : j <= i THEN @[i + 1] ELSE @[i]]]

(* set_rest: both length tags of a free block of two or more units          *)
SetRest(tags, u, length) ==
    IF length <= 1 THEN tags ELSE [tags EXCEPT ![u + 1] = length, ![u + length - 1] = length]

(* The units handed out belong to the user, who may write anything there:   *)
(* no length is legible in them (0 is no length).                           *)
Overwrite(tags, u, length) ==
    [unit \in Unit |-> IF unit \in u .. u + length - 1 THEN 0 ELSE tags[unit]]

(* mark_in_use and mark_free: the first and the last unit                    *)
Marked(bits, u, length)   == bits \cup {u, u + length - 1}
Unmarked(bits, u, length) == bits \ {u, u + length - 1}

(* split: the block is marked in use, what it does not need is free again   *)
Split(p, u, total, require, tags, bits, lists) ==
    /\ bmp' = [bmp EXCEPT ![p] = Marked(bits, u, require)]
    /\ in_use' = in_use \cup {<<p, u, require>>}
    /\ IF total > require
       THEN /\ free_list' = AppendFree(lists, p, u + require, total - require)
            /\ blocks' = [blocks EXCEPT ![p] =
                  SetRest(Overwrite(tags, u, require), u + require, total - require)]
       ELSE /\ free_list' = lists
            /\ blocks' = [blocks EXCEPT ![p] = Overwrite(tags, u, require)]

(* index_of_first_set(from): the first list from there on that has a block  *)
IsClosest(kind, i, from) ==
    /\ i >= from /\ free_list[<<kind, i>>] # <<>>
    /\ \A j \in from .. i - 1 : free_list[<<kind, j>>] = <<>>

Available(kind, lists, from) == \E l \in lists : l[2] >= from /\ free_list[l] # <<>>

(* take_out: the first block of a list                                      *)
TakeOut(l, require) ==
    LET p     == Head(free_list[l])[1]
        u     == Head(free_list[l])[2]
        total == IF l \in Small THEN l[2] + 1 ELSE blocks[p][u + 1]
    IN  /\ Split(p, u, total, require, blocks[p], bmp[p],
                 [free_list EXCEPT ![l] = Tail(@)])
        /\ UNCHANGED pages

FromSmall(require) == require - 1 < Boundary /\ Available("small", Small, require - 1)
FromPlus(require)  == ~FromSmall(require) /\ Available("plus", Plus, (require - 1) \div Boundary)

AllocSmall(require) ==
    /\ FromSmall(require)
    /\ \E l \in Small : IsClosest("small", l[2], require - 1) /\ TakeOut(l, require)

AllocPlus(require) ==
    /\ FromPlus(require)
    /\ \E l \in Plus :
        IsClosest("plus", l[2], (require - 1) \div Boundary) /\ TakeOut(l, require)

(* origin_alloc: a new page, with its sentinels                             *)
AllocPage(require) ==
    /\ ~FromSmall(require) /\ ~FromPlus(require)
    /\ \E p \in Page \ pages :
        /\ pages' = pages \cup {p}
        /\ Split(p, 0, BlocksPerPage, require, blocks[p], Sentinels, free_list)

------------------------------------------------------------------------------
(* left_free_block_of and right_free_block_of: the length of the free block *)
(* that ends before u, that begins at u; 0 if there is none                 *)
LeftFree(p, u) ==
    IF Get(p, u - 1) THEN 0 ELSE IF Get(p, u - 2) THEN 1 ELSE blocks[p][u - 1]

RightFree(p, u) ==
    IF Get(p, u) THEN 0 ELSE IF Get(p, u + 1) THEN 1 ELSE blocks[p][u + 1]

(* free_core: the block is merged with its free neighbours; a page that is  *)
(* free altogether is given back (origin_free)                              *)
Free(p, u, length) ==
    LET left    == LeftFree(p, u)
        right   == RightFree(p, u + length)
        begin   == u - left
        size    == left + length + right
        noLeft  == IF left = 0 THEN free_list ELSE RemoveFree(free_list, p, begin, left)
        noRight == IF right = 0 THEN noLeft ELSE RemoveFree(noLeft, p, u + length, right)
    IN  /\ <<p, u, length>> \in in_use
        /\ in_use' = in_use \ {<<p, u, length>>}
        /\ IF size = BlocksPerPage
           THEN /\ pages' = pages \ {p}
                /\ bmp' = [bmp EXCEPT ![p] = {}]
                /\ blocks' = [blocks EXCEPT ![p] = [unit \in Unit |-> 0]]
                /\ free_list' = noRight
           ELSE /\ bmp' = [bmp EXCEPT ![p] = Unmarked(@, u, length)]
                /\ blocks' = [blocks EXCEPT ![p] = SetRest(@, begin, size)]
                /\ free_list' = AppendFree(noRight, p, begin, size)
                /\ UNCHANGED pages

HeapNext ==
    \/ \E require \in 1 .. BlocksPerPage :
        AllocSmall(require) \/ AllocPlus(require) \/ AllocPage(require)
    \/ \E block \in in_use : Free(block[1], block[2], block[3])

HeapSpec == HeapInit /\ [][HeapNext]_heapVars

------------------------------------------------------------------------------
(* The free blocks, with the length free_core and take_out would read       *)
FreeBlocks ==
    UNION {{<<node[1], node[2], IF l \in Small THEN l[2] + 1 ELSE blocks[node[1]][node[2] + 1]>> :
                node \in {free_list[l][i] : i \in DOMAIN free_list[l]}} : l \in Small \cup Plus}

Units(block) == block[2] .. block[2] + block[3] - 1

(* Values of the variables.                                                 *)
HeapTypeOK ==
    /\ pages \subseteq Page
    /\ bmp \in [Page -> SUBSET (Unit \cup Sentinels)]
    /\ blocks \in [Page -> [Unit -> 0 .. BlocksPerPage]]
    /\ free_list \in [Small \cup Plus -> Seq(Page \X Unit)]
    /\ in_use \subseteq Page \X Unit \X (1 .. BlocksPerPage)

(* However blocks were split and merged: every unit of a page belongs to    *)
(* exactly one block, in use or free, and no block reaches over the page.   *)
Tiling ==
    LET all == in_use \cup FreeBlocks
    IN  /\ \A p \in pages : \A u \in Unit :
            Cardinality({b \in all : b[1] = p /\ u \in Units(b)}) = 1
        /\ \A b \in all : b[1] \in pages /\ b[2] + b[3] <= BlocksPerPage

(* Freeing merges with both neighbours: no two free blocks are adjacent,    *)
(* and a page without a block in use is not kept (line 507).                *)
Coalesced ==
    /\ \A a, b \in FreeBlocks : a[1] = b[1] => a[2] + a[3] # b[2]
    /\ \A p \in pages : \E b \in in_use : b[1] = p

(* The bitmap and the length tags from which free_core finds its neighbours *)
(* tell the truth: the bits are those of the ends of the blocks in use, and *)
(* a free block of two or more units has its length at both ends.           *)
BoundariesTold ==
    /\ \A p \in pages :
        bmp[p] = Sentinels \cup UNION {{b[2], b[2] + b[3] - 1} : b \in {c \in in_use : c[1] = p}}
    /\ \A b \in FreeBlocks :
        b[3] >= 2 => blocks[b[1]][b[2] + 1] = b[3] /\ blocks[b[1]][b[2] + b[3] - 1] = b[3]

(* Every free block is once in the lists, in the list of its size, so that  *)
(* a list never offers a block smaller than what was asked for.             *)
Filed ==
    /\ \A l \in Small \cup Plus : \A i, j \in DOMAIN free_list[l] :
        free_list[l][i] = free_list[l][j] => i = j
    /\ \A l \in Plus : \A i \in DOMAIN free_list[l] :
        LET node == free_list[l][i] IN ListOf(blocks[node[1]][node[2] + 1]) = l

(* Together: whatever is allocated and freed, in any order, free_core and   *)
(* take_out meet only blocks that are where they take them to be            *)
(* (memory_flow.hpp:483-515, 569-657).                                      *)
HeapSound == Tiling /\ Coalesced /\ BoundariesTold /\ Filed

(* Comment of alloc (lines 428, 429): the free block taken is the one       *)
(* closest to the size asked for and not smaller.  In particular no page is *)
(* fetched while a free block is large enough.                              *)
ClosestBlockTaken ==
    [][\A p \in Page \ pages :
        p \in pages' => \A b \in in_use' \ in_use : \A f \in FreeBlocks : f[3] < b[3]]_heapVars
==============================================================================
