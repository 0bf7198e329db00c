------------------------------ MODULE MCContainers ------------------------------
(****************************************************************************)
(* One instance of each part that keeps things for others: the guarded      *)
(* lists, the two block allocators, the hash map, the balanced list, the    *)
(* growing array, the bit tree, the handles of counted objects and the file *)
(* hub.  They share no state: `part` says which one runs, the others keep   *)
(* their first state.                                                       *)
(****************************************************************************)
EXTENDS GuardedList, PageHeap, RtosMemory, HashMap, BTree, VarArray,
        BitsTree, RefHandles, FileHub, TLC

CONSTANT Parts
VARIABLE part

(* A stack under the barrier and a queue under the lightweight mutex.       *)
SafeShapes == {<<"stack", "policy">>, <<"queue", "lwmutex">>}

(* Hash values of the keys 1 to 4: lines shared, apart and full.            *)
KeyHashes == {<<0, 0, 4, 2>>, <<0, 2, 2, 5>>, <<1, 1, 1, 1>>, <<0, 4, 1, 7>>}

(* Two hash functions of an owner and a name, without and with collisions.  *)
HubFolder == {"a/", "b/"}
HubFile   == {"a", "b"}
Letter(n) == CASE n = "a/" -> 0 [] n = "b/" -> 1 [] n = "a" -> 2 [] n = "b" -> 3
OwnerAndName == (1 .. 9) \X (HubFolder \cup HubFile)
HubHashes == {[x \in OwnerAndName |-> (x[1] * 4) + Letter(x[2])],
              [x \in OwnerAndName |-> (x[1] + Letter(x[2])) % 3]}
------------------------------------------------------------------------------
Others(which) ==
    /\ IF which = "list"    THEN TRUE ELSE UNCHANGED listVars
    /\ IF which = "heap"    THEN TRUE ELSE UNCHANGED heapVars
    /\ IF which = "rtos"    THEN TRUE ELSE UNCHANGED rtosVars
    /\ IF which = "hash"    THEN TRUE ELSE UNCHANGED hashVars
    /\ IF which = "btree"   THEN TRUE ELSE UNCHANGED btreeVars
    /\ IF which = "array"   THEN TRUE ELSE UNCHANGED arrayVars
    /\ IF which = "bits"    THEN TRUE ELSE UNCHANGED bitsVars
    /\ IF which = "handles" THEN TRUE ELSE UNCHANGED handleVars
    /\ IF which = "hub"     THEN TRUE ELSE UNCHANGED hubVars

Only(which, action) == part = which /\ UNCHANGED part /\ Others(which) /\ action

(* A part that does not run takes one of its first states.                  *)
Rests(which, value, values) == part = which \/ value = CHOOSE v \in values : TRUE

ContainersInit ==
    /\ part \in Parts
    /\ HeapInit /\ RtosInit /\ HandlesInit
    /\ BTreeInit /\ Rests("btree", slots, GroupLengths)
    /\ ListInit  /\ Rests("list", shape, Shape)
    /\ HashInit  /\ Rests("hash", hash, HashOf)
    /\ ArrayInit /\ Rests("array", initial, Initial)
    /\ BitsInit  /\ Rests("bits", total, TotalBits)
    /\ HubInit   /\ Rests("hub", hashing, NameHash)

ContainersNext ==
    \/ Only("list", ListNext)
    \/ Only("heap", HeapNext)
    \/ Only("rtos", RtosNext)
    \/ Only("hash", HashNext)
    \/ Only("btree", BTreeNext)
    \/ Only("array", ArrayNext)
    \/ Only("bits", BitsNext)
    \/ Only("handles", HandlesNext)
    \/ Only("hub", HubNext)

containersVars == <<part, listVars, heapVars, rtosVars, hashVars, btreeVars, arrayVars,
                    bitsVars, handleVars, hubVars>>

ContainersSpec == ContainersInit /\ [][ContainersNext]_containersVars
------------------------------------------------------------------------------
(* The variables of the part that runs have the values of their types.      *)
ContainersTypeOK ==
    /\ part = "list"    => ListTypeOK
    /\ part = "heap"    => HeapTypeOK
    /\ part = "rtos"    => RtosTypeOK
    /\ part = "hash"    => HashTypeOK
    /\ part = "btree"   => BTreeTypeOK
    /\ part = "array"   => ArrayTypeOK
    /\ part = "bits"    => BitsTypeOK
    /\ part = "handles" => HandlesTypeOK
    /\ part = "hub"     => HubTypeOK

(* What a container gives at an index, for a key or for a name is what was  *)
(* put there: the list that is a tree (btree.hpp) and the walk over a hash  *)
(* map's lines (xgen.hashmap.hpp) after any calls; and, outside what the    *)
(* code gets wrong, the other three and the length of the first:            *)
(*   - the array of growing pages up to a push onto an odd page left behind *)
(*     (mmu.hpp:217-223) and to a pop of the last item when there was no    *)
(*     second page (286), which go through nullptr;                         *)
(*   - btree's length() but for the sum that a removal leaves in the last   *)
(*     place (btree.hpp:503-507, 544);                                      *)
(*   - the tree over a bit map but for the searches that shift by a whole   *)
(*     word (adapter.bits_indicator.hpp:132);                               *)
(*   - the file hub but for items that share a hash (filehub.hpp:327).      *)
(* ArrayUnbroken, LengthTold, BoundaryKept and NothingHidden, in the        *)
(* modules of these parts, say what is left out; the code breaks each.      *)
ContentsExact ==
    /\ part = "btree" => IndexFindsItem /\ LengthExact
    /\ part = "array" => ArrayExact
    /\ part = "bits"  => TreeExact
    /\ part = "hash"  => HashVisitsAll
    /\ part = "hub"   => HubExact
==============================================================================
