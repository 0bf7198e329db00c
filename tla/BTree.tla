--------------------------------- MODULE BTree ---------------------------------
(****************************************************************************)
(* docker/private/btree.hpp: a list with access by index.  A path node has  *)
(* Arity children and, for each, how many items lie up to its end; a leaf   *)
(* (item_group) keeps its items in groups of `slots` places, each with an   *)
(* indexer that says in which place the n-th item of the group lies.        *)
(* What an item is matters to no operation: items are named by their index, *)
(* and insert and remove rename the ones behind, so `tree` is a shape.      *)
(****************************************************************************)
EXTENDS Integers, FiniteSets, SequencesExt

CONSTANTS
    Arity,      \* children of a path node: 8 in the source
    GroupLengths, \* the lengths of a group to look at; length is 16 in the source
    Groups,     \* group_max: 4
    Nil,        \* no child, no item
    MaxItems    \* bound: no insert into a list of so many items

ASSUME BTreeAssumption ==
    /\ Arity \in Nat /\ Arity % 2 = 0 /\ Arity >= 4
    /\ GroupLengths \subseteq Nat \ {0} /\ Groups \in Nat /\ Groups % 2 = 0 /\ Groups >= 2

VARIABLES
    slots,      \* the places of a group, chosen once
    tree,       \* the root, Nil before the first insert
    stale,      \* history: a removed child left its sum in the root's last place
    gave        \* the last call of talk_out gave the item it was asked for

btreeVars == <<slots, tree, stale, gave>>

Full == Groups * slots
Half == Arity \div 2

IsLeaf(node) == "groups" \in DOMAIN node
------------------------------------------------------------------------------
(* Mistakes, named after the definition they stand for.                     *)
PutIn_OffsetUnused(group, at, item) ==
    LET free == Last(group.indexer)
    IN  [group |-> [indexer |-> InsertAt(Front(group.indexer), 1, free),
                    place   |-> [group.place EXCEPT ![free] = item]],
         out   |-> group.place[free]]

UpperHalf_NotRebased(offset, last) ==
    [k \in 1 .. Arity |-> IF k <= Half THEN offset[Half + k] ELSE last]

(* The groups of a leaf.                                                    *)
FreshGroup == [indexer |-> [n \in 1 .. slots |-> slots + 1 - n],
               place   |-> [n \in 1 .. slots |-> Nil]]

(* indexer.get(15), swap, indexer.insert: the item that was last goes out   *)
PutIn(group, at, item) ==
    LET free == Last(group.indexer)
    IN  [group |-> [indexer |-> InsertAt(Front(group.indexer), at, free),
                    place   |-> [group.place EXCEPT ![free] = item]],
         out   |-> group.place[free]]

(* indexer.get, remove, set(15), swap: the item at `at` goes out, `item`    *)
(* becomes the last                                                         *)
TakeFrom(group, at, item) ==
    LET free == group.indexer[at]
    IN  [group |-> [indexer |-> Append(RemoveAt(group.indexer, at), free),
                    place   |-> [group.place EXCEPT ![free] = item]],
         out   |-> group.place[free]]

(* item_group::insert, item_group::talk_out: what one group puts out goes   *)
(* to the head of the next, or to the end of the one before                 *)
RECURSIVE PutGroups(_, _, _, _), TakeGroups(_, _, _, _, _)
PutGroups(groups, g, at, item) ==
    IF g > Len(groups) THEN Append(groups, PutIn(FreshGroup, at, item).group)
    ELSE LET put == PutIn(groups[g], at, item)
             now == [groups EXCEPT ![g] = put.group]
         IN  IF put.out = Nil THEN now ELSE PutGroups(now, g + 1, 1, put.out)

TakeGroups(groups, g, first, at, item) ==
    LET took == TakeFrom(groups[g], IF g = first THEN at ELSE 1, item)
        now  == [groups EXCEPT ![g] = took.group]
    IN  IF g = first THEN [groups |-> now, out |-> took.out]
        ELSE TakeGroups(now, g - 1, first, at, took.out)

EmptyLeaf == [groups |-> <<>>, count |-> 0]

LeafInsert(leaf, i, item) ==
    [groups |-> PutGroups(leaf.groups, i \div slots + 1, (i % slots) + 1, item),
     count  |-> leaf.count + 1]

LeafTalkOut(leaf, i) ==
    LET took == TakeGroups(leaf.groups, (leaf.count - 1) \div slots + 1, i \div slots + 1,
                           (i % slots) + 1, Nil)
    IN  [leaf |-> [groups |-> IF (leaf.count - 1) % slots = 0 THEN Front(took.groups)
                              ELSE took.groups,
                   count  |-> leaf.count - 1],
         out  |-> took.out]

(* item_group::split: the brother gets the first half                       *)
LeafSplit(leaf) ==
    [brother |-> [groups |-> SubSeq(leaf.groups, 1, Groups \div 2), count |-> Full \div 2],
     self    |-> [groups |-> SubSeq(leaf.groups, Groups \div 2 + 1, Groups), count |-> Full \div 2]]

LeafGet(leaf, i) ==
    LET group == leaf.groups[i \div slots + 1] IN group.place[group.indexer[(i % slots) + 1]]
------------------------------------------------------------------------------
(* Path nodes.  bottom is the sequence of the children that are not null.   *)
FirstWith(Test(_)) == SelectInSeq([k \in 1 .. Arity |-> k], Test)
Beyond(node, i)    == FirstWith(LAMBDA k : node.offset[k] > i)
UpTo(node, k)      == IF k = 1 THEN 0 ELSE node.offset[k - 1]

(* Which child an insert goes down to, and the sums it raises               *)
InsertGoesTo(node, i) ==
    IF Beyond(node, i) # 0 THEN Beyond(node, i) ELSE FirstWith(LAMBDA k : node.offset[k] = i)
Raised(node, i) ==
    [k \in 1 .. Arity |-> IF Beyond(node, i) # 0
                          THEN node.offset[k] + (IF node.offset[k] > i THEN 1 ELSE 0)
                          ELSE node.offset[k] + (IF node.offset[k] = i THEN 1 ELSE 0)]
Lowered(node, i) == [k \in 1 .. Arity |-> node.offset[k] - (IF node.offset[k] > i THEN 1 ELSE 0)]

LowerHalf(offset)  == [k \in 1 .. Arity |-> offset[IF k <= Half THEN k ELSE Half]]
UpperHalf(offset, last) ==
    [k \in 1 .. Arity |-> (IF k <= Half THEN offset[Half + k] ELSE last) - offset[Half]]

(* The brother of the k-th child goes in front of it, those behind move on  *)
(* by one place; a node that had all its children gives its first half to a *)
(* brother of its own.                                                      *)
Adopt(node, k, brother, count) ==
    LET bottom == InsertAt(node.bottom, k, brother)
        sums   == InsertAt(node.offset, k, UpTo(node, k) + count)
        held   == [j \in 1 .. Arity |-> IF j <= Len(bottom) THEN sums[j] ELSE node.offset[j]]
    IN  IF Len(bottom) <= Arity
        THEN [self |-> [bottom |-> bottom, offset |-> held], brother |-> Nil, count |-> 0]
        ELSE [self    |-> [bottom |-> SubSeq(bottom, Half + 1, Arity + 1),
                           offset |-> UpperHalf(held, Last(sums))],
              brother |-> [bottom |-> SubSeq(bottom, 1, Half), offset |-> LowerHalf(held)],
              count   |-> held[Half]]

RECURSIVE InsertBelow(_, _, _), TalkOutBelow(_, _), ItemAt(_, _)
InsertBelow(node, i, item) ==
    IF IsLeaf(node)
    THEN LET leaf == LeafInsert(node, i, item) IN
         IF leaf.count < Full THEN [self |-> leaf, brother |-> Nil, count |-> 0]
         ELSE LeafSplit(leaf) @@ [count |-> Full \div 2]
    ELSE LET k     == InsertGoesTo(node, i)
             below == InsertBelow(node.bottom[k], i - UpTo(node, k), item)
             now   == [bottom |-> [node.bottom EXCEPT ![k] = below.self],
                       offset |-> Raised(node, i)]
         IN  IF below.brother = Nil THEN [self |-> now, brother |-> Nil, count |-> 0]
             ELSE Adopt(now, k, below.brother, below.count)

(* An empty child is freed; the ones behind it move up, their sums too, and *)
(* its own sum ends behind them                                             *)
WithoutChild(node, k) ==
    LET n == Len(node.bottom)
    IN  [bottom |-> RemoveAt(node.bottom, k),
         offset |-> [j \in 1 .. Arity |-> IF j \in k .. n - 1 THEN node.offset[j + 1]
                                          ELSE IF j = n THEN node.offset[k] ELSE node.offset[j]]]

IsEmpty(node) == IF IsLeaf(node) THEN node.count = 0 ELSE node.bottom = <<>>

TalkOutBelow(node, i) ==
    IF IsLeaf(node) THEN LET took == LeafTalkOut(node, i) IN [self |-> took.leaf, out |-> took.out]
    ELSE LET k     == Beyond(node, i)
             below == TalkOutBelow(node.bottom[k], i - UpTo(node, k))
             now   == [bottom |-> [node.bottom EXCEPT ![k] = below.self],
                       offset |-> Lowered(node, i)]
         IN  [self |-> IF IsEmpty(below.self) THEN WithoutChild(now, k) ELSE now, out |-> below.out]

ItemAt(node, i) ==
    IF IsLeaf(node) THEN LeafGet(node, i)
    ELSE LET k == Beyond(node, i) IN ItemAt(node.bottom[k], i - UpTo(node, k))

(* All items below a node, the node with its items from `from` on renamed   *)
RECURSIVE Held(_), Renamed(_, _, _)
Held(node) ==
    IF node = Nil THEN {}
    ELSE IF IsLeaf(node)
    THEN UNION {{group.place[n] : n \in 1 .. slots} \ {Nil} : group \in ToSet(node.groups)}
    ELSE UNION {Held(child) : child \in ToSet(node.bottom)}

Renamed(node, from, by) ==
    IF IsLeaf(node)
    THEN [node EXCEPT !.groups = [g \in DOMAIN @ |->
             [@[g] EXCEPT !.place = [n \in 1 .. slots |->
                IF @[n] = Nil THEN Nil ELSE IF @[n] >= from THEN @[n] + by ELSE @[n]]]]]
    ELSE [node EXCEPT !.bottom = [k \in DOMAIN @ |-> Renamed(@[k], from, by)]]

Length == IF tree = Nil THEN 0 ELSE tree.offset[Arity]     \* what length() says
Held_Count == Cardinality(Held(tree))                      \* how many there are
------------------------------------------------------------------------------
BTreeInit == slots \in GroupLengths /\ tree = Nil /\ stale = FALSE /\ gave = TRUE

Insert(i) ==
    LET root == IF tree = Nil
                THEN [bottom |-> <<EmptyLeaf>>, offset |-> [k \in 1 .. Arity |-> 0]]
                ELSE Renamed(tree, i, 1)
        done == InsertBelow(root, i, i)
    IN  /\ Held_Count < MaxItems
        /\ tree' = IF done.brother = Nil THEN done.self
                   ELSE [bottom |-> <<done.brother, done.self>>,
                         offset |-> [k \in 1 .. Arity |->
                            IF k = 1 THEN done.count ELSE done.count + done.self.offset[Arity]]]
        /\ stale' = (stale /\ Len(tree'.bottom) < Arity)
        /\ gave' = TRUE

TalkOut(i) ==
    LET done == TalkOutBelow(tree, i)
        root == Renamed(done.self, i + 1, -1)
    IN  /\ tree' = IF root.bottom = <<>> THEN Nil ELSE root
        /\ stale' = /\ tree' # Nil
                    /\ \/ stale
                       \/ Len(root.bottom) = Arity - 1 /\ Len(tree.bottom) = Arity
                          /\ Beyond(tree, i) < Arity
        /\ gave' = (done.out = i)

Clear == tree # Nil /\ tree' = Nil /\ stale' = FALSE /\ gave' = TRUE

BTreeNext ==
    /\ \/ \E i \in 0 .. Held_Count : Insert(i)
       \/ \E i \in 0 .. Held_Count - 1 : TalkOut(i)
       \/ Clear
    /\ UNCHANGED slots

BTreeSpec == BTreeInit /\ [][BTreeNext]_btreeVars
------------------------------------------------------------------------------
RECURSIVE WellFormed(_)
WellFormed(node) ==
    IF IsLeaf(node)
    THEN /\ node.count \in 1 .. Full - 1
         /\ Len(node.groups) = (node.count + slots - 1) \div slots
         /\ \A group \in ToSet(node.groups) : ToSet(group.indexer) = 1 .. slots
    ELSE /\ Len(node.bottom) \in 1 .. Arity
         /\ node.offset \in [1 .. Arity -> 0 .. MaxItems]
         /\ \A child \in ToSet(node.bottom) : WellFormed(child)

BTreeTypeOK == slots \in GroupLengths /\ stale \in BOOLEAN /\ (tree # Nil => WellFormed(tree))

(* Whatever was inserted and removed, and however leaves and nodes were     *)
(* split, freed and shifted on the way (insert and talk_out, 305-518), the  *)
(* item at every index is found from the root and is the one that belongs   *)
(* there, and removing takes the right one out.                             *)
IndexFindsItem ==
    /\ gave
    /\ Held(tree) = 0 .. Held_Count - 1
    /\ \A i \in 0 .. Held_Count - 1 : ItemAt(tree, i) = i

(* length() (544) reads the last sum of the root.  It never says more than  *)
(* there are, and it is the number of items while `stale` is not set: the   *)
(* removal of a child that is not the last of a full root leaves that       *)
(* child's sum in the last place (503-507) until that place is filled.      *)
LengthExact ==
    /\ Length <= Held_Count
    /\ ~stale => Length = Held_Count

(* length() is the number of items.  The code does not keep this, as        *)
(* LengthExact says.                                                        *)
LengthTold == Length = Held_Count
================================================================================
