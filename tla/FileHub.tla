------------------------------ MODULE FileHub ------------------------------
(***************************************************************************)
(* extern/rtos/filehub.hpp: directories and files of a flash memory, found *)
(* by a hash of their name and of their directory's number.  A block holds *)
(* one directory or file; it is linked in the chain of its hash and in the *)
(* list of its directory, whose last member carries the number of members  *)
(* where the others carry the next.  The storage below is external: its    *)
(* functions are empty in the source.                                      *)
(***************************************************************************)
EXTENDS Integers, FiniteSets, SequencesExt

CONSTANTS
    FolderName, FileName,   \* names that end with '/', and names that do not
    NameHash,         \* hash functions that may be in effect: number, name -> Nat
    MaxFiles,       \* bound: blocks allocated
    MaxDepth        \* bound: folders in a path

VARIABLES
    hashing,        \* inc::hash(name, parent)
    block,          \* block[b]: the header stored in block b, the root's first
    bucket,         \* the hash area: the first block of each chain, 0 if none
    created,        \* the paths created, as <<number of the parent, name>>
    opened          \* the last answer: the block, 0 if there is none

hubVars == <<hashing, block, bucket, created, opened>>

-----------------------------------------------------------------------------
NoItem == 0
Root == 1
Name == FolderName \cup FileName

(* The fields of a header that open reads or writes: owner_id, next, prev, *)
(* left, right or total, the name; and the lists of a directory.           *)
Header(owner, name, prev, left, total) ==
    [owner |-> owner, name |-> name, next |-> NoItem, prev |-> prev,
     left |-> left, right |-> NoItem, total |-> total,
     dir_list |-> NoItem, file_list |-> NoItem]

(* new_id counts as the blocks do: a number is a block here. *)
Buckets(h) == {h[x] : x \in DOMAIN h}

HubInit ==
    /\ hashing \in NameHash
    /\ block = <<Header(NoItem, "/", NoItem, NoItem, 0)>>
    /\ bucket = [i \in Buckets(hashing) |-> NoItem]
    /\ created = {}
    /\ opened = Root

RECURSIVE HashChain(_, _)
HashChain(hub, b) == IF b = NoItem THEN <<>> ELSE <<b>> \o HashChain(hub, hub.block[b].next)

(* The two tests of the owner are the same test: a later owner is compared *)
(* by its name as well.                                                    *)
Matches(hub, b, parent, name) ==
    hub.block[b].owner >= parent /\ hub.block[b].name = name

Listing(name) == IF name \in FolderName THEN "dir_list" ELSE "file_list"

(* The members of the list so far: a new one goes behind the last, takes   *)
(* its count and leaves the last a pointer in its place.                   *)
Total_NotRead(hub, last) == 1

Total(hub, last) == IF last = NoItem THEN 1 ELSE hub.block[last].total + 1

Linked(hub, parent, name, b, prev) ==
    LET last == hub.block[parent][Listing(name)]
        new  == Header(parent, name, prev, last, Total(hub, last))
        old  == [i \in DOMAIN hub.block |->
                    IF i = last THEN [hub.block[i] EXCEPT !.right = b, !.total = 0]
                    ELSE hub.block[i]]
    IN  [Append(old, new) EXCEPT ![parent][Listing(name)] = b]

(* A chain of one block passes for an empty one: its bucket is written.    *)
Hashed(hub, i, b, prev) ==
    IF hub.bucket[i] = prev
    THEN [hub EXCEPT !.bucket[i] = b]
    ELSE [hub EXCEPT !.block[prev].next = b]

(* open: the member of a directory with that name, created on request.     *)
OpenItem(hub, parent, name, create) ==
    LET i     == hashing[<<parent, name>>]
        chain == HashChain(hub, hub.bucket[i])
        found == SelectInSeq(chain, LAMBDA b : Matches(hub, b, parent, name))
        prev  == IF chain = <<>> THEN NoItem ELSE Last(chain)
        b     == Len(hub.block) + 1
    IN  IF found # 0 THEN [hub EXCEPT !.at = chain[found]]
        ELSE IF ~create THEN [hub EXCEPT !.at = NoItem]
        ELSE [Hashed([hub EXCEPT !.block = Linked(hub, parent, name, b, prev)], i, b, prev)
                EXCEPT !.at = b, !.created = @ \cup {<<parent, name>>}]

Hub == [block |-> block, bucket |-> bucket, created |-> created, at |-> Root]

(* open_dir: folder by folder from the root, up to one that is not there.  *)
Walk(path, create) ==
    FoldLeft(LAMBDA hub, name : IF hub.at = NoItem THEN hub ELSE OpenItem(hub, hub.at, name, create),
             Hub, path)

Becomes(hub) ==
    /\ Len(hub.block) <= MaxFiles
    /\ block' = hub.block /\ bucket' = hub.bucket
    /\ created' = hub.created /\ opened' = hub.at
    /\ UNCHANGED hashing

Paths == UNION {[1 .. n -> FolderName] : n \in 0 .. MaxDepth}

OpenDir == \E path \in Paths, create \in BOOLEAN : Becomes(Walk(path, create))

OpenFile ==
    \E path \in Paths, name \in FileName, create \in BOOLEAN :
        LET folder == Walk(path, create)
        IN  Becomes(IF folder.at = NoItem THEN folder ELSE OpenItem(folder, folder.at, name, create))

HubNext == OpenDir \/ OpenFile

HubSpec == HubInit /\ [][HubNext]_hubVars

-----------------------------------------------------------------------------
HubTypeOK ==
    /\ hashing \in NameHash
    /\ Len(block) \in 1 .. MaxFiles
    /\ \A b \in DOMAIN block : block[b].owner \in 0 .. Len(block)
        /\ \A f \in {"next", "prev", "left", "right", "dir_list", "file_list"} :
            block[b][f] \in 0 .. Len(block)
    /\ bucket \in [Buckets(hashing) -> 0 .. Len(block)]
    /\ opened \in 0 .. Len(block)

(* The comment at the beginning of open: an item goes to the end of a      *)
(* chain that has items (193), so that what was created is found again.    *)
(* The code does not keep this: it takes a chain of one for an empty one   *)
(* (327), and the item that was there is lost.                             *)
NothingHidden == \A x \in created : OpenItem(Hub, x[1], x[2], FALSE).at # NoItem

RECURSIVE Backwards(_)
Backwards(b) == IF b = NoItem THEN <<>> ELSE Append(Backwards(block[b].left), b)

ListExact(d, list) ==
    LET seq == Backwards(block[d][list])
    IN  /\ {seq[i] : i \in DOMAIN seq}
                = {b \in 2 .. Len(block) : block[b].owner = d /\ Listing(block[b].name) = list}
        /\ \A i \in 1 .. Len(seq) - 1 : block[seq[i]].right = seq[i + 1]
        /\ seq # <<>> => block[Last(seq)].total = Len(seq)

(* The two lists of every directory hold what was created in it, can be    *)
(* followed in both directions and end with their length; and an item that *)
(* shares its hash with no other is found where it was created and is      *)
(* there once.  Of items that share a hash nothing is said: the first of   *)
(* two is lost (NothingHidden).                                            *)
HubExact ==
    /\ \A d \in DOMAIN block : ListExact(d, "dir_list") /\ ListExact(d, "file_list")
    /\ \A x \in created :
        (\A y \in created \ {x} : hashing[y] # hashing[x]) =>
            /\ OpenItem(Hub, x[1], x[2], FALSE).at # NoItem
            /\ Cardinality({b \in 2 .. Len(block) : <<block[b].owner, block[b].name>> = x}) = 1
=============================================================================
