-------------------------------- MODULE HashMap --------------------------------
(****************************************************************************)
(* docker/private/xgen.hashmap.hpp: an array of lines, each the head of a   *)
(* chain, with a bit per line (m_bmp) that says whether it holds anything.  *)
(* The array grows when it has as many items as lines and shrinks on        *)
(* request; both relink every node.  A line is the sequence of its nodes,   *)
(* <<>> where the head is marked empty (next == this).                      *)
(****************************************************************************)
EXTENDS Integers, FiniteSets, SequencesExt

CONSTANTS
    Key, Value, Nothing,
    HashOf,         \* hash functions that may be in effect (m_seed)
    Multi,          \* multi: 4 in the source
    StartCapacity,  \* start_capcity: 16 in the source
    MaxLines        \* bound: no call that would make more lines

ASSUME HashAssumption ==
    /\ HashOf \subseteq [Key -> Nat] /\ Nothing \notin Value
    /\ Multi \in Nat \ {0, 1} /\ MaxLines \in Nat /\ StartCapacity \in 1 .. MaxLines

VARIABLES
    hash,           \* inc::hash(key, m_seed)
    m_lines, m_count,
    line_bits,      \* m_bmp: the lines whose bit is set
    nodes,          \* nodes[i]: the chain of line i
    said            \* the result of the last call

hashVars == <<hash, m_lines, m_count, line_bits, nodes, said>>

Line(lines)          == 0 .. lines - 1
Addressing(k, lines) == hash[k] % lines
EmptyLines(lines)    == [i \in Line(lines) |-> <<>>]
IndexIn(chain, k)    == SelectInSeq(chain, LAMBDA node : node[1] = k)

HashInit ==
    /\ hash \in HashOf
    /\ m_lines = StartCapacity /\ m_count = 0
    /\ line_bits = {} /\ nodes = EmptyLines(StartCapacity)
    /\ said = "none"

(* Mistakes, named after the definition they stand for.                     *)
Relink_DropsSecond(chain, node) ==
    IF chain = <<>> THEN <<node>> ELSE <<Head(chain), node>>

BitsWithout_Always(i, chain) == line_bits \ {i}

(* node::take_out: a head with a successor changes places with it, so that  *)
(* in every case the node leaves the chain and the others keep their order  *)
Without(chain, n) == RemoveAt(chain, n)

(* node::free: the head of a line is not a node of its own                  *)
Freed(chain) == <<>>

(* resize_to: a node goes behind the head of its new line                   *)
Relink(chain, node) ==
    IF chain = <<>> THEN <<node>> ELSE <<Head(chain), node>> \o Tail(chain)

(* All nodes, line by line as the bits tell, heads first (foreach too).     *)
NodesOf(lines, bits) ==
    LET upTo[i \in 0 .. m_lines] ==
            IF i = 0 THEN <<>>
            ELSE IF i - 1 \in bits THEN upTo[i - 1] \o lines[i - 1] ELSE upTo[i - 1]
    IN  upTo[m_lines]

(* resize(capacity): every node moves to a new array, which replaces this   *)
Resized(lines, bits, capacity) ==
    LET all == NodesOf(lines, bits)
        to[j \in 0 .. Len(all)] ==
            IF j = 0 THEN EmptyLines(capacity)
            ELSE [to[j - 1] EXCEPT ![Addressing(all[j][1], capacity)] = Relink(@, all[j])]
    IN  to[Len(all)]

TakeOver(lines, bits, capacity) ==
    LET moved == Resized(lines, bits, capacity)
    IN  /\ m_lines' = capacity
        /\ nodes' = moved
        /\ line_bits' = {i \in Line(capacity) : moved[i] # <<>>}

(* set(key, val): an equal key is overwritten, otherwise the pair goes to   *)
(* the end of the chain, and the array grows when it is full                *)
SetKey(k, v) ==
    LET i     == Addressing(k, m_lines)
        n     == IndexIn(nodes[i], k)
        lines == [nodes EXCEPT ![i] = IF n = 0 THEN Append(@, <<k, v>>) ELSE [@ EXCEPT ![n][2] = v]]
        bits  == line_bits \cup {i}
        count == IF n = 0 THEN m_count + 1 ELSE m_count
        grows == m_lines = count
    IN  /\ grows => m_lines * Multi <= MaxLines
        /\ m_count' = count
        /\ said' = IF n = 0 THEN "success" ELSE "override"
        /\ IF grows THEN TakeOver(lines, bits, m_lines * Multi)
                    ELSE nodes' = lines /\ line_bits' = bits /\ UNCHANGED m_lines
        /\ UNCHANGED hash

(* m_bmp.reset(index) when the last node of a line is gone                  *)
BitsWithout(i, chain) == IF chain = <<>> THEN line_bits \ {i} ELSE line_bits

(* take_out(key)                                                            *)
TakeKey(k) ==
    LET i == Addressing(k, m_lines)
        n == IndexIn(nodes[i], k)
    IN  /\ IF n = 0
           THEN said' = Nothing /\ UNCHANGED <<m_count, nodes, line_bits>>
           ELSE /\ said' = nodes[i][n][2]
                /\ m_count' = m_count - 1
                /\ nodes' = [nodes EXCEPT ![i] = Without(@, n)]
                /\ line_bits' = BitsWithout(i, Without(nodes[i], n))
        /\ UNCHANGED <<hash, m_lines>>

(* clear(): pop_first until no bit is left                                  *)
ClearMap ==
    /\ nodes' = [i \in Line(m_lines) |-> IF i \in line_bits THEN Freed(nodes[i]) ELSE nodes[i]]
    /\ line_bits' = {} /\ m_count' = 0
    /\ UNCHANGED <<hash, m_lines, said>>

(* resize(): shrinks where it is worth it                                   *)
Shrink ==
    /\ m_lines >= m_count * Multi * 2 /\ m_lines > StartCapacity
    /\ TakeOver(nodes, line_bits, m_lines \div Multi)
    /\ UNCHANGED <<hash, m_count, said>>

HashNext ==
    \/ \E k \in Key : TakeKey(k) \/ \E v \in Value : SetKey(k, v)
    \/ ClearMap \/ Shrink

HashSpec == HashInit /\ [][HashNext]_hashVars
--------------------------------------------------------------------------------
HashTypeOK ==
    /\ hash \in HashOf /\ m_lines \in 1 .. MaxLines /\ m_count \in 0 .. m_lines
    /\ line_bits \subseteq Line(m_lines)
    /\ nodes \in [Line(m_lines) -> Seq(Key \X Value)]

(* get(key)                                                                 *)
GetKey(k) ==
    LET chain == nodes[Addressing(k, m_lines)]
        n     == IndexIn(chain, k)
    IN  IF n = 0 THEN Nothing ELSE chain[n][2]

MapAbove == INSTANCE MapPromise WITH
    content <- [k \in Key |-> GetKey(k)], answer <- said

(* Through growing, shrinking and collisions of any hash function the table *)
(* is the map that its calls describe: relinking neither loses nor revives  *)
(* an item.                                                                 *)
HashIsMap == MapAbove!Spec

(* What foreach, clear and the next resize will visit by the bits is every  *)
(* item once; the count is right, and never reaches the number of lines, so *)
(* that the test for equality in set does not miss the moment to grow.      *)
HashVisitsAll ==
    LET all == NodesOf(nodes, line_bits)
    IN  /\ Len(all) = m_count /\ m_count < m_lines
        /\ {all[n] : n \in DOMAIN all} = {<<k, GetKey(k)>> : k \in {c \in Key : GetKey(c) # Nothing}}
================================================================================
