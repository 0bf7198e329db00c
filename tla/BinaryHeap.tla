------------------------------ MODULE BinaryHeap ------------------------------
(****************************************************************************)
(* A program that keeps an array as a heap by the functions of              *)
(* algo/heap_root.hpp, as doc_guide/usage/algo/heap_root.hpp does: it       *)
(* counts the items itself, and specialises change_position so that every   *)
(* item knows its index.  What lies behind the first `count` places of the  *)
(* array is never read.                                                     *)
(****************************************************************************)
EXTENDS HeapRoot

CONSTANTS
    HeapItem, HeapKey,  \* items, and the numbers the compare function compares
    MaxHeap             \* bound: the places of the array

ASSUME HeapAssumption == HeapKey \in [HeapItem -> Int] /\ MaxHeap \in Nat

VARIABLES
    heap, count,
    position,           \* position[v]: where change_position saw v last
    held,               \* history: the items put in, without those handed out
    strayed             \* history: pop_by_index took from an even index above 2

heapVars == <<heap, count, position, held, strayed>>

HeapInit ==
    /\ heap = <<>> /\ count = 0 /\ position = [v \in HeapItem |-> 0]
    /\ held = {} /\ strayed = FALSE

(* The array after a call that wrote the places in `written`.  An item that *)
(* was handed out is forgotten by the program.                              *)
Placed(a, written, v) == IF \E i \in written : a[i] = v THEN CHOOSE i \in written : a[i] = v
                                                        ELSE position[v]

Becomes(a, n, written, holds) ==
    /\ heap' = [i \in 0 .. n - 1 |-> a[i]]
    /\ count' = n
    /\ held' = holds
    /\ position' = [v \in HeapItem |-> IF v \in holds THEN Placed(a, written, v) ELSE 0]

Last == heap[count - 1]

(* push(seq, length, value)                                                 *)
PushItem(v) ==
    /\ v \notin held /\ count < MaxHeap
    /\ Becomes(PushCore(heap, count, v, HeapKey), count + 1, PushPath(heap, count, v, HeapKey),
               held \cup {v})
    /\ UNCHANGED strayed

(* pop(seq, length)                                                         *)
PopFirst ==
    /\ count > 0
    /\ Becomes(Pop(heap, count, HeapKey), count - 1, PopPath(heap, count, 0, Last, HeapKey),
               held \ {heap[0]})
    /\ UNCHANGED strayed

(* pop(seq, length, insert_value), as math/statistics/topk.hpp uses it      *)
ReplaceFirst(v) ==
    /\ v \notin held /\ count > 0
    /\ Becomes(PopCore(heap, count, 0, v, HeapKey), count, PopPath(heap, count, 0, v, HeapKey),
               (held \ {heap[0]}) \cup {v})
    /\ UNCHANGED strayed

(* A mistake: what moves up is not told its index.                          *)
WrittenAt_DownOnly(index, v) == PopPath(heap, count, index, v, HeapKey)

(* the places that pop_by_index writes                                      *)
WrittenAt(index, v) ==
    LET down == PopCore(heap, count, index, v, HeapKey)
    IN  PopPath(heap, count, index, v, HeapKey) \cup
        (IF GoesUp(down, index, HeapKey) THEN PushPath(down, index, down[index], HeapKey) ELSE {})

(* seq[index >> 1] is not the parent of index                               *)
Strays(index) == index % 2 = 0 /\ index > 2

(* pop_by_index(seq, length, index); a negative index counts from the end   *)
Rolled(index) == IF index < 0 THEN index + count ELSE index

PopAt(given) ==
    LET index == Rolled(given)
    IN  /\ Becomes(PopByIndex(heap, count, index, Last, HeapKey), count - 1,
                   WrittenAt(index, Last), held \ {heap[index]})
        /\ strayed' = (strayed \/ Strays(index))

(* pop_by_index(seq, length, index, insert_value)                           *)
ReplaceAt(given, v) ==
    LET index == Rolled(given)
    IN  /\ v \notin held
        /\ Becomes(PopByIndex(heap, count, index, v, HeapKey), count,
                   WrittenAt(index, v), (held \ {heap[index]}) \cup {v})
        /\ strayed' = (strayed \/ Strays(index))

HeapNext ==
    \/ \E v \in HeapItem : PushItem(v) \/ ReplaceFirst(v)
    \/ PopFirst
    \/ \E given \in -count .. count - 1 :
          PopAt(given) \/ \E v \in HeapItem : ReplaceAt(given, v)

HeapSpec == HeapInit /\ [][HeapNext]_heapVars
-----------------------------------------------------------------------------
HeapTypeOK ==
    /\ count \in 0 .. MaxHeap /\ heap \in [0 .. count - 1 -> HeapItem]
    /\ position \in [HeapItem -> Nat] /\ held \subseteq HeapItem /\ strayed \in BOOLEAN

(* As long as pop_by_index was not given an even index above 2, whose       *)
(* `index >> 1` is not its parent (heap_root.hpp:240; see HeapKept):        *)
(* the array holds exactly the items put in and not handed out, each once,  *)
(* and each of them knows its index (:80, 130, 143 tell it).                *)
HeapFiled == ~strayed =>
    /\ {heap[i] : i \in 0 .. count - 1} = held
    /\ \A v \in held : position[v] < count /\ heap[position[v]] = v

(* ... and what pop hands out is a least item of all that are held, however *)
(* pushes, replacements and removals by index were mixed.                   *)
PopsLeast ==
    [][PopFirst \/ (\E v \in HeapItem : ReplaceFirst(v)) =>
        \A u \in held : strayed \/ HeapKey[heap[0]] <= HeapKey[u]]_heapVars

(* doc_guide/usage/algo/heap_root.hpp:81: pop_by_index "takes ary[3] out    *)
(* and keeps the heap structure".  With another index it does not, and a    *)
(* removal of the last item by its index then hands out an item that stays  *)
(* in the array while another one is lost.                                  *)
HeapKept == HeapOrdered(heap, count, HeapKey)
=============================================================================
