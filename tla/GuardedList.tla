----------------------------- MODULE GuardedList -----------------------------
(****************************************************************************)
(* docker/private/stack.hpp and queue.hpp: linked lists under a lock that   *)
(* lets several operations in at once.  The lock is what PolicyAdmission    *)
(* promises, for the table of the containers or (lwmutex) for one thread at *)
(* a time; what the operations read and write inside is modelled by steps.  *)
(****************************************************************************)
EXTENDS Naturals, SequencesExt

CONSTANTS
    User,           \* threads
    Item,           \* nodes, numbered, each pushed at most once
    Null,
    Shape           \* the containers to look at: <<"stack" or "queue", lock>>

(* the tables, stack.hpp:37 to 46 and queue.hpp:37 to 46; `peek` and `poke` *)
(* are top_xr / head_xr and top_xw / head_xw; routing does nothing          *)
Operation == {"clear", "push", "pop", "foreach", "peek", "poke"}

(* A mistake: pushes may run beside a walk.                                 *)
Table_PushBesideForeach ==
    [op \in Operation |->
        IF op = "push" THEN {"push", "foreach", "peek", "poke"}
        ELSE IF op \in {"clear", "pop"} THEN {}
        ELSE {"push", "foreach", "peek", "poke"}]

(* A mistake: a push may run beside a pop.                                  *)
Table_PopBesidePush ==
    [op \in Operation |->
        IF op = "push" THEN {"push", "pop", "peek", "poke"}
        ELSE IF op = "pop" THEN {"push"}
        ELSE IF op = "clear" THEN {}
        ELSE IF op = "foreach" THEN {"foreach", "peek", "poke"}
        ELSE {"push", "foreach", "peek", "poke"}]

Table ==
    [op \in Operation |->
        IF op = "push" THEN {"push", "peek", "poke"}
        ELSE IF op \in {"clear", "pop"} THEN {}
        ELSE IF op = "foreach" THEN {"foreach", "peek", "poke"}
        ELSE {"push", "foreach", "peek", "poke"}]

Row == {"policy", "lwmutex"} \X Operation

ASSUME ListAssumption ==
    /\ Item \subseteq Nat /\ IsFiniteSet(Item)
    /\ Null \notin Item \cup User \cup Row
    /\ Shape \subseteq {"stack", "queue"} \X {"policy", "lwmutex"}

VARIABLES
    shape,          \* the container and its lock
    inside,         \* the lock: inside[u] is the row that u is in
    top, next,      \* m_top of the container, next of the nodes
    fate,           \* fate[n]: what became of node n
    at,             \* at[u]: the next step of u
    cur, old,       \* locals of u: the node in hand, the top that was read
    seen            \* what a foreach of u has visited

listVars == <<shape, inside, top, next, fate, at, cur, old, seen>>

Lock == INSTANCE PolicyAdmission WITH
    Thread <- User, Op <- Row, Outside <- Null,
    Share <- [row \in Row |-> IF row[1] = "policy" THEN {"policy"} \X Table[row[2]] ELSE {}],
    Concurrency <- [row \in Row |-> IF row[1] = "policy" /\ row[2] \in Table[row[2]]
                                    THEN 15 ELSE 1]

ListInit ==
    /\ shape \in Shape
    /\ Lock!Init
    /\ top = Null
    /\ next = [n \in Item |-> Null]
    /\ fate = [n \in Item |-> "unused"]
    /\ at = [u \in User |-> "idle"]
    /\ cur = [u \in User |-> Null] /\ old = [u \in User |-> Null]
    /\ seen = [u \in User |-> <<>>]

IsStack == shape[1] = "stack"
Go(u, step)   == at' = [at EXCEPT ![u] = step]
Hold(u, node) == cur' = [cur EXCEPT ![u] = node]
Drop(u)       == Hold(u, Null) /\ Go(u, "idle")

(* lock<op>                                                                 *)
Begin(u) ==
    /\ at[u] = "idle"
    /\ \E op \in Operation \ {"push"} : Lock!Enter(u, <<shape[2], op>>) /\ Go(u, op)
    /\ UNCHANGED <<shape, top, next, fate, cur, old, seen>>

(* a push makes its node before it locks; which one makes no difference     *)
FreshItem == {n \in Item : fate[n] = "unused"}

BeginPush(u) ==
    /\ at[u] = "idle" /\ FreshItem # {}
    /\ LET n == CHOOSE m \in FreshItem : \A o \in FreshItem : m <= o
       IN  Hold(u, n) /\ fate' = [fate EXCEPT ![n] = "made"]
    /\ Lock!Enter(u, <<shape[2], "push">>) /\ Go(u, "push")
    /\ UNCHANGED <<shape, top, next, old, seen>>

(* push of the stack: new_top->next = swap_top(new_top), in two steps       *)
StackSwap(u) ==
    /\ at[u] = "push" /\ IsStack
    /\ fate' = [fate EXCEPT ![cur[u]] = "linked"]
    /\ top' = cur[u] /\ old' = [old EXCEPT ![u] = top]
    /\ Go(u, "link")
    /\ UNCHANGED <<shape, inside, next, cur, seen>>

StackLink(u) ==
    /\ at[u] = "link"
    /\ next' = [next EXCEPT ![cur[u]] = old[u]]
    /\ Lock!Leave(u) /\ Drop(u)
    /\ old' = [old EXCEPT ![u] = Null]
    /\ UNCHANGED <<shape, top, fate, seen>>

(* push of the queue: top is read, the new node linked behind it ...        *)
QueueReadTop(u) ==
    /\ at[u] = "push" /\ ~IsStack
    /\ next' = [next EXCEPT ![cur[u]] = IF top = Null THEN cur[u] ELSE next[top]]
    /\ old' = [old EXCEPT ![u] = top]
    /\ Go(u, IF top = Null THEN "swap" ELSE "behind")
    /\ UNCHANGED <<shape, inside, top, fate, cur, seen>>

QueueLink(u) ==
    /\ at[u] = "behind"
    /\ next' = [next EXCEPT ![old[u]] = cur[u]]
    /\ Go(u, "swap")
    /\ UNCHANGED <<shape, inside, top, fate, cur, old, seen>>

(* ... and made the top                                                     *)
QueueSwap(u) ==
    /\ at[u] = "swap"
    /\ top' = cur[u]
    /\ fate' = [fate EXCEPT ![cur[u]] = "linked"]
    /\ Lock!Leave(u) /\ Drop(u)
    /\ old' = [old EXCEPT ![u] = Null]
    /\ UNCHANGED <<shape, next, seen>>

(* pop: the first item is read ...                                          *)
PopRead(u) ==
    /\ at[u] = "pop"
    /\ IF top = Null
       THEN Lock!Leave(u) /\ Go(u, "idle") /\ UNCHANGED cur
       ELSE Go(u, "unlink") /\ Hold(u, IF IsStack THEN top ELSE next[top]) /\ UNCHANGED inside
    /\ UNCHANGED <<shape, top, next, fate, old, seen>>

(* ... taken off the list, and freed behind the lock                        *)
PopUnlink(u) ==
    /\ at[u] = "unlink"
    /\ IF IsStack THEN top' = next[cur[u]] /\ UNCHANGED next
       ELSE IF cur[u] = top THEN top' = Null /\ UNCHANGED next
       ELSE next' = [next EXCEPT ![top] = next[cur[u]]] /\ UNCHANGED top
    /\ fate' = [fate EXCEPT ![cur[u]] = "taken"]
    /\ Lock!Leave(u) /\ Go(u, "free")
    /\ UNCHANGED <<shape, cur, old, seen>>

PopFree(u) ==
    /\ at[u] = "free"
    /\ fate' = [fate EXCEPT ![cur[u]] = "freed"]
    /\ Drop(u)
    /\ UNCHANGED <<shape, inside, top, next, old, seen>>

(* clear: the list is cut off under the lock and freed behind it            *)
ClearSwap(u) ==
    /\ at[u] = "clear"
    /\ top' = Null /\ Hold(u, top) /\ old' = [old EXCEPT ![u] = top]
    /\ fate' = [n \in Item |-> IF fate[n] = "linked" THEN "taken" ELSE fate[n]]
    /\ Lock!Leave(u) /\ Go(u, "sweep")
    /\ UNCHANGED <<shape, next, seen>>

ClearFree(u) ==
    /\ at[u] = "sweep" /\ cur[u] # Null
    /\ fate' = [fate EXCEPT ![cur[u]] = "freed"]
    /\ Hold(u, IF ~IsStack /\ next[cur[u]] = old[u] THEN Null ELSE next[cur[u]])
    /\ UNCHANGED <<shape, inside, top, next, at, old, seen>>

ClearEnd(u) ==
    /\ at[u] = "sweep" /\ cur[u] = Null
    /\ Go(u, "idle") /\ old' = [old EXCEPT ![u] = Null]
    /\ UNCHANGED <<shape, inside, top, next, fate, cur, seen>>

(* foreach, and the two accesses to the first item: the list is entered ... *)
First == IF top = Null \/ IsStack THEN top ELSE next[top]

Look(u) ==
    /\ at[u] \in {"foreach", "peek", "poke"}
    /\ Hold(u, First) /\ seen' = [seen EXCEPT ![u] = <<>>]
    /\ Go(u, IF at[u] = "foreach" THEN "walk" ELSE "touch")
    /\ UNCHANGED <<shape, inside, top, next, fate, old>>

Visit(u) ==
    /\ at[u] = "walk" /\ cur[u] # Null
    /\ seen' = [seen EXCEPT ![u] = Append(@, cur[u])]
    /\ Hold(u, IF ~IsStack /\ cur[u] = top THEN Null ELSE next[cur[u]])
    /\ UNCHANGED <<shape, inside, top, next, fate, at, old>>

(* ... and left, by a walk at its end or when its visitor says `finish`      *)
LookEnd(u) ==
    /\ at[u] = "touch" \/ (at[u] = "walk" /\ (cur[u] = Null \/ seen[u] # <<>>))
    /\ Lock!Leave(u) /\ Drop(u) /\ seen' = [seen EXCEPT ![u] = <<>>]
    /\ UNCHANGED <<shape, top, next, fate, old>>

ListNext ==
    \E u \in User :
        \/ Begin(u) \/ BeginPush(u) \/ StackSwap(u) \/ StackLink(u) \/ QueueReadTop(u) \/ QueueLink(u)
        \/ QueueSwap(u) \/ PopRead(u) \/ PopUnlink(u) \/ PopFree(u) \/ ClearSwap(u)
        \/ ClearFree(u) \/ ClearEnd(u) \/ Look(u) \/ Visit(u) \/ LookEnd(u)

ListSpec == ListInit /\ [][ListNext]_listVars
------------------------------------------------------------------------------
Step == {"idle", "push", "link", "behind", "swap", "pop", "unlink", "free", "clear", "sweep",
         "foreach", "walk", "peek", "poke", "touch"}

ListTypeOK ==
    /\ shape \in Shape
    /\ inside \in [User -> Row \cup {Null}]
    /\ top \in Item \cup {Null} /\ next \in [Item -> Item \cup {Null}]
    /\ fate \in [Item -> {"unused", "made", "linked", "taken", "freed"}]
    /\ at \in [User -> Step] /\ seen \in [User -> Seq(Item)]
    /\ cur \in [User -> Item \cup {Null}] /\ old \in [User -> Item \cup {Null}]

(* The link that a node has, or that the thread pushing it is about to make *)
Link(n) ==
    IF \E u \in User : at[u] = "link" /\ cur[u] = n
    THEN old[CHOOSE u \in User : at[u] = "link" /\ cur[u] = n]
    ELSE next[n]

(* The items from n on: to the end of a stack, once around a queue.         *)
Ends(n) == IF IsStack THEN Link(n) = Null ELSE n = top

From(n, s) ==
    /\ s = <<>> <=> n = Null
    /\ s # <<>> => s[1] = n /\ Ends(s[Len(s)])
    /\ \A i \in 1 .. Len(s) - 1 : ~Ends(s[i]) /\ s[i + 1] = Link(s[i])

InList == {n \in Item : fate[n] \in {"made", "linked"}}

Chain(n) ==
    LET rest  == InList \ {n}
        paths == {<<>>} \cup {<<n>> \o s : s \in SeqOf(rest, Cardinality(rest))}
        found == {s \in paths : From(n, s)}
    IN  IF found = {} THEN <<Null>> ELSE CHOOSE s \in found : TRUE

(* A queue's new item is first in the chain before it is made the top.      *)
Content ==
    LET s == Chain(First)
    IN  IF s # <<>> /\ s[1] \in Item /\ fate[s[1]] # "linked" THEN Tail(s) ELSE s

Promise == INSTANCE ListPromise WITH
    lifo    <- IsStack,
    content <- Content,
    got     <- [u \in User |-> IF at[u] = "free" THEN cur[u] ELSE Null]

(* However pushes, pops, walks and accesses interleave as far as the table  *)
(* lets them, the container is a stack (a queue): each operation takes      *)
(* effect at once, pops return the items in order, none is lost or doubled. *)
RefinesPromise == Promise!Spec

(* Whoever holds a pointer inside the lock holds a node that nobody has     *)
(* taken off or freed, and a walk sees what is in the list, all of it, once.*)
ReadersSafe ==
    \A u \in User :
        /\ at[u] \in {"touch", "walk", "unlink"} /\ cur[u] # Null => fate[cur[u]] = "linked"
        /\ at[u] = "walk" => seen[u] \o Chain(cur[u]) = Content

(* queue.hpp:41 lets pushes run beside each other, as stack.hpp:41 does: no *)
(* item whose push is over is missing from the container.                   *)
PushesKept ==
    \A n \in Item : fate[n] = "linked" => \E i \in DOMAIN Content : Content[i] = n
==============================================================================
