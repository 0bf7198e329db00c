----------------------------- MODULE ListPromise -----------------------------
(****************************************************************************)
(* What docker/private/stack.hpp and queue.hpp promise to several threads:  *)
(* a sequence of items whose operations take effect at once.                *)
(****************************************************************************)
EXTENDS Sequences

CONSTANTS User, Item, Null

VARIABLES
    lifo,           \* a stack, otherwise a queue
    content,        \* the next item to be popped first
    got             \* got[u]: the item that u popped and has not yet freed

Init ==
    /\ lifo \in BOOLEAN
    /\ content = <<>>
    /\ got = [u \in User |-> Null]

Push(n) ==
    /\ content' = IF lifo THEN <<n>> \o content ELSE Append(content, n)
    /\ n \notin {content[i] : i \in DOMAIN content}
    /\ UNCHANGED <<lifo, got>>

Pop(u) ==
    /\ content # <<>> /\ got[u] = Null
    /\ content' = Tail(content)
    /\ got' = [got EXCEPT ![u] = Head(content)]
    /\ UNCHANGED lifo

Forget(u) ==
    /\ got' = [got EXCEPT ![u] = Null]
    /\ UNCHANGED <<lifo, content>>

Clear ==
    /\ content' = <<>>
    /\ UNCHANGED <<lifo, got>>

Next == \/ \E u \in User : Forget(u) \/ Pop(u)
        \/ \E n \in Item : Push(n)
        \/ Clear

Spec == Init /\ [][Next]_<<lifo, content, got>>
==============================================================================
