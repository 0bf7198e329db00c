------------------------------ MODULE MapPromise ------------------------------
(* What a container keyed by Key promises: a map, and what each call says.   *)
CONSTANTS Key, Value, Nothing

VARIABLES content, answer

Init == content = [k \in Key |-> Nothing] /\ answer = "none"

Set(k, v) ==
    /\ content' = [content EXCEPT ![k] = v]
    /\ answer' = IF content[k] = Nothing THEN "success" ELSE "override"

TakeOut(k) ==
    /\ content' = [content EXCEPT ![k] = Nothing]
    /\ answer' = content[k]

Clear == content' = [k \in Key |-> Nothing] /\ UNCHANGED answer

Next == Clear \/ \E k \in Key : TakeOut(k) \/ \E v \in Value : Set(k, v)

Spec == Init /\ [][Next]_<<content, answer>>
===============================================================================
