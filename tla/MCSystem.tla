------------------------------- MODULE MCSystem -------------------------------
(****************************************************************************)
(* One instance of each component that has a module of its own and few      *)
(* states: the policy barrier, the group barrier by fields and as a word,   *)
(* threads, a heap.  They share no state; `part` says which runs.           *)
(****************************************************************************)
EXTENDS PolicyBarrier, GroupBarrier, GroupWord, ThreadLife, BinaryHeap, TLC

CONSTANTS routing, push, pop, clear, top_xr

(* Five rows of the table of docker/private/stack.hpp:37-46, with 2 lanes   *)
(* instead of 15 for the concurrent operations.                             *)
StackShare ==
    routing :> {top_xr} @@ push :> {push, top_xr} @@ pop :> {} @@ clear :> {}
    @@ top_xr :> {routing, push, top_xr}

StackConcurrency == routing :> 1 @@ push :> 2 @@ pop :> 1 @@ clear :> 1 @@ top_xr :> 2

(* Items by their keys: some are equal, so that an item below another one   *)
(* may be smaller than the parent of a third.                               *)
KeyOfItem == [v \in HeapItem |-> v \div 10]

VARIABLE part

Only(which, action) == part = which /\ action /\ UNCHANGED part

SystemInit ==
    /\ part \in {"policy", "fields", "word", "thread", "heap"}
    /\ Init /\ GroupInit /\ WordInit /\ ThreadInit /\ HeapInit
    /\ part # "thread" => ~windows

SystemNext ==
    \/ Only("policy", Next) /\ UNCHANGED <<groupVars, wordVars, threadVars, heapVars>>
    \/ Only("fields", GroupNext) /\ UNCHANGED <<vars, wordVars, threadVars, heapVars>>
    \/ Only("word", WordNext) /\ UNCHANGED <<vars, groupVars, threadVars, heapVars>>
    \/ Only("thread", ThreadNext) /\ UNCHANGED <<vars, groupVars, wordVars, heapVars>>
    \/ Only("heap", HeapNext) /\ UNCHANGED <<vars, groupVars, wordVars, threadVars>>

systemVars == <<part, vars, groupVars, wordVars, threadVars, heapVars>>

(* Each part is as fair as its own module says.                             *)
SystemFairness ==
    /\ \A t \in Thread : WF_vars(Only("policy", Step(t)))
    /\ \A t \in Contender : WF_groupVars(Only("fields", GroupStep(t)))
    /\ WF_threadVars(Only("thread", MainStep))
    /\ \A b \in Block : WF_threadVars(Only("thread", ThreadStep(b)))

SystemSpec == SystemInit /\ [][SystemNext]_systemVars /\ SystemFairness
------------------------------------------------------------------------------
(* Values of the variables of the components.                               *)
SystemTypeOK == TypeOK /\ GroupTypeOK /\ ThreadTypeOK /\ HeapTypeOK

(* Attempts that were refused leave nothing behind that would keep a thread *)
(* out: neither a lane of the policy barrier (policy_barrier.hpp:225) nor a *)
(* count of the group barrier (group_barrier.hpp:128).                      *)
EntryIsGranted == EntryWithoutRivals /\ EntryWhenAlone
==============================================================================
