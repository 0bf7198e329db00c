----------------------------- MODULE GcPipeline -----------------------------
(****************************************************************************)
(* gc/private/background.hpp: dropping a reference does not touch the       *)
(* counter of the object.  gc_push puts the object on a ring of             *)
(* xgc_filter_queue_depth slots; the filter thread (gc_execute) takes the   *)
(* ring in batches, decrements the counters, destroys what nobody owns and  *)
(* hands lists of dead blocks to the release thread over a ring of          *)
(* xgc_free_list_queue_depth slots.                                         *)
(*                                                                          *)
(* Objects here have no cycles (need_gc = false in gc/ref.hpp): an object   *)
(* may own others by members, which own nothing.                            *)
(****************************************************************************)
EXTENDS Naturals, SequencesExt

CONSTANTS
    Thread,         \* the application's threads
    Object,
    Member,         \* Member[o]: the objects the members of o refer to
    Depth,          \* xgc_filter_queue_depth
    FreeDepth,      \* xgc_free_list_queue_depth
    MaxPush,        \* bound: how many references are dropped in all
    Null

ASSUME PipelineAssumption ==
    /\ IsFiniteSet(Thread) /\ IsFiniteSet(Object)
    /\ Member \in [Object -> SUBSET Object]
    /\ \A o \in Object : \A m \in Member[o] : Member[m] = {}
    /\ Depth \in Nat \ {0} /\ FreeDepth \in Nat \ {0} /\ MaxPush \in Nat
    /\ Null \notin Object

VARIABLES
    owners,         \* owners[o]: the counter in m_record
    refs,           \* refs[th]: the objects th has a reference to
    in_queue,       \* m_in_queue
    under_release,  \* m_under_release: the object was destroyed
    gc_filter_queue,\* the field mem of each slot
    g_i_push, g_i_pop,
    g_free_list,    \* blocks that died in this round
    g_free_list_queue,
    given_back,     \* blocks returned to the allocator
    g_gc_exit,
    pc,             \* application threads
    i_push, mem,    \* locals of gc_push, kept as l_i_wait / l_wait_mem
    filter,         \* where the filter thread is
    i_begin, i_end, i,  \* its batch and its position
    i_queue,        \* its slot of g_free_list_queue
    release,        \* where the release thread is
    resumed         \* the release thread was resumed since its last suspend

countVars  == <<owners, refs, in_queue, under_release>>
ringVars   == <<gc_filter_queue, g_i_push, g_i_pop>>
listVars   == <<g_free_list, g_free_list_queue, given_back>>
threadVars == <<pc, i_push, mem>>
filterVars == <<filter, i_begin, i_end, i, i_queue>>
otherVars  == <<release, resumed, g_gc_exit>>
vars == <<countVars, ringVars, listVars, threadVars, filterVars, otherVars>>

Parents(o) == {p \in Object : o \in Member[p]}

Init ==
    /\ refs \in [Thread -> SUBSET Object]
    /\ \A o \in Object : (\E th \in Thread : o \in refs[th]) \/ Parents(o) # {}
    /\ owners = [o \in Object |->
            Cardinality({th \in Thread : o \in refs[th]}) + Cardinality(Parents(o))]
    /\ in_queue = [o \in Object |-> FALSE]
    /\ under_release = [o \in Object |-> FALSE]
    /\ gc_filter_queue = [s \in 0 .. Depth - 1 |-> Null]
    /\ g_i_push = 0 /\ g_i_pop = 0
    /\ g_free_list = <<>>
    /\ g_free_list_queue = [s \in 0 .. FreeDepth - 1 |-> <<>>]
    /\ given_back = {}
    /\ g_gc_exit = "no"
    /\ pc = [th \in Thread |-> "idle"]
    /\ i_push = [th \in Thread |-> 0]
    /\ mem = [th \in Thread |-> Null]
    /\ filter = "idle" /\ i_begin = 0 /\ i_end = 0 /\ i = 0 /\ i_queue = 0
    /\ release = "suspended" /\ resumed = FALSE

Slot(n) == n % Depth
Goto(th, label) == pc' = [pc EXCEPT ![th] = label]

(* Plausible mistakes in the code below.  None is part of the model: each   *)
(* stands for the definition it is named after and must break a property.   *)

Copy_NotCounted(th, u, o) ==
    /\ pc[th] = "idle" /\ pc[u] = "idle"
    /\ o \in refs[th] /\ o \notin refs[u]
    /\ refs' = [refs EXCEPT ![u] = @ \cup {o}]
    /\ UNCHANGED <<owners, in_queue, under_release, ringVars, listVars, threadVars, filterVars,
                   otherVars>>

PushRoom_OneTooMany(th) ==
    /\ pc[th] = "room"
    /\ i_push[th] - g_i_pop <= Depth
    /\ Goto(th, "store")
    /\ UNCHANGED <<countVars, ringVars, listVars, i_push, mem, filterVars, otherVars>>

TakeBatch_MoreThanRing ==
    /\ filter = "idle"
    /\ g_gc_exit # "asked"
    /\ g_i_push # g_i_pop
    /\ i_begin' = g_i_pop
    /\ i_end' = g_i_push
    /\ i' = i_end'
    /\ filter' = "count"
    /\ UNCHANGED <<countVars, ringVars, listVars, threadVars, i_queue, otherVars>>

CountDown_SlotsKept ==
    /\ filter = "count" /\ i # i_begin
    /\ LET m == gc_filter_queue[Slot(i - 1)]
       IN  /\ m # Null
           /\ owners' = [owners EXCEPT ![m] = @ - 1]
           /\ in_queue' = [in_queue EXCEPT ![m] = TRUE]
    /\ i' = i - 1
    /\ UNCHANGED <<refs, under_release, ringVars, listVars, threadVars, filter, i_begin,
                   i_end, i_queue, otherVars>>

DyingMembers_Shared(o) == {m \in Member[o] : ~under_release[m]}

CountDown_OwnedSlotDropped ==
    /\ filter = "count" /\ i # i_begin
    /\ LET s == Slot(i - 1)
           m == gc_filter_queue[s]
       IN  /\ m # Null
           /\ owners' = [owners EXCEPT ![m] = @ - 1]
           /\ in_queue' = [in_queue EXCEPT ![m] = TRUE]
           /\ gc_filter_queue' =
                IF owners[m] > 1 \/ in_queue[m] THEN [gc_filter_queue EXCEPT ![s] = Null]
                                               ELSE gc_filter_queue
    /\ i' = i - 1
    /\ UNCHANGED <<refs, under_release, g_i_push, g_i_pop, listVars, threadVars, filter, i_begin,
                   i_end, i_queue, otherVars>>

------------------------------------------------------------------------------
(* meta::operator=: another thread gets a reference from one that has it    *)
Copy(th, u, o) ==
    /\ pc[th] = "idle" /\ pc[u] = "idle"
    /\ o \in refs[th] /\ o \notin refs[u]
    /\ refs' = [refs EXCEPT ![u] = @ \cup {o}]
    /\ owners' = [owners EXCEPT ![o] = @ + 1]
    /\ UNCHANGED <<in_queue, under_release, ringVars, listVars, threadVars, filterVars, otherVars>>

(* meta::operator=(nullptr) and the first line of gc_push: a ticket         *)
PushTicket(th, o) ==
    /\ pc[th] = "idle"
    /\ g_i_push < MaxPush
    /\ o \in refs[th]
    /\ refs' = [refs EXCEPT ![th] = @ \ {o}]
    /\ i_push' = [i_push EXCEPT ![th] = g_i_push]
    /\ mem' = [mem EXCEPT ![th] = o]
    /\ g_i_push' = g_i_push + 1
    /\ Goto(th, "room")
    /\ UNCHANGED <<owners, in_queue, under_release, gc_filter_queue, g_i_pop, listVars,
                   filterVars, otherVars>>

(* the slot of the ticket is free as soon as the filter thread has passed   *)
(* its previous use                                                         *)
PushRoom(th) ==
    /\ pc[th] = "room"
    /\ i_push[th] - g_i_pop < Depth
    /\ Goto(th, "store")
    /\ UNCHANGED <<countVars, ringVars, listVars, i_push, mem, filterVars, otherVars>>

PushStore(th) ==
    /\ pc[th] = "store"
    /\ gc_filter_queue' = [gc_filter_queue EXCEPT ![Slot(i_push[th])] = mem[th]]
    /\ Goto(th, "idle")
    /\ UNCHANGED <<countVars, g_i_push, g_i_pop, listVars, i_push, mem, filterVars, otherVars>>

(* gc_sync: wait until the slot of the last push changes.  (A thread that   *)
(* never pushed waits for somebody to push to slot 0.)                      *)
SyncBegin(th) ==
    /\ pc[th] = "idle"
    /\ Goto(th, "sync")
    /\ UNCHANGED <<countVars, ringVars, listVars, i_push, mem, filterVars, otherVars>>

SyncReturn(th) ==
    /\ pc[th] = "sync"
    /\ gc_filter_queue[Slot(i_push[th])] # mem[th]
    /\ Goto(th, "idle")
    /\ UNCHANGED <<countVars, ringVars, listVars, i_push, mem, filterVars, otherVars>>

------------------------------------------------------------------------------
(* gc_execute: take what was pushed so far, at most one ring                *)
TakeBatch ==
    /\ filter = "idle"
    /\ g_gc_exit # "asked"
    /\ g_i_push # g_i_pop
    /\ i_begin' = g_i_pop
    /\ i_end' = IF g_i_push - g_i_pop >= Depth THEN g_i_pop + Depth ELSE g_i_push
    /\ i' = i_end'
    /\ filter' = "count"
    /\ UNCHANGED <<countVars, ringVars, listVars, threadVars, i_queue, otherVars>>

(* Backwards: wait until the slot is filled, decrement the counter, keep    *)
(* only the last slot of an object                                          *)
CountDown ==
    /\ filter = "count" /\ i # i_begin
    /\ LET s == Slot(i - 1)
           m == gc_filter_queue[s]
       IN  /\ m # Null
           /\ owners' = [owners EXCEPT ![m] = @ - 1]
           /\ in_queue' = [in_queue EXCEPT ![m] = TRUE]
           /\ gc_filter_queue' =
                IF in_queue[m] THEN [gc_filter_queue EXCEPT ![s] = Null] ELSE gc_filter_queue
    /\ i' = i - 1
    /\ UNCHANGED <<refs, under_release, g_i_push, g_i_pop, listVars, threadVars, filter, i_begin,
                   i_end, i_queue, otherVars>>

(* A free slot for the list of this round, by suspending until there is one *)
TakeListSlot ==
    /\ filter = "count" /\ i = i_begin
    /\ g_free_list_queue[i_queue] = <<>>
    /\ g_free_list' = <<>>
    /\ filter' = "release"
    /\ UNCHANGED <<countVars, ringVars, g_free_list_queue, given_back, threadVars, i_begin,
                   i_end, i, i_queue, otherVars>>

(* The members of a destroyed object lose an owner; those without another   *)
(* one are destroyed in turn (operator=(nullptr) with l_in_release).        *)
DyingMembers(o) == {m \in Member[o] : ~under_release[m] /\ owners[m] = 1}

(* the dead blocks: free_with_destroy files a block after its destructor    *)
(* ran, so the members come before the object                               *)
Blocks(o) == Append(SetToSeq(DyingMembers(o)), o)

(* A mistake: the flag m_under_release is not tested before meta::release.  *)
Release_DestroysAgain ==
    /\ filter = "release" /\ i # i_end
    /\ LET m    == gc_filter_queue[Slot(i)]
           dies == m # Null /\ owners[m] = 0
       IN  /\ IF dies
              THEN /\ under_release' = [o \in Object |->
                            under_release[o] \/ o = m \/ o \in DyingMembers(m)]
                   /\ owners' = [o \in Object |->
                            IF o \in Member[m] /\ ~under_release[o] THEN owners[o] - 1
                                                                    ELSE owners[o]]
                   /\ g_free_list' = g_free_list \o Blocks(m)
              ELSE UNCHANGED <<under_release, owners, g_free_list>>
           /\ in_queue' = IF m = Null THEN in_queue ELSE [in_queue EXCEPT ![m] = FALSE]
    /\ filter' = "clear"
    /\ UNCHANGED <<refs, ringVars, g_free_list_queue, given_back, threadVars, i_begin, i_end, i,
                   i_queue, otherVars>>

(* Forwards: meta::release on the slots that kept their object              *)
Release ==
    /\ filter = "release" /\ i # i_end
    /\ LET m    == gc_filter_queue[Slot(i)]
           dies == m # Null /\ ~under_release[m] /\ owners[m] = 0
       IN  /\ IF dies
              THEN /\ under_release' = [o \in Object |->
                            under_release[o] \/ o = m \/ o \in DyingMembers(m)]
                   /\ owners' = [o \in Object |->
                            IF o \in Member[m] /\ ~under_release[o] THEN owners[o] - 1
                                                                    ELSE owners[o]]
                   /\ g_free_list' = g_free_list \o Blocks(m)
              ELSE UNCHANGED <<under_release, owners, g_free_list>>
           /\ in_queue' = IF m = Null THEN in_queue ELSE [in_queue EXCEPT ![m] = FALSE]
    /\ filter' = "clear"
    /\ UNCHANGED <<refs, ringVars, g_free_list_queue, given_back, threadVars, i_begin, i_end, i,
                   i_queue, otherVars>>

(* first the slot is cleared ...                                            *)
ClearSlot ==
    /\ filter = "clear"
    /\ gc_filter_queue' = [gc_filter_queue EXCEPT ![Slot(i)] = Null]
    /\ filter' = "pop"
    /\ UNCHANGED <<countVars, g_i_push, g_i_pop, listVars, threadVars, i_begin, i_end, i,
                   i_queue, otherVars>>

(* ... then pushers may use it                                              *)
AdvancePop ==
    /\ filter = "pop"
    /\ g_i_pop' = i + 1
    /\ i' = i + 1
    /\ filter' = "release"
    /\ UNCHANGED <<countVars, gc_filter_queue, g_i_push, listVars, threadVars, i_begin, i_end,
                   i_queue, otherVars>>

PublishList ==
    /\ filter = "release" /\ i = i_end
    /\ filter' = "idle"
    /\ i_begin' = 0 /\ i_end' = 0 /\ i' = 0
    /\ IF g_free_list = <<>>
       THEN UNCHANGED <<g_free_list_queue, i_queue, resumed>>
       ELSE /\ g_free_list_queue' = [g_free_list_queue EXCEPT ![i_queue] = g_free_list]
            /\ i_queue' = (i_queue + 1) % FreeDepth
            /\ resumed' = TRUE
    /\ UNCHANGED <<countVars, ringVars, g_free_list, given_back, threadVars, release, g_gc_exit>>

(* the end of gc_execute                                                    *)
FilterExit ==
    /\ filter = "idle"
    /\ g_gc_exit = "asked"
    /\ filter' = "stopped"
    /\ resumed' = TRUE
    /\ UNCHANGED <<countVars, ringVars, listVars, threadVars, i_begin, i_end, i, i_queue,
                   release, g_gc_exit>>

(* What the variable free_list of the release thread holds when its loop    *)
(* starts: the empty list of its declaration; no slot of the ring is read.  *)
FreeList == <<>>

(* The release thread: resumed, it returns the blocks of free_list          *)
ReleaseRound ==
    /\ release = "suspended" /\ resumed
    /\ resumed' = FALSE
    /\ IF g_gc_exit = "asked"
       THEN /\ release' = "stopped" /\ g_gc_exit' = "answered"
            /\ UNCHANGED given_back
       ELSE /\ given_back' = given_back \cup ToSet(FreeList)
            /\ UNCHANGED <<release, g_gc_exit>>
    /\ UNCHANGED <<countVars, ringVars, g_free_list, g_free_list_queue, threadVars, filterVars>>

(* The global destructor of the main thread                                 *)
AskExit ==
    /\ g_gc_exit = "no"
    /\ g_gc_exit' = "asked"
    /\ UNCHANGED <<countVars, ringVars, listVars, threadVars, filterVars, release, resumed>>

Filter ==
    \/ TakeBatch \/ CountDown \/ TakeListSlot \/ Release \/ ClearSlot \/ AdvancePop
    \/ PublishList \/ FilterExit

Push(th) == PushRoom(th) \/ PushStore(th) \/ SyncReturn(th)

Next ==
    \/ \E th \in Thread :
        \/ Push(th) \/ SyncBegin(th)
        \/ \E o \in Object : PushTicket(th, o) \/ \E u \in Thread : Copy(th, u, o)
    \/ Filter \/ ReleaseRound \/ AskExit

Spec == Init /\ [][Next]_vars

(* Threads that push, and the two threads of the collector, keep running:   *)
(* the filter thread's waits for work are bounded by 64 ms.                 *)
FairSpec ==
    /\ Spec
    /\ WF_vars(Filter) /\ WF_vars(ReleaseRound)
    /\ \A th \in Thread : WF_vars(Push(th))
------------------------------------------------------------------------------
TypeOK ==
    /\ owners \in [Object -> Nat]
    /\ refs \in [Thread -> SUBSET Object]
    /\ in_queue \in [Object -> BOOLEAN] /\ under_release \in [Object -> BOOLEAN]
    /\ gc_filter_queue \in [0 .. Depth - 1 -> Object \cup {Null}]
    /\ g_i_pop \in 0 .. g_i_push /\ g_i_push <= MaxPush
    /\ g_free_list \in Seq(Object)
    /\ g_free_list_queue \in [0 .. FreeDepth - 1 -> Seq(Object)]
    /\ given_back \subseteq Object
    /\ g_gc_exit \in {"no", "asked", "answered"}
    /\ pc \in [Thread -> {"idle", "room", "store", "sync"}]
    /\ i_push \in [Thread -> Nat]
    /\ mem \in [Thread -> Object \cup {Null}]
    /\ filter \in {"idle", "count", "release", "clear", "pop", "stopped"}
    /\ i_begin <= i /\ i <= i_end /\ i_end <= g_i_push
    /\ i_queue \in 0 .. FreeDepth - 1
    /\ release \in {"suspended", "stopped"} /\ resumed \in BOOLEAN

(* The pushes that still count as an owner: those whose slot the filter     *)
(* thread has not decremented.                                              *)
Counted(n) ==
    CASE filter \in {"idle", "stopped"} -> n < g_i_pop
      [] filter = "count"              -> i <= n /\ n < i_end
      [] OTHER                         -> n < i_end

Pushed(n) ==
    IF \E th \in Thread : pc[th] \in {"room", "store"} /\ i_push[th] = n
    THEN mem[CHOOSE th \in Thread : pc[th] \in {"room", "store"} /\ i_push[th] = n]
    ELSE gc_filter_queue[Slot(n)]

Pending(o) == {n \in g_i_pop .. g_i_push - 1 : ~Counted(n) /\ Pushed(n) = o}

LiveParents(o) == {p \in Parents(o) : ~under_release[p]}
Holders(o) == {th \in Thread : o \in refs[th]}

(* The counter of a live object is exact at every moment, between any two   *)
(* steps of the pushers and of the batch decrement: it counts the           *)
(* references, the pushes not yet decremented and the live parents.         *)
OwnersExact ==
    \A o \in Object : ~under_release[o] =>
        owners[o] = Cardinality(Holders(o)) + Cardinality(Pending(o))
                        + Cardinality(LiveParents(o))

(* Nothing is destroyed while somebody holds it: a thread, a push that the  *)
(* filter thread has not seen, or a live object.                            *)
NoEarlyDestroy ==
    \A o \in Object : under_release[o] =>
        Holders(o) = {} /\ Pending(o) = {} /\ LiveParents(o) = {}

(* Where a block is filed: the list of the running round and the ring       *)
Filed(o) ==
    (IF filter \in {"release", "clear", "pop"}
     THEN {<<FreeDepth, k>> : k \in {j \in DOMAIN g_free_list : g_free_list[j] = o}} ELSE {})
    \cup UNION {{<<q, k>> : k \in {j \in DOMAIN g_free_list_queue[q] :
                                        g_free_list_queue[q][j] = o}} : q \in 0 .. FreeDepth - 1}

(* Each destroyed object's block is on exactly one list for the release     *)
(* thread, and no live one is on any: destructors run once and no list is   *)
(* overwritten.                                                             *)
DeadOnce ==
    \A o \in Object : o \notin given_back =>
        Cardinality(Filed(o)) = IF under_release[o] THEN 1 ELSE 0

(* m_in_queue is set for exactly the objects that have a slot in the part   *)
(* of the batch between the decrement and the release; a flag left behind   *)
(* would make the next round drop every slot of the object.                 *)
FlagMeansSlot ==
    LET window == CASE filter \in {"idle", "stopped"} -> {}
                    [] filter \in {"clear", "pop"}    -> i + 1 .. i_end - 1
                    [] OTHER                          -> i .. i_end - 1
    IN  \A o \in Object :
            Cardinality({n \in window : gc_filter_queue[Slot(n)] = o})
                = IF in_queue[o] THEN 1 ELSE 0

(* An object is destroyed once, not before its last owner is gone, by the   *)
(* one slot of the batch that stands for it (background.hpp:110-180).       *)
DestroyedInTime == NoEarlyDestroy /\ DeadOnce /\ FlagMeansSlot

(* A slot in use is emptied before it is used again: a pusher a whole ring  *)
(* ahead never replaces a push that waits for the filter thread.            *)
NoPushOverwritten ==
    [][\A s \in 0 .. Depth - 1 :
            gc_filter_queue[s] # Null => gc_filter_queue'[s] \in {gc_filter_queue[s], Null}]_vars

(* An object that nobody refers to any more is destroyed, unless the        *)
(* program ends first.  (FreeDepth must not be exhausted: the ring of free  *)
(* lists is never emptied, see MemoryGivenBack.)                            *)
Unowned(o) == Holders(o) = {} /\ LiveParents(o) = {}
DroppedIsDestroyed ==
    \A o \in Object : Unowned(o) ~> (under_release[o] \/ g_gc_exit # "no")

(* The comment in the release thread (line 258) says it then frees the      *)
(* memory.  Its list is never loaded: the block stays on the ring.          *)
MemoryGivenBack ==
    \A o \in Object : under_release[o] ~> (o \in given_back \/ g_gc_exit # "no")

(* The answer to the main thread says that the collector has stopped        *)
(* (comment at line 266): no destructor runs after it.                      *)
AnswerMeansStopped == g_gc_exit = "answered" => filter = "stopped"
=============================================================================
