---------------------------- MODULE MemoryHandoff ----------------------------
(****************************************************************************)
(* utils/private/memory_flow.hpp: how memory allocated by one thread comes  *)
(* back when other threads free it.  Every thread allocates from a          *)
(* meta_token of its own.  A thread that frees a foreign object pushes it   *)
(* on the lock-free list of the object's token (push_async); the owner pops *)
(* the list from time to time (handler_async_returned).  A thread that ends *)
(* while objects of its token are still in use hands the token over to the  *)
(* memory thread (raise_change_ownership), which serves the token g_back.   *)
(*                                                                          *)
(* Pages are left out: a token owns pages as long as one of its objects is  *)
(* not freed, and origin_free releases the token with its last page, so a   *)
(* token is released by the free_core of its last object.                   *)
(* An Object is one allocation and a Token one meta_token: neither is used  *)
(* a second time, which bounds the model by the sizes of these two sets.    *)
(****************************************************************************)
EXTENDS Integers, FiniteSets, TLC

CONSTANTS
    Thread,         \* the application's threads
    Mem,            \* g_mem_thread
    Object,         \* allocations of at most a page
    Token,          \* the tokens threads may create
    Back,           \* g_back, the token of the memory thread
    MaxSkipTimes,   \* max_skip_times (8 in the source)
    Null

ASSUME HandoffAssumption ==
    /\ IsFiniteSet(Thread) /\ IsFiniteSet(Object)
    /\ Mem \notin Thread /\ Back \notin Token
    /\ Null \notin Object \cup Token \cup {Back}
    /\ Object \cap (Token \cup {Back}) = {}
    /\ MaxSkipTimes \in Nat \ {0}

(* Threads, objects and tokens are interchangeable: no definition names    *)
(* one of them (used by the safety run only).                               *)
Interchangeable == Permutations(Thread) \cup Permutations(Object) \cup Permutations(Token)

AnyToken == Token \cup {Back}
Worker   == Thread \cup {Mem}

VARIABLES
    state,          \* state[o]: life of an object
    home,           \* home[o]: the token recorded in the header of o's page
    token,          \* token[th]: memory_flow::token of the thread
    released,       \* the tokens that were destroyed and given back
    used,           \* the tokens that were created
    i_enter,        \* i_enter[t]: 2 * pushes begun, bit 0 = hand-over running
    i_exit,         \* i_exit[t]: 2 * pushes finished
    owner,          \* owner[t]: the token that takes t's returned objects
    next, tail,     \* the list; the token itself stands for its node "head"
    async_returned, \* async_returned[t]
    skip_count,     \* skip_count[t]
    pc,             \* where each thread is
    obj,            \* obj[th]: the object being allocated or freed
    target,         \* target[th]: the token a thread pushes to or hands over
    into,           \* into[th]: the owner a pusher has loaded
    prev,           \* prev[th]: the old tail, to be linked to the new node
    current,        \* current[th]: i_enter as seen by raise_change_ownership
    curr, count     \* the locals of handler_async_returned

tokenVars == <<token, released, used, owner, i_enter, i_exit>>
listVars  == <<next, tail, async_returned>>
localVars == <<obj, target, into, prev, current>>
popVars   == <<curr, count>>
vars == <<state, home, tokenVars, listVars, skip_count, pc, localVars, popVars>>

(* A mistake: the object is subtracted before it is on a list.              *)
Active_WithoutFreeing(t) ==
    {o \in Object : home[o] = t /\ state[o] \in {"new", "live", "queued"}}

(* Objects of a token that are allocated and not freed; what the counter    *)
(* active_object_count is kept for.                                         *)
Active(t) == {o \in Object : home[o] = t /\ state[o] \in {"new", "live", "freeing", "queued"}}

Init ==
    /\ state = [o \in Object |-> "unborn"]
    /\ home = [o \in Object |-> Null]
    /\ token = [th \in Thread |-> Null]
    /\ released = {} /\ used = {}
    /\ i_enter = [t \in Token |-> 0]
    /\ i_exit = [t \in Token |-> 0]
    /\ owner = [t \in Token |-> t]
    /\ next = [n \in Object \cup AnyToken |-> Null]
    /\ tail = [t \in AnyToken |-> t]
    /\ async_returned = [t \in AnyToken |-> 0]
    /\ skip_count = [t \in Token |-> 0]
    /\ pc = [w \in Worker |-> "idle"]
    /\ obj = [th \in Thread |-> Null]
    /\ target = [th \in Thread |-> Null]
    /\ into = [th \in Thread |-> Null]
    /\ prev = [th \in Thread |-> Null]
    /\ current = [th \in Thread |-> 0]
    /\ curr = [w \in Worker |-> Null]
    /\ count = [w \in Worker |-> 0]

Goto(w, label) == pc' = [pc EXCEPT ![w] = label]

(* A mistake: skip_count is not reset.                                      *)
PopLazily_NoReset(th, t) ==
    /\ skip_count' = [skip_count EXCEPT ![t] = @ + 1]
    /\ Goto(th, IF skip_count[t] + 1 >= MaxSkipTimes THEN "pop" ELSE "resume")

(* async_pop_lazily: every MaxSkipTimes-th call pops the list before the    *)
(* thread goes on with what it was doing.                                   *)
PopLazily(th, t) ==
    /\ skip_count' = [skip_count EXCEPT ![t] = (@ + 1) % MaxSkipTimes]
    /\ Goto(th, IF skip_count[t] + 1 = MaxSkipTimes THEN "pop" ELSE "resume")

(* alloc: the object is counted, then returned objects are looked after,    *)
(* then (Resume) the block is handed out.                                   *)
Alloc(th, o, t) ==
    /\ pc[th] = "idle"
    /\ state[o] = "unborn"
    /\ IF token[th] = Null THEN t \notin used ELSE t = token[th]
    /\ token' = [token EXCEPT ![th] = t]
    /\ used' = used \cup {t}
    /\ state' = [state EXCEPT ![o] = "new"]
    /\ home' = [home EXCEPT ![o] = t]
    /\ obj' = [obj EXCEPT ![th] = o]
    /\ PopLazily(th, t)
    /\ UNCHANGED <<released, owner, i_enter, i_exit, listVars, target, into, prev, current,
                   popVars>>

(* free of an object of the thread's own token                              *)
FreeOwn(th, o) ==
    /\ pc[th] = "idle"
    /\ state[o] = "live" /\ home[o] = token[th]
    /\ state' = [state EXCEPT ![o] = "freeing"]
    /\ obj' = [obj EXCEPT ![th] = o]
    /\ PopLazily(th, token[th])
    /\ UNCHANGED <<home, tokenVars, listVars, target, into, prev, current, popVars>>

(* free_core: the object is free; origin_free releases the token together   *)
(* with its last page.  A thread's own pointer is cleared then, the memory  *)
(* thread works on a copy.                                                  *)
FreeCore(w, o) ==
    LET t    == home[o]
        last == Active(t) = {o}
    IN  /\ state' = [state EXCEPT ![o] = "freed"]
        /\ released' = IF last THEN released \cup {t} ELSE released
        /\ token' = IF last /\ w \in Thread THEN [token EXCEPT ![w] = Null] ELSE token

(* The second half of alloc or free, after async_pop_lazily                 *)
Resume(th) ==
    /\ pc[th] = "resume"
    /\ IF state[obj[th]] = "new"
       THEN /\ state' = [state EXCEPT ![obj[th]] = "live"]
            /\ UNCHANGED <<token, released>>
       ELSE FreeCore(th, obj[th])
    /\ obj' = [obj EXCEPT ![th] = Null]
    /\ Goto(th, "idle")
    /\ UNCHANGED <<home, used, owner, i_enter, i_exit, listVars, skip_count, target, into,
                   prev, current, popVars>>

------------------------------------------------------------------------------
(* handler_async_returned.  The list a worker pops:                         *)
List(w) == IF w = Mem THEN Back ELSE token[w]

(* where it goes on afterwards                                              *)
AfterPop(w) == IF w = Mem THEN "idle" ELSE "resume"

(* Plausible mistakes in the code below.  None is part of the model: each   *)
(* stands for the definition it is named after and must break a property.   *)

PopLast_FreesLast(w) ==
    /\ pc[w] = "walk"
    /\ next[curr[w]] = Null
    /\ next' = [next EXCEPT ![List(w)] = curr[w]]
    /\ FreeCore(w, curr[w])
    /\ curr' = [curr EXCEPT ![w] = Null]
    /\ count' = [count EXCEPT ![w] = 0]
    /\ Goto(w, AfterPop(w))
    /\ UNCHANGED <<home, used, owner, i_enter, i_exit, tail, async_returned, skip_count, localVars>>

PopLast_NotSubtracted(w) ==
    /\ pc[w] = "walk"
    /\ next[curr[w]] = Null
    /\ next' = [next EXCEPT ![List(w)] = curr[w]]
    /\ curr' = [curr EXCEPT ![w] = Null]
    /\ count' = [count EXCEPT ![w] = 0]
    /\ Goto(w, AfterPop(w))
    /\ UNCHANGED <<state, home, tokenVars, tail, async_returned, skip_count, localVars>>

RaiseOwner_NoWait(th) ==
    /\ pc[th] = "raise"
    /\ owner' = [owner EXCEPT ![target[th]] = Back]
    /\ Goto(th, "splice")
    /\ UNCHANGED <<state, home, token, released, used, i_enter, i_exit, listVars, skip_count,
                   localVars, popVars>>

RaiseOwner_NotStored(th) ==
    /\ pc[th] = "raise"
    /\ i_exit[target[th]] = current[th]
    /\ Goto(th, "splice")
    /\ UNCHANGED <<state, home, tokenVars, listVars, skip_count, localVars, popVars>>

RaiseLink_Lost(th) ==
    /\ pc[th] = "relink"
    /\ Goto(th, "clear")
    /\ UNCHANGED <<state, home, tokenVars, listVars, skip_count, localVars, popVars>>

RaiseEnd_BitKept(th) ==
    /\ pc[th] = "clear"
    /\ prev' = [prev EXCEPT ![th] = Null]
    /\ Goto(th, "exited")
    /\ UNCHANGED <<state, home, tokenVars, listVars, skip_count, obj, target, into, current,
                   popVars>>

------------------------------------------------------------------------------
PopBegin(w) ==
    /\ pc[w] = "pop"
    /\ curr' = [curr EXCEPT ![w] = next[List(w)]]
    /\ count' = [count EXCEPT ![w] = 0]
    /\ Goto(w, IF next[List(w)] = Null THEN AfterPop(w) ELSE "walk")
    /\ UNCHANGED <<state, home, tokenVars, listVars, skip_count, localVars>>

(* A node that has a successor is freed.                                    *)
PopNode(w) ==
    /\ pc[w] \in {"walk", "drain"}
    /\ next[curr[w]] # Null
    /\ FreeCore(w, curr[w])
    /\ curr' = [curr EXCEPT ![w] = next[curr[w]]]
    /\ count' = [count EXCEPT ![w] = @ + 1]
    /\ UNCHANGED <<home, used, owner, i_enter, i_exit, listVars, skip_count, pc, localVars>>

(* The last node stays on the list: a pusher may be about to link to it.    *)
(* (The store to head.next and the subtraction touch nothing another thread *)
(* reads in between.)                                                       *)
PopLast(w) ==
    /\ pc[w] = "walk"
    /\ next[curr[w]] = Null
    /\ next' = [next EXCEPT ![List(w)] = curr[w]]
    /\ async_returned' = [async_returned EXCEPT ![List(w)] = @ - count[w]]
    /\ curr' = [curr EXCEPT ![w] = Null]
    /\ count' = [count EXCEPT ![w] = 0]
    /\ Goto(w, AfterPop(w))
    /\ UNCHANGED <<state, home, tokenVars, tail, skip_count, localVars>>

(* all_returned: the thread ends and nobody will push again: free it too    *)
DrainLast(w) ==
    /\ pc[w] = "drain"
    /\ next[curr[w]] = Null
    /\ next' = [next EXCEPT ![List(w)] = curr[w]]
    /\ FreeCore(w, curr[w])
    /\ curr' = [curr EXCEPT ![w] = Null]
    /\ count' = [count EXCEPT ![w] = 0]
    /\ Goto(w, "exited")
    /\ UNCHANGED <<home, used, owner, i_enter, i_exit, tail, async_returned, skip_count,
                   localVars>>

(* mem_execute wakes up (by a resume or after 64 ms) and pops g_back.       *)
MemWake ==
    /\ pc[Mem] = "idle"
    /\ next[Back] # Null
    /\ Goto(Mem, "pop")
    /\ UNCHANGED <<state, home, tokenVars, listVars, skip_count, localVars, popVars>>

------------------------------------------------------------------------------
(* push_async: free of an object of another thread's token                  *)
PushEnter(th, o) ==
    /\ pc[th] = "idle"
    /\ state[o] = "live" /\ home[o] # token[th]
    /\ state' = [state EXCEPT ![o] = "freeing"]
    /\ obj' = [obj EXCEPT ![th] = o]
    /\ target' = [target EXCEPT ![th] = home[o]]
    /\ i_enter' = [i_enter EXCEPT ![home[o]] = @ + 2]
    /\ Goto(th, IF i_enter[home[o]] % 2 = 1 THEN "wait" ELSE "load")
    /\ UNCHANGED <<home, token, released, used, owner, i_exit, listVars, skip_count, into,
                   prev, current, popVars>>

(* the hand-over that was running when the push began is finished           *)
PushWait(th) ==
    /\ pc[th] = "wait"
    /\ i_enter[target[th]] % 2 = 0
    /\ Goto(th, "load")
    /\ UNCHANGED <<state, home, tokenVars, listVars, skip_count, localVars, popVars>>

PushLoad(th) ==
    /\ pc[th] = "load"
    /\ into' = [into EXCEPT ![th] = owner[target[th]]]
    /\ Goto(th, "swap")
    /\ UNCHANGED <<state, home, tokenVars, listVars, skip_count, obj, target, prev, current,
                   popVars>>

(* push_async_core(mem): the node becomes the tail ...                      *)
PushSwap(th) ==
    /\ pc[th] = "swap"
    /\ state' = [state EXCEPT ![obj[th]] = "queued"]
    /\ next' = [next EXCEPT ![obj[th]] = Null]
    /\ prev' = [prev EXCEPT ![th] = tail[into[th]]]
    /\ tail' = [tail EXCEPT ![into[th]] = obj[th]]
    /\ Goto(th, "link")
    /\ UNCHANGED <<home, tokenVars, async_returned, skip_count, obj, target, into, current,
                   popVars>>

(* ... then its predecessor learns of it ...                                *)
PushLink(th) ==
    /\ pc[th] = "link"
    /\ next' = [next EXCEPT ![prev[th]] = obj[th]]
    /\ Goto(th, "count")
    /\ UNCHANGED <<state, home, tokenVars, tail, async_returned, skip_count, localVars,
                   popVars>>

(* ... and it is counted.                                                   *)
PushCount(th) ==
    /\ pc[th] = "count"
    /\ async_returned' = [async_returned EXCEPT ![into[th]] = @ + 1]
    /\ Goto(th, "leave")
    /\ UNCHANGED <<state, home, tokenVars, next, tail, skip_count, localVars, popVars>>

PushExit(th) ==
    /\ pc[th] = "leave"
    /\ i_exit' = [i_exit EXCEPT ![target[th]] = @ + 2]
    /\ obj' = [obj EXCEPT ![th] = Null]
    /\ target' = [target EXCEPT ![th] = Null]
    /\ into' = [into EXCEPT ![th] = Null]
    /\ prev' = [prev EXCEPT ![th] = Null]
    /\ Goto(th, "idle")
    /\ UNCHANGED <<state, home, token, released, used, owner, i_enter, listVars, skip_count,
                   current, popVars>>

------------------------------------------------------------------------------
(* ~memory_flow: nothing to do without a token                              *)
ExitPlain(th) ==
    /\ pc[th] = "idle"
    /\ token[th] = Null
    /\ Goto(th, "exited")
    /\ UNCHANGED <<state, home, tokenVars, listVars, skip_count, localVars, popVars>>

IsAllReturned(t) == async_returned[t] = Cardinality(Active(t))

(* ~memory_flow: everything came back, the thread frees it itself           *)
ExitDrain(th) ==
    /\ pc[th] = "idle"
    /\ token[th] # Null /\ IsAllReturned(token[th])
    /\ curr' = [curr EXCEPT ![th] = next[token[th]]]
    /\ Goto(th, IF next[token[th]] = Null THEN "exited" ELSE "drain")
    /\ UNCHANGED <<state, home, tokenVars, listVars, skip_count, localVars, count>>

(* ~memory_flow: objects are still in use: raise_change_ownership(g_back)   *)
RaiseBegin(th) ==
    /\ pc[th] = "idle"
    /\ token[th] # Null /\ ~IsAllReturned(token[th])
    /\ target' = [target EXCEPT ![th] = token[th]]
    /\ current' = [current EXCEPT ![th] = i_enter[token[th]]]
    /\ i_enter' = [i_enter EXCEPT ![token[th]] = @ + 1]
    /\ Goto(th, "raise")
    /\ UNCHANGED <<state, home, token, released, used, owner, i_exit, listVars, skip_count,
                   obj, into, prev, popVars>>

(* the pushes that began before the hand-over are finished                  *)
RaiseOwner(th) ==
    /\ pc[th] = "raise"
    /\ i_exit[target[th]] = current[th]
    /\ owner' = [owner EXCEPT ![target[th]] = Back]
    /\ Goto(th, "splice")
    /\ UNCHANGED <<state, home, token, released, used, i_enter, i_exit, listVars, skip_count,
                   localVars, popVars>>

(* push_async_core(token): the whole list is appended to g_back's           *)
RaiseSplice(th) ==
    /\ pc[th] = "splice"
    /\ IF tail[target[th]] = target[th]
       THEN UNCHANGED <<tail, prev>> /\ Goto(th, "clear")
       ELSE /\ prev' = [prev EXCEPT ![th] = tail[Back]]
            /\ tail' = [tail EXCEPT ![Back] = tail[target[th]]]
            /\ Goto(th, "relink")
    /\ UNCHANGED <<state, home, tokenVars, next, async_returned, skip_count, obj, target,
                   into, current, popVars>>

RaiseLink(th) ==
    /\ pc[th] = "relink"
    /\ next' = [next EXCEPT ![prev[th]] = next[target[th]]]
    /\ Goto(th, "clear")
    /\ UNCHANGED <<state, home, tokenVars, tail, async_returned, skip_count, localVars,
                   popVars>>

RaiseEnd(th) ==
    /\ pc[th] = "clear"
    /\ i_enter' = [i_enter EXCEPT ![target[th]] = IF @ % 2 = 1 THEN @ - 1 ELSE @ + 1]
    /\ prev' = [prev EXCEPT ![th] = Null]
    /\ Goto(th, "exited")
    /\ UNCHANGED <<state, home, token, released, used, owner, i_exit, listVars, skip_count,
                   obj, target, into, current, popVars>>

------------------------------------------------------------------------------
Pop(w) == PopBegin(w) \/ PopNode(w) \/ PopLast(w)

(* what a thread does once it has begun to allocate, free or end            *)
Step(th) ==
    \/ Resume(th) \/ Pop(th) \/ DrainLast(th)
    \/ PushWait(th) \/ PushLoad(th) \/ PushSwap(th) \/ PushLink(th) \/ PushCount(th)
    \/ PushExit(th)
    \/ RaiseOwner(th) \/ RaiseSplice(th) \/ RaiseLink(th) \/ RaiseEnd(th)

Call(th) ==
    \/ \E o \in Object : FreeOwn(th, o) \/ PushEnter(th, o) \/ \E t \in Token : Alloc(th, o, t)
    \/ ExitPlain(th) \/ ExitDrain(th) \/ RaiseBegin(th)

Next ==
    \/ \E th \in Thread : Step(th) \/ Call(th)
    \/ MemWake \/ Pop(Mem)

Spec == Init /\ [][Next]_vars

(* The scheduler runs every thread that is inside the allocator, and the    *)
(* memory thread wakes up by its timeout at the latest.                     *)
FairSpec ==
    /\ Spec
    /\ \A th \in Thread : WF_vars(Step(th))
    /\ WF_vars(MemWake \/ Pop(Mem))

------------------------------------------------------------------------------
(* Values of the variables.                                                 *)
TypeOK ==
    /\ state \in [Object -> {"unborn", "new", "live", "freeing", "queued", "freed"}]
    /\ home \in [Object -> Token \cup {Null}]
    /\ token \in [Thread -> Token \cup {Null}]
    /\ used \subseteq Token /\ released \subseteq used
    /\ i_enter \in [Token -> Nat] /\ i_exit \in [Token -> Nat]
    /\ owner \in [Token -> AnyToken]
    /\ next \in [Object \cup AnyToken -> Object \cup {Null}]
    /\ tail \in [AnyToken -> Object \cup AnyToken]
    /\ async_returned \in [AnyToken -> Int]
    /\ skip_count \in [Token -> 0 .. MaxSkipTimes - 1]
    /\ pc \in [Worker -> {"idle", "resume", "pop", "walk", "drain", "wait", "load", "swap",
                          "link", "count", "leave", "raise", "splice", "relink", "clear",
                          "exited"}]
    /\ obj \in [Thread -> Object \cup {Null}]
    /\ target \in [Thread -> Token \cup {Null}]
    /\ into \in [Thread -> AnyToken \cup {Null}]
    /\ prev \in [Thread -> Object \cup AnyToken \cup {Null}]
    /\ current \in [Thread -> Nat]
    /\ curr \in [Worker -> Object \cup {Null}] /\ count \in [Worker -> Nat]

(* A node is written or read only while it holds a returned object: no      *)
(* pusher links to a node (lines 187, 178) and no popping thread stands on  *)
(* a node (line 214) that was freed meanwhile.  Keeping the last node on    *)
(* the list (lines 214 to 217) is what guarantees it.                       *)
NoFreedNodeTouched ==
    /\ \A th \in Thread :
        pc[th] \in {"link", "relink"} =>
            IF prev[th] \in Object THEN state[prev[th]] = "queued"
                                  ELSE prev[th] \notin released
    /\ \A w \in Worker : pc[w] \in {"walk", "drain"} => state[curr[w]] = "queued"

(* The successor a node has once the links under way are made               *)
Successor(n) ==
    LET linking == {th \in Thread : pc[th] \in {"link", "relink"} /\ prev[th] = n}
    IN  IF linking = {} THEN next[n]
        ELSE LET th == CHOOSE th \in linking : TRUE
             IN  IF pc[th] = "link" THEN obj[th] ELSE next[target[th]]

(* The nodes that follow n: the least set that has them                     *)
Following(n, successor) ==
    {o \in Object : \A S \in SUBSET Object :
                        (\A m \in S \cup {n} : successor[m] \in S \cup {Null}) => o \in S}

Succession == [n \in Object \cup AnyToken |-> Successor(n)]

Walker(t) == {w \in Worker : pc[w] \in {"walk", "drain"} /\ List(w) = t}

(* What is left on the list of t: from the node its reader has reached      *)
Listed(t) ==
    IF Walker(t) = {} THEN Following(t, Succession)
    ELSE LET w == CHOOSE w \in Walker(t) : TRUE
         IN  {curr[w]} \cup Following(curr[w], Succession)

(* Lists somebody still pops or splices                                     *)
OpenLists ==
    {Back} \cup {t \in used \ released :
                  owner[t] = t \/ \E th \in Thread : pc[th] = "splice" /\ target[th] = t}

(* Nothing returned is lost or returned twice, through pushes racing with   *)
(* pops and with the splice of a hand-over: the objects returned and not    *)
(* yet freed are exactly those on the open lists, each on one list.         *)
NothingLost ==
    /\ {o \in Object : state[o] = "queued"} = UNION {Listed(t) : t \in OpenLists}
    /\ \A s, t \in OpenLists : s # t => Listed(s) \cap Listed(t) = {}

(* The objects of a token are freed by one thread at a time: its own until  *)
(* it hands the token over, the memory thread afterwards (free_core and the *)
(* page structures it changes are not synchronised).                        *)
OneFreer ==
    /\ \A o \in Listed(Back) : owner[home[o]] = Back
    /\ \A th \in Thread :
        pc[th] \in {"resume", "pop", "walk", "drain"} => owner[token[th]] = token[th]

(* A thread that finds everything returned (is_all_returned) is right: every*)
(* object of its token is on its list and linked, so draining the list      *)
(* frees all of them and with them the token.                               *)
AllReturnedIsAll ==
    \A th \in Thread :
        pc[th] = "drain" =>
            Active(token[th]) = {curr[th]} \cup Following(curr[th], next)

(* The token whose owner a push reads (lines 158 to 164), the token whose   *)
(* list it appends to and counts on (lines 181 to 188), and the token a     *)
(* hand-over waits for and splices (lines 135 to 143, 172 to 179) have not  *)
(* been given back meanwhile by whoever frees their last object.  The last  *)
(* store of each, to i_exit of the token pushed to (line 169) and to i_enter*)
(* of the token handed over (line 144), may come too late: TokenKeptInUse.  *)
TokenOutlivesList ==
    \A th \in Thread :
        /\ pc[th] \in {"wait", "load", "raise", "splice", "relink"} => target[th] \notin released
        /\ pc[th] \in {"swap", "link", "count"} => into[th] \notin released

(* No list leads to what was given back, no two threads give back at once,  *)
(* and nobody works on the list or the owner of a token that was given back *)
(* (memory_flow.hpp:120-143, 147-168, 172-220, 384-410; what lines 144 and  *)
(* 169 touch is the subject of TokenKeptInUse).                             *)
HandoffSafe == NoFreedNodeTouched /\ OneFreer /\ TokenOutlivesList

(* What is returned is accounted for: on the lists, and by the counter that *)
(* tells a thread that ends that all of its objects came back.              *)
AllAccounted == NothingLost /\ AllReturnedIsAll

(* Whoever allocates, frees or ends gets out of the allocator: a hand-over  *)
(* does not wait for ever for pushes, nor a push for a hand-over.           *)
EverybodyLeaves ==
    \A th \in Thread : (pc[th] \notin {"idle", "exited"}) ~> (pc[th] \in {"idle", "exited"})

(* What a hand-over or a push puts on the memory thread's list is freed as  *)
(* soon as something was put on the list after it.                          *)
OrphansAreFreed ==
    \A o \in Object : (o \in Listed(Back) /\ tail[Back] # o) ~> (state[o] = "freed")

(* Comments of raise_change_ownership: the end of a thread waits for the    *)
(* pushes other threads began before (line 139), and the bit for a hand-over*)
(* is cleared after it (line 144).  Then neither a push nor a hand-over is  *)
(* under way on a token at the moment it is released.  Both are: a push has *)
(* counted its object, by which the owner may know that all came back,      *)
(* before it leaves (lines 188, 169), and the memory thread may free all    *)
(* that was spliced before the bit is cleared (lines 143, 144).             *)
PushEndsInTime ==
    \A th \in Thread : pc[th] \in {"count", "leave"} => target[th] \notin released
HandOverEndsInTime ==
    \A th \in Thread : pc[th] = "clear" => target[th] \notin released
TokenKeptInUse == PushEndsInTime /\ HandOverEndsInTime
==============================================================================
