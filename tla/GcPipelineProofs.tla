-------------------------- MODULE GcPipelineProofs --------------------------
(****************************************************************************)
(* GcPipeline for every number of threads and objects and every depth of    *)
(* the two rings.  The invariant is built in four layers, each the ground   *)
(* of the next:                                                             *)
(*   RingInv   a ticket's slot is empty when it is filled;                  *)
(*   CountInv  the counters, between the steps of those who share them;     *)
(*   FlagInv   m_in_queue and the slots of the batch;                       *)
(*   ListInv   the blocks of the dead on the lists for the release thread.  *)
(****************************************************************************)
EXTENDS GcPipeline, FiniteSetTheorems, TLAPS

(* A thread between its ticket and the store into the ticket's slot         *)
Waits(th) == pc[th] \in {"room", "store"}
Stored(n) == \A th \in Thread : Waits(th) => i_push[th] # n

RingTyped ==
    /\ gc_filter_queue \in [0 .. Depth - 1 -> Object \cup {Null}]
    /\ g_i_push \in Nat /\ g_i_pop \in Nat /\ g_i_pop <= g_i_push
    /\ pc \in [Thread -> {"idle", "room", "store", "sync"}]
    /\ i_push \in [Thread -> Nat]
    /\ mem \in [Thread -> Object \cup {Null}]
    /\ filter \in {"idle", "count", "release", "clear", "pop", "stopped"}
    /\ i_begin \in Nat /\ i_end \in Nat /\ i \in Nat

(* Tickets are not yet processed, each belongs to one thread, and a thread  *)
(* that may store is less than a ring ahead of the collector.               *)
Tickets ==
    /\ \A th \in Thread : Waits(th) => g_i_pop <= i_push[th] /\ i_push[th] < g_i_push
    /\ \A th, u \in Thread : Waits(th) /\ Waits(u) /\ i_push[th] = i_push[u] => th = u
    /\ \A th \in Thread : pc[th] = "store" => i_push[th] < g_i_pop + Depth

(* What fills a slot is a push of the ring that begins at g_i_pop.          *)
SlotsFilled ==
    \A s \in 0 .. Depth - 1 : gc_filter_queue[s] # Null =>
        \E n \in Nat : /\ g_i_pop <= n /\ n < g_i_push /\ n < g_i_pop + Depth
                       /\ Slot(n) = s /\ Stored(n)

(* The pushes a round has counted are all stored: it waited for each.       *)
Batch ==
    /\ filter = "count" => g_i_pop = i_begin /\ i_begin <= i /\ i_end <= g_i_pop + Depth
    /\ filter \in {"release", "clear", "pop"} => g_i_pop = i
    /\ filter \in {"count", "release", "clear", "pop"} =>
        /\ i <= i_end /\ i_end <= g_i_push
        /\ \A n \in Nat : i <= n /\ n < i_end => Stored(n)
    /\ filter \in {"clear", "pop"} => i < i_end
    /\ filter = "pop" => gc_filter_queue[Slot(i)] = Null

RingInv == RingTyped /\ Tickets /\ SlotsFilled /\ Batch

(* Two tickets less than a ring apart have different slots.                 *)
LEMMA SlotsApart ==
    ASSUME NEW p \in Nat, NEW n \in Nat, NEW m \in Nat,
           p <= n, n < p + Depth, p <= m, m < p + Depth, Slot(n) = Slot(m)
    PROVE  n = m
<1> DEFINE a == n \div Depth
           b == m \div Depth
<1>1. Depth \in Nat \ {0}
  BY PipelineAssumption
<1>2. n = Depth * a + Slot(n) /\ m = Depth * b + Slot(m) /\ Slot(n) \in Nat
  BY <1>1 DEF Slot
<1>3. a \in Int /\ b \in Int
  BY <1>1
<1> HIDE DEF a, b
<1>4. ~(a > b)
  <2> SUFFICES ASSUME a > b PROVE FALSE
    OBVIOUS
  <2>1. Depth * a >= Depth * (b + 1) /\ Depth * (b + 1) = Depth * b + Depth
    BY <1>1, <1>3
  <2> QED
    BY <1>1, <1>2, <1>3, <2>1
<1>5. ~(b > a)
  <2> SUFFICES ASSUME b > a PROVE FALSE
    OBVIOUS
  <2>1. Depth * b >= Depth * (a + 1) /\ Depth * (a + 1) = Depth * a + Depth
    BY <1>1, <1>3
  <2> QED
    BY <1>1, <1>2, <1>3, <2>1
<1>6. a = b
  BY <1>3, <1>4, <1>5
<1> QED
  BY <1>2, <1>6

LEMMA SlotType == ASSUME NEW n \in Nat PROVE Slot(n) \in 0 .. Depth - 1
BY PipelineAssumption DEF Slot

LEMMA InitRing == Init => RingInv
<1> SUFFICES ASSUME Init PROVE RingInv
  OBVIOUS
<1>1. RingTyped
  BY PipelineAssumption DEF Init, RingTyped
<1>2. Tickets /\ SlotsFilled /\ Batch
  BY PipelineAssumption DEF Init, Tickets, SlotsFilled, Batch, Waits
<1> QED
  BY <1>1, <1>2 DEF RingInv

LEMMA PushTicketRing ==
    ASSUME RingInv, NEW th \in Thread, NEW o \in Object, PushTicket(th, o)
    PROVE  RingInv'
<1> USE PipelineAssumption DEF RingInv, PushTicket, Goto, countVars, ringVars, listVars, threadVars, filterVars, otherVars
<1>1. RingTyped'
  BY DEF RingTyped
<1>2. Tickets'
  BY DEF RingTyped, Tickets, Waits
<1>3. SlotsFilled'
  BY DEF RingTyped, SlotsFilled, Stored, Waits, Tickets
<1>4. Batch'
  BY DEF RingTyped, Batch, Stored, Waits, Tickets
<1> QED
  BY <1>1, <1>2, <1>3, <1>4

LEMMA PushRoomRing ==
    ASSUME RingInv, NEW th \in Thread, PushRoom(th)
    PROVE  RingInv'
<1> USE PipelineAssumption DEF RingInv, PushRoom, Goto, countVars, ringVars, listVars, threadVars, filterVars, otherVars
<1>1. RingTyped'
  BY DEF RingTyped
<1>2. Tickets'
  BY DEF RingTyped, Tickets, Waits
<1>3. SlotsFilled'
  BY DEF RingTyped, SlotsFilled, Stored, Waits, Tickets
<1>4. Batch'
  BY DEF RingTyped, Batch, Stored, Waits, Tickets
<1> QED
  BY <1>1, <1>2, <1>3, <1>4

LEMMA PushStoreRing ==
    ASSUME RingInv, NEW th \in Thread, PushStore(th)
    PROVE  RingInv'
<1> USE PipelineAssumption DEF RingInv, PushStore, Goto, countVars, ringVars, listVars, threadVars, filterVars, otherVars
<1>1. RingTyped'
  BY SlotType DEF RingTyped
<1>2. Tickets'
  BY DEF RingTyped, Tickets, Waits
<1>3. SlotsFilled'
  BY DEF RingTyped, SlotsFilled, Stored, Waits, Tickets
<1>4. Batch'
  <2>1. ASSUME filter = "pop" PROVE Slot(i_push[th]) # Slot(i)
    <3>1. i_push[th] # i /\ g_i_pop = i /\ i_push[th] \in Nat /\ i \in Nat
      BY <2>1 DEF RingTyped, Batch, Stored, Waits
    <3>2. g_i_pop <= i_push[th] /\ i_push[th] < g_i_pop + Depth
      BY DEF Tickets, Waits
    <3> QED
      BY <3>1, <3>2, SlotsApart
  <2>2. filter = "pop" => gc_filter_queue'[Slot(i)] = Null
    BY <2>1, SlotType DEF RingTyped, Batch
  <2> QED
    BY <2>2 DEF RingTyped, Batch, Stored, Waits
<1> QED
  BY <1>1, <1>2, <1>3, <1>4

LEMMA TakeBatchRing ==
    ASSUME RingInv, TakeBatch
    PROVE  RingInv'
<1> USE PipelineAssumption DEF RingInv, TakeBatch, countVars, ringVars, listVars, threadVars, filterVars, otherVars
<1>1. RingTyped'
  BY DEF RingTyped
<1>2. Tickets'
  BY DEF RingTyped, Tickets, Waits
<1>3. SlotsFilled'
  BY DEF RingTyped, SlotsFilled, Stored, Waits, Tickets
<1>4. Batch'
  BY DEF RingTyped, Batch, Stored, Waits, Tickets
<1> QED
  BY <1>1, <1>2, <1>3, <1>4

LEMMA CountDownRing ==
    ASSUME RingInv, CountDown
    PROVE  RingInv'
<1> USE PipelineAssumption DEF RingInv, CountDown, countVars, ringVars, listVars, threadVars, filterVars, otherVars
<1>1. RingTyped'
  <2>1. i - 1 \in Nat /\ Slot(i - 1) \in 0 .. Depth - 1
    BY SlotType DEF RingTyped, Batch
  <2> QED
    BY <2>1 DEF RingTyped
<1>2. Tickets'
  BY DEF RingTyped, Tickets, Waits
<1>3. SlotsFilled'
  BY DEF RingTyped, SlotsFilled, Stored, Waits, Tickets
<1>4. Batch'
  <2>1. i - 1 \in Nat /\ g_i_pop <= i - 1 /\ i - 1 < g_i_pop + Depth
    BY DEF RingTyped, Batch
  <2>2. Stored(i - 1)
    <3>1. PICK n \in Nat : /\ g_i_pop <= n /\ n < g_i_pop + Depth
                           /\ Slot(n) = Slot(i - 1) /\ Stored(n)
      BY <2>1, SlotType DEF SlotsFilled
    <3> QED
      BY <2>1, <3>1, SlotsApart DEF RingTyped
  <2>3. \A n \in Nat : i <= n /\ n < i_end => Stored(n)
    BY DEF Batch
  <2>4. \A n \in Nat : i - 1 <= n => n = i - 1 \/ i <= n
    BY DEF RingTyped
  <2>5. \A n \in Nat : i - 1 <= n /\ n < i_end => Stored(n)
    BY <2>2, <2>3, <2>4
  <2> QED
    BY <2>1, <2>5 DEF RingTyped, Batch, Stored, Waits
<1> QED
  BY <1>1, <1>2, <1>3, <1>4

LEMMA TakeListSlotRing ==
    ASSUME RingInv, TakeListSlot
    PROVE  RingInv'
<1> USE PipelineAssumption DEF RingInv, TakeListSlot, countVars, ringVars, listVars, threadVars, filterVars, otherVars
<1>1. RingTyped'
  BY DEF RingTyped
<1>2. Tickets'
  BY DEF RingTyped, Tickets, Waits
<1>3. SlotsFilled'
  BY DEF RingTyped, SlotsFilled, Stored, Waits, Tickets
<1>4. Batch'
  BY DEF RingTyped, Batch, Stored, Waits, Tickets
<1> QED
  BY <1>1, <1>2, <1>3, <1>4

LEMMA ReleaseRing ==
    ASSUME RingInv, Release
    PROVE  RingInv'
<1> USE PipelineAssumption DEF RingInv, Release, countVars, ringVars, listVars, threadVars, filterVars, otherVars
<1>1. RingTyped'
  BY DEF RingTyped
<1>2. Tickets'
  BY DEF RingTyped, Tickets, Waits
<1>3. SlotsFilled'
  BY DEF RingTyped, SlotsFilled, Stored, Waits, Tickets
<1>4. Batch'
  BY DEF RingTyped, Batch, Stored, Waits, Tickets
<1> QED
  BY <1>1, <1>2, <1>3, <1>4

LEMMA ClearSlotRing ==
    ASSUME RingInv, ClearSlot
    PROVE  RingInv'
<1> USE PipelineAssumption DEF RingInv, ClearSlot, countVars, ringVars, listVars, threadVars, filterVars, otherVars
<1>1. RingTyped'
  BY DEF RingTyped
<1>2. Tickets'
  BY DEF RingTyped, Tickets, Waits
<1>3. SlotsFilled'
  BY DEF RingTyped, SlotsFilled, Stored, Waits, Tickets
<1>4. Batch'
  BY SlotType DEF RingTyped, Batch, Stored, Waits, Tickets
<1> QED
  BY <1>1, <1>2, <1>3, <1>4

LEMMA AdvancePopRing ==
    ASSUME RingInv, AdvancePop
    PROVE  RingInv'
<1> USE PipelineAssumption DEF RingInv, AdvancePop, countVars, ringVars, listVars, threadVars, filterVars, otherVars
<1>1. g_i_pop = i /\ g_i_pop' = i + 1 /\ i < i_end /\ i_end <= g_i_push /\ i \in Nat /\ Stored(i)
  BY DEF RingTyped, Batch
<1>2. RingTyped'
  BY <1>1 DEF RingTyped
<1>3. Tickets'
  <2>1. \A t \in Thread : Waits(t) => i + 1 <= i_push[t]
    BY <1>1 DEF RingTyped, Tickets, Stored
  <2>2. \A t \in Thread : pc[t] = "store" => i_push[t] < i + 1 + Depth
    BY <1>1 DEF RingTyped, Tickets
  <2> QED
    BY <1>1, <2>1, <2>2 DEF Tickets, Waits
<1>4. SlotsFilled'
  <2> SUFFICES ASSUME NEW s \in 0 .. Depth - 1, gc_filter_queue[s] # Null
               PROVE  \E n \in Nat : /\ i + 1 <= n /\ n < g_i_push /\ n < i + 1 + Depth
                                     /\ Slot(n) = s /\ Stored(n)
    BY <1>1 DEF SlotsFilled, Stored, Waits
  <2>1. PICK n \in Nat : /\ g_i_pop <= n /\ n < g_i_push /\ n < g_i_pop + Depth
                         /\ Slot(n) = s /\ Stored(n)
    BY DEF SlotsFilled
  <2>2. n # i
    BY <2>1 DEF Batch
  <2> WITNESS n \in Nat
  <2> QED
    BY <1>1, <2>1, <2>2
<1>5. Batch'
  BY <1>1 DEF RingTyped, Batch, Stored, Waits
<1> QED
  BY <1>2, <1>3, <1>4, <1>5

LEMMA PublishListRing ==
    ASSUME RingInv, PublishList
    PROVE  RingInv'
<1> USE PipelineAssumption DEF RingInv, PublishList, countVars, ringVars, listVars, threadVars, filterVars, otherVars
<1>1. RingTyped'
  BY DEF RingTyped
<1>2. Tickets'
  BY DEF RingTyped, Tickets, Waits
<1>3. SlotsFilled'
  BY DEF RingTyped, SlotsFilled, Stored, Waits, Tickets
<1>4. Batch'
  BY DEF RingTyped, Batch, Stored, Waits, Tickets
<1> QED
  BY <1>1, <1>2, <1>3, <1>4

(* Steps that change neither the ring, nor tickets, nor the batch.          *)
LEMMA QuietRing ==
    ASSUME RingInv,
           \/ UNCHANGED vars \/ ReleaseRound \/ AskExit \/ FilterExit
           \/ \E th \in Thread : SyncBegin(th) \/ SyncReturn(th)
           \/ \E th, u \in Thread, o \in Object : Copy(th, u, o)
    PROVE  RingInv'
<1>1. UNCHANGED <<gc_filter_queue, g_i_push, g_i_pop, i_push, mem, i_begin, i_end, i>>
  BY DEF vars, ReleaseRound, AskExit, FilterExit, SyncBegin, SyncReturn, Copy, ringVars, threadVars, filterVars
<1>2. filter' = filter \/ filter' = "stopped"
  BY DEF vars, ReleaseRound, AskExit, FilterExit, SyncBegin, SyncReturn, Copy, filterVars
<1>3. pc' \in [Thread -> {"idle", "room", "store", "sync"}]
      /\ \A t \in Thread : pc'[t] = pc[t] \/ pc'[t] \in {"idle", "sync"}
  BY DEF vars, ReleaseRound, AskExit, FilterExit, SyncBegin, SyncReturn, Copy, threadVars, Goto, RingInv, RingTyped
<1>4. RingTyped'
  BY <1>1, <1>2, <1>3 DEF RingInv, RingTyped
<1>5. \A t \in Thread : (Waits(t)' => Waits(t)) /\ (pc'[t] = "store" => pc[t] = "store")
  BY <1>3 DEF Waits
<1>6. Tickets'
  BY <1>1, <1>5 DEF RingInv, Tickets
<1>7. \A n \in Nat : Stored(n) => Stored(n)'
  BY <1>1, <1>5 DEF Stored
<1>8. SlotsFilled' /\ Batch'
  BY <1>1, <1>2, <1>7 DEF RingInv, SlotsFilled, Batch, Slot
<1> QED
  BY <1>4, <1>6, <1>8 DEF RingInv

LEMMA RingStep == RingInv /\ [Next]_vars => RingInv'
<1> SUFFICES ASSUME RingInv, [Next]_vars PROVE RingInv'
  OBVIOUS
<1>1. CASE \E th \in Thread : PushRoom(th) \/ PushStore(th) \/ \E o \in Object : PushTicket(th, o)
  BY <1>1, PushRoomRing, PushStoreRing, PushTicketRing
<1>2. CASE Filter /\ ~FilterExit
  BY <1>2, TakeBatchRing, CountDownRing, TakeListSlotRing, ReleaseRing, ClearSlotRing, AdvancePopRing,
     PublishListRing DEF Filter
<1>3. CASE \/ UNCHANGED vars \/ ReleaseRound \/ AskExit \/ FilterExit
           \/ \E th \in Thread : SyncBegin(th) \/ SyncReturn(th)
           \/ \E th, u \in Thread, o \in Object : Copy(th, u, o)
  BY <1>3, QuietRing
<1> QED
  BY <1>1, <1>2, <1>3 DEF Next, Push

LEMMA RingInvHolds == Spec => []RingInv
BY InitRing, RingStep, PTL DEF Spec

(* The slot of a ticket is empty when its push is stored.                   *)
LEMMA StoreFindsEmpty ==
    ASSUME RingInv, NEW th \in Thread, pc[th] = "store"
    PROVE  gc_filter_queue[Slot(i_push[th])] = Null
<1> SUFFICES ASSUME gc_filter_queue[Slot(i_push[th])] # Null PROVE FALSE
  OBVIOUS
<1>1. i_push[th] \in Nat /\ g_i_pop \in Nat /\ g_i_pop <= i_push[th] /\ i_push[th] < g_i_pop + Depth /\ Waits(th)
  BY DEF RingInv, RingTyped, Tickets, Waits
<1>2. PICK n \in Nat : /\ g_i_pop <= n /\ n < g_i_pop + Depth
                       /\ Slot(n) = Slot(i_push[th]) /\ Stored(n)
  BY <1>1, SlotType DEF RingInv, SlotsFilled
<1>3. n = i_push[th]
  BY <1>1, <1>2, SlotsApart
<1> QED
  BY <1>1, <1>2, <1>3 DEF Stored

(* No push is written over another that the collector has not yet seen,     *)
(* for any depth of the ring and any number of threads that push.           *)
THEOREM PushesKept == Spec => NoPushOverwritten
<1>1. ASSUME RingInv, [Next]_vars, NEW s \in 0 .. Depth - 1, gc_filter_queue[s] # Null
      PROVE  gc_filter_queue'[s] \in {gc_filter_queue[s], Null}
  <2>1. CASE \E th \in Thread : PushStore(th)
    <3>1. PICK th \in Thread : PushStore(th)
      BY <2>1
    <3>2. s # Slot(i_push[th])
      BY <1>1, <3>1, StoreFindsEmpty DEF PushStore
    <3> QED
      BY <1>1, <3>1, <3>2 DEF PushStore, RingInv, RingTyped
  <2>2. CASE CountDown \/ ClearSlot
    BY <1>1, <2>2 DEF CountDown, ClearSlot, RingInv, RingTyped
  <2>3. CASE ~(CountDown \/ ClearSlot \/ \E th \in Thread : PushStore(th))
    <3>1. gc_filter_queue' = gc_filter_queue
      BY <1>1, <2>3 DEF Next, Push, Filter, PushTicket, PushRoom, SyncBegin, SyncReturn, Copy, TakeBatch,
         TakeListSlot, Release, AdvancePop, PublishList, FilterExit, ReleaseRound, AskExit, vars, ringVars
    <3> QED
      BY <3>1
  <2> QED
    BY <2>1, <2>2, <2>3
<1>2. RingInv /\ [Next]_vars =>
          [\A s \in 0 .. Depth - 1 :
              gc_filter_queue[s] # Null => gc_filter_queue'[s] \in {gc_filter_queue[s], Null}]_vars
  BY <1>1
<1> QED
  BY <1>2, RingInvHolds, PTL DEF Spec, NoPushOverwritten

------------------------------------------------------------------------------
(* The counters.  A push that has been stored and not yet cleared is less   *)
(* than a ring ahead of the collector.                                      *)
InRing ==
    \A n \in Nat : g_i_pop <= n /\ n < g_i_push /\ Stored(n) => n < g_i_pop + Depth

CountTyped ==
    /\ owners \in [Object -> Nat]
    /\ refs \in [Thread -> SUBSET Object]
    /\ in_queue \in [Object -> BOOLEAN]
    /\ under_release \in [Object -> BOOLEAN]

CountInv == RingInv /\ InRing /\ CountTyped /\ OwnersExact /\ NoEarlyDestroy

LEMMA ChosenWaiter ==
    ASSUME NEW pcs, NEW tickets, NEW n, NEW th \in Thread,
           pcs[th] \in {"room", "store"}, tickets[th] = n,
           \A u \in Thread : pcs[u] \in {"room", "store"} /\ tickets[u] = n => u = th
    PROVE  (CHOOSE u \in Thread : pcs[u] \in {"room", "store"} /\ tickets[u] = n) = th
OBVIOUS

(* What was pushed with ticket n: what its thread still carries, or what is *)
(* in its slot.                                                             *)
PushedKnown ==
    \A n \in Nat :
        /\ \A th \in Thread : Waits(th) /\ i_push[th] = n => Pushed(n) = mem[th]
        /\ Stored(n) => Pushed(n) = gc_filter_queue[Slot(n)]

LEMMA PushedIs == Tickets => PushedKnown
<1> SUFFICES ASSUME Tickets, NEW n \in Nat
             PROVE  /\ \A th \in Thread : Waits(th) /\ i_push[th] = n => Pushed(n) = mem[th]
                    /\ Stored(n) => Pushed(n) = gc_filter_queue[Slot(n)]
  BY DEF PushedKnown
<1>1. ASSUME NEW th \in Thread, Waits(th), i_push[th] = n
      PROVE  Pushed(n) = mem[th]
  <2>1. \A u \in Thread : pc[u] \in {"room", "store"} /\ i_push[u] = n => u = th
    BY <1>1 DEF Tickets, Waits
  <2> QED
    BY <1>1, <2>1, ChosenWaiter DEF Pushed, Waits
<1>2. Stored(n) => Pushed(n) = gc_filter_queue[Slot(n)]
  BY DEF Stored, Waits, Pushed
<1> QED
  BY <1>1, <1>2

LEMMA PushedIsNext == Tickets' => PushedKnown'
BY PushedIs, PTL

(* Steps that leave a push where it is: all but its own store, and the      *)
(* decrement that takes it.                                                 *)
LEMMA PushedSame ==
    ASSUME RingInv, InRing, RingInv', [Next]_vars, NEW n \in Nat,
           g_i_pop <= n, n < g_i_push, ~Counted(n), CountDown => n # i - 1
    PROVE  Pushed(n)' = Pushed(n)
<1>1. PushedKnown /\ PushedKnown'
  BY PushedIs, PushedIsNext DEF RingInv
<1>2. ASSUME NEW th \in Thread, Waits(th), i_push[th] = n
      PROVE  Pushed(n)' = Pushed(n)
  <2>1. CASE PushStore(th)
    <3>1. Stored(n)'
      BY <1>2, <2>1 DEF PushStore, Goto, RingInv, RingTyped, Tickets, Stored, Waits
    <3>2. gc_filter_queue'[Slot(n)] = mem[th]
      BY <1>2, <2>1, SlotType DEF PushStore, RingInv, RingTyped
    <3> QED
      BY <1>1, <1>2, <3>1, <3>2 DEF PushedKnown
  <2>2. CASE ~PushStore(th)
    <3>1. Waits(th)' /\ i_push'[th] = n /\ mem'[th] = mem[th]
      BY <1>2, <2>2 DEF Next, Push, Filter, PushTicket, PushRoom, PushStore, SyncBegin, SyncReturn, Copy,
         TakeBatch, CountDown, TakeListSlot, Release, ClearSlot, AdvancePop, PublishList, FilterExit,
         ReleaseRound, AskExit, Goto, Waits, RingInv, RingTyped, vars, threadVars
    <3> QED
      BY <1>1, <1>2, <3>1 DEF PushedKnown
  <2> QED
    BY <2>1, <2>2
<1>3. ASSUME Stored(n)
      PROVE  Pushed(n)' = Pushed(n)
  <2>1. n < g_i_pop + Depth
    BY <1>3 DEF InRing
  <2>2. CASE \E u \in Thread : PushStore(u)
    <3>1. PICK u \in Thread : PushStore(u)
      BY <2>2
    <3>2. i_push[u] \in Nat /\ i_push[u] # n /\ g_i_pop <= i_push[u] /\ i_push[u] < g_i_pop + Depth
      BY <1>3, <3>1 DEF PushStore, RingInv, RingTyped, Tickets, Stored, Waits
    <3>3. Slot(i_push[u]) # Slot(n)
      BY <2>1, <3>2, SlotsApart DEF RingInv, RingTyped
    <3>4. Stored(n)' /\ gc_filter_queue'[Slot(n)] = gc_filter_queue[Slot(n)]
      BY <1>3, <3>1, <3>3, SlotType DEF PushStore, Goto, RingInv, RingTyped, Stored, Waits
    <3> QED
      BY <1>1, <1>3, <3>4 DEF PushedKnown
  <2>3. CASE ClearSlot
    <3>1. i \in Nat /\ g_i_pop = i /\ n # i /\ i < g_i_pop + Depth
      BY <2>3, PipelineAssumption DEF ClearSlot, RingInv, RingTyped, Batch, Counted
    <3>2. Slot(i) # Slot(n)
      BY <2>1, <3>1, SlotsApart DEF RingInv, RingTyped
    <3>3. Stored(n)' /\ gc_filter_queue'[Slot(n)] = gc_filter_queue[Slot(n)]
      BY <1>3, <2>3, <3>2, SlotType DEF ClearSlot, RingInv, RingTyped, Stored, Waits, threadVars
    <3> QED
      BY <1>1, <1>3, <3>3 DEF PushedKnown
  <2>4. CASE CountDown
    <3>1. i - 1 \in Nat /\ g_i_pop <= i - 1 /\ i - 1 < g_i_pop + Depth
      BY <2>4, PipelineAssumption DEF CountDown, RingInv, RingTyped, Batch
    <3>2. Slot(i - 1) # Slot(n)
      BY <2>1, <2>4, <3>1, SlotsApart DEF RingInv, RingTyped
    <3>3. Stored(n)' /\ gc_filter_queue'[Slot(n)] = gc_filter_queue[Slot(n)]
      BY <1>3, <2>4, <3>1, <3>2, SlotType DEF CountDown, RingInv, RingTyped, Stored, Waits, threadVars
    <3> QED
      BY <1>1, <1>3, <3>3 DEF PushedKnown
  <2>5. CASE ~(CountDown \/ ClearSlot \/ \E u \in Thread : PushStore(u))
    <3>1. gc_filter_queue' = gc_filter_queue
      BY <2>5 DEF Next, Push, Filter, PushTicket, PushRoom, SyncBegin, SyncReturn, Copy, TakeBatch,
         TakeListSlot, Release, AdvancePop, PublishList, FilterExit, ReleaseRound, AskExit, vars, ringVars
    <3>2. \A u \in Thread : Waits(u)' => (Waits(u) /\ i_push'[u] = i_push[u]) \/ i_push'[u] = g_i_push
      BY <2>5 DEF Next, Push, Filter, PushTicket, PushRoom, SyncBegin, SyncReturn, Copy, TakeBatch,
         TakeListSlot, Release, AdvancePop, PublishList, FilterExit, ReleaseRound, AskExit, Goto, Waits,
         RingInv, RingTyped, vars, threadVars
    <3>3. Stored(n)'
      BY <1>3, <3>2 DEF Stored, RingInv, RingTyped
    <3> QED
      BY <1>1, <1>3, <3>1, <3>3 DEF PushedKnown
  <2> QED
    BY <2>2, <2>3, <2>4, <2>5
<1> QED
  BY <1>2, <1>3 DEF Stored

LEMMA InRingStep == RingInv /\ InRing /\ RingInv' /\ [Next]_vars => InRing'
<1> SUFFICES ASSUME RingInv, InRing, RingInv', [Next]_vars, NEW n \in Nat,
                    g_i_pop' <= n, n < g_i_push', Stored(n)'
             PROVE  n < g_i_pop' + Depth
  BY DEF InRing
<1>1. CASE \E u \in Thread : PushStore(u)
  BY <1>1, PipelineAssumption DEF PushStore, Goto, RingInv, RingTyped, Tickets, InRing, Stored, Waits
<1>2. CASE \E th \in Thread, o \in Object : PushTicket(th, o)
  <2>1. PICK th \in Thread, o \in Object : PushTicket(th, o)
    BY <1>2
  <2>2. /\ g_i_pop' = g_i_pop /\ g_i_push' = g_i_push + 1
        /\ Waits(th)' /\ i_push'[th] = g_i_push
        /\ \A u \in Thread : Waits(u) => Waits(u)' /\ i_push'[u] = i_push[u]
    BY <2>1 DEF PushTicket, Goto, Waits, RingInv, RingTyped
  <2>3. n # g_i_push /\ Stored(n)
    BY <2>2 DEF Stored
  <2> QED
    BY <2>2, <2>3 DEF InRing, RingInv, RingTyped
<1>3. CASE AdvancePop
  <2>1. g_i_pop' = g_i_pop + 1 /\ g_i_push' = g_i_push /\ Stored(n)
    BY <1>3 DEF AdvancePop, RingInv, RingTyped, Batch, Stored, Waits, threadVars
  <2> QED
    BY <2>1, PipelineAssumption DEF InRing, RingInv, RingTyped
<1>4. CASE ~(AdvancePop \/ (\E u \in Thread : PushStore(u)) \/ \E th \in Thread, o \in Object : PushTicket(th, o))
  <2>1. g_i_pop' = g_i_pop /\ g_i_push' = g_i_push
    BY <1>4 DEF Next, Push, Filter, PushRoom, SyncBegin, SyncReturn, Copy, TakeBatch, CountDown, TakeListSlot,
       Release, ClearSlot, PublishList, FilterExit, ReleaseRound, AskExit, vars, ringVars
  <2>2. \A th \in Thread : Waits(th) => Waits(th)' /\ i_push'[th] = i_push[th]
    BY <1>4 DEF Next, Push, Filter, PushRoom, SyncBegin, SyncReturn, Copy, TakeBatch, CountDown, TakeListSlot,
       Release, ClearSlot, PublishList, FilterExit, ReleaseRound, AskExit, Goto, Waits,
       RingInv, RingTyped, vars, threadVars
  <2> QED
    BY <2>1, <2>2 DEF InRing, Stored
<1> QED
  BY <1>1, <1>2, <1>3, <1>4

Uncounted == {n \in g_i_pop .. g_i_push - 1 : ~Counted(n)}

(* A ticket adds a push to count, the decrement counts one, and no other    *)
(* step of a pusher or of the collector changes what is left to count.      *)
LEMMA TicketCounted ==
    ASSUME RingInv, NEW th \in Thread, NEW p \in Object, PushTicket(th, p)
    PROVE  Uncounted' = Uncounted \cup {g_i_push} /\ g_i_push \notin Uncounted
BY DEF PushTicket, RingInv, RingTyped, Batch, Uncounted, Counted, filterVars

LEMMA CountDownCounted ==
    ASSUME RingInv, CountDown
    PROVE  /\ i - 1 \in Uncounted /\ Uncounted' = Uncounted \ {i - 1}
           /\ Pushed(i - 1) = gc_filter_queue[Slot(i - 1)]
<1>1. i - 1 \in Nat /\ g_i_pop = i_begin /\ i_begin <= i - 1 /\ i <= i_end /\ i_end <= g_i_push
      /\ i - 1 < g_i_pop + Depth
  BY PipelineAssumption DEF CountDown, RingInv, RingTyped, Batch
<1>2. Stored(i - 1)
  <2>1. PICK n \in Nat : /\ g_i_pop <= n /\ n < g_i_pop + Depth
                         /\ Slot(n) = Slot(i - 1) /\ Stored(n)
    BY <1>1, SlotType DEF CountDown, RingInv, SlotsFilled
  <2> QED
    BY <1>1, <2>1, SlotsApart DEF RingInv, RingTyped
<1>3. Pushed(i - 1) = gc_filter_queue[Slot(i - 1)]
  BY <1>1, <1>2, PushedIs DEF RingInv, PushedKnown
<1>4. i - 1 \in Uncounted /\ Uncounted' = Uncounted \ {i - 1}
  BY <1>1 DEF CountDown, RingInv, RingTyped, Uncounted, Counted
<1> QED
  BY <1>3, <1>4

LEMMA OthersCounted ==
    ASSUME RingInv, [Next]_vars, ~CountDown,
           \A th \in Thread, p \in Object : ~PushTicket(th, p)
    PROVE  Uncounted' = Uncounted
<1>1. CASE TakeBatch
  <2>1. /\ filter = "idle" /\ filter' = "count" /\ i' = i_end' /\ i_end' \in Nat
        /\ g_i_pop' = g_i_pop /\ g_i_push' = g_i_push
    BY <1>1, PipelineAssumption DEF TakeBatch, RingInv, RingTyped, ringVars
  <2>2. Uncounted = g_i_pop .. g_i_push - 1
    BY <2>1 DEF RingInv, RingTyped, Uncounted, Counted
  <2>3. Uncounted' = g_i_pop .. g_i_push - 1
    BY <2>1 DEF RingInv, RingTyped, Uncounted, Counted
  <2> QED
    BY <2>2, <2>3
<1>2. CASE TakeListSlot
  BY <1>2 DEF TakeListSlot, RingInv, RingTyped, Batch, Uncounted, Counted, ringVars
<1>3. CASE Release \/ ClearSlot
  BY <1>3 DEF Release, ClearSlot, RingInv, RingTyped, Uncounted, Counted, ringVars
<1>4. CASE AdvancePop
  BY <1>4 DEF AdvancePop, RingInv, RingTyped, Batch, Uncounted, Counted
<1>5. CASE PublishList
  BY <1>5 DEF PublishList, RingInv, RingTyped, Batch, Uncounted, Counted, ringVars
<1>6. CASE FilterExit
  BY <1>6 DEF FilterExit, RingInv, RingTyped, Uncounted, Counted, ringVars
<1>7. CASE ~(TakeBatch \/ TakeListSlot \/ Release \/ ClearSlot \/ AdvancePop \/ PublishList \/ FilterExit)
  <2>1. UNCHANGED <<g_i_pop, g_i_push, filter, i, i_end>>
    BY <1>7 DEF Next, Push, Filter, PushRoom, PushStore, SyncBegin, SyncReturn, Copy, ReleaseRound, AskExit,
       vars, ringVars, filterVars
  <2> QED
    BY <2>1 DEF Uncounted, Counted
<1> QED
  BY <1>1, <1>2, <1>3, <1>4, <1>5, <1>6, <1>7

LEMMA PendingIs == \A o : Pending(o) = {n \in Uncounted : Pushed(n) = o}
BY DEF Pending, Uncounted

LEMMA PendingIsNext == \A o : Pending(o)' = {n \in Uncounted' : Pushed(n)' = o}
BY DEF Pending, Uncounted

LEMMA UncountedType ==
    RingInv => \A n \in Uncounted : n \in Nat /\ g_i_pop <= n /\ n < g_i_push /\ ~Counted(n)
BY DEF RingInv, RingTyped, Uncounted

LEMMA TicketPending ==
    ASSUME RingInv, InRing, RingInv', NEW th \in Thread, NEW p \in Object, PushTicket(th, p), NEW o
    PROVE  /\ g_i_push \notin Pending(o)
           /\ Pending(o)' = IF o = p THEN Pending(o) \cup {g_i_push} ELSE Pending(o)
<1>1. [Next]_vars /\ ~CountDown
  <2>1. [Next]_vars
    BY DEF Next
  <2>2. g_i_push' # g_i_push
    BY DEF PushTicket, RingInv, RingTyped
  <2> QED
    BY <2>1, <2>2 DEF CountDown
<1>2. \A n \in Uncounted : Pushed(n)' = Pushed(n)
  BY <1>1, UncountedType, PushedSame
<1> PICK ticket \in Nat : ticket = g_i_push
  BY DEF RingInv, RingTyped
<1>3. Pushed(ticket)' = p
  <2>1. Waits(th)' /\ i_push'[th] = ticket /\ mem'[th] = p
    BY DEF PushTicket, Goto, Waits, RingInv, RingTyped
  <2> QED
    BY <2>1, PushedIsNext DEF PushedKnown, RingInv
<1>4. g_i_push \notin Pending(o)
  BY TicketCounted, PendingIs
<1> QED
  BY <1>2, <1>3, <1>4, TicketCounted, PendingIs, PendingIsNext

LEMMA CountDownPending ==
    ASSUME RingInv, InRing, RingInv', CountDown, NEW o
    PROVE  /\ i - 1 \in Pending(gc_filter_queue[Slot(i - 1)])
           /\ Pending(o)' = Pending(o) \ {i - 1}
<1>1. [Next]_vars
  BY DEF Next, Filter
<1>2. \A n \in Uncounted \ {i - 1} : Pushed(n)' = Pushed(n)
  BY <1>1, UncountedType, PushedSame
<1> QED
  BY <1>2, CountDownCounted, PendingIs, PendingIsNext

LEMMA OthersPending ==
    ASSUME RingInv, InRing, RingInv', [Next]_vars, ~CountDown,
           \A th \in Thread, p \in Object : ~PushTicket(th, p), NEW o
    PROVE  Pending(o)' = Pending(o)
<1>1. \A n \in Uncounted : Pushed(n)' = Pushed(n)
  BY UncountedType, PushedSame
<1> QED
  BY <1>1, OthersCounted, PendingIs, PendingIsNext

LEMMA Finite ==
    RingInv => \A o :
        /\ IsFiniteSet(Holders(o)) /\ Cardinality(Holders(o)) \in Nat
        /\ IsFiniteSet(Pending(o)) /\ Cardinality(Pending(o)) \in Nat
        /\ IsFiniteSet(LiveParents(o)) /\ Cardinality(LiveParents(o)) \in Nat
<1> SUFFICES ASSUME RingInv, NEW o
             PROVE  IsFiniteSet(Holders(o)) /\ IsFiniteSet(Pending(o)) /\ IsFiniteSet(LiveParents(o))
  BY FS_CardinalityType
<1>1. Holders(o) \in SUBSET Thread /\ LiveParents(o) \in SUBSET Object
  BY DEF Holders, LiveParents, Parents
<1>2. IsFiniteSet(g_i_pop .. g_i_push - 1) /\ Pending(o) \in SUBSET (g_i_pop .. g_i_push - 1)
  BY FS_Interval DEF RingInv, RingTyped, Pending
<1> QED
  BY <1>1, <1>2, FS_Subset, PipelineAssumption

(* What the filter thread may conclude from the counters.                   *)
LEMMA NobodyLeft ==
    ASSUME CountInv, NEW o \in Object, ~under_release[o], owners[o] = 0
    PROVE  Holders(o) = {} /\ Pending(o) = {} /\ LiveParents(o) = {}
<1>1. 0 = Cardinality(Holders(o)) + Cardinality(Pending(o)) + Cardinality(LiveParents(o))
  BY DEF CountInv, OwnersExact
<1>2. /\ Cardinality(Holders(o)) = 0 /\ Cardinality(Pending(o)) = 0
      /\ Cardinality(LiveParents(o)) = 0
  BY <1>1, Finite DEF CountInv
<1> QED
  BY <1>2, Finite, FS_EmptySet DEF CountInv

LEMMA OnlyParent ==
    ASSUME CountInv, NEW o \in Object, ~under_release[o], owners[o] = 1, NEW p \in LiveParents(o)
    PROVE  Holders(o) = {} /\ Pending(o) = {} /\ LiveParents(o) = {p}
<1>1. 1 = Cardinality(Holders(o)) + Cardinality(Pending(o)) + Cardinality(LiveParents(o))
  BY DEF CountInv, OwnersExact
<1>2. /\ IsFiniteSet(LiveParents(o) \ {p})
      /\ Cardinality(LiveParents(o) \ {p}) = Cardinality(LiveParents(o)) - 1
      /\ Cardinality(LiveParents(o) \ {p}) \in Nat
  BY Finite, FS_RemoveElement, FS_CardinalityType DEF CountInv
<1>3. /\ Cardinality(Holders(o)) = 0 /\ Cardinality(Pending(o)) = 0
      /\ Cardinality(LiveParents(o) \ {p}) = 0
  BY <1>1, <1>2, Finite DEF CountInv
<1>4. LiveParents(o) \ {p} = {}
  BY <1>2, <1>3, FS_EmptySet
<1> QED
  BY <1>3, <1>4, Finite, FS_EmptySet DEF CountInv

LEMMA ParentsLiving ==
    ASSUME CountInv, NEW p \in Object, ~under_release[p], NEW o \in Member[p]
    PROVE  o \in Object /\ p \in LiveParents(o) /\ ~under_release[o] /\ o # p /\ Member[o] = {}
           /\ owners[o] >= 1
<1>1. o \in Object /\ p \in LiveParents(o) /\ o # p /\ Member[o] = {}
  BY PipelineAssumption DEF LiveParents, Parents
<1>2. ~under_release[o]
  BY <1>1 DEF CountInv, NoEarlyDestroy
<1>3. owners[o] # 0
  BY <1>1, <1>2, NobodyLeft
<1> QED
  BY <1>1, <1>2, <1>3 DEF CountInv, CountTyped

LEMMA CopyCount ==
    ASSUME CountInv, RingInv', NEW th \in Thread, NEW u \in Thread, NEW p \in Object, Copy(th, u, p)
    PROVE  CountTyped' /\ OwnersExact' /\ NoEarlyDestroy'
<1>1. CountTyped'
  BY DEF CountInv, CountTyped, Copy
<1>2. \A o : Pending(o)' = Pending(o)
  <2>1. [Next]_vars
    BY DEF Next
  <2>2. ~CountDown /\ \A t \in Thread, o \in Object : ~PushTicket(t, o)
    BY DEF Copy, CountDown, PushTicket, filterVars, ringVars, CountInv, RingInv, RingTyped
  <2> QED
    BY <2>1, <2>2, OthersPending DEF CountInv
<1>3. \A o : LiveParents(o)' = LiveParents(o)
  BY DEF Copy, LiveParents
<1>4. \A o \in Object : Holders(o)' = IF o = p THEN Holders(o) \cup {u} ELSE Holders(o)
  BY DEF Copy, Holders, CountInv, CountTyped
<1>5. u \notin Holders(p) /\ th \in Holders(p)
  BY DEF Copy, Holders
<1>6. ~under_release[p]
  BY <1>5 DEF CountInv, NoEarlyDestroy
<1>7. Cardinality(Holders(p) \cup {u}) = Cardinality(Holders(p)) + 1
  BY <1>5, Finite, FS_AddElement DEF CountInv
<1>8. OwnersExact'
  <2> SUFFICES ASSUME NEW o \in Object, ~under_release'[o]
               PROVE  owners'[o] = Cardinality(Holders(o)') + Cardinality(Pending(o)')
                                        + Cardinality(LiveParents(o)')
    BY DEF OwnersExact
  <2>1. owners[o] = Cardinality(Holders(o)) + Cardinality(Pending(o)) + Cardinality(LiveParents(o))
    BY DEF Copy, CountInv, OwnersExact
  <2>2. /\ Cardinality(Holders(o)) \in Nat /\ Cardinality(Pending(o)) \in Nat
        /\ Cardinality(LiveParents(o)) \in Nat
    BY Finite DEF CountInv
  <2>3. owners'[o] = IF o = p THEN owners[o] + 1 ELSE owners[o]
    BY DEF Copy, CountInv, CountTyped
  <2>4. Cardinality(Holders(o)') = IF o = p THEN Cardinality(Holders(o)) + 1 ELSE Cardinality(Holders(o))
    BY <1>4, <1>7
  <2>5. Cardinality(Pending(o)') = Cardinality(Pending(o))
        /\ Cardinality(LiveParents(o)') = Cardinality(LiveParents(o))
    BY <1>2, <1>3
  <2> QED
    BY <2>1, <2>2, <2>3, <2>4, <2>5
<1>9. NoEarlyDestroy'
  BY <1>2, <1>3, <1>4, <1>6 DEF NoEarlyDestroy, Copy, CountInv
<1> QED
  BY <1>1, <1>8, <1>9

LEMMA PushTicketCount ==
    ASSUME CountInv, RingInv', NEW th \in Thread, NEW p \in Object, PushTicket(th, p)
    PROVE  CountTyped' /\ OwnersExact' /\ NoEarlyDestroy'
<1>1. CountTyped'
  BY DEF CountInv, CountTyped, PushTicket
<1>2. \A o : /\ g_i_push \notin Pending(o)
             /\ Pending(o)' = IF o = p THEN Pending(o) \cup {g_i_push} ELSE Pending(o)
  BY TicketPending DEF CountInv
<1>3. \A o : LiveParents(o)' = LiveParents(o)
  BY DEF PushTicket, LiveParents
<1>4. \A o \in Object : Holders(o)' = IF o = p THEN Holders(o) \ {th} ELSE Holders(o)
  BY DEF PushTicket, Holders, CountInv, CountTyped
<1>5. th \in Holders(p)
  BY DEF PushTicket, Holders
<1>6. ~under_release[p]
  BY <1>5 DEF CountInv, NoEarlyDestroy
<1>7. /\ Cardinality(Holders(p) \ {th}) = Cardinality(Holders(p)) - 1
      /\ Cardinality(Pending(p) \cup {g_i_push}) = Cardinality(Pending(p)) + 1
  BY <1>2, <1>5, Finite, FS_AddElement, FS_RemoveElement DEF CountInv
<1>8. OwnersExact'
  <2> SUFFICES ASSUME NEW o \in Object, ~under_release'[o]
               PROVE  owners'[o] = Cardinality(Holders(o)') + Cardinality(Pending(o)')
                                        + Cardinality(LiveParents(o)')
    BY DEF OwnersExact
  <2>1. owners[o] = Cardinality(Holders(o)) + Cardinality(Pending(o)) + Cardinality(LiveParents(o))
    BY DEF PushTicket, CountInv, OwnersExact
  <2>2. /\ Cardinality(Holders(o)) \in Nat /\ Cardinality(Pending(o)) \in Nat
        /\ Cardinality(LiveParents(o)) \in Nat
    BY Finite DEF CountInv
  <2>3. owners'[o] = owners[o]
    BY DEF PushTicket
  <2>4. Cardinality(Holders(o)') = IF o = p THEN Cardinality(Holders(o)) - 1 ELSE Cardinality(Holders(o))
    BY <1>4, <1>7
  <2>5. Cardinality(Pending(o)') = IF o = p THEN Cardinality(Pending(o)) + 1 ELSE Cardinality(Pending(o))
    BY <1>2, <1>7
  <2>6. Cardinality(LiveParents(o)') = Cardinality(LiveParents(o))
    BY <1>3
  <2> QED
    BY <2>1, <2>2, <2>3, <2>4, <2>5, <2>6
<1>9. NoEarlyDestroy'
  BY <1>2, <1>3, <1>4, <1>6 DEF NoEarlyDestroy, PushTicket, CountInv
<1> QED
  BY <1>1, <1>8, <1>9

LEMMA CountDownCount ==
    ASSUME CountInv, RingInv', CountDown
    PROVE  CountTyped' /\ OwnersExact' /\ NoEarlyDestroy'
<1> DEFINE m == gc_filter_queue[Slot(i - 1)]
<1>1. m \in Object /\ owners' = [owners EXCEPT ![m] = @ - 1]
  BY SlotType, CountDownCounted, UncountedType DEF CountDown, CountInv, RingInv, RingTyped
<1>2. i - 1 \in Pending(m) /\ \A o : Pending(o)' = Pending(o) \ {i - 1}
  BY CountDownPending DEF CountInv
<1>3. \A o \in Object \ {m} : Pending(o)' = Pending(o)
  BY <1>2, PendingIs
<1>4. \A o : Holders(o)' = Holders(o) /\ LiveParents(o)' = LiveParents(o)
  BY DEF CountDown, Holders, LiveParents
<1> HIDE DEF m
<1>5. ~under_release[m]
  BY <1>1, <1>2 DEF CountInv, NoEarlyDestroy
<1>6. owners[m] >= 1
  BY <1>1, <1>2, <1>5, NobodyLeft DEF CountInv, CountTyped
<1>7. CountTyped'
  BY <1>1, <1>6 DEF CountDown, CountInv, CountTyped
<1>8. Cardinality(Pending(m) \ {i - 1}) = Cardinality(Pending(m)) - 1
  BY <1>2, Finite, FS_RemoveElement DEF CountInv
<1>9. OwnersExact'
  <2> SUFFICES ASSUME NEW o \in Object, ~under_release'[o]
               PROVE  owners'[o] = Cardinality(Holders(o)') + Cardinality(Pending(o)')
                                        + Cardinality(LiveParents(o)')
    BY DEF OwnersExact
  <2>1. owners[o] = Cardinality(Holders(o)) + Cardinality(Pending(o)) + Cardinality(LiveParents(o))
    BY DEF CountDown, CountInv, OwnersExact
  <2>2. /\ Cardinality(Holders(o)) \in Nat /\ Cardinality(Pending(o)) \in Nat
        /\ Cardinality(LiveParents(o)) \in Nat
    BY Finite DEF CountInv
  <2>3. owners'[o] = IF o = m THEN owners[o] - 1 ELSE owners[o]
    BY <1>1 DEF CountInv, CountTyped
  <2>4. Cardinality(Pending(o)') = IF o = m THEN Cardinality(Pending(o)) - 1 ELSE Cardinality(Pending(o))
    BY <1>2, <1>3, <1>8
  <2>5. Cardinality(Holders(o)') = Cardinality(Holders(o))
        /\ Cardinality(LiveParents(o)') = Cardinality(LiveParents(o))
    BY <1>4
  <2> QED
    BY <2>1, <2>2, <2>3, <2>4, <2>5
<1>10. NoEarlyDestroy'
  BY <1>1, <1>3, <1>4, <1>5 DEF NoEarlyDestroy, CountDown, CountInv
<1> QED
  BY <1>7, <1>9, <1>10

LEMMA ReleaseCount ==
    ASSUME CountInv, RingInv', Release
    PROVE  CountTyped' /\ OwnersExact' /\ NoEarlyDestroy'
<1> DEFINE m == gc_filter_queue[Slot(i)]
           dies == m # Null /\ ~under_release[m] /\ owners[m] = 0
<1>1. \A o : Pending(o)' = Pending(o)
  <2>1. [Next]_vars /\ ~CountDown
    BY DEF Next, Filter, Release, CountDown
  <2>2. \A t \in Thread, o \in Object : ~PushTicket(t, o)
    BY DEF Release, PushTicket, ringVars, CountInv, RingInv, RingTyped
  <2> QED
    BY <2>1, <2>2, OthersPending DEF CountInv
<1>2. \A o : Holders(o)' = Holders(o)
  BY DEF Release, Holders
<1>3. in_queue' \in [Object -> BOOLEAN] /\ refs' = refs
  BY DEF Release, CountInv, CountTyped
<1>4. CASE ~dies
  <2>1. owners' = owners /\ under_release' = under_release
    BY <1>4 DEF Release
  <2>2. \A o : LiveParents(o)' = LiveParents(o)
    BY <2>1 DEF LiveParents
  <2> QED
    BY <1>1, <1>2, <1>3, <2>1, <2>2 DEF CountInv, CountTyped, OwnersExact, NoEarlyDestroy
<1>5. CASE dies
  <2>1. m \in Object /\ ~under_release[m] /\ owners[m] = 0
    BY <1>5, SlotType DEF Release, CountInv, RingInv, RingTyped, Batch
  <2>2. /\ under_release' = [o \in Object |-> under_release[o] \/ o = m \/ o \in DyingMembers(m)]
        /\ owners' = [o \in Object |-> IF o \in Member[m] /\ ~under_release[o] THEN owners[o] - 1
                                                                               ELSE owners[o]]
    BY <1>5 DEF Release
  <2> HIDE DEF m
  <2>3. Holders(m) = {} /\ Pending(m) = {} /\ LiveParents(m) = {}
    BY <2>1, NobodyLeft
  <2>4. \A o \in Member[m] : /\ o \in Object /\ m \in LiveParents(o) /\ ~under_release[o] /\ o # m
                             /\ Member[o] = {} /\ owners[o] >= 1
    BY <2>1, ParentsLiving
  <2>5. \A o \in DyingMembers(m) : Holders(o) = {} /\ Pending(o) = {} /\ LiveParents(o) = {m}
    BY <2>4, OnlyParent DEF DyingMembers
  <2>6. \A o : LiveParents(o)' = LiveParents(o) \ {m}
    <3> SUFFICES ASSUME NEW o PROVE LiveParents(o)' = LiveParents(o) \ {m}
      OBVIOUS
    <3>1. \A p \in Parents(o) : p \in Object /\ p \notin DyingMembers(m)
      BY <2>4 DEF Parents, DyingMembers
    <3>2. \A p \in Parents(o) : ~under_release'[p] <=> ~under_release[p] /\ p # m
      BY <2>2, <3>1
    <3> QED
      BY <3>2 DEF LiveParents
  <2>7. CountTyped'
    BY <1>3, <2>2, <2>4 DEF CountInv, CountTyped
  <2>8. NoEarlyDestroy'
    <3> SUFFICES ASSUME NEW o \in Object, under_release'[o]
                 PROVE  Holders(o)' = {} /\ Pending(o)' = {} /\ LiveParents(o)' = {}
      BY DEF NoEarlyDestroy
    <3>1. under_release[o] \/ o = m \/ o \in DyingMembers(m)
      BY <2>2
    <3>2. Holders(o) = {} /\ Pending(o) = {} /\ LiveParents(o) \ {m} = {}
      BY <2>3, <2>5, <3>1 DEF CountInv, NoEarlyDestroy
    <3> QED
      BY <1>1, <1>2, <2>6, <3>2
  <2>9. OwnersExact'
    <3> SUFFICES ASSUME NEW o \in Object, ~under_release'[o]
                 PROVE  owners'[o] = Cardinality(Holders(o)') + Cardinality(Pending(o)')
                                          + Cardinality(LiveParents(o)')
      BY DEF OwnersExact
    <3>1. owners[o] = Cardinality(Holders(o)) + Cardinality(Pending(o)) + Cardinality(LiveParents(o))
      BY <2>2 DEF CountInv, OwnersExact
    <3>2. /\ Cardinality(Holders(o)) \in Nat /\ Cardinality(Pending(o)) \in Nat
          /\ Cardinality(LiveParents(o)) \in Nat
      BY Finite DEF CountInv
    <3>3. owners'[o] = IF o \in Member[m] THEN owners[o] - 1 ELSE owners[o]
      BY <2>2
    <3>4. Cardinality(LiveParents(o)') = IF o \in Member[m] THEN Cardinality(LiveParents(o)) - 1
                                                            ELSE Cardinality(LiveParents(o))
      <4>1. CASE o \in Member[m]
        <5>1. m \in LiveParents(o)
          BY <2>4, <4>1
        <5> QED
          BY <2>6, <4>1, <5>1, Finite, FS_RemoveElement DEF CountInv
      <4>2. CASE o \notin Member[m]
        <5>1. LiveParents(o) \ {m} = LiveParents(o)
          BY <4>2 DEF LiveParents, Parents
        <5> QED
          BY <2>6, <4>2, <5>1
      <4> QED
        BY <4>1, <4>2
    <3>5. Cardinality(Holders(o)') = Cardinality(Holders(o))
          /\ Cardinality(Pending(o)') = Cardinality(Pending(o))
      BY <1>1, <1>2
    <3> QED
      BY <3>1, <3>2, <3>3, <3>4, <3>5
  <2> QED
    BY <2>7, <2>8, <2>9
<1> QED
  BY <1>4, <1>5

(* Steps that neither give nor take a reference.                            *)
LEMMA QuietCount ==
    ASSUME CountInv, RingInv', [Next]_vars, UNCHANGED <<owners, refs, under_release>>,
           in_queue' \in [Object -> BOOLEAN], ~CountDown,
           \A th \in Thread, p \in Object : ~PushTicket(th, p)
    PROVE  CountTyped' /\ OwnersExact' /\ NoEarlyDestroy'
<1>1. \A o : Pending(o)' = Pending(o)
  BY OthersPending DEF CountInv
<1>2. \A o : Holders(o)' = Holders(o) /\ LiveParents(o)' = LiveParents(o)
  BY DEF Holders, LiveParents
<1> QED
  BY <1>1, <1>2 DEF CountInv, CountTyped, OwnersExact, NoEarlyDestroy

LEMMA CountStep == CountInv /\ [Next]_vars => CountInv'
<1> SUFFICES ASSUME CountInv, [Next]_vars PROVE CountInv'
  OBVIOUS
<1>1. RingInv' /\ InRing'
  BY RingStep, InRingStep DEF CountInv
<1>2. CASE \E th, u \in Thread, p \in Object : Copy(th, u, p)
  BY <1>1, <1>2, CopyCount DEF CountInv
<1>3. CASE \E th \in Thread, p \in Object : PushTicket(th, p)
  BY <1>1, <1>3, PushTicketCount DEF CountInv
<1>4. CASE CountDown
  BY <1>1, <1>4, CountDownCount DEF CountInv
<1>5. CASE Release
  BY <1>1, <1>5, ReleaseCount DEF CountInv
<1>6. CASE /\ ~CountDown /\ ~Release /\ \A th \in Thread, p \in Object : ~PushTicket(th, p)
           /\ \A th, u \in Thread, p \in Object : ~Copy(th, u, p)
  <2>1. UNCHANGED <<owners, refs, under_release, in_queue>>
    BY <1>6 DEF Next, Push, Filter, PushRoom, PushStore, SyncBegin, SyncReturn, TakeBatch, TakeListSlot,
       ClearSlot, AdvancePop, PublishList, FilterExit, ReleaseRound, AskExit, vars, countVars
  <2>2. in_queue' \in [Object -> BOOLEAN]
    BY <2>1 DEF CountInv, CountTyped
  <2> QED
    BY <1>1, <1>6, <2>1, <2>2, QuietCount DEF CountInv
<1> QED
  BY <1>2, <1>3, <1>4, <1>5, <1>6

LEMMA InitCount == Init => CountInv
<1> SUFFICES ASSUME Init PROVE CountInv
  OBVIOUS
<1>1. RingInv /\ InRing
  BY InitRing DEF Init, InRing
<1>2. \A o \in Object : /\ Pending(o) = {} /\ LiveParents(o) = Parents(o)
                        /\ Holders(o) = {th \in Thread : o \in refs[th]} /\ ~under_release[o]
  BY DEF Init, Pending, LiveParents, Holders, Parents
<1>3. \A o \in Object : owners[o] = Cardinality(Holders(o)) + Cardinality(LiveParents(o))
  BY <1>2 DEF Init
<1>4. \A o \in Object : Cardinality(Holders(o)) \in Nat /\ Cardinality(LiveParents(o)) \in Nat
  BY <1>1, Finite
<1>5. OwnersExact
  <2>1. \A o \in Object : Cardinality(Pending(o)) = 0
    BY <1>2, FS_EmptySet
  <2> QED
    BY <1>3, <1>4, <2>1 DEF OwnersExact
<1>6. CountTyped
  <2>1. \A o \in Object : owners[o] \in Nat
    BY <1>3, <1>4
  <2>2. owners = [o \in Object |-> Cardinality({th \in Thread : o \in refs[th]}) + Cardinality(Parents(o))]
    BY DEF Init
  <2>3. owners \in [Object -> Nat]
    BY <2>1, <2>2
  <2> QED
    BY <2>3 DEF Init, CountTyped
<1>7. NoEarlyDestroy
  BY <1>2 DEF NoEarlyDestroy
<1> QED
  BY <1>1, <1>5, <1>6, <1>7 DEF CountInv

LEMMA CountInvHolds == Spec => []CountInv
BY InitCount, CountStep, PTL DEF Spec

(* The counter of every live object is exact between any two steps of the   *)
(* pushers and of the filter thread, which share it without a lock.         *)
THEOREM CountsExact == Spec => []OwnersExact
BY CountInvHolds, PTL DEF CountInv

------------------------------------------------------------------------------
(* The flag m_in_queue.  The window is the part of the batch whose slots    *)
(* stand for an object that is still to be released.                        *)
Window ==
    CASE filter \in {"idle", "stopped"} -> {}
      [] filter \in {"clear", "pop"}    -> i + 1 .. i_end - 1
      [] OTHER                          -> i .. i_end - 1

SlotsOf(o) == {n \in Window : gc_filter_queue[Slot(n)] = o}

OneSlot ==
    \A o \in Object : IF in_queue[o] THEN \E n \in Window : SlotsOf(o) = {n} ELSE SlotsOf(o) = {}

FlagInv == CountInv /\ OneSlot

LEMMA WindowInRing ==
    ASSUME CountInv, NEW n \in Window
    PROVE  n \in Nat /\ i <= n /\ n < i_end /\ g_i_pop <= n /\ n < g_i_pop + Depth /\ Stored(n)
<1>1. n \in Nat /\ i <= n /\ n < i_end
  BY DEF Window, CountInv, RingInv, RingTyped
<1>2. filter \in {"count", "release", "clear", "pop"}
  BY DEF Window, CountInv, RingInv, RingTyped
<1>3. Stored(n) /\ g_i_pop <= i /\ i_end <= g_i_push
  BY <1>1, <1>2 DEF CountInv, RingInv, RingTyped, Batch
<1> QED
  BY <1>1, <1>3 DEF CountInv, InRing, RingInv, RingTyped

(* A pusher never stores into a slot of the window.                         *)
LEMMA WindowUntouched ==
    ASSUME CountInv, NEW th \in Thread, PushStore(th), NEW n \in Window
    PROVE  gc_filter_queue'[Slot(n)] = gc_filter_queue[Slot(n)]
<1>1. /\ i_push[th] \in Nat /\ g_i_pop \in Nat /\ g_i_pop <= i_push[th]
      /\ i_push[th] < g_i_pop + Depth /\ Waits(th)
  BY DEF PushStore, CountInv, RingInv, RingTyped, Tickets, Waits
<1>2. n \in Nat /\ g_i_pop <= n /\ n < g_i_pop + Depth /\ Stored(n)
  BY WindowInRing
<1>3. Slot(n) # Slot(i_push[th])
  BY <1>1, <1>2, SlotsApart DEF Stored
<1> QED
  BY <1>2, <1>3, SlotType DEF PushStore, CountInv, RingInv, RingTyped

LEMMA CountDownFlag == ASSUME FlagInv, CountDown PROVE OneSlot'
<1> DEFINE m == gc_filter_queue[Slot(i - 1)]
<1>1. /\ i - 1 \in Nat /\ i \in Nat /\ i_end \in Nat /\ i <= i_end
      /\ g_i_pop \in Nat /\ g_i_pop <= i - 1 /\ i - 1 < g_i_pop + Depth
  BY PipelineAssumption DEF CountDown, FlagInv, CountInv, RingInv, RingTyped, Batch
<1>2. m \in Object
  BY <1>1, SlotType DEF CountDown, FlagInv, CountInv, RingInv, RingTyped
<1>3. Window' = Window \cup {i - 1} /\ i - 1 \notin Window
  BY <1>1 DEF Window, CountDown
<1>4. \A n \in Window : Slot(n) # Slot(i - 1) /\ Slot(n) \in 0 .. Depth - 1
  BY <1>1, <1>3, WindowInRing, SlotsApart, SlotType DEF FlagInv
<1>5. in_queue' = [in_queue EXCEPT ![m] = TRUE]
  BY DEF CountDown
<1>6. gc_filter_queue' = IF in_queue[m] THEN [gc_filter_queue EXCEPT ![Slot(i - 1)] = Null]
                                        ELSE gc_filter_queue
  BY DEF CountDown
<1>7. gc_filter_queue \in [0 .. Depth - 1 -> Object \cup {Null}] /\ Slot(i - 1) \in 0 .. Depth - 1
  BY <1>1, SlotType DEF FlagInv, CountInv, RingInv, RingTyped
<1>8. \A n \in Window : gc_filter_queue'[Slot(n)] = gc_filter_queue[Slot(n)]
  BY <1>4, <1>6, <1>7
<1>9. gc_filter_queue'[Slot(i - 1)] = IF in_queue[m] THEN Null ELSE m
  BY <1>6, <1>7
<1> SUFFICES ASSUME NEW o \in Object
             PROVE  IF in_queue'[o] THEN \E n \in Window' : SlotsOf(o)' = {n} ELSE SlotsOf(o)' = {}
  BY DEF OneSlot
<1>10. SlotsOf(o)' = {n \in Window' : gc_filter_queue'[Slot(n)] = o}
  BY <1>1 DEF SlotsOf, Slot
<1>11. in_queue \in [Object -> BOOLEAN] /\ Null # o
  BY PipelineAssumption DEF FlagInv, CountInv, CountTyped
<1> HIDE DEF m
<1>12. CASE o = m /\ ~in_queue[m]
  <2>1. SlotsOf(o) = {}
    BY <1>12 DEF FlagInv, OneSlot
  <2>2. SlotsOf(o)' = {i - 1}
    BY <1>3, <1>8, <1>9, <1>10, <1>12, <2>1 DEF SlotsOf
  <2> QED
    BY <1>2, <1>3, <1>5, <1>11, <1>12, <2>2
<1>13. CASE o # m \/ in_queue[m]
  <2>1. SlotsOf(o)' = SlotsOf(o)
    BY <1>3, <1>8, <1>9, <1>10, <1>11, <1>13 DEF SlotsOf
  <2>2. in_queue'[o] = in_queue[o]
    BY <1>2, <1>5, <1>11, <1>13
  <2> QED
    BY <1>3, <2>1, <2>2 DEF FlagInv, OneSlot
<1> QED
  BY <1>12, <1>13

LEMMA ReleaseFlag == ASSUME FlagInv, Release PROVE OneSlot'
<1> DEFINE m == gc_filter_queue[Slot(i)]
<1>1. i \in Nat /\ i_end \in Nat /\ i < i_end /\ Slot(i) \in 0 .. Depth - 1
  BY SlotType DEF Release, FlagInv, CountInv, RingInv, RingTyped, Batch
<1>2. m \in Object \cup {Null}
  BY <1>1 DEF FlagInv, CountInv, RingInv, RingTyped
<1>3. i \in Window /\ Window' = Window \ {i}
  BY <1>1 DEF Window, Release
<1>4. gc_filter_queue' = gc_filter_queue
  BY DEF Release, ringVars
<1>5. in_queue' = IF m = Null THEN in_queue ELSE [in_queue EXCEPT ![m] = FALSE]
  BY DEF Release
<1> SUFFICES ASSUME NEW o \in Object
             PROVE  IF in_queue'[o] THEN \E n \in Window' : SlotsOf(o)' = {n} ELSE SlotsOf(o)' = {}
  BY DEF OneSlot
<1>6. SlotsOf(o)' = SlotsOf(o) \ {i}
  BY <1>3, <1>4 DEF SlotsOf, Slot
<1>7. in_queue \in [Object -> BOOLEAN] /\ Null # o
  BY PipelineAssumption DEF FlagInv, CountInv, CountTyped
<1>8. o = m => i \in SlotsOf(o)
  BY <1>3 DEF SlotsOf
<1>9. o # m => i \notin SlotsOf(o)
  BY DEF SlotsOf
<1>10. IF in_queue[o] THEN \E n \in Window : SlotsOf(o) = {n} ELSE SlotsOf(o) = {}
  BY DEF FlagInv, OneSlot
<1> HIDE DEF m
<1>11. CASE o = m
  <2>1. SlotsOf(o)' = {}
    BY <1>6, <1>8, <1>10, <1>11
  <2>2. ~in_queue'[o]
    BY <1>2, <1>5, <1>7, <1>11
  <2> QED
    BY <2>1, <2>2
<1>12. CASE o # m
  <2>1. SlotsOf(o)' = SlotsOf(o) /\ in_queue'[o] = in_queue[o]
    BY <1>2, <1>5, <1>6, <1>7, <1>9, <1>12
  <2>2. \A n \in Window : SlotsOf(o) = {n} => n \in Window'
    BY <1>3, <1>9, <1>12
  <2> QED
    BY <1>10, <2>1, <2>2
<1> QED
  BY <1>11, <1>12

LEMMA ClearSlotFlag == ASSUME FlagInv, ClearSlot PROVE OneSlot'
<1>1. i \in Nat /\ g_i_pop = i /\ i < i + Depth /\ Slot(i) \in 0 .. Depth - 1
  BY PipelineAssumption, SlotType DEF ClearSlot, FlagInv, CountInv, RingInv, RingTyped, Batch
<1>2. Window' = Window /\ i \notin Window
  BY <1>1 DEF Window, ClearSlot, FlagInv, CountInv, RingInv, RingTyped
<1>3. \A n \in Window : Slot(n) # Slot(i) /\ Slot(n) \in 0 .. Depth - 1
  BY <1>1, <1>2, WindowInRing, SlotsApart, SlotType DEF FlagInv
<1>4. \A n \in Window : gc_filter_queue'[Slot(n)] = gc_filter_queue[Slot(n)]
  BY <1>1, <1>3 DEF ClearSlot, FlagInv, CountInv, RingInv, RingTyped
<1>5. \A o : SlotsOf(o)' = SlotsOf(o)
  BY <1>2, <1>4 DEF SlotsOf, Slot
<1> QED
  BY <1>2, <1>5 DEF OneSlot, FlagInv, ClearSlot, countVars

(* Steps after which the window shows the same slots, or nothing was filed  *)
(* and nothing is.                                                          *)
LEMMA QuietFlag ==
    ASSUME FlagInv, [Next]_vars, ~CountDown, ~Release, ~ClearSlot
    PROVE  OneSlot'
<1>1. in_queue' = in_queue
  BY DEF Next, Push, Filter, PushTicket, PushRoom, PushStore, SyncBegin, SyncReturn, Copy, TakeBatch,
     TakeListSlot, AdvancePop, PublishList, FilterExit, ReleaseRound, AskExit, vars, countVars
<1>2. CASE TakeBatch \/ PublishList \/ FilterExit
  <2>1. Window = {}
    BY <1>2 DEF Window, TakeBatch, PublishList, FilterExit, FlagInv, CountInv, RingInv, RingTyped
  <2>2. Window' = {}
    <3>1. CASE TakeBatch
      <4>1. filter' = "count" /\ i' = i_end' /\ i_end' \in Nat
        BY <3>1, PipelineAssumption DEF TakeBatch, FlagInv, CountInv, RingInv, RingTyped
      <4> QED
        BY <4>1 DEF Window
    <3> QED
      BY <1>2, <3>1 DEF PublishList, FilterExit, Window
  <2>3. \A o \in Object : ~in_queue[o] /\ SlotsOf(o)' = {}
    BY <2>1, <2>2 DEF FlagInv, OneSlot, SlotsOf
  <2> QED
    BY <1>1, <2>3 DEF OneSlot
<1>3. CASE ~(TakeBatch \/ PublishList \/ FilterExit)
  <2>1. Window' = Window
    <3>1. CASE TakeListSlot
      BY <3>1 DEF TakeListSlot, Window
    <3>2. CASE AdvancePop
      BY <3>2 DEF AdvancePop, Window
    <3>3. CASE ~TakeListSlot /\ ~AdvancePop
      <4>1. UNCHANGED <<filter, i, i_end>>
        BY <1>3, <3>3 DEF Next, Push, Filter, PushTicket, PushRoom, PushStore, SyncBegin, SyncReturn, Copy,
           ReleaseRound, AskExit, vars, filterVars
      <4> QED
        BY <4>1 DEF Window
    <3> QED
      BY <3>1, <3>2, <3>3
  <2>2. \A n \in Window : gc_filter_queue'[Slot(n)] = gc_filter_queue[Slot(n)]
    <3>1. CASE \E th \in Thread : PushStore(th)
      BY <3>1, WindowUntouched DEF FlagInv
    <3>2. CASE \A th \in Thread : ~PushStore(th)
      BY <1>3, <3>2 DEF Next, Push, Filter, PushTicket, PushRoom, SyncBegin, SyncReturn, Copy,
         TakeListSlot, AdvancePop, ReleaseRound, AskExit, vars, ringVars
    <3> QED
      BY <3>1, <3>2
  <2>3. \A o : SlotsOf(o)' = SlotsOf(o)
    BY <2>1, <2>2 DEF SlotsOf, Slot
  <2> QED
    BY <1>1, <2>1, <2>3 DEF OneSlot, FlagInv
<1> QED
  BY <1>2, <1>3

LEMMA FlagStep == FlagInv /\ [Next]_vars => FlagInv'
BY CountStep, CountDownFlag, ReleaseFlag, ClearSlotFlag, QuietFlag DEF FlagInv

LEMMA InitFlag == Init => FlagInv
<1> SUFFICES ASSUME Init PROVE FlagInv
  OBVIOUS
<1>1. Window = {} /\ \A o \in Object : ~in_queue[o]
  BY DEF Init, Window
<1> QED
  BY <1>1, InitCount DEF FlagInv, OneSlot, SlotsOf

LEMMA FlagInvHolds == Spec => []FlagInv
BY InitFlag, FlagStep, PTL DEF Spec

LEMMA FlagCounts == FlagInv => FlagMeansSlot
<1> SUFFICES ASSUME FlagInv, NEW o \in Object
             PROVE  Cardinality(SlotsOf(o)) = IF in_queue[o] THEN 1 ELSE 0
  BY DEF FlagMeansSlot, SlotsOf, Window
<1>1. IF in_queue[o] THEN \E n \in Window : SlotsOf(o) = {n} ELSE SlotsOf(o) = {}
  BY DEF FlagInv, OneSlot
<1> QED
  BY <1>1, FS_Singleton, FS_EmptySet

------------------------------------------------------------------------------
(* The lists of dead blocks: those of the ring and, at FreeDepth, the list  *)
(* of the running round.                                                    *)
List(q) ==
    IF q = FreeDepth THEN IF filter \in {"release", "clear", "pop"} THEN g_free_list ELSE <<>>
                     ELSE g_free_list_queue[q]

At(q, k, o) == q \in 0 .. FreeDepth /\ k \in DOMAIN List(q) /\ List(q)[k] = o

FiledOnce ==
    \A o \in Object :
        /\ under_release[o] <=> \E q, k : At(q, k, o)
        /\ \A q, k, r, j : At(q, k, o) /\ At(r, j, o) => q = r /\ k = j

ListTyped ==
    /\ g_free_list \in Seq(Object)
    /\ g_free_list_queue \in [0 .. FreeDepth - 1 -> Seq(Object)]
    /\ given_back = {}
    /\ i_queue \in 0 .. FreeDepth - 1
    /\ filter \in {"release", "clear", "pop"} => g_free_list_queue[i_queue] = <<>>

ListInv == FlagInv /\ ListTyped /\ FiledOnce

LEMMA ListType ==
    ASSUME ListTyped, NEW q \in 0 .. FreeDepth
    PROVE  List(q) \in Seq(Object)
BY PipelineAssumption DEF List, ListTyped

(* The blocks of an object and of the members that die with it: each once.  *)
LEMMA SetAsSequence ==
    ASSUME NEW S, IsFiniteSet(S)
    PROVE  /\ SetToSeq(S) \in Seq(S)
           /\ \A x \in S : \E k \in DOMAIN SetToSeq(S) : SetToSeq(S)[k] = x
           /\ \A k, j \in DOMAIN SetToSeq(S) : SetToSeq(S)[k] = SetToSeq(S)[j] => k = j
<1> DEFINE n == Cardinality(S)
<1>1. n \in Nat /\ Bijection(1 .. n, S) # {}
  BY FS_CardinalityType DEF ExistsBijection
<1>2. \E f \in [1 .. n -> S] : IsInjective(f)
  BY <1>1 DEF Bijection, Injection
<1>3. SetToSeq(S) \in [1 .. n -> S] /\ IsInjective(SetToSeq(S))
  BY <1>2 DEF SetToSeq
<1>4. SetToSeq(S) \in Injection(1 .. n, S)
  BY <1>3 DEF Injection
<1>5. Cardinality(1 .. n) = n
  BY <1>1, FS_Interval
<1>6. SetToSeq(S) \in Surjection(1 .. n, S)
  BY <1>4, <1>5, FS_Injection
<1>7. DOMAIN SetToSeq(S) = 1 .. n
  BY <1>3
<1> HIDE DEF n
<1>8. SetToSeq(S) \in Seq(S)
  BY <1>1, <1>3
<1>9. \A x \in S : \E k \in 1 .. n : SetToSeq(S)[k] = x
  BY <1>6 DEF Surjection
<1> QED
  BY <1>3, <1>7, <1>8, <1>9 DEF IsInjective

LEMMA BlocksOnce ==
    ASSUME NEW p \in Object, p \notin Member[p]
    PROVE  /\ Blocks(p) \in Seq(Object)
           /\ \A o : (\E k \in DOMAIN Blocks(p) : Blocks(p)[k] = o) <=> o = p \/ o \in DyingMembers(p)
           /\ \A k, j \in DOMAIN Blocks(p) : Blocks(p)[k] = Blocks(p)[j] => k = j
<1> DEFINE s == SetToSeq(DyingMembers(p))
<1>1. DyingMembers(p) \subseteq Object /\ p \notin DyingMembers(p)
  BY PipelineAssumption DEF DyingMembers
<1>2. IsFiniteSet(DyingMembers(p))
  BY <1>1, FS_Subset, PipelineAssumption
<1>3. /\ s \in Seq(DyingMembers(p))
      /\ \A x \in DyingMembers(p) : \E k \in DOMAIN s : s[k] = x
      /\ \A k, j \in DOMAIN s : s[k] = s[j] => k = j
  BY <1>2, SetAsSequence
<1>4. Blocks(p) = Append(s, p)
  BY DEF Blocks
<1> HIDE DEF s
<1>5. s \in Seq(Object) /\ Len(s) \in Nat /\ DOMAIN s = 1 .. Len(s)
  BY <1>1, <1>3
<1>6. /\ Blocks(p) \in Seq(Object) /\ DOMAIN Blocks(p) = 1 .. Len(s) + 1
      /\ \A k \in DOMAIN s : Blocks(p)[k] = s[k]
      /\ Blocks(p)[Len(s) + 1] = p
  BY <1>4, <1>5
<1>7. \A k \in DOMAIN s : s[k] \in DyingMembers(p)
  BY <1>3
<1>8. DOMAIN Blocks(p) = DOMAIN s \cup {Len(s) + 1} /\ Len(s) + 1 \notin DOMAIN s
  BY <1>5, <1>6
<1>9. \A o : (\E k \in DOMAIN Blocks(p) : Blocks(p)[k] = o) <=> o = p \/ o \in DyingMembers(p)
  BY <1>3, <1>6, <1>7, <1>8
<1>10. ASSUME NEW k \in DOMAIN Blocks(p), NEW j \in DOMAIN Blocks(p), Blocks(p)[k] = Blocks(p)[j]
      PROVE  k = j
  <2>1. \A l \in DOMAIN s : Blocks(p)[l] # p
    BY <1>1, <1>6, <1>7
  <2>2. CASE k \in DOMAIN s /\ j \in DOMAIN s
    BY <1>3, <1>6, <1>10, <2>2
  <2>3. CASE k = Len(s) + 1 \/ j = Len(s) + 1
    BY <1>6, <1>8, <1>10, <2>1, <2>3
  <2> QED
    BY <1>8, <2>2, <2>3
<1> QED
  BY <1>6, <1>9, <1>10

LEMMA ReleaseList == ASSUME ListInv, Release PROVE ListTyped' /\ FiledOnce'
<1> DEFINE m == gc_filter_queue[Slot(i)]
           dies == m # Null /\ ~under_release[m] /\ owners[m] = 0
<1>1. /\ filter = "release" /\ filter' = "clear"
      /\ UNCHANGED <<g_free_list_queue, given_back, i_queue>>
  BY DEF Release
<1>2. \A q \in 0 .. FreeDepth - 1 : List(q)' = List(q)
  BY <1>1, PipelineAssumption DEF List
<1>3. List(FreeDepth) = g_free_list /\ List(FreeDepth)' = g_free_list'
  BY <1>1 DEF List
<1>4. 0 .. FreeDepth = (0 .. FreeDepth - 1) \cup {FreeDepth} /\ FreeDepth \notin 0 .. FreeDepth - 1
  BY PipelineAssumption
<1>5. CASE ~dies
  <2>1. g_free_list' = g_free_list /\ under_release' = under_release
    BY <1>5 DEF Release
  <2>2. \A q \in 0 .. FreeDepth : List(q)' = List(q)
    BY <1>2, <1>3, <1>4, <2>1
  <2>3. \A q, k, o : At(q, k, o)' <=> At(q, k, o)
    BY <2>2 DEF At
  <2> QED
    BY <1>1, <2>1, <2>3 DEF ListInv, ListTyped, FiledOnce
<1>6. CASE dies
  <2>1. m \in Object /\ ~under_release[m]
    BY <1>6, SlotType DEF Release, ListInv, FlagInv, CountInv, RingInv, RingTyped, Batch
  <2>2. /\ under_release' = [o \in Object |-> under_release[o] \/ o = m \/ o \in DyingMembers(m)]
        /\ g_free_list' = g_free_list \o Blocks(m)
    BY <1>6 DEF Release
  <2> HIDE DEF m
  <2>3. m \notin Member[m]
    BY <2>1, PipelineAssumption
  <2>4. /\ Blocks(m) \in Seq(Object)
        /\ \A o : (\E k \in DOMAIN Blocks(m) : Blocks(m)[k] = o) <=> o = m \/ o \in DyingMembers(m)
        /\ \A k, j \in DOMAIN Blocks(m) : Blocks(m)[k] = Blocks(m)[j] => k = j
    BY <2>1, <2>3, BlocksOnce, PipelineAssumption
  <2>5. g_free_list \in Seq(Object)
    BY DEF ListInv, ListTyped
  <2> DEFINE s == g_free_list
             t == Blocks(m)
             n == Len(s)
  <2>6. n \in Nat /\ DOMAIN s = 1 .. n /\ DOMAIN t = 1 .. Len(t) /\ Len(t) \in Nat
    BY <2>4, <2>5
  <2>7. /\ s \o t \in Seq(Object) /\ DOMAIN (s \o t) = 1 .. n + Len(t)
        /\ \A k \in DOMAIN s : (s \o t)[k] = s[k]
        /\ \A k \in DOMAIN t : (s \o t)[n + k] = t[k]
    BY <2>4, <2>5, <2>6
  <2>8. ListTyped'
    BY <1>1, <2>2, <2>7 DEF ListInv, ListTyped
  <2>9. FiledOnce'
    <3> SUFFICES ASSUME NEW o \in Object
                 PROVE  /\ under_release'[o] <=> \E q, k : At(q, k, o)'
                        /\ \A q, k, r, j : At(q, k, o)' /\ At(r, j, o)' => q = r /\ k = j
      BY DEF FiledOnce
    <3>1. /\ under_release[o] <=> \E q, k : At(q, k, o)
          /\ \A q, k, r, j : At(q, k, o) /\ At(r, j, o) => q = r /\ k = j
      BY DEF ListInv, FiledOnce
    <3>2. \A q \in 0 .. FreeDepth - 1 : \A k : At(q, k, o)' <=> At(q, k, o)
      BY <1>2 DEF At
    <3>3. \A k : At(FreeDepth, k, o)' <=> k \in DOMAIN (s \o t) /\ (s \o t)[k] = o
      BY <1>3, <1>4, <2>2 DEF At
    <3>4. \A k : At(FreeDepth, k, o) <=> k \in DOMAIN s /\ s[k] = o
      BY <1>3, <1>4 DEF At
    <3>5. \A q, k : (At(q, k, o) \/ At(q, k, o)') => q \in 0 .. FreeDepth
      BY DEF At
    <3> HIDE DEF s, t, n
    <3>6. \A k \in DOMAIN (s \o t) : k \in DOMAIN s \/ \E j \in DOMAIN t : k = n + j
      <4> SUFFICES ASSUME NEW k \in 1 .. n + Len(t), ~(k \in 1 .. n)
                   PROVE  \E j \in 1 .. Len(t) : k = n + j
        BY <2>6, <2>7
      <4>1. k - n \in 1 .. Len(t) /\ k = n + (k - n)
        BY <2>6
      <4> QED
        BY <4>1
    <3>7. DOMAIN s \subseteq DOMAIN (s \o t) /\ \A j \in DOMAIN t : n + j \in DOMAIN (s \o t)
      BY <2>6, <2>7
    <3>8. CASE o = m \/ o \in DyingMembers(m)
      <4>1. ~under_release[o]
        BY <2>1, <3>8 DEF DyingMembers
      <4>2. \A q, k : ~At(q, k, o)
        BY <3>1, <4>1
      <4>3. PICK j \in DOMAIN t : t[j] = o
        BY <2>4, <3>8 DEF t
      <4>4. \A k \in DOMAIN (s \o t) : (s \o t)[k] = o <=> k = n + j
        <5> SUFFICES ASSUME NEW k \in DOMAIN (s \o t) PROVE (s \o t)[k] = o <=> k = n + j
          OBVIOUS
        <5>1. CASE k \in DOMAIN s
          BY <2>6, <2>7, <3>4, <4>2, <5>1
        <5>2. CASE k \notin DOMAIN s
          <6>1. PICK l \in DOMAIN t : k = n + l
            BY <3>6, <5>2
          <6>2. t[l] = o <=> l = j
            BY <2>4, <4>3 DEF t
          <6>3. (n + l = n + j) <=> l = j
            BY <2>6
          <6> QED
            BY <2>7, <6>1, <6>2, <6>3
        <5> QED
          BY <5>1, <5>2
      <4>5. \A q, k : At(q, k, o)' <=> q = FreeDepth /\ k = n + j
        BY <1>4, <3>2, <3>3, <3>5, <3>7, <4>2, <4>4
      <4> QED
        <5>1. under_release'[o]
          BY <2>2, <3>8
        <5> HIDE DEF n
        <5> QED
          BY <4>5, <5>1
    <3>9. CASE o # m /\ o \notin DyingMembers(m)
      <4>1. \A j \in DOMAIN t : t[j] # o
        BY <2>4, <3>9 DEF t
      <4>2. \A k : At(FreeDepth, k, o)' <=> At(FreeDepth, k, o)
        BY <2>7, <3>3, <3>4, <3>6, <3>7, <4>1
      <4>3. \A q, k : At(q, k, o)' <=> At(q, k, o)
        BY <1>4, <3>2, <3>5, <4>2
      <4> QED
        BY <2>2, <3>1, <3>9, <4>3
    <3> QED
      BY <3>8, <3>9
  <2> QED
    BY <2>8, <2>9
<1> QED
  BY <1>5, <1>6

(* A round's list goes to an empty slot of the ring: two lists change place *)
LEMMA PublishLists == ASSUME ListInv, PublishList PROVE ListTyped' /\ FiledOnce'
<1>1. /\ g_free_list' = g_free_list /\ given_back' = given_back /\ under_release' = under_release
      /\ filter = "release" /\ filter' = "idle"
  BY DEF PublishList, countVars
<1>2. List(FreeDepth) = g_free_list /\ List(FreeDepth)' = <<>>
  BY <1>1 DEF List
<1>3. i_queue \in 0 .. FreeDepth - 1 /\ g_free_list_queue[i_queue] = <<>>
      /\ FreeDepth \notin 0 .. FreeDepth - 1
  BY <1>1, PipelineAssumption DEF ListInv, ListTyped
<1>4. CASE g_free_list = <<>>
  <2>1. g_free_list_queue' = g_free_list_queue /\ i_queue' = i_queue
    BY <1>4 DEF PublishList
  <2>2. \A q : List(q)' = List(q)
    BY <1>1, <1>4, <2>1 DEF List
  <2>3. \A q, k, o : At(q, k, o)' <=> At(q, k, o)
    BY <2>2 DEF At
  <2> QED
    BY <1>1, <2>1, <2>3 DEF ListInv, ListTyped, FiledOnce
<1>5. CASE g_free_list # <<>>
  <2>1. /\ g_free_list_queue' = [g_free_list_queue EXCEPT ![i_queue] = g_free_list]
        /\ i_queue' = (i_queue + 1) % FreeDepth
    BY <1>5 DEF PublishList
  <2>2. (i_queue + 1) % FreeDepth \in 0 .. FreeDepth - 1
    BY <1>3, PipelineAssumption
  <2>3. ListTyped'
    BY <1>1, <2>1, <2>2 DEF ListInv, ListTyped
  <2>4. List(i_queue) = <<>>
    BY <1>3 DEF List
  <2>5. \A q : q \in 0 .. FreeDepth - 1 => List(q) = g_free_list_queue[q] /\ List(q)' = g_free_list_queue'[q]
    BY <1>3 DEF List
  <2>6. \A q : q \in 0 .. FreeDepth - 1 =>
              List(q)' = IF q = i_queue THEN List(FreeDepth) ELSE List(q)
    BY <1>2, <1>3, <2>1, <2>5 DEF ListInv, ListTyped
  <2>7. 0 .. FreeDepth = (0 .. FreeDepth - 1) \cup {FreeDepth}
    BY PipelineAssumption
  <2> DEFINE other(q) == IF q = i_queue THEN FreeDepth ELSE IF q = FreeDepth THEN i_queue ELSE q
  <2>8. \A q \in 0 .. FreeDepth : other(q) \in 0 .. FreeDepth /\ List(q)' = List(other(q))
    BY <1>2, <1>3, <2>4, <2>6, <2>7
  <2>9. \A q, k, o : At(q, k, o)' <=> At(other(q), k, o)
    <3> SUFFICES ASSUME NEW q, NEW k, NEW o PROVE At(q, k, o)' <=> At(other(q), k, o)
      OBVIOUS
    <3>1. q \in 0 .. FreeDepth <=> other(q) \in 0 .. FreeDepth
      BY <1>3, <2>7
    <3> QED
      BY <2>8, <3>1 DEF At
  <2>10. \A q : other(other(q)) = q
    BY <1>3
  <2>11. FiledOnce'
    <3> SUFFICES ASSUME NEW o \in Object
                 PROVE  /\ under_release[o] <=> \E q, k : At(q, k, o)'
                        /\ \A q, k, r, j : At(q, k, o)' /\ At(r, j, o)' => q = r /\ k = j
      BY <1>1 DEF FiledOnce
    <3>1. /\ under_release[o] <=> \E q, k : At(q, k, o)
          /\ \A q, k, r, j : At(q, k, o) /\ At(r, j, o) => q = r /\ k = j
      BY DEF ListInv, FiledOnce
    <3> HIDE DEF other
    <3> QED
      BY <2>9, <2>10, <3>1
  <2> QED
    BY <2>3, <2>11
<1> QED
  BY <1>4, <1>5

LEMMA QuietList ==
    ASSUME ListInv, [Next]_vars, ~Release, ~PublishList
    PROVE  ListTyped' /\ FiledOnce'
<1>1. under_release' = under_release /\ g_free_list_queue' = g_free_list_queue /\ i_queue' = i_queue
  BY DEF Next, Push, Filter, PushTicket, PushRoom, PushStore, SyncBegin, SyncReturn, Copy, TakeBatch,
     CountDown, TakeListSlot, ClearSlot, AdvancePop, FilterExit, ReleaseRound, AskExit,
     vars, countVars, listVars, filterVars
<1>2. given_back' = given_back
  <2>1. CASE ReleaseRound
    <3>1. ToSet(FreeList) = {}
      BY DEF ToSet, FreeList
    <3> QED
      BY <2>1, <3>1 DEF ReleaseRound
  <2>2. CASE ~ReleaseRound
    BY <2>2 DEF Next, Push, Filter, PushTicket, PushRoom, PushStore, SyncBegin, SyncReturn, Copy, TakeBatch,
       CountDown, TakeListSlot, ClearSlot, AdvancePop, FilterExit, AskExit, vars, listVars
  <2> QED
    BY <2>1, <2>2
<1>3. CASE TakeListSlot
  <2>1. /\ filter = "count" /\ filter' = "release" /\ g_free_list' = <<>>
        /\ g_free_list_queue[i_queue] = <<>>
    BY <1>3 DEF TakeListSlot
  <2>2. \A q : List(q)' = List(q)
    BY <1>1, <2>1 DEF List
  <2>3. \A q, k, o : At(q, k, o)' <=> At(q, k, o)
    BY <2>2 DEF At
  <2> QED
    BY <1>1, <1>2, <2>1, <2>3 DEF ListInv, ListTyped, FiledOnce
<1>4. CASE ~TakeListSlot
  <2>1. g_free_list' = g_free_list
    BY <1>4 DEF Next, Push, Filter, PushTicket, PushRoom, PushStore, SyncBegin, SyncReturn, Copy, TakeBatch,
       CountDown, ClearSlot, AdvancePop, FilterExit, ReleaseRound, AskExit, vars, listVars
  <2>2. filter \in {"release", "clear", "pop"} <=> filter' \in {"release", "clear", "pop"}
    BY <1>4 DEF Next, Push, Filter, PushTicket, PushRoom, PushStore, SyncBegin, SyncReturn, Copy, TakeBatch,
       CountDown, ClearSlot, AdvancePop, FilterExit, ReleaseRound, AskExit, vars, filterVars
  <2>3. \A q : List(q)' = List(q)
    BY <1>1, <2>1, <2>2 DEF List
  <2>4. \A q, k, o : At(q, k, o)' <=> At(q, k, o)
    BY <2>3 DEF At
  <2> QED
    BY <1>1, <1>2, <2>1, <2>2, <2>4 DEF ListInv, ListTyped, FiledOnce
<1> QED
  BY <1>3, <1>4

LEMMA ListStep == ListInv /\ [Next]_vars => ListInv'
BY FlagStep, ReleaseList, PublishLists, QuietList DEF ListInv

LEMMA InitList == Init => ListInv
<1> SUFFICES ASSUME Init PROVE ListInv
  OBVIOUS
<1>1. ListTyped
  BY PipelineAssumption DEF Init, ListTyped
<1>2. \A q \in 0 .. FreeDepth : List(q) = <<>>
  BY PipelineAssumption DEF Init, List
<1>3. \A q, k, o : ~At(q, k, o)
  BY <1>2 DEF At
<1>4. FiledOnce
  BY <1>3 DEF Init, FiledOnce
<1> QED
  BY <1>1, <1>4, InitFlag DEF ListInv

LEMMA ListInvHolds == Spec => []ListInv
BY InitList, ListStep, PTL DEF Spec

(* The blocks as the property names them.                                   *)
LEMMA FiledIs ==
    ASSUME NEW o
    PROVE  \A x : x \in Filed(o) <=> \E q, k : At(q, k, o) /\ x = <<q, k>>
<1>1. FreeDepth \notin 0 .. FreeDepth - 1 /\ 0 .. FreeDepth = (0 .. FreeDepth - 1) \cup {FreeDepth}
  BY PipelineAssumption
<1>2. \A k : At(FreeDepth, k, o) <=>
              filter \in {"release", "clear", "pop"} /\ k \in DOMAIN g_free_list /\ g_free_list[k] = o
  BY <1>1 DEF At, List
<1>3. \A q \in 0 .. FreeDepth - 1 : \A k :
          At(q, k, o) <=> k \in DOMAIN g_free_list_queue[q] /\ g_free_list_queue[q][k] = o
  BY <1>1 DEF At, List
<1>4. \A q, k : At(q, k, o) => q \in 0 .. FreeDepth
  BY DEF At
<1> QED
  BY <1>1, <1>2, <1>3, <1>4 DEF Filed

LEMMA DeadBlocks == ListInv => DeadOnce
<1> SUFFICES ASSUME ListInv, NEW o \in Object
             PROVE  Cardinality(Filed(o)) = IF under_release[o] THEN 1 ELSE 0
  BY DEF DeadOnce
<1>1. /\ under_release[o] <=> \E q, k : At(q, k, o)
      /\ \A q, k, r, j : At(q, k, o) /\ At(r, j, o) => q = r /\ k = j
  BY DEF ListInv, FiledOnce
<1>2. CASE under_release[o]
  <2>1. PICK q, k : At(q, k, o)
    BY <1>1, <1>2
  <2>2. Filed(o) = {<<q, k>>}
    BY <1>1, <2>1, FiledIs, PipelineAssumption
  <2> QED
    BY <1>2, <2>2, FS_Singleton
<1>3. CASE ~under_release[o]
  <2>1. Filed(o) = {}
    BY <1>1, <1>3, FiledIs, PipelineAssumption
  <2> QED
    BY <1>3, <2>1, FS_EmptySet
<1> QED
  BY <1>2, <1>3

(* An object is destroyed once, not before its last owner is gone, by the   *)
(* one slot of the batch that stands for it, for any number of threads,     *)
(* objects and slots.                                                       *)
THEOREM DestroyedRight == Spec => []DestroyedInTime
<1>1. ListInv => DestroyedInTime
  BY FlagCounts, DeadBlocks DEF DestroyedInTime, ListInv, FlagInv, CountInv
<1> QED
  BY <1>1, ListInvHolds, PTL

------------------------------------------------------------------------------
(* What is left of the types: the bound of the pushes and the end.          *)
RestTyped ==
    /\ g_i_push <= MaxPush
    /\ g_gc_exit \in {"no", "asked", "answered"}
    /\ i_begin <= i /\ i <= i_end /\ i_end <= g_i_push
    /\ release \in {"suspended", "stopped"} /\ resumed \in BOOLEAN

LEMMA RestStep == RingInv /\ RestTyped /\ [Next]_vars => RestTyped'
<1> SUFFICES ASSUME RingInv, RestTyped, [Next]_vars PROVE RestTyped'
  OBVIOUS
<1>1. g_i_push' <= MaxPush
  <2>1. CASE \E th \in Thread, o \in Object : PushTicket(th, o)
    BY <2>1, PipelineAssumption DEF PushTicket, RingInv, RingTyped
  <2>2. CASE \A th \in Thread, o \in Object : ~PushTicket(th, o)
    BY <2>2 DEF RestTyped, Next, Push, Filter, PushRoom, PushStore, SyncBegin, SyncReturn, Copy, TakeBatch,
       CountDown, TakeListSlot, Release, ClearSlot, AdvancePop, PublishList, FilterExit, ReleaseRound, AskExit,
       vars, ringVars
  <2> QED
    BY <2>1, <2>2
<1>2. /\ g_gc_exit' \in {"no", "asked", "answered"}
      /\ release' \in {"suspended", "stopped"} /\ resumed' \in BOOLEAN
  BY DEF RestTyped, Next, Push, Filter, PushTicket, PushRoom, PushStore, SyncBegin, SyncReturn, Copy, TakeBatch,
     CountDown, TakeListSlot, Release, ClearSlot, AdvancePop, PublishList, FilterExit, ReleaseRound, AskExit,
     vars, otherVars
<1>3. i_begin' <= i' /\ i' <= i_end' /\ i_end' <= g_i_push'
  <2>1. CASE TakeBatch
    BY <2>1, PipelineAssumption DEF TakeBatch, RestTyped, RingInv, RingTyped, ringVars
  <2>2. CASE CountDown
    BY <2>2 DEF CountDown, RestTyped, RingInv, RingTyped
  <2>3. CASE AdvancePop
    BY <2>3 DEF AdvancePop, RestTyped, RingInv, RingTyped, Batch
  <2>4. CASE PublishList
    BY <2>4 DEF PublishList, RingInv, RingTyped, ringVars
  <2>5. CASE \E th \in Thread, o \in Object : PushTicket(th, o)
    BY <2>5 DEF PushTicket, RestTyped, RingInv, RingTyped, filterVars
  <2>6. CASE /\ ~TakeBatch /\ ~CountDown /\ ~AdvancePop /\ ~PublishList
             /\ \A th \in Thread, o \in Object : ~PushTicket(th, o)
    BY <2>6 DEF RestTyped, Next, Push, Filter, PushRoom, PushStore, SyncBegin, SyncReturn, Copy, TakeListSlot,
       Release, ClearSlot, FilterExit, ReleaseRound, AskExit, vars, ringVars, filterVars
  <2> QED
    BY <2>1, <2>2, <2>3, <2>4, <2>5, <2>6
<1> QED
  BY <1>1, <1>2, <1>3 DEF RestTyped

(* Every variable keeps its type: no counter of an object or of the ring    *)
(* falls below zero, and pop never overtakes push.                          *)
THEOREM TypeCorrect == Spec => []TypeOK
<1>1. Init => RestTyped
  <2>1. Init => g_i_push = 0 /\ i_begin = 0 /\ i = 0 /\ i_end = 0
    BY DEF Init
  <2>2. Init => g_i_push <= MaxPush /\ i_begin <= i /\ i <= i_end /\ i_end <= g_i_push
    BY <2>1, PipelineAssumption
  <2>3. Init => /\ g_gc_exit \in {"no", "asked", "answered"}
                /\ release \in {"suspended", "stopped"} /\ resumed \in BOOLEAN
    BY DEF Init
  <2> QED
    BY <2>2, <2>3 DEF RestTyped
<1>2. ListInv /\ RestTyped /\ [Next]_vars => RestTyped'
  BY RestStep DEF ListInv, FlagInv, CountInv
<1>3. ListInv /\ RestTyped => TypeOK
  BY DEF ListInv, FlagInv, CountInv, RingInv, RingTyped, CountTyped, ListTyped, RestTyped, TypeOK
<1> QED
  BY <1>1, <1>2, <1>3, ListInvHolds, PTL DEF Spec
=============================================================================
