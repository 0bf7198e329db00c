----------------------------- MODULE SystemProofs -----------------------------
(****************************************************************************)
(* Components of MCSystem, for every value of their constants.              *)
(* PolicyBarrier, for every set of threads and every table: its types, that *)
(* every set bit has exactly one owner, mutual exclusion, and that the word *)
(* of bits implements the admission rule of PolicyAdmission.                *)
(* ThreadLife, for every set of blocks and variables and any number of      *)
(* calls of suspend and resume: no block is freed while its thread, a       *)
(* variable or an operation of the program may use it.                      *)
(* BinaryHeap, for any number of items and any keys: what a push, a pop and *)
(* a removal by index leave of a heap (HeapRoot), that no item is lost and  *)
(* a pop hands out a least one, as long as pop_by_index was not given an    *)
(* even index above 2.                                                      *)
(* GroupWord, for every size of the fields: it implements GroupBarrier.     *)
(* MCSystem: the types of all of them.                                      *)
(****************************************************************************)
EXTENDS MCSystem, GroupBarrierProofs, FunctionTheorems, FiniteSetTheorems, TLAPS

(* The barrier of policies.                                                 *)

(* Only the operations that share with nobody have a bit in common.         *)
LEMMA MaskOwner ==
    ASSUME NEW a \in Op, NEW b \in Op, NEW lane \in Mask(a), lane \in Mask(b)
    PROVE  a = b \/ (Share[a] = {} /\ Share[b] = {})
BY TableAssumption DEF Mask, GlobalBit

(* The lane that every operation tries when it has no choice is its own.    *)
LEMMA MasterInMask ==
    ASSUME NEW op \in Op
    PROVE  Master(op) \in Mask(op)
BY TableAssumption DEF Master, Mask

LEMMA MaskInLane ==
    ASSUME NEW op \in Op
    PROVE  Mask(op) \subseteq Lane
BY DEF Lane

(* The types of the variables are kept by every step of try_lock, lock and  *)
(* unlock.                                                                  *)
LEMMA TypingStep ==
    ASSUME TypeOK, [Next]_vars
    PROVE  TypeOK'
<1> USE DEF TypeOK
<1>1. ASSUME NEW t \in Thread, NEW op \in Op, Call(t, op)
      PROVE  TypeOK'
  BY <1>1, MasterInMask, MaskInLane DEF Call, StartTry
<1>2. ASSUME NEW t \in Thread, Scan(t)
      PROVE  TypeOK'
  BY <1>2, MaskInLane DEF Scan
<1>3. ASSUME NEW t \in Thread, ScanFull(t)
      PROVE  TypeOK'
  BY <1>3 DEF ScanFull
<1>4. ASSUME NEW t \in Thread, ClaimGranted(t)
      PROVE  TypeOK'
  BY <1>4, MaskInLane DEF ClaimGranted
<1>5. ASSUME NEW t \in Thread, ClaimConflict(t)
      PROVE  TypeOK'
  BY <1>5, MaskInLane DEF ClaimConflict
<1>6. ASSUME NEW t \in Thread, ClaimTaken(t)
      PROVE  TypeOK'
  BY <1>6 DEF ClaimTaken
<1>7. ASSUME NEW t \in Thread, Undo(t)
      PROVE  TypeOK'
  BY <1>7 DEF Undo
<1>8. ASSUME NEW t \in Thread, Retry(t)
      PROVE  TypeOK'
  BY <1>8, MasterInMask, MaskInLane DEF Retry, StartTry
<1>9. ASSUME NEW t \in Thread, GiveUp(t)
      PROVE  TypeOK'
  BY <1>9 DEF GiveUp
<1>10. ASSUME NEW t \in Thread, Unlock(t)
       PROVE  TypeOK'
  BY <1>10 DEF Unlock
<1>11. CASE UNCHANGED vars
  BY <1>11 DEF vars
<1> QED
  BY <1>1, <1>2, <1>3, <1>4, <1>5, <1>6, <1>7, <1>8, <1>9, <1>10, <1>11 DEF Next, Step

LEMMA InitPolicy == Init => TypeOK /\ LaneOwnership /\ MutualExclusion
BY DEF Init, TypeOK, LaneOwnership, Claimants, MutualExclusion, Holders

(* TypeOK is an invariant of the barrier: in particular a thread only ever  *)
(* claims a lane of the operation it asked for.                             *)
THEOREM Typing == Spec => []TypeOK
<1>1. Init => TypeOK
  BY DEF Init, TypeOK
<1>2. TypeOK /\ [Next]_vars => TypeOK'
  BY TypingStep
<1> QED
  BY <1>1, <1>2, PTL DEF Spec

------------------------------------------------------------------------------
(* A step that neither sets nor clears a bit keeps the owners.              *)
LEMMA QuietStep ==
    ASSUME LaneOwnership, TypeOK, NEW t \in Thread,
           m_state' = m_state,
           t \notin Claimants, t \notin Claimants',
           \A u \in Thread \ {t} : pc'[u] = pc[u] /\ candidate'[u] = candidate[u]
    PROVE  LaneOwnership'
BY DEF LaneOwnership, Claimants, TypeOK

(* Clearing a lane takes away the bit of the thread that clears it, and no  *)
(* bit of anybody else.                                                     *)
LEMMA ClearStep ==
    ASSUME LaneOwnership, TypeOK, NEW t \in Claimants,
           m_state' = m_state \ {candidate[t]},
           t \notin Claimants',
           \A u \in Thread \ {t} : pc'[u] = pc[u] /\ candidate'[u] = candidate[u]
    PROVE  LaneOwnership'
BY DEF LaneOwnership, Claimants, TypeOK

(* Setting a lane that was clear makes its claimant the only owner.         *)
LEMMA SetStep ==
    ASSUME LaneOwnership, TypeOK, NEW t \in Thread \ Claimants,
           candidate[t] \notin m_state,
           m_state' = m_state \cup {candidate[t]},
           t \in Claimants',
           candidate' = candidate,
           \A u \in Thread \ {t} : pc'[u] = pc[u]
    PROVE  LaneOwnership'
BY DEF LaneOwnership, Claimants, TypeOK

LEMMA OwnershipStep ==
    ASSUME TypeOK, LaneOwnership, [Next]_vars
    PROVE  LaneOwnership'
<1>1. ASSUME NEW t \in Thread, NEW op \in Op, Call(t, op)
      PROVE  LaneOwnership'
  <2>1. t \notin Claimants /\ t \notin Claimants'
    BY <1>1 DEF Call, StartTry, Claimants, TypeOK
  <2> QED
    BY <1>1, <2>1, QuietStep DEF Call, StartTry, TypeOK
<1>2. ASSUME NEW t \in Thread, Scan(t)
      PROVE  LaneOwnership'
  <2>1. t \notin Claimants /\ t \notin Claimants'
    BY <1>2 DEF Scan, Claimants, TypeOK
  <2>2. \A u \in Thread \ {t} : pc'[u] = pc[u] /\ candidate'[u] = candidate[u]
    BY <1>2 DEF Scan, TypeOK
  <2> QED
    BY <1>2, <2>1, <2>2, QuietStep DEF Scan
<1>3. ASSUME NEW t \in Thread, ScanFull(t)
      PROVE  LaneOwnership'
  <2>1. t \notin Claimants /\ t \notin Claimants'
    BY <1>3 DEF ScanFull, Claimants, TypeOK
  <2> QED
    BY <1>3, <2>1, QuietStep DEF ScanFull, TypeOK
<1>4. ASSUME NEW t \in Thread, ClaimGranted(t)
      PROVE  LaneOwnership'
  <2>1. t \notin Claimants /\ t \in Claimants'
    BY <1>4 DEF ClaimGranted, Claimants, TypeOK
  <2> QED
    BY <1>4, <2>1, SetStep DEF ClaimGranted, TypeOK
<1>5. ASSUME NEW t \in Thread, ClaimConflict(t)
      PROVE  LaneOwnership'
  <2>1. t \notin Claimants /\ t \in Claimants'
    BY <1>5 DEF ClaimConflict, Claimants, TypeOK
  <2> QED
    BY <1>5, <2>1, SetStep DEF ClaimConflict, TypeOK
<1>6. ASSUME NEW t \in Thread, ClaimTaken(t)
      PROVE  LaneOwnership'
  <2>1. t \notin Claimants /\ t \notin Claimants'
    BY <1>6 DEF ClaimTaken, Claimants, TypeOK
  <2> QED
    BY <1>6, <2>1, QuietStep DEF ClaimTaken, TypeOK
<1>7. ASSUME NEW t \in Thread, Undo(t)
      PROVE  LaneOwnership'
  <2>1. t \in Claimants /\ t \notin Claimants'
    BY <1>7 DEF Undo, Claimants, TypeOK
  <2> QED
    BY <1>7, <2>1, ClearStep DEF Undo, TypeOK
<1>8. ASSUME NEW t \in Thread, Retry(t)
      PROVE  LaneOwnership'
  <2>1. t \notin Claimants /\ t \notin Claimants'
    BY <1>8 DEF Retry, StartTry, Claimants, TypeOK
  <2> QED
    BY <1>8, <2>1, QuietStep DEF Retry, StartTry, TypeOK
<1>9. ASSUME NEW t \in Thread, GiveUp(t)
      PROVE  LaneOwnership'
  <2>1. t \notin Claimants /\ t \notin Claimants'
    BY <1>9 DEF GiveUp, Claimants, TypeOK
  <2> QED
    BY <1>9, <2>1, QuietStep DEF GiveUp, TypeOK
<1>10. ASSUME NEW t \in Thread, Unlock(t)
       PROVE  LaneOwnership'
  <2>1. t \in Claimants /\ t \notin Claimants'
    BY <1>10 DEF Unlock, Claimants, TypeOK
  <2> QED
    BY <1>10, <2>1, ClearStep DEF Unlock, TypeOK
<1>11. CASE UNCHANGED vars
  BY <1>11 DEF vars, LaneOwnership, Claimants
<1> QED
  BY <1>1, <1>2, <1>3, <1>4, <1>5, <1>6, <1>7, <1>8, <1>9, <1>10, <1>11 DEF Next, Step

(* The undo of a refused attempt and the unlock of a finished one clear the *)
(* bit of the thread that runs them and nobody else's: LaneOwnership is an  *)
(* invariant.                                                               *)
THEOREM Ownership == Spec => []LaneOwnership
<1>1. Init => LaneOwnership
  BY DEF Init, LaneOwnership, Claimants
<1>2. TypeOK /\ LaneOwnership /\ [Next]_vars => LaneOwnership'
  BY OwnershipStep
<1> QED
  BY <1>1, <1>2, Typing, PTL DEF Spec

------------------------------------------------------------------------------
(* When fetch_or meets no bit of an excluded operation, every thread inside *)
(* runs an operation the claimant's row of the table lists: its bit is in   *)
(* the word, and the word holds no bit but those of the row's operations.   *)
LEMMA GrantedAmongFriends ==
    ASSUME TypeOK, LaneOwnership, NEW t \in Thread, ClaimGranted(t),
           NEW u \in Holders
    PROVE  operation[u] \in Share[operation[t]]
<1>1. candidate[u] \in m_state
  BY DEF LaneOwnership, Claimants, Holders
<1>2. /\ u \in Thread /\ operation[u] \in Op /\ candidate[u] \in Mask(operation[u])
      /\ operation[t] \in Op
  BY DEF TypeOK, Holders, ClaimGranted
<1>3. candidate[u] \in ShareMask(operation[t])
  BY <1>1, <1>2, MaskInLane DEF ClaimGranted, Mutex
<1>4. PICK other \in Share[operation[t]] : candidate[u] \in Mask(other)
  BY <1>3 DEF ShareMask
<1>5. other \in Op /\ Share[other] # {}
  BY <1>2, <1>4, TableAssumption
<1>6. other = operation[u]
  BY <1>2, <1>4, <1>5, MaskOwner
<1> QED
  BY <1>4, <1>6

LEMMA ExclusionStep ==
    ASSUME TypeOK, LaneOwnership, MutualExclusion, [Next]_vars
    PROVE  MutualExclusion'
<1>1. ASSUME NEW t \in Thread, ClaimGranted(t)
      PROVE  MutualExclusion'
  <2>1. Holders' = Holders \cup {t} /\ operation' = operation
    BY <1>1 DEF ClaimGranted, Holders, TypeOK
  <2>2. \A u \in Holders : operation[u] \in Share[operation[t]]
    BY <1>1, GrantedAmongFriends
  <2> QED
    BY <2>1, <2>2 DEF MutualExclusion
<1>2. ASSUME NEW t \in Thread, NEW op \in Op, Call(t, op)
      PROVE  MutualExclusion'
  <2>1. Holders' = Holders /\ t \notin Holders
    BY <1>2 DEF Call, StartTry, Holders, TypeOK
  <2>2. \A u \in Holders : operation'[u] = operation[u]
    BY <1>2, <2>1 DEF Call, Holders, TypeOK
  <2> QED
    BY <2>1, <2>2 DEF MutualExclusion
<1>3. ASSUME NEW t \in Thread,
             \/ Scan(t) \/ ScanFull(t) \/ ClaimConflict(t) \/ ClaimTaken(t)
             \/ Undo(t) \/ Retry(t)
      PROVE  MutualExclusion'
  <2>1. Holders' = Holders /\ operation' = operation
    BY <1>3 DEF Scan, ScanFull, ClaimConflict, ClaimTaken, Undo, Retry, StartTry,
                Holders, TypeOK
  <2> QED
    BY <2>1 DEF MutualExclusion
<1>4. ASSUME NEW t \in Thread, GiveUp(t) \/ Unlock(t)
      PROVE  MutualExclusion'
  <2>1. Holders' = Holders \ {t}
    BY <1>4 DEF GiveUp, Unlock, Holders, TypeOK
  <2>2. \A u \in Holders \ {t} : operation'[u] = operation[u]
    BY <1>4 DEF GiveUp, Unlock, Holders, TypeOK
  <2> QED
    BY <2>1, <2>2 DEF MutualExclusion
<1>5. CASE UNCHANGED vars
  BY <1>5 DEF vars, MutualExclusion, Holders
<1> QED
  BY <1>1, <1>2, <1>3, <1>4, <1>5 DEF Next, Step

(* Operations that do not share are never inside together, whatever the     *)
(* table, the number of threads and the interleaving of their attempts.     *)
THEOREM Exclusion == Spec => []MutualExclusion
<1>1. Init => MutualExclusion
  BY DEF Init, MutualExclusion, Holders
<1>2. TypeOK /\ LaneOwnership /\ MutualExclusion /\ [Next]_vars => MutualExclusion'
  BY ExclusionStep
<1> QED
  BY <1>1, <1>2, Typing, Ownership, PTL DEF Spec

------------------------------------------------------------------------------
InBarrier == [t \in Thread |-> IF pc[t] = "held" THEN operation[t] ELSE None]

(* The instance brings its own copy of the operator.                        *)
LEMMA SameCardinality == \A S : Admission!Cardinality(S) = Cardinality(S)
BY Zenon DEF Admission!Cardinality, Cardinality

(* The threads inside an operation have different lanes of it, and the lane *)
(* just claimed is none of them: there is room for one more.                *)
LEMMA ChannelsBound ==
    ASSUME TypeOK, LaneOwnership, NEW t \in Thread, ClaimGranted(t)
    PROVE  Admission!Cardinality(Admission!Runners(operation[t]))
             < Concurrency[operation[t]]
<1> DEFINE op == operation[t]
           R == Admission!Runners(op)
<1>1. op \in Op /\ candidate[t] \in Mask(op) /\ Concurrency[op] \in Nat \ {0}
  BY TableAssumption DEF TypeOK, ClaimGranted
<1>2. R = {u \in Holders : operation[u] = op}
  BY <1>1, TableAssumption DEF Admission!Runners, Holders
<1>3. \A u \in R : candidate[u] \in Mask(op) \ {candidate[t]}
  BY <1>2 DEF TypeOK, LaneOwnership, Claimants, Holders, ClaimGranted
<1>4. \A u, v \in R : candidate[u] = candidate[v] => u = v
  BY <1>2 DEF LaneOwnership, Claimants, Holders
<1>5. CASE Share[op] = {}
  <2>1. R = {}
    BY <1>1, <1>3, <1>5 DEF Mask
  <2> QED
    BY <1>1, <2>1, FS_EmptySet, SameCardinality
<1>6. CASE Share[op] # {}
  <2> DEFINE n == Concurrency[op]
             Free == (1 .. n) \ {candidate[t][2]}
             lane == [u \in R |-> candidate[u][2]]
  <2>1. Mask(op) = {op} \X (1 .. n)
    BY <1>6 DEF Mask
  <2>2. candidate[t] = <<op, candidate[t][2]>> /\ candidate[t][2] \in 1 .. n
    BY <1>1, <2>1
  <2>3. \A u \in R : candidate[u] = <<op, candidate[u][2]>> /\ candidate[u][2] \in 1 .. n
    BY <1>3, <2>1
  <2>4. \A u \in R : candidate[u][2] \in Free
    BY <1>3, <2>2, <2>3
  <2>5. \A u, v \in R : candidate[u][2] = candidate[v][2] => u = v
    BY <1>4, <2>3
  <2>6. lane \in Injection(R, Free)
    BY <2>4, <2>5 DEF Injection, IsInjective
  <2>7. IsFiniteSet(1 .. n) /\ Cardinality(1 .. n) = n
    BY <1>1, FS_Interval
  <2>8. IsFiniteSet(Free) /\ Cardinality(Free) = n - 1
    <3>1. \A x : /\ IsFiniteSet((1 .. n) \ {x})
                 /\ x \in 1 .. n => Cardinality((1 .. n) \ {x}) = Cardinality(1 .. n) - 1
      BY <2>7, FS_RemoveElement
    <3> QED
      BY <2>2, <2>7, <3>1
  <2>9. IsFiniteSet(R) /\ Cardinality(R) <= Cardinality(Free)
    BY <2>6, <2>8, FS_Injection
  <2>10. Cardinality(R) \in Nat
    BY <2>9, FS_CardinalityType
  <2> QED
    BY <1>1, <2>8, <2>9, <2>10, SameCardinality
<1> QED
  BY <1>5, <1>6

(* Every step of the barrier is an Enter, a Leave or invisible to the users *)
(* of the table.                                                            *)
LEMMA AdmissionStep ==
    ASSUME TypeOK, LaneOwnership, [Next]_vars
    PROVE  [Admission!Next]_InBarrier
<1>1. ASSUME NEW t \in Thread, ClaimGranted(t)
      PROVE  Admission!Next
  <2>1. operation[t] \in Op /\ pc[t] = "claim"
    BY <1>1 DEF ClaimGranted, TypeOK
  <2>2. PICK op \in Op : op = operation[t]
    BY <2>1
  <2>3. \A u \in Thread : InBarrier[u] # None => InBarrier[u] \in Share[op]
    BY <1>1, <2>2, GrantedAmongFriends DEF InBarrier, Holders
  <2>4. InBarrier' = [InBarrier EXCEPT ![t] = op]
    BY <1>1, <2>2 DEF ClaimGranted, TypeOK, InBarrier
  <2>5. Admission!Cardinality(Admission!Runners(op)) < Concurrency[op]
    BY <1>1, <2>2, ChannelsBound
  <2>6. InBarrier[t] = None
    BY <2>1 DEF InBarrier
  <2>7. Admission!Enter(t, op)
    BY <2>3, <2>4, <2>5, <2>6 DEF Admission!Enter, InBarrier
  <2> QED
    BY <2>7 DEF Admission!Next
<1>2. ASSUME NEW t \in Thread, Unlock(t)
      PROVE  Admission!Next
  <2>1. InBarrier[t] # None
    BY <1>2, TableAssumption DEF Unlock, TypeOK, InBarrier
  <2>2. InBarrier' = [InBarrier EXCEPT ![t] = None]
    BY <1>2 DEF Unlock, TypeOK, InBarrier
  <2>3. Admission!Leave(t)
    BY <2>1, <2>2 DEF Admission!Leave, InBarrier
  <2> QED
    BY <2>3 DEF Admission!Next
<1>3. ASSUME NEW t \in Thread,
             \/ Scan(t) \/ ScanFull(t) \/ ClaimConflict(t) \/ ClaimTaken(t)
             \/ Undo(t) \/ Retry(t) \/ GiveUp(t) \/ \E op \in Op : Call(t, op)
      PROVE  InBarrier' = InBarrier
  BY <1>3 DEF Scan, ScanFull, ClaimConflict, ClaimTaken, Undo, Retry, GiveUp, Call,
              StartTry, InBarrier, TypeOK
<1>4. CASE UNCHANGED vars
  BY <1>4 DEF vars, InBarrier
<1> QED
  BY <1>1, <1>2, <1>3, <1>4 DEF Next, Step

(* The barrier implements the admission rule of its table: operations start *)
(* only beside operations of their row, in at most the configured number of *)
(* channels.                                                                *)
THEOREM Refinement == Spec => RefinesAdmission
<1>1. Init => Admission!Init
  BY DEF Init, Admission!Init
<1>2. TypeOK /\ LaneOwnership /\ [Next]_vars => [Admission!Next]_InBarrier
  BY AdmissionStep
<1> QED
  BY <1>1, <1>2, Typing, Ownership, PTL DEF Spec, RefinesAdmission, Admission!Spec, InBarrier

------------------------------------------------------------------------------
(* The life of a thread.                                                    *)

(* ThreadTypeOK with what it leaves open: the program has a block in hand   *)
(* just while it is in an operation, and no more permits were given than    *)
(* resume was called.                                                       *)
Typed ==
    /\ ThreadTypeOK
    /\ main \in [op : {"idle", "handler", "start", "test", "join", "release"},
                 block : Block \cup {Empty}]
    /\ main.op = "idle" <=> main.block = Empty
    /\ \A b \in Block : permits[b] <= resumed[b]

(* Nobody knows a block that was not yet made, and a block is known in one  *)
(* place: to one variable, or to the operation that took it from one.       *)
KnownOnce ==
    /\ \A b \in Block : lambda[b].state = "none" =>
        run[b] = "none" /\ open[b] = {} /\ ~InProgram(b)
    /\ \A v, w \in Variable : m_lambda[v] = m_lambda[w] /\ m_lambda[v] \in Block => v = w
    /\ main.op \in {"test", "join", "release"} => \A v \in Variable : m_lambda[v] # main.block

(* Who may use a block finds it with what belongs to it.                    *)
InUse ==
    \A b \in Block :
        /\ InThread(b) \/ (InProgram(b) /\ ~Detached(b)) => Live(b)
        /\ open[b] = {} \/ Live(b)
        /\ Live(b) => "suspend" \in open[b]

(* Only the block of a thread that ended is released by the program: the    *)
(* join waits for it, and no detached thread is joined.                     *)
JoinedEnded ==
    /\ \A b \in Block : joinable_now[b] => run[b] = "ended"
    /\ main.op \in {"join", "release"} => ~Detached(main.block)
    /\ main.op = "release" => run[main.block] = "ended"

(* The handler is in the block once the creator has gone on, or, on linux,  *)
(* once the thread has begun; on windows the thread waits for the creator.  *)
HandlerStored ==
    /\ windows /\ main.op \in {"handler", "start"} => run[main.block] = "created"
    /\ main.op = "start" => windows
    /\ \A b \in Block :
        /\ lambda[b].handler \/ lambda[b].state = "none" \/ (main.op = "handler" /\ main.block = b)
        /\ run[b] \in {"body", "exit", "ended"} => lambda[b].handler
        /\ run[b] = "entry" /\ windows => lambda[b].handler

ThreadInv == Typed /\ KnownOnce /\ InUse /\ JoinedEnded /\ HandlerStored

(* The state of a block, and of its lambda.                                 *)
Lambda == [state : {"none", "live", "freed"}, detached : BOOLEAN, handler : BOOLEAN,
           asks : 0 .. MaxSuspend, left : 0 .. MaxSuspend, timed : BOOLEAN]

LEMMA ConstructStep ==
    ASSUME ThreadInv, NEW v \in Variable, NEW b \in Block, Construct(v, b)
    PROVE  ThreadInv'
<1> USE ThreadAssumption DEF ThreadInv, Construct, Atrest
<1>1. Typed'
  BY DEF Typed, ThreadTypeOK
<1>2. KnownOnce'
  BY DEF Typed, ThreadTypeOK, KnownOnce, InProgram, InUse, InThread, Live
<1>3. InUse'
  BY DEF Typed, ThreadTypeOK, KnownOnce, InUse, InThread, InProgram, Live, Detached, JoinedEnded
<1>4. JoinedEnded'
  BY DEF Typed, ThreadTypeOK, JoinedEnded, Detached, KnownOnce
<1>5. HandlerStored'
  BY DEF Typed, ThreadTypeOK, HandlerStored, InUse, InThread, Live, InProgram, KnownOnce
<1> QED
  BY <1>1, <1>2, <1>3, <1>4, <1>5

LEMMA ConstructFailsStep ==
    ASSUME ThreadInv, NEW v \in Variable, ConstructFails(v)
    PROVE  ThreadInv'
<1> USE ThreadAssumption DEF ThreadInv, ConstructFails, Atrest
<1>1. Typed'
  BY DEF Typed, ThreadTypeOK
<1>2. KnownOnce'
  BY DEF Typed, ThreadTypeOK, KnownOnce, InProgram, InUse, InThread, Live
<1>3. InUse'
  BY DEF Typed, ThreadTypeOK, KnownOnce, InUse, InThread, InProgram, Live, Detached, JoinedEnded
<1>4. JoinedEnded'
  BY DEF Typed, ThreadTypeOK, JoinedEnded, Detached, KnownOnce
<1>5. HandlerStored'
  BY DEF Typed, ThreadTypeOK, HandlerStored, InUse, InThread, Live, InProgram, KnownOnce
<1> QED
  BY <1>1, <1>2, <1>3, <1>4, <1>5

LEMMA StoreHandlerStep ==
    ASSUME ThreadInv, StoreHandler
    PROVE  ThreadInv'
<1> USE ThreadAssumption DEF ThreadInv, StoreHandler, Atrest
<1>1. Typed'
  <2>1. main.block \in Block /\ lambda[main.block] \in Lambda
    BY DEF Typed, ThreadTypeOK, Lambda
  <2>2. [lambda[main.block] EXCEPT !.handler = TRUE] \in Lambda
    BY <2>1 DEF Lambda, Typed, ThreadTypeOK
  <2>3. lambda' \in [Block -> Lambda]
    BY <2>1, <2>2 DEF Typed, ThreadTypeOK, Lambda
  <2> QED
    BY <2>1, <2>3 DEF Typed, ThreadTypeOK, Lambda
<1>2. KnownOnce'
  BY DEF Typed, ThreadTypeOK, KnownOnce, InProgram, InUse, InThread, Live
<1>3. InUse'
  BY DEF Typed, ThreadTypeOK, KnownOnce, InUse, InThread, InProgram, Live, Detached, JoinedEnded
<1>4. JoinedEnded'
  BY DEF Typed, ThreadTypeOK, JoinedEnded, Detached, KnownOnce
<1>5. HandlerStored'
  BY DEF Typed, ThreadTypeOK, HandlerStored, InUse, InThread, Live, InProgram, KnownOnce
<1> QED
  BY <1>1, <1>2, <1>3, <1>4, <1>5

LEMMA StartStep ==
    ASSUME ThreadInv, Start
    PROVE  ThreadInv'
<1> USE ThreadAssumption DEF ThreadInv, Start, Atrest
<1>1. Typed'
  BY DEF Typed, ThreadTypeOK
<1>2. KnownOnce'
  BY DEF Typed, ThreadTypeOK, KnownOnce, InProgram, InUse, InThread, Live
<1>3. InUse'
  BY DEF Typed, ThreadTypeOK, KnownOnce, InUse, InThread, InProgram, Live, Detached, JoinedEnded, HandlerStored
<1>4. JoinedEnded'
  BY DEF Typed, ThreadTypeOK, JoinedEnded, Detached, KnownOnce, HandlerStored
<1>5. HandlerStored'
  BY DEF Typed, ThreadTypeOK, HandlerStored, InUse, InThread, Live, InProgram, KnownOnce
<1> QED
  BY <1>1, <1>2, <1>3, <1>4, <1>5

LEMMA MoveThreadStep ==
    ASSUME ThreadInv, NEW v \in Variable, NEW src \in Variable, MoveThread(v, src)
    PROVE  ThreadInv'
<1> USE ThreadAssumption DEF ThreadInv, MoveThread, Atrest
<1>1. Typed'
  BY DEF Typed, ThreadTypeOK
<1>2. KnownOnce'
  BY DEF Typed, ThreadTypeOK, KnownOnce, InProgram, InUse, InThread, Live
<1>3. InUse'
  BY DEF Typed, ThreadTypeOK, KnownOnce, InUse, InThread, InProgram, Live, Detached, JoinedEnded
<1>4. JoinedEnded'
  BY DEF Typed, ThreadTypeOK, JoinedEnded, Detached, KnownOnce
<1>5. HandlerStored'
  BY DEF Typed, ThreadTypeOK, HandlerStored, InUse, InThread, Live, InProgram, KnownOnce
<1> QED
  BY <1>1, <1>2, <1>3, <1>4, <1>5

LEMMA DiscardStep ==
    ASSUME ThreadInv, NEW v \in Variable, Discard(v)
    PROVE  ThreadInv'
<1> USE ThreadAssumption DEF ThreadInv, Discard, Atrest
<1>1. Typed'
  BY DEF Typed, ThreadTypeOK
<1>2. KnownOnce'
  BY DEF Typed, ThreadTypeOK, KnownOnce, InProgram, InUse, InThread, Live
<1>3. InUse'
  BY DEF Typed, ThreadTypeOK, KnownOnce, InUse, InThread, InProgram, Live, Detached, JoinedEnded
<1>4. JoinedEnded'
  BY DEF Typed, ThreadTypeOK, JoinedEnded, Detached, KnownOnce
<1>5. HandlerStored'
  BY DEF Typed, ThreadTypeOK, HandlerStored, InUse, InThread, Live, InProgram, KnownOnce
<1> QED
  BY <1>1, <1>2, <1>3, <1>4, <1>5

LEMMA TestDetachedStep ==
    ASSUME ThreadInv, TestDetached
    PROVE  ThreadInv'
<1> USE ThreadAssumption DEF ThreadInv, TestDetached, Atrest
<1>1. Typed'
  BY DEF Typed, ThreadTypeOK
<1>2. KnownOnce'
  BY DEF Typed, ThreadTypeOK, KnownOnce, InProgram, InUse, InThread, Live
<1>3. InUse'
  BY DEF Typed, ThreadTypeOK, KnownOnce, InUse, InThread, InProgram, Live, Detached, JoinedEnded
<1>4. JoinedEnded'
  BY DEF Typed, ThreadTypeOK, JoinedEnded, Detached, KnownOnce
<1>5. HandlerStored'
  BY DEF Typed, ThreadTypeOK, HandlerStored, InUse, InThread, Live, InProgram, KnownOnce
<1> QED
  BY <1>1, <1>2, <1>3, <1>4, <1>5

LEMMA JoinThreadStep ==
    ASSUME ThreadInv, JoinThread
    PROVE  ThreadInv'
<1> USE ThreadAssumption DEF ThreadInv, JoinThread, Atrest
<1>1. Typed'
  BY DEF Typed, ThreadTypeOK
<1>2. KnownOnce'
  BY DEF Typed, ThreadTypeOK, KnownOnce, InProgram, InUse, InThread, Live
<1>3. InUse'
  BY DEF Typed, ThreadTypeOK, KnownOnce, InUse, InThread, InProgram, Live, Detached, JoinedEnded
<1>4. JoinedEnded'
  <2>1. run[main.block] = "ended" /\ main.block \in Block
    BY DEF Typed, ThreadTypeOK, JoinedEnded
  <2>2. \A b \in Block : joinable_now'[b] => joinable_now[b]
    BY DEF Typed, ThreadTypeOK
  <2>3. main'.op = "release" /\ main'.block = main.block
    BY DEF Typed
  <2> QED
    BY <2>1, <2>2, <2>3 DEF JoinedEnded, Detached
<1>5. HandlerStored'
  BY DEF Typed, ThreadTypeOK, HandlerStored, InUse, InThread, Live, InProgram, KnownOnce
<1> QED
  BY <1>1, <1>2, <1>3, <1>4, <1>5

LEMMA JoinReleaseStep ==
    ASSUME ThreadInv, JoinRelease
    PROVE  ThreadInv'
<1> USE ThreadAssumption DEF ThreadInv, JoinRelease, ReleaseLambda, Atrest
<1>1. Typed'
  <2>1. main.block \in Block /\ lambda[main.block] \in Lambda
    BY DEF Typed, ThreadTypeOK, Lambda
  <2>2. [lambda[main.block] EXCEPT !.state = "freed"] \in Lambda
    BY <2>1 DEF Lambda, Typed, ThreadTypeOK
  <2>3. lambda' \in [Block -> Lambda]
    BY <2>1, <2>2 DEF Typed, ThreadTypeOK, Lambda
  <2> QED
    BY <2>1, <2>3 DEF Typed, ThreadTypeOK, Lambda
<1>2. KnownOnce'
  BY DEF Typed, ThreadTypeOK, KnownOnce, InProgram, InUse, InThread, Live
<1>3. InUse'
  BY DEF Typed, ThreadTypeOK, KnownOnce, InUse, InThread, InProgram, Live, Detached, JoinedEnded
<1>4. JoinedEnded'
  BY DEF Typed, ThreadTypeOK, JoinedEnded, Detached, KnownOnce
<1>5. HandlerStored'
  BY DEF Typed, ThreadTypeOK, HandlerStored, InUse, InThread, Live, InProgram, KnownOnce
<1> QED
  BY <1>1, <1>2, <1>3, <1>4, <1>5

LEMMA ResumeStep ==
    ASSUME ThreadInv, NEW b \in Block, Resume(b)
    PROVE  ThreadInv'
<1> USE ThreadAssumption DEF ThreadInv, Resume, Atrest
<1>1. Typed'
  BY DEF Typed, ThreadTypeOK
<1>2. KnownOnce'
  BY DEF Typed, ThreadTypeOK, KnownOnce, InProgram, InUse, InThread, Live
<1>3. InUse'
  BY DEF Typed, ThreadTypeOK, KnownOnce, InUse, InThread, InProgram, Live, Detached, JoinedEnded
<1>4. JoinedEnded'
  BY DEF Typed, ThreadTypeOK, JoinedEnded, Detached, KnownOnce
<1>5. HandlerStored'
  BY DEF Typed, ThreadTypeOK, HandlerStored, InUse, InThread, Live, InProgram, KnownOnce
<1> QED
  BY <1>1, <1>2, <1>3, <1>4, <1>5

LEMMA EntryStep ==
    ASSUME ThreadInv, NEW b \in Block, Entry(b)
    PROVE  ThreadInv'
<1> USE ThreadAssumption DEF ThreadInv, Entry, Atrest
<1>1. Typed'
  <2>1. b \in Block /\ lambda[b] \in Lambda
    BY DEF Typed, ThreadTypeOK, Lambda
  <2>2. [lambda[b] EXCEPT !.handler = lambda[b].handler \/ ~windows] \in Lambda
    BY <2>1 DEF Lambda, Typed, ThreadTypeOK
  <2>3. lambda' \in [Block -> Lambda]
    BY <2>1, <2>2 DEF Typed, ThreadTypeOK, Lambda
  <2> QED
    BY <2>1, <2>3 DEF Typed, ThreadTypeOK, Lambda
<1>2. KnownOnce'
  BY DEF Typed, ThreadTypeOK, KnownOnce, InProgram, InUse, InThread, Live
<1>3. InUse'
  BY DEF Typed, ThreadTypeOK, KnownOnce, InUse, InThread, InProgram, Live, Detached, JoinedEnded
<1>4. JoinedEnded'
  BY DEF Typed, ThreadTypeOK, JoinedEnded, Detached, KnownOnce
<1>5. HandlerStored'
  <2>1. lambda[b].handler \/ ~windows
    BY DEF HandlerStored
  <2>2. \A c \in Block : lambda'[c].state = lambda[c].state
    BY DEF Typed, ThreadTypeOK
  <2>3. \A c \in Block : lambda[c].handler => lambda'[c].handler
    BY DEF Typed, ThreadTypeOK
  <2>4. lambda'[b].handler
    <3>1. lambda'[b].handler = (lambda[b].handler \/ ~windows)
      BY DEF Typed, ThreadTypeOK
    <3> QED
      BY <2>1, <3>1
  <2>5. \A c \in Block \ {b} : run'[c] = run[c]
    BY DEF Typed, ThreadTypeOK
  <2>6. windows /\ main.op \in {"handler", "start"} => main.block # b
    BY DEF HandlerStored
  <2> QED
    BY <2>2, <2>3, <2>4, <2>5, <2>6 DEF HandlerStored, Typed, ThreadTypeOK
<1> QED
  BY <1>1, <1>2, <1>3, <1>4, <1>5

LEMMA SuspendStep ==
    ASSUME ThreadInv, NEW b \in Block, Suspend(b)
    PROVE  ThreadInv'
<1> USE ThreadAssumption DEF ThreadInv, Suspend, Atrest
<1>1. Typed'
  <2>1. b \in Block /\ lambda[b] \in Lambda
    BY DEF Typed, ThreadTypeOK, Lambda
  <2>2. [lambda[b] EXCEPT !.left = lambda[b].left - 1] \in Lambda
    BY <2>1 DEF Lambda, Typed, ThreadTypeOK
  <2>3. lambda' \in [Block -> Lambda]
    BY <2>1, <2>2 DEF Typed, ThreadTypeOK, Lambda
  <2> QED
    BY <2>1, <2>3 DEF Typed, ThreadTypeOK, Lambda
<1>2. KnownOnce'
  BY DEF Typed, ThreadTypeOK, KnownOnce, InProgram, InUse, InThread, Live
<1>3. InUse'
  BY DEF Typed, ThreadTypeOK, KnownOnce, InUse, InThread, InProgram, Live, Detached, JoinedEnded
<1>4. JoinedEnded'
  BY DEF Typed, ThreadTypeOK, JoinedEnded, Detached, KnownOnce
<1>5. HandlerStored'
  BY DEF Typed, ThreadTypeOK, HandlerStored, InUse, InThread, Live, InProgram, KnownOnce
<1> QED
  BY <1>1, <1>2, <1>3, <1>4, <1>5

LEMMA LambdaReturnsStep ==
    ASSUME ThreadInv, NEW b \in Block, LambdaReturns(b)
    PROVE  ThreadInv'
<1> USE ThreadAssumption DEF ThreadInv, LambdaReturns, Atrest
<1>1. Typed'
  BY DEF Typed, ThreadTypeOK
<1>2. KnownOnce'
  BY DEF Typed, ThreadTypeOK, KnownOnce, InProgram, InUse, InThread, Live
<1>3. InUse'
  BY DEF Typed, ThreadTypeOK, KnownOnce, InUse, InThread, InProgram, Live, Detached, JoinedEnded
<1>4. JoinedEnded'
  BY DEF Typed, ThreadTypeOK, JoinedEnded, Detached, KnownOnce
<1>5. HandlerStored'
  BY DEF Typed, ThreadTypeOK, HandlerStored, InUse, InThread, Live, InProgram, KnownOnce
<1> QED
  BY <1>1, <1>2, <1>3, <1>4, <1>5

LEMMA ExitStep ==
    ASSUME ThreadInv, NEW b \in Block, Exit(b)
    PROVE  ThreadInv'
<1> USE ThreadAssumption DEF ThreadInv, Exit, ReleaseLambda, Atrest
<1>1. Typed'
  <2>1. CASE Detached(b)
    <3>1. [lambda[b] EXCEPT !.state = "freed"] \in Lambda
      BY DEF Typed, ThreadTypeOK, Lambda
    <3>2. lambda' = [lambda EXCEPT ![b] = [lambda[b] EXCEPT !.state = "freed"]]
      BY <2>1
    <3>3. lambda' \in [Block -> Lambda]
      <4> HIDE DEF Exit
      <4> QED
        BY <3>1, <3>2 DEF Typed, ThreadTypeOK, Lambda
    <3> QED
      BY <2>1, <3>3 DEF Typed, ThreadTypeOK, Lambda
  <2>2. CASE ~Detached(b)
    BY <2>2 DEF Typed, ThreadTypeOK
  <2> QED
    BY <2>1, <2>2
<1>2. KnownOnce'
  BY DEF Typed, ThreadTypeOK, KnownOnce, InProgram, InUse, InThread, Live
<1>3. InUse'
  BY DEF Typed, ThreadTypeOK, KnownOnce, InUse, InThread, InProgram, Live, Detached, JoinedEnded
<1>4. JoinedEnded'
  <2>1. \A c \in Block : run[c] = "ended" => run'[c] = "ended"
    BY DEF Typed, ThreadTypeOK
  <2>2. \A c \in Block : joinable_now'[c] => joinable_now[c] \/ c = b
    BY DEF Typed, ThreadTypeOK
  <2>3. run'[b] = "ended"
    BY DEF Typed, ThreadTypeOK
  <2>4. \A c \in Block : Detached(c)' = Detached(c)
    BY DEF Typed, ThreadTypeOK, Detached
  <2> QED
    BY <2>1, <2>2, <2>3, <2>4 DEF JoinedEnded, Typed
<1>5. HandlerStored'
  BY DEF Typed, ThreadTypeOK, HandlerStored, InUse, InThread, Live, InProgram, KnownOnce
<1> QED
  BY <1>1, <1>2, <1>3, <1>4, <1>5

(* A step that none of the parts of ThreadInv can see.                      *)
LEMMA NoStep == ThreadInv /\ UNCHANGED threadVars => ThreadInv'
BY DEF threadVars, ThreadInv, Typed, ThreadTypeOK, KnownOnce, InUse, JoinedEnded, HandlerStored,
       InThread, InProgram, Live, Detached, Atrest

LEMMA InitThreadInv == ThreadInit => ThreadInv
<1> SUFFICES ASSUME ThreadInit PROVE ThreadInv
  OBVIOUS
<1> USE ThreadAssumption DEF ThreadInit, Atrest, NoLambda
<1>1. Typed
  BY DEF Typed, ThreadTypeOK
<1>2. KnownOnce
  BY DEF KnownOnce, InProgram
<1>3. InUse
  BY DEF InUse, InThread, InProgram, Live
<1>4. JoinedEnded /\ HandlerStored
  BY DEF JoinedEnded, HandlerStored
<1> QED
  BY <1>1, <1>2, <1>3, <1>4 DEF ThreadInv

LEMMA ThreadInvStep == ThreadInv /\ [ThreadNext]_threadVars => ThreadInv'
<1> SUFFICES ASSUME ThreadInv, ThreadNext PROVE ThreadInv'
  BY NoStep
<1>1. CASE \E v \in Variable : \E b \in Block : Construct(v, b)
  BY <1>1, ConstructStep
<1>2. CASE \E v \in Variable : ConstructFails(v) \/ (\E src \in Variable : MoveThread(v, src)) \/ Discard(v)
  BY <1>2, ConstructFailsStep, MoveThreadStep, DiscardStep
<1>3. CASE MainStep
  BY <1>3, StoreHandlerStep, StartStep, TestDetachedStep, JoinThreadStep, JoinReleaseStep DEF MainStep
<1>4. CASE \E b \in Block : Resume(b)
  BY <1>4, ResumeStep
<1>5. CASE \E b \in Block : ThreadStep(b)
  BY <1>5, EntryStep, SuspendStep, LambdaReturnsStep, ExitStep DEF ThreadStep
<1> QED
  BY <1>1, <1>2, <1>3, <1>4, <1>5 DEF ThreadNext

LEMMA ThreadInvHolds == ThreadSpec => []ThreadInv
BY InitThreadInv, ThreadInvStep, PTL DEF ThreadSpec

(* Every variable of ThreadLife keeps a value of its type, the permits of a *)
(* thread's suspend included: they never exceed the calls of resume.        *)
THEOREM ThreadTyping == ThreadSpec => []ThreadTypeOK
<1>1. ThreadInv => ThreadTypeOK
  BY DEF ThreadInv, Typed
<1> QED
  BY <1>1, ThreadInvHolds, PTL

LEMMA InUseMeans == ThreadInv => BlockOutlivesUsers
<1> SUFFICES ASSUME ThreadInv, NEW b \in Block
             PROVE  /\ \/ InThread(b)
                       \/ main.block = b /\ ~TouchesBlindly(b)
                       \/ InProgram(b) /\ ~Detached(b)
                          => Live(b) /\ "suspend" \in open[b]
                    /\ run[b] = "exit" \/ main = [op |-> "join", block |-> b] => lambda[b].handler
                    /\ ~Live(b) => open[b] = {}
  BY DEF BlockOutlivesUsers
<1>1. InThread(b) \/ (InProgram(b) /\ ~Detached(b)) => Live(b) /\ "suspend" \in open[b]
  BY DEF ThreadInv, InUse
<1>2. ASSUME main.block = b, ~TouchesBlindly(b) PROVE Live(b) /\ "suspend" \in open[b]
  <2>1. CASE ~Detached(b)
    BY <1>1, <1>2, <2>1 DEF InProgram
  <2>2. CASE Detached(b)
    <3>1. main.op \in {"handler", "start", "test", "join", "release"}
      BY <1>2, ThreadAssumption DEF ThreadInv, Typed, ThreadTypeOK
    <3>2. windows /\ main.op \in {"handler", "start"}
      BY <1>2, <2>2, <3>1 DEF TouchesBlindly, ThreadInv, JoinedEnded, HandlerStored
    <3>3. InThread(b)
      BY <1>2, <3>2 DEF ThreadInv, HandlerStored, InThread
    <3> QED
      BY <1>1, <3>3
  <2> QED
    BY <2>1, <2>2
<1>3. run[b] = "exit" => lambda[b].handler
  BY DEF ThreadInv, HandlerStored
<1>4. ASSUME main = [op |-> "join", block |-> b] PROVE lambda[b].handler
  <2>1. main.op = "join" /\ main.block = b
    BY <1>4
  <2>2. lambda[b].state # "none"
    BY <2>1 DEF ThreadInv, KnownOnce, InProgram
  <2> QED
    BY <2>1, <2>2 DEF ThreadInv, HandlerStored
<1>5. ~Live(b) => open[b] = {}
  BY DEF ThreadInv, InUse
<1> QED
  BY <1>1, <1>2, <1>3, <1>4, <1>5

(* No block is freed, and none of its semaphores closed, while its thread   *)
(* runs, detached or not, while a variable may still join it, or while any  *)
(* operation of the program uses it but the two of TouchesBlindly; and      *)
(* nobody meets a block whose handler was not yet stored.                   *)
THEOREM OutlivesUsers == ThreadSpec => []BlockOutlivesUsers
BY InUseMeans, ThreadInvHolds, PTL
------------------------------------------------------------------------------
(* Recursion along numbers, by finite sets: a set of numbers from 1 to k    *)
(* that holds a predecessor of each of its members is empty.                *)
LEMMA Descent ==
    ASSUME NEW k \in Nat, NEW T \in SUBSET (1 .. k), k \in T, \A j \in T : j - 1 \in T
    PROVE  FALSE
<1> DEFINE f == [j \in T |-> j - 1]
<1>1. IsFiniteSet(T)
  <2>1. IsFiniteSet(1 .. k)
    BY FS_Interval
  <2> QED
    BY <2>1, FS_Subset
<1>2. f \in Injection(T, T)
  <2>1. f \in [T -> T]
    OBVIOUS
  <2>2. IsInjective(f)
    BY DEF IsInjective
  <2> HIDE DEF f
  <2> QED
    BY <2>1, <2>2 DEF Injection
<1>3. f \in Surjection(T, T)
  BY <1>1, <1>2, FS_Injection
<1>4. PICK j \in T : f[j] = k
  <2> HIDE DEF f
  <2> QED
    BY <1>3 DEF Surjection
<1> QED
  BY <1>4

LEMMA Upwards ==
    ASSUME NEW S, 0 \in S, \A j \in Nat : j \in S => j + 1 \in S, NEW n \in Nat
    PROVE  n \in S
<1> SUFFICES ASSUME n \notin S PROVE FALSE
  OBVIOUS
<1> DEFINE T == {j \in 1 .. n : j \notin S}
<1>1. n \in T /\ T \in SUBSET (1 .. n)
  OBVIOUS
<1>2. ASSUME NEW j \in T PROVE j - 1 \in T
  OBVIOUS
<1> HIDE DEF T
<1> QED
  BY <1>1, <1>2, Descent

LEMMA Least ==
    ASSUME NEW S \in SUBSET Nat, S # {}
    PROVE  \E m \in S : \A o \in S : m <= o
<1> SUFFICES ASSUME \A m \in S : \E o \in S : o < m PROVE FALSE
  OBVIOUS
<1> DEFINE R == {j \in Nat : \A m \in S : m > j}
<1>1. 0 \in R
  OBVIOUS
<1>2. ASSUME NEW j \in Nat, j \in R PROVE j + 1 \in R
  BY <1>2
<1>3. PICK n \in S : TRUE
  OBVIOUS
<1>4. n \notin R
  BY <1>3
<1> HIDE DEF R
<1> QED
  BY <1>1, <1>2, <1>3, <1>4, Upwards

(* The heap of algo/heap_root.hpp: a path from the root, and what one push  *)
(* and one pop leave.                                                       *)

LEMMA ParentBelow ==
    ASSUME NEW i \in Nat, i > 0
    PROVE  Parent(i) \in 0 .. i - 1
BY DEF Parent

LEMMA ParentGrows ==
    ASSUME NEW i \in Nat, NEW j \in Nat, 0 < i, i <= j
    PROVE  Parent(i) <= Parent(j)
BY DEF Parent

(* The recursion that RootPath is written with has a solution.              *)
RootPaths(p) == p = [j \in Nat |-> IF j = 0 THEN {0} ELSE {j} \cup p[Parent(j)]]

ClosedUpwards(S) == \A k \in S : k > 0 => Parent(k) \in S

Ancestors(j) == {i \in 0 .. j : \A S \in SUBSET (0 .. j) : j \in S /\ ClosedUpwards(S) => i \in S}

LEMMA AncestorsClosed ==
    ASSUME NEW j \in Nat
    PROVE  /\ Ancestors(j) \subseteq 0 .. j /\ j \in Ancestors(j)
           /\ ClosedUpwards(Ancestors(j))
<1>1. Ancestors(j) \subseteq 0 .. j /\ j \in Ancestors(j)
  BY DEF Ancestors
<1>2. ASSUME NEW k \in Ancestors(j), k > 0
      PROVE  Parent(k) \in Ancestors(j)
  <2>1. k \in 0 .. j
    BY <1>1
  <2>2. Parent(k) \in 0 .. j
    BY <2>1, <1>2, ParentBelow
  <2>3. ASSUME NEW S \in SUBSET (0 .. j), j \in S, ClosedUpwards(S)
        PROVE  Parent(k) \in S
    <3>1. k \in S
      BY <2>3 DEF Ancestors
    <3> QED
      BY <3>1, <2>3, <1>2 DEF ClosedUpwards
  <2> QED
    BY <2>2, <2>3 DEF Ancestors
<1> QED
  BY <1>1, <1>2 DEF ClosedUpwards

LEMMA AncestorsLeast ==
    ASSUME NEW j \in Nat, NEW S, j \in S, ClosedUpwards(S)
    PROVE  Ancestors(j) \subseteq S
<1> DEFINE R == S \cap (0 .. j)
<1>1. ClosedUpwards(R)
  <2> SUFFICES ASSUME NEW k \in R, k > 0 PROVE Parent(k) \in R
    BY DEF ClosedUpwards
  <2>1. Parent(k) \in 0 .. k - 1
    BY ParentBelow
  <2>2. Parent(k) \in S
    BY DEF ClosedUpwards
  <2> QED
    BY <2>1, <2>2
<1>2. j \in R /\ R \in SUBSET (0 .. j)
  OBVIOUS
<1>3. \A i \in Ancestors(j) : i \in R
  <2> HIDE DEF R
  <2> QED
    BY <1>1, <1>2 DEF Ancestors
<1> QED
  BY <1>3

LEMMA AncestorsStep ==
    ASSUME NEW j \in Nat
    PROVE  Ancestors(j) = IF j = 0 THEN {0} ELSE {j} \cup Ancestors(Parent(j))
<1>1. CASE j = 0
  <2>1. Ancestors(j) \subseteq {0}
    BY <1>1, AncestorsClosed
  <2> QED
    BY <1>1, <2>1, AncestorsClosed
<1>2. CASE j # 0
  <2>1. Parent(j) \in Nat /\ Parent(j) \in Ancestors(j)
    BY <1>2, ParentBelow, AncestorsClosed DEF ClosedUpwards
  <2>2. Ancestors(Parent(j)) \subseteq Ancestors(j)
    BY <2>1, AncestorsClosed, AncestorsLeast
  <2> DEFINE S == {j} \cup Ancestors(Parent(j))
  <2>3. ClosedUpwards(S)
    <3>1. ClosedUpwards(Ancestors(Parent(j))) /\ Parent(j) \in Ancestors(Parent(j))
      BY <2>1, AncestorsClosed
    <3> QED
      BY <3>1 DEF ClosedUpwards
  <2>4. Ancestors(j) \subseteq S
    <3>1. j \in S
      OBVIOUS
    <3> HIDE DEF S
    <3> QED
      BY <2>3, <3>1, AncestorsLeast
  <2> QED
    BY <1>2, <2>2, <2>4, AncestorsClosed
<1> QED
  BY <1>1, <1>2

LEMMA RootPathStep ==
    ASSUME NEW j \in Nat
    PROVE  RootPath(j) = IF j = 0 THEN {0} ELSE {j} \cup RootPath(Parent(j))
<1> DEFINE A == [i \in Nat |-> Ancestors(i)]
           p == CHOOSE q : RootPaths(q)
<1>1. RootPaths(A)
  <2>1. ASSUME NEW i \in Nat
        PROVE  Ancestors(i) = IF i = 0 THEN {0} ELSE {i} \cup A[Parent(i)]
    <3>1. i # 0 => A[Parent(i)] = Ancestors(Parent(i))
      BY ParentBelow
    <3> HIDE DEF A
    <3> QED
      BY <3>1, AncestorsStep
  <2> QED
    BY <2>1 DEF RootPaths
<1>2. RootPaths(p)
  <2> HIDE DEF A
  <2> QED
    BY <1>1
<1>3. \A i \in Nat : RootPath(i) = p[i]
  BY DEF RootPath, RootPaths
<1>4. \A i \in Nat : p[i] = IF i = 0 THEN {0} ELSE {i} \cup p[Parent(i)]
  <2> HIDE DEF p
  <2> QED
    BY <1>2 DEF RootPaths
<1>5. j # 0 => Parent(j) \in Nat
  BY ParentBelow
<1> HIDE DEF p
<1> QED
  BY <1>3, <1>4, <1>5

(* So the path to j has j and is closed under parents, and no more.         *)
LEMMA PathIsAncestors ==
    ASSUME NEW j \in Nat
    PROVE  RootPath(j) = Ancestors(j)
<1> DEFINE S == {n \in Nat : \A i \in 0 .. n : RootPath(i) = Ancestors(i)}
<1>1. 0 \in S
  BY RootPathStep, AncestorsStep
<1>2. ASSUME NEW n \in Nat, n \in S PROVE n + 1 \in S
  <2>1. Parent(n + 1) \in 0 .. n
    BY ParentBelow
  <2>2. RootPath(n + 1) = Ancestors(n + 1)
    <3>1. RootPath(Parent(n + 1)) = Ancestors(Parent(n + 1))
      BY <2>1, <1>2
    <3> QED
      BY <3>1, RootPathStep, AncestorsStep
  <2>3. \A i \in 0 .. n + 1 : i \in 0 .. n \/ i = n + 1
    OBVIOUS
  <2> QED
    BY <1>2, <2>2, <2>3
<1>3. j \in S
  <2> HIDE DEF S
  <2> QED
    BY <1>1, <1>2, Upwards
<1> QED
  BY <1>3

LEMMA PathFacts ==
    ASSUME NEW j \in Nat
    PROVE  /\ RootPath(j) \subseteq 0 .. j /\ j \in RootPath(j)
           /\ \A k \in RootPath(j) : k > 0 => Parent(k) \in RootPath(j)
BY PathIsAncestors, AncestorsClosed DEF ClosedUpwards

LEMMA PathHasRoot ==
    ASSUME NEW j \in Nat
    PROVE  0 \in RootPath(j)
<1>1. PICK m \in RootPath(j) : \A o \in RootPath(j) : m <= o
  BY PathFacts, Least
<1>2. m \in Nat
  BY PathFacts
<1>3. m = 0
  <2> SUFFICES ASSUME m > 0 PROVE FALSE
    BY <1>2
  <2>1. Parent(m) \in RootPath(j) /\ Parent(m) \in 0 .. m - 1
    BY <1>2, PathFacts, ParentBelow
  <2> QED
    BY <1>1, <1>2, <2>1
<1> QED
  BY <1>3

(* A member of the path has its own path within.                            *)
LEMMA PathWithin ==
    ASSUME NEW j \in Nat, NEW k \in RootPath(j)
    PROVE  RootPath(k) \subseteq RootPath(j)
<1>1. k \in Nat
  BY PathFacts
<1> QED
  BY <1>1, PathIsAncestors, AncestorsClosed, AncestorsLeast

(* A path does not branch: below each of its members but the last lies      *)
(* exactly one member of it.                                                *)
LEMMA PathChild ==
    ASSUME NEW j \in Nat, NEW k \in RootPath(j), k # j
    PROVE  \E c \in RootPath(j) : c > 0 /\ Parent(c) = k
<1> SUFFICES ASSUME \A c \in RootPath(j) : c > 0 => Parent(c) # k
             PROVE  FALSE
  OBVIOUS
<1> DEFINE S == Ancestors(j) \ {k}
<1>1. ClosedUpwards(S) /\ j \in S
  BY PathIsAncestors, AncestorsClosed DEF ClosedUpwards
<1>2. Ancestors(j) \subseteq S
  <2> HIDE DEF S
  <2> QED
    BY <1>1, AncestorsLeast
<1> QED
  BY <1>2, PathIsAncestors

(* Members of one path are above one another.                               *)
Linear(n) == \A k, m \in RootPath(n) : m <= k => m \in RootPath(k)

LEMMA PathLinear ==
    ASSUME NEW j \in Nat
    PROVE  Linear(j)
<1> DEFINE S == {n \in Nat : \A i \in 0 .. n : Linear(i)}
<1>1. 0 \in S
  BY RootPathStep DEF Linear
<1>2. ASSUME NEW n \in Nat, n \in S PROVE n + 1 \in S
  <2>1. Parent(n + 1) \in 0 .. n
    BY ParentBelow
  <2>2. Linear(n + 1)
    <3> SUFFICES ASSUME NEW k \in RootPath(n + 1), NEW m \in RootPath(n + 1), m <= k
                 PROVE  m \in RootPath(k)
      BY DEF Linear
    <3>1. RootPath(n + 1) = {n + 1} \cup RootPath(Parent(n + 1))
      BY RootPathStep
    <3>2. CASE k = n + 1
      BY <3>2
    <3>3. CASE k # n + 1
      <4>1. k \in RootPath(Parent(n + 1)) /\ RootPath(Parent(n + 1)) \subseteq 0 .. n
        BY <3>1, <3>3, <2>1, PathFacts
      <4>2. m \in RootPath(Parent(n + 1))
        BY <3>1, <4>1
      <4>3. Linear(Parent(n + 1))
        BY <1>2, <2>1
      <4> QED
        BY <4>1, <4>2, <4>3 DEF Linear
    <3> QED
      BY <3>2, <3>3
  <2>3. \A i \in 0 .. n + 1 : i \in 0 .. n \/ i = n + 1
    OBVIOUS
  <2> QED
    BY <1>2, <2>2, <2>3
<1>3. j \in S
  <2> HIDE DEF S
  <2> QED
    BY <1>1, <1>2, Upwards
<1> QED
  BY <1>3

LEMMA PathLine ==
    ASSUME NEW j \in Nat, NEW k \in RootPath(j), NEW m \in RootPath(j), m < k
    PROVE  m <= Parent(k)
<1>1. k \in Nat /\ m \in Nat /\ k > 0
  BY PathFacts
<1>2. m \in RootPath(k)
  BY <1>1, PathLinear DEF Linear
<1>3. m \in RootPath(Parent(k)) /\ Parent(k) \in Nat
  BY <1>1, <1>2, RootPathStep, ParentBelow
<1> QED
  BY <1>3, PathFacts

LEMMA PathOneChild ==
    ASSUME NEW j \in Nat, NEW c \in RootPath(j), NEW d \in RootPath(j),
           c > 0, d > 0, Parent(c) = Parent(d)
    PROVE  c = d
<1>1. c \in Nat /\ d \in Nat /\ Parent(c) \in 0 .. c - 1 /\ Parent(d) \in 0 .. d - 1
  BY PathFacts, ParentBelow
<1>2. ~(c < d) /\ ~(d < c)
  BY <1>1, PathLine
<1> QED
  BY <1>1, <1>2

LEMMA CompareTold ==
    ASSUME NEW key, NEW l, NEW r, key[l] \in Int, key[r] \in Int
    PROVE  /\ Compare(key, l, r) \in Int
           /\ Compare(key, l, r) <= 0 <=> key[l] <= key[r]
           /\ Compare(key, l, r) > 0 <=> key[l] > key[r]
           /\ Compare(key, l, r) < 0 <=> key[l] < key[r]
           /\ ~(Compare(key, l, r) < 0) => key[r] <= key[l]
BY DEF Compare

LEMMA LargestFound ==
    ASSUME NEW n \in Nat, NEW S \in SUBSET (0 .. n), S # {}
    PROVE  Largest(S) \in S /\ \A j \in S : j <= Largest(S)
<1> DEFINE R == {n - i : i \in S}
<1>1. PICK m \in R : \A o \in R : m <= o
  <2>1. R \in SUBSET Nat /\ R # {}
    <3>1. \A i \in S : n - i \in Nat
      OBVIOUS
    <3>2. PICK i \in S : TRUE
      OBVIOUS
    <3>3. n - i \in R
      OBVIOUS
    <3> QED
      BY <3>1, <3>3
  <2> HIDE DEF R
  <2> QED
    BY <2>1, Least
<1>2. PICK i \in S : m = n - i
  BY <1>1
<1>3. \A j \in S : j <= i
  <2> SUFFICES ASSUME NEW j \in S PROVE j <= i
    OBVIOUS
  <2>1. n - j \in R
    OBVIOUS
  <2>2. m <= n - j
    BY <1>1, <2>1
  <2> QED
    BY <1>2, <2>2
<1>4. \E x \in S : \A j \in S : j <= x
  BY <1>3
<1> QED
  BY <1>4 DEF Largest

LEMMA LargestIs ==
    ASSUME NEW n \in Nat, NEW S \in SUBSET (0 .. n), NEW m \in S, \A j \in S : j <= m
    PROVE  Largest(S) = m
<1>1. Largest(S) \in S /\ m <= Largest(S)
  BY LargestFound
<1>2. Largest(S) <= m
  BY <1>1
<1>3. Largest(S) \in Int /\ m \in Int
  <2>1. \A j \in S : j \in Int
    OBVIOUS
  <2> QED
    BY <1>1, <2>1
<1> QED
  BY <1>1, <1>2, <1>3

LEMMA SmallestIs ==
    ASSUME NEW S \in SUBSET Nat, NEW m \in S, \A j \in S : m <= j
    PROVE  Smallest(S) = m
<1>1. \E x \in S : \A j \in S : x <= j
  OBVIOUS
<1>2. Smallest(S) \in S /\ \A j \in S : Smallest(S) <= j
  BY <1>1 DEF Smallest
<1>3. Smallest(S) \in Nat /\ m \in Nat /\ m <= Smallest(S) /\ Smallest(S) <= m
  BY <1>2
<1> QED
  BY <1>3

(* The first n places of an array hold items with numbers for keys.         *)
Holds(a, n, key) == 0 .. n - 1 \subseteq DOMAIN a /\ \A i \in 0 .. n - 1 : key[a[i]] \in Int

Apart(a, n) == \A i, j \in 0 .. n - 1 : a[i] = a[j] => i = j

ItemsOf(a, n) == {a[i] : i \in 0 .. n - 1}

(* A push: where it ends, and what it leaves.                               *)
PushStops(a, n, v, key, e) ==
    /\ e \in RootPath(n) /\ (e = 0 \/ key[a[Parent(e)]] <= key[v])
    /\ \A j \in RootPath(n) : j > e => key[v] < key[a[Parent(j)]]

Pushed(a, n, v, e, b) ==
    /\ DOMAIN b = DOMAIN a \cup {n} /\ b[e] = v
    /\ \A i \in RootPath(n) : i > e => b[i] = a[Parent(i)]
    /\ \A i \in DOMAIN a \cup {n} : i \notin RootPath(n) \/ i < e => b[i] = a[i]

LEMMA PushTold ==
    ASSUME NEW n \in Nat, NEW a, NEW v, NEW key,
           Holds(a, n, key), key[v] \in Int
    PROVE  /\ PushStops(a, n, v, key, PushEnd(a, n, v, key))
           /\ Pushed(a, n, v, PushEnd(a, n, v, key), PushCore(a, n, v, key))
<1> DEFINE S == {i \in RootPath(n) : i = 0 \/ Compare(key, a[Parent(i)], v) <= 0}
           e == PushEnd(a, n, v, key)
           b == PushCore(a, n, v, key)
<1>1. S \in SUBSET (0 .. n) /\ 0 \in S
  BY PathFacts, PathHasRoot
<1>2. e \in S /\ \A j \in S : j <= e
  <2>1. e = Largest(S)
    BY DEF PushEnd
  <2> HIDE DEF S, e
  <2> QED
    BY <1>1, <2>1, LargestFound
<1>3. \A j \in RootPath(n) : j \in 0 .. n
  BY PathFacts
<1>4. \A j \in RootPath(n) : j > 0 => Parent(j) \in 0 .. n - 1 /\ key[a[Parent(j)]] \in Int
  <2> SUFFICES ASSUME NEW j \in RootPath(n), j > 0
               PROVE  Parent(j) \in 0 .. n - 1 /\ key[a[Parent(j)]] \in Int
    OBVIOUS
  <2>1. Parent(j) \in 0 .. n - 1
    BY <1>3, ParentBelow
  <2> QED
    BY <2>1 DEF Holds
<1>5. PushStops(a, n, v, key, e)
  <2>1. e \in RootPath(n)
    BY <1>2
  <2>2. e = 0 \/ key[a[Parent(e)]] <= key[v]
    <3>1. e = 0 \/ (e > 0 /\ Compare(key, a[Parent(e)], v) <= 0)
      <4> HIDE DEF e
      <4> QED
        BY <1>2, <1>3
    <3> HIDE DEF e
    <3> QED
      BY <3>1, <1>4, <2>1, CompareTold
  <2>3. ASSUME NEW j \in RootPath(n), j > e PROVE key[v] < key[a[Parent(j)]]
    <3> HIDE DEF e
    <3>0. e \in 0 .. n /\ j \in 0 .. n
      BY <2>1, <1>3
    <3>1. j \notin S /\ j > 0
      BY <1>2, <2>3, <3>0
    <3>2. ~(Compare(key, a[Parent(j)], v) <= 0)
      BY <3>1
    <3> QED
      BY <3>1, <3>2, <1>4, CompareTold
  <2> HIDE DEF e
  <2> QED
    BY <2>1, <2>2, <2>3 DEF PushStops
<1>6. Pushed(a, n, v, e, b)
  <2> DEFINE path == {i \in RootPath(n) : i >= e}
  <2>1. b = [i \in DOMAIN a \cup {n} |->
                IF i \notin path THEN a[i] ELSE IF i = e THEN v ELSE a[Parent(i)]]
    BY DEF PushCore, PushPath
  <2>2. RootPath(n) \subseteq DOMAIN a \cup {n}
    <3>1. \A i \in 0 .. n : i \in 0 .. n - 1 \/ i = n
      OBVIOUS
    <3> QED
      BY <1>3, <3>1 DEF Holds
  <2>3. e \in RootPath(n) /\ \A i \in RootPath(n) : i \in Int
    BY <1>2, <1>3
  <2> HIDE DEF e, b
  <2>4. DOMAIN b = DOMAIN a \cup {n}
    BY <2>1
  <2>5. b[e] = v
    BY <2>1, <2>2, <2>3
  <2>6. \A i \in RootPath(n) : i > e => b[i] = a[Parent(i)]
    BY <2>1, <2>2, <2>3
  <2>7. \A i \in DOMAIN a \cup {n} : i \notin RootPath(n) \/ i < e => b[i] = a[i]
    <3> SUFFICES ASSUME NEW i \in DOMAIN a \cup {n}, i \notin RootPath(n) \/ i < e
                 PROVE  i \notin path
      BY <2>1
    <3> QED
      BY <2>3
  <2> QED
    BY <2>4, <2>5, <2>6, <2>7 DEF Pushed
<1> QED
  BY <1>5, <1>6

(* The order of the heap is kept by a push.                                 *)
LEMMA PushKeepsOrder ==
    ASSUME NEW n \in Nat, NEW a, NEW v, NEW key, NEW e, NEW b,
           Holds(a, n, key), key[v] \in Int, HeapOrdered(a, n, key),
           PushStops(a, n, v, key, e), Pushed(a, n, v, e, b)
    PROVE  HeapOrdered(b, n + 1, key)
<1>1. \A j \in RootPath(n) : j \in 0 .. n
  BY PathFacts
<1>2. e \in RootPath(n) /\ e \in 0 .. n /\ n \in RootPath(n)
  BY <1>1, PathFacts DEF PushStops
<1> SUFFICES ASSUME NEW i \in 1 .. n
             PROVE  key[b[Parent(i)]] <= key[b[i]]
  BY DEF HeapOrdered
<1>3. i \in Nat /\ i > 0 /\ Parent(i) \in 0 .. n - 1 /\ Parent(i) \in 0 .. i - 1
  BY ParentBelow
<1>4. Parent(i) \in DOMAIN a /\ key[a[Parent(i)]] \in Int
  BY <1>3 DEF Holds
<1>5. Parent(i) > 0 => /\ Parent(Parent(i)) \in 0 .. n - 1
                       /\ key[a[Parent(Parent(i))]] \in Int
                       /\ key[a[Parent(Parent(i))]] <= key[a[Parent(i)]]
  <2> SUFFICES ASSUME Parent(i) > 0
               PROVE  /\ Parent(Parent(i)) \in 0 .. n - 1
                      /\ key[a[Parent(Parent(i))]] \in Int
                      /\ key[a[Parent(Parent(i))]] <= key[a[Parent(i)]]
    OBVIOUS
  <2>1. Parent(Parent(i)) \in 0 .. n - 1
    BY <1>3, ParentBelow
  <2>2. Parent(i) \in 1 .. n - 1
    BY <1>3
  <2> QED
    BY <2>1, <2>2 DEF Holds, HeapOrdered
<1>6. CASE i \in RootPath(n)
  <2>1. Parent(i) \in RootPath(n)
    BY <1>6, <1>3, PathFacts
  <2>2. CASE i > e
    <3>1. e <= Parent(i)
      BY <1>2, <1>6, <2>2, PathLine
    <3>2. b[i] = a[Parent(i)] /\ key[v] < key[a[Parent(i)]]
      BY <1>6, <2>2 DEF Pushed, PushStops
    <3>3. CASE Parent(i) = e
      BY <3>2, <3>3, <1>4 DEF Pushed
    <3>4. CASE Parent(i) > e
      <4>1. b[Parent(i)] = a[Parent(Parent(i))]
        BY <2>1, <3>4 DEF Pushed
      <4>2. Parent(i) > 0
        BY <3>4, <1>2, <1>3
      <4> QED
        BY <4>1, <4>2, <1>5, <3>2
    <3> QED
      BY <3>1, <3>3, <3>4, <1>2, <1>3
  <2>3. CASE i = e
    <3>1. b[i] = v /\ key[a[Parent(i)]] <= key[v]
      BY <2>3, <1>3 DEF Pushed, PushStops
    <3>2. b[Parent(i)] = a[Parent(i)]
      BY <2>3, <1>3, <1>4, <1>2 DEF Pushed
    <3> QED
      BY <3>1, <3>2
  <2>4. CASE i < e
    <3>1. i \in 0 .. n - 1 /\ i \in 1 .. n - 1 /\ Parent(i) < e
      BY <2>4, <1>2, <1>3
    <3>2. b[i] = a[i] /\ b[Parent(i)] = a[Parent(i)]
      BY <2>4, <3>1, <1>4 DEF Pushed, Holds
    <3> QED
      BY <3>1, <3>2 DEF HeapOrdered
  <2> QED
    BY <2>2, <2>3, <2>4, <1>2, <1>3
<1>7. CASE i \notin RootPath(n)
  <2>1. i \in 0 .. n - 1 /\ i \in 1 .. n - 1
    BY <1>7, <1>2
  <2>2. b[i] = a[i] /\ key[a[i]] \in Int /\ key[a[Parent(i)]] <= key[a[i]]
    BY <1>7, <2>1 DEF Pushed, Holds, HeapOrdered
  <2>3. CASE Parent(i) \notin RootPath(n) \/ Parent(i) < e
    <3>1. b[Parent(i)] = a[Parent(i)]
      BY <2>3, <1>4 DEF Pushed
    <3> QED
      BY <2>2, <3>1
  <2>4. CASE Parent(i) \in RootPath(n) /\ Parent(i) = e
    <3>1. PICK c \in RootPath(n) : c > 0 /\ Parent(c) = e
      BY <1>2, <1>3, <2>4, PathChild
    <3>2. c > e
      BY <3>1, <1>1, ParentBelow
    <3>3. key[v] < key[a[e]] /\ b[e] = v
      BY <3>1, <3>2 DEF PushStops, Pushed
    <3> QED
      BY <2>2, <2>4, <3>3, <1>4
  <2>5. CASE Parent(i) \in RootPath(n) /\ Parent(i) > e
    <3>1. b[Parent(i)] = a[Parent(Parent(i))] /\ Parent(i) > 0
      BY <2>5, <1>2, <1>3 DEF Pushed
    <3> QED
      BY <3>1, <1>5, <2>2, <1>4
  <2> QED
    BY <2>3, <2>4, <2>5, <1>2, <1>3
<1> QED
  BY <1>6, <1>7

(* A push adds one item and keeps the items apart.                          *)
LEMMA PushAddsItem ==
    ASSUME NEW n \in Nat, NEW a, NEW v, NEW key, NEW e, NEW b,
           Holds(a, n, key), PushStops(a, n, v, key, e), Pushed(a, n, v, e, b)
    PROVE  ItemsOf(b, n + 1) = ItemsOf(a, n) \cup {v}
<1>1. \A j \in RootPath(n) : j \in 0 .. n
  BY PathFacts
<1>2. e \in RootPath(n) /\ e \in 0 .. n /\ n \in RootPath(n)
  BY <1>1, PathFacts DEF PushStops
<1>3. ASSUME NEW i \in 0 .. n PROVE b[i] \in ItemsOf(a, n) \cup {v}
  <2>1. CASE i = e
    BY <2>1 DEF Pushed
  <2>2. CASE i \in RootPath(n) /\ i > e
    <3>1. b[i] = a[Parent(i)] /\ Parent(i) \in 0 .. n - 1
      BY <2>2, <1>2, ParentBelow DEF Pushed
    <3> QED
      BY <3>1 DEF ItemsOf
  <2>3. CASE i \notin RootPath(n) \/ i < e
    <3>1. i \in 0 .. n - 1
      BY <2>3, <1>2
    <3>2. b[i] = a[i]
      BY <2>3, <3>1 DEF Pushed, Holds
    <3> QED
      BY <3>1, <3>2 DEF ItemsOf
  <2> QED
    BY <2>1, <2>2, <2>3, <1>2
<1>4. ASSUME NEW i \in 0 .. n - 1 PROVE a[i] \in ItemsOf(b, n + 1)
  <2>1. CASE i \in RootPath(n) /\ i >= e
    <3>1. PICK c \in RootPath(n) : c > 0 /\ Parent(c) = i
      BY <2>1, PathChild
    <3>2. c > e /\ c \in 0 .. n
      BY <2>1, <3>1, <1>1, <1>2, ParentBelow
    <3>3. b[c] = a[i]
      BY <3>1, <3>2 DEF Pushed
    <3> QED
      BY <3>2, <3>3 DEF ItemsOf
  <2>2. CASE i \notin RootPath(n) \/ i < e
    <3>1. b[i] = a[i] /\ i \in 0 .. n
      BY <2>2 DEF Pushed, Holds
    <3> QED
      BY <3>1 DEF ItemsOf
  <2> QED
    BY <2>1, <2>2, <1>2
<1>5. v \in ItemsOf(b, n + 1)
  BY <1>2 DEF ItemsOf, Pushed
<1>6. ItemsOf(b, n + 1) \subseteq ItemsOf(a, n) \cup {v}
  <2>1. n + 1 - 1 = n
    OBVIOUS
  <2> QED
    BY <1>3, <2>1 DEF ItemsOf
<1>7. ItemsOf(a, n) \subseteq ItemsOf(b, n + 1)
  BY <1>4 DEF ItemsOf
<1> QED
  BY <1>5, <1>6, <1>7

(* Where an item comes from.                                                *)
LEMMA PushOrigin ==
    ASSUME NEW n \in Nat, NEW a, NEW v, NEW key, NEW e, NEW b, NEW i \in 0 .. n,
           Holds(a, n, key), PushStops(a, n, v, key, e), Pushed(a, n, v, e, b)
    PROVE  \/ i = e /\ b[i] = v
           \/ /\ i \in RootPath(n) /\ i > e /\ b[i] = a[Parent(i)]
              /\ Parent(i) \in 0 .. n - 1 /\ Parent(i) \in RootPath(n) /\ Parent(i) >= e
           \/ /\ i \notin RootPath(n) \/ i < e
              /\ b[i] = a[i] /\ i \in 0 .. n - 1
<1>1. \A j \in RootPath(n) : j \in 0 .. n
  BY PathFacts
<1>2. e \in RootPath(n) /\ e \in 0 .. n /\ n \in RootPath(n)
  BY <1>1, PathFacts DEF PushStops
<1>3. CASE i = e
  BY <1>3 DEF Pushed
<1>4. CASE i \in RootPath(n) /\ i > e
  <2>1. b[i] = a[Parent(i)] /\ Parent(i) \in 0 .. n - 1
    BY <1>4, <1>2, ParentBelow DEF Pushed
  <2>2. Parent(i) \in RootPath(n) /\ e <= Parent(i)
    BY <1>4, <1>2, PathFacts, PathLine
  <2> QED
    BY <1>4, <2>1, <2>2
<1>5. CASE i \notin RootPath(n) \/ i < e
  <2>1. i \in 0 .. n - 1
    BY <1>5, <1>2
  <2> QED
    BY <1>5, <2>1 DEF Pushed, Holds
<1> QED
  BY <1>3, <1>4, <1>5, <1>2

LEMMA PushKeepsApart ==
    ASSUME NEW n \in Nat, NEW a, NEW v, NEW key, NEW e, NEW b,
           Holds(a, n, key), Apart(a, n), v \notin ItemsOf(a, n),
           PushStops(a, n, v, key, e), Pushed(a, n, v, e, b)
    PROVE  Apart(b, n + 1)
<1>1. ASSUME NEW i \in 0 .. n, NEW j \in 0 .. n, b[i] = b[j] PROVE i = j
  <2>1. \A k \in 0 .. n - 1 : a[k] # v
    BY DEF ItemsOf
  <2> DEFINE New(k) == k = e /\ b[k] = v
             Down(k) == /\ k \in RootPath(n) /\ k > e /\ b[k] = a[Parent(k)]
                        /\ Parent(k) \in 0 .. n - 1 /\ Parent(k) \in RootPath(n)
                        /\ Parent(k) >= e
             Kept(k) == /\ k \notin RootPath(n) \/ k < e
                        /\ b[k] = a[k] /\ k \in 0 .. n - 1
  <2>2. (New(i) \/ Down(i) \/ Kept(i)) /\ (New(j) \/ Down(j) \/ Kept(j))
    BY PushOrigin
  <2>3. e \in 0 .. n
    BY PathFacts DEF PushStops
  <2>4. CASE New(i) \/ New(j)
    BY <2>1, <2>2, <2>4, <1>1
  <2>5. CASE Down(i) /\ Down(j)
    <3>1. Parent(i) = Parent(j)
      BY <2>5, <1>1 DEF Apart
    <3> QED
      BY <3>1, <2>5, <2>3, PathOneChild
  <2>6. CASE Down(i) /\ Kept(j)
    <3>1. Parent(i) = j
      BY <2>6, <1>1 DEF Apart
    <3> QED
      BY <3>1, <2>6, <2>3
  <2>7. CASE Kept(i) /\ Down(j)
    <3>1. Parent(j) = i
      BY <2>7, <1>1 DEF Apart
    <3> QED
      BY <3>1, <2>7, <2>3
  <2>8. CASE Kept(i) /\ Kept(j)
    BY <2>8, <1>1 DEF Apart
  <2> QED
    BY <2>2, <2>4, <2>5, <2>6, <2>7, <2>8
<1> QED
  BY <1>1 DEF Apart

(* A pop at x: the way down from there to e, and what it leaves.            *)
PopStops(a, n, x, v, key, e) ==
    /\ e \in x .. n - 1 /\ x \in RootPath(e)
    /\ \A j \in RootPath(e) : j > x =>
        /\ key[a[j]] < key[v]
        /\ \A c \in 1 .. n - 1 : Parent(c) = Parent(j) => key[a[j]] <= key[a[c]]
    /\ \A c \in 1 .. n - 1 : Parent(c) = e => key[v] <= key[a[c]]

Way(x, e) == {i \in RootPath(e) : i >= x}

Popped(a, x, v, e, b) ==
    /\ DOMAIN b = DOMAIN a /\ b[e] = v
    /\ \A j \in RootPath(e) : j > x => b[Parent(j)] = a[j]
    /\ \A i \in DOMAIN a : i \notin RootPath(e) \/ i < x => b[i] = a[i]

LEMMA Children ==
    ASSUME NEW c \in Nat, c > 0
    PROVE  c = LeftOf(Parent(c)) \/ c = LeftOf(Parent(c)) + 1
BY DEF Parent, LeftOf

LEMMA ChildrenOf ==
    ASSUME NEW p \in Nat
    PROVE  Parent(LeftOf(p)) = p /\ Parent(LeftOf(p) + 1) = p /\ LeftOf(p) \in Nat /\ LeftOf(p) > 0
BY DEF Parent, LeftOf

(* What GoesDown says of an item and the other child of its parent.         *)
Ready(a, n, v, key) == n \in Nat /\ Holds(a, n, key) /\ key[v] \in Int

Chosen(a, n, v, key, j) ==
    /\ j \in 0 .. n - 1 /\ key[a[j]] < key[v]
    /\ \A c \in 1 .. n - 1 : Parent(c) = Parent(j) =>
            /\ key[a[j]] <= key[a[c]]
            /\ GoesDown(a, n, c, v, key) => c = j

LEMMA GoesDownTold ==
    ASSUME NEW a, NEW n, NEW v, NEW key, NEW j, Ready(a, n, v, key),
           j \in Nat, j > 0, GoesDown(a, n, j, v, key)
    PROVE  Chosen(a, n, v, key, j)
<1>0. n \in Nat /\ Holds(a, n, key) /\ key[v] \in Int
  BY DEF Ready
<1> DEFINE left == LeftOf(Parent(j))
<1>1. j < n /\ Compare(key, a[j], v) < 0
  BY DEF GoesDown
<1>2. j \in 0 .. n - 1 /\ key[a[j]] \in Int
  BY <1>0, <1>1 DEF Holds
<1>3. key[a[j]] < key[v]
  BY <1>0, <1>1, <1>2, CompareTold
<1>4. left \in Nat /\ (j = left \/ j = left + 1)
  BY Children, ChildrenOf, ParentBelow
<1>5. ASSUME NEW c \in 1 .. n - 1, Parent(c) = Parent(j)
      PROVE  /\ key[a[j]] <= key[a[c]]
             /\ GoesDown(a, n, c, v, key) => c = j
  <2>1. c = left \/ c = left + 1
    BY <1>5, Children
  <2>2. CASE c = j
    BY <2>2, <1>2
  <2>3. CASE c # j
    <3>1. left + 1 < n
      BY <1>0, <2>1, <2>3, <1>4, <1>2
    <3>2. j = IF Compare(key, a[left], a[left + 1]) > 0 THEN left + 1 ELSE left
      BY <3>1 DEF GoesDown
    <3>3. key[a[left]] \in Int /\ key[a[left + 1]] \in Int
      BY <1>0, <3>1, <1>4 DEF Holds
    <3>4. key[a[j]] <= key[a[c]]
      <4>1. CASE Compare(key, a[left], a[left + 1]) > 0
        <5>1. j = left + 1 /\ c = left
          BY <4>1, <3>2, <2>1, <2>3
        <5>2. key[a[left]] > key[a[left + 1]]
          BY <4>1, <1>0, <3>3, CompareTold
        <5> QED
          BY <5>1, <5>2, <3>3
      <4>2. CASE ~(Compare(key, a[left], a[left + 1]) > 0)
        <5>1. j = left /\ c = left + 1
          BY <4>2, <3>2, <2>1, <2>3, <1>4
        <5>2. ~(key[a[left]] > key[a[left + 1]])
          BY <4>2, <1>0, <3>3, CompareTold
        <5> QED
          BY <5>1, <5>2, <3>3
      <4> QED
        BY <4>1, <4>2
    <3>5. GoesDown(a, n, c, v, key) => c = j
      BY <3>1, <3>2, <1>5 DEF GoesDown
    <3> QED
      BY <3>4, <3>5
  <2> QED
    BY <2>2, <2>3
<1> QED
  BY <1>2, <1>3, <1>5 DEF Chosen

(* The way down is one path.                                                *)
LEMMA WayIsPath ==
    ASSUME NEW a, NEW n, NEW x \in 0 .. n - 1, NEW v, NEW key, Ready(a, n, v, key)
    PROVE  /\ PopEnd(a, n, x, v, key) \in x .. n - 1
           /\ x \in RootPath(PopEnd(a, n, x, v, key))
           /\ \A j \in PopPath(a, n, x, v, key) : j <= PopEnd(a, n, x, v, key)
           /\ PopPath(a, n, x, v, key) = Way(x, PopEnd(a, n, x, v, key))
<1> DEFINE W == PopPath(a, n, x, v, key)
           e == PopEnd(a, n, x, v, key)
<1>0. n \in Nat /\ x \in Nat
  BY DEF Ready
<1>1. W \in SUBSET (0 .. n) /\ x \in W
  <2>1. x \in RootPath(x) /\ RootPath(x) \subseteq 0 .. x
    BY <1>0, PathFacts
  <2> QED
    BY <1>0, <2>1 DEF PopPath
<1>2. e \in W /\ \A j \in W : j <= e
  <2>1. e = Largest(W)
    BY DEF PopEnd
  <2> HIDE DEF W, e
  <2> QED
    BY <1>0, <1>1, <2>1, LargestFound
<1>3. \A i \in W : /\ i \in x .. n - 1 /\ i \in Nat /\ x \in RootPath(i)
                   /\ \A k \in RootPath(i) : k >= x => k \in W
  <2> SUFFICES ASSUME NEW i \in W
               PROVE  /\ i \in x .. n - 1 /\ i \in Nat /\ x \in RootPath(i)
                      /\ \A k \in RootPath(i) : k >= x => k \in W
    OBVIOUS
  <2>1. i \in x .. n - 1 /\ i \in Nat /\ x \in RootPath(i)
    BY <1>0 DEF PopPath
  <2>2. ASSUME NEW k \in RootPath(i), k >= x PROVE k \in W
    <3>1. k \in 0 .. i /\ RootPath(k) \subseteq RootPath(i)
      BY <2>1, PathFacts, PathWithin
    <3>2. x \in RootPath(k)
      <4>1. CASE x = k
        BY <4>1, <1>0, PathFacts
      <4>2. CASE x # k
        BY <4>2, <2>1, <2>2, <3>1, PathLinear DEF Linear
      <4> QED
        BY <4>1, <4>2
    <3> QED
      BY <1>0, <2>1, <2>2, <3>1, <3>2 DEF PopPath
  <2> QED
    BY <2>1, <2>2
<1>4. \A i \in W : i > x => /\ Parent(i) \in W /\ Parent(i) \in 0 .. i - 1 /\ Parent(i) >= x
                            /\ GoesDown(a, n, i, v, key)
  <2> SUFFICES ASSUME NEW i \in W, i > x
               PROVE  /\ Parent(i) \in W /\ Parent(i) \in 0 .. i - 1 /\ Parent(i) >= x
                      /\ GoesDown(a, n, i, v, key)
    OBVIOUS
  <2>1. i \in Nat /\ i > 0 /\ x \in RootPath(i)
    BY <1>0, <1>3
  <2>2. i \in RootPath(i) /\ Parent(i) \in RootPath(i) /\ Parent(i) \in 0 .. i - 1
    BY <2>1, PathFacts, ParentBelow
  <2>3. Parent(i) >= x
    BY <2>1, <2>2, <1>0, PathLine
  <2> QED
    BY <2>1, <2>2, <2>3, <1>3 DEF PopPath
<1> HIDE DEF W
<1>5. W \subseteq RootPath(e)
  <2> DEFINE S == {k \in Nat : \A i \in 0 .. k : i \in W => i \in RootPath(e)}
  <2>0. e \in Nat /\ x \in RootPath(e)
    BY <1>2, <1>3
  <2> HIDE DEF e
  <2>1. 0 \in S
    BY <2>0, PathHasRoot
  <2>2. ASSUME NEW k \in Nat, k \in S PROVE k + 1 \in S
    <3>1. ASSUME k + 1 \in W PROVE k + 1 \in RootPath(e)
      <4>0. CASE k + 1 = x
        BY <4>0, <2>0
      <4>00. CASE k + 1 > x
        <5>1. /\ Parent(k + 1) \in W /\ Parent(k + 1) \in 0 .. k /\ Parent(k + 1) >= x
              /\ GoesDown(a, n, k + 1, v, key)
          BY <3>1, <1>4, <4>00
        <5>2. Parent(k + 1) \in RootPath(e)
          BY <5>1, <2>2
        <5>3. k + 1 <= e
          BY <3>1, <1>2
        <5>4. Parent(k + 1) # e
          BY <5>1, <5>3, <2>0
        <5>5. PICK c \in RootPath(e) : c > 0 /\ Parent(c) = Parent(k + 1)
          BY <2>0, <5>2, <5>4, PathChild
        <5>6. c \in Nat /\ c > x
          <6>1. c \in Nat
            BY <2>0, PathFacts
          <6> QED
            BY <6>1, <5>1, <5>5, <1>0, ParentBelow
        <5>7. c \in W
          BY <5>6, <1>0, <1>2, <1>3
        <5>8. c \in 1 .. n - 1 /\ GoesDown(a, n, c, v, key)
          BY <5>6, <5>7, <1>0, <1>3, <1>4
        <5>9. Chosen(a, n, v, key, k + 1)
          BY <5>1, GoesDownTold
        <5>10. c = k + 1
          BY <5>5, <5>8, <5>9 DEF Chosen
        <5> QED
          BY <5>10
      <4> QED
        BY <4>0, <4>00, <3>1, <1>0, <1>3
    <3>2. \A i \in 0 .. k + 1 : i \in 0 .. k \/ i = k + 1
      OBVIOUS
    <3> QED
      BY <3>1, <3>2, <2>2
  <2>3. \A k \in Nat : k \in S
    <3> HIDE DEF S
    <3> QED
      BY <2>1, <2>2, Upwards
  <2>4. ASSUME NEW i \in W PROVE i \in RootPath(e)
    <3>1. i \in Nat
      BY <1>3
    <3> QED
      BY <3>1, <2>3
  <2> QED
    BY <2>4
<1>6. Way(x, e) \subseteq W
  BY <1>2, <1>3 DEF Way
<1>7. W \subseteq Way(x, e)
  BY <1>3, <1>5, <1>0 DEF Way
<1>8. e \in x .. n - 1 /\ x \in RootPath(e)
  BY <1>2, <1>3
<1> QED
  BY <1>2, <1>6, <1>7, <1>8 DEF W

LEMMA PopTold ==
    ASSUME NEW a, NEW n, NEW x \in 0 .. n - 1, NEW v, NEW key, Ready(a, n, v, key)
    PROVE  /\ PopStops(a, n, x, v, key, PopEnd(a, n, x, v, key))
           /\ Popped(a, x, v, PopEnd(a, n, x, v, key), PopCore(a, n, x, v, key))
           /\ PopPath(a, n, x, v, key) = Way(x, PopEnd(a, n, x, v, key))
<1> DEFINE W == PopPath(a, n, x, v, key)
           e == PopEnd(a, n, x, v, key)
           b == PopCore(a, n, x, v, key)
<1>0. n \in Nat /\ Holds(a, n, key) /\ key[v] \in Int /\ x \in Nat
  BY DEF Ready
<1>1. e \in x .. n - 1 /\ x \in RootPath(e) /\ (\A j \in W : j <= e) /\ W = Way(x, e)
  BY WayIsPath
<1>2. e \in 0 .. n - 1 /\ e \in Nat /\ e >= x
  BY <1>0, <1>1
<1> HIDE DEF e
<1>3. e \in RootPath(e) /\ \A j \in RootPath(e) : j \in 0 .. e /\ j \in 0 .. n - 1
  BY <1>0, <1>2, PathFacts
<1>4. \A j \in RootPath(e) : j > x => GoesDown(a, n, j, v, key)
  <2>1. e \in W
    BY <1>1, <1>2, <1>3 DEF Way
  <2> QED
    BY <2>1 DEF PopPath
<1>6. PopStops(a, n, x, v, key, e)
  <2>1. ASSUME NEW j \in RootPath(e), j > x
        PROVE  /\ key[a[j]] < key[v]
               /\ \A c \in 1 .. n - 1 : Parent(c) = Parent(j) => key[a[j]] <= key[a[c]]
    <3>1. j \in Nat /\ j > 0 /\ GoesDown(a, n, j, v, key)
      BY <1>0, <1>3, <1>4, <2>1
    <3> QED
      BY <3>1, <2>1, GoesDownTold DEF Chosen
  <2>2. ASSUME NEW c \in 1 .. n - 1, Parent(c) = e PROVE key[v] <= key[a[c]]
    <3> DEFINE left == LeftOf(e)
               chosen == IF left + 1 < n
                         THEN IF Compare(key, a[left], a[left + 1]) > 0 THEN left + 1 ELSE left
                         ELSE c
    <3>1. left \in Nat /\ (c = left \/ c = left + 1) /\ left > 0
      BY <2>2, <1>2, Children, ChildrenOf
    <3>2. chosen \in 1 .. n - 1 /\ Parent(chosen) = e
      BY <3>1, <1>0, <1>2, <2>2, ChildrenOf
    <3>3. key[a[chosen]] \in Int /\ key[a[c]] \in Int
      BY <3>2, <1>0 DEF Holds
    <3>4. key[a[chosen]] <= key[a[c]]
      <4>1. CASE left + 1 < n
        <5>1. key[a[left]] \in Int /\ key[a[left + 1]] \in Int
          BY <4>1, <3>1, <1>0 DEF Holds
        <5>2. Compare(key, a[left], a[left + 1]) > 0 <=> key[a[left]] > key[a[left + 1]]
          BY <5>1, CompareTold
        <5>3. CASE Compare(key, a[left], a[left + 1]) > 0
          BY <5>1, <5>2, <5>3, <4>1, <3>1
        <5>4. CASE ~(Compare(key, a[left], a[left + 1]) > 0)
          BY <5>1, <5>2, <5>4, <4>1, <3>1
        <5> QED
          BY <5>3, <5>4
      <4>2. CASE ~(left + 1 < n)
        BY <4>2, <3>3
      <4> QED
        BY <4>1, <4>2
    <3>5. ~GoesDown(a, n, chosen, v, key)
      <4> HIDE DEF chosen
      <4> SUFFICES ASSUME GoesDown(a, n, chosen, v, key) PROVE FALSE
        OBVIOUS
      <4>0. chosen \in Nat /\ chosen > 0 /\ e < chosen /\ chosen \in x .. n - 1
        BY <3>2, <1>2, <1>0, ParentBelow
      <4>1. RootPath(chosen) = {chosen} \cup RootPath(e)
        BY <3>2, <4>0, RootPathStep
      <4>2. chosen \in W
        BY <4>0, <4>1, <1>1, <1>4 DEF PopPath
      <4> QED
        BY <4>0, <4>2, <1>1, <1>2
    <3>6. GoesDown(a, n, chosen, v, key) <=> Compare(key, a[chosen], v) < 0
      <4>1. LeftOf(Parent(chosen)) = left
        <5> HIDE DEF chosen
        <5> QED
          BY <3>2
      <4>2. chosen < n
        <5> HIDE DEF chosen
        <5> QED
          BY <3>2, <1>0
      <4>3. left + 1 < n =>
                chosen = IF Compare(key, a[left], a[left + 1]) > 0 THEN left + 1 ELSE left
        OBVIOUS
      <4> HIDE DEF chosen, left
      <4> QED
        BY <4>1, <4>2, <4>3 DEF GoesDown
    <3>7. key[v] <= key[a[chosen]]
      <4> HIDE DEF chosen
      <4> QED
        BY <1>0, <3>3, <3>5, <3>6, CompareTold
    <3> HIDE DEF chosen
    <3> QED
      BY <1>0, <3>3, <3>4, <3>7
  <2> QED
    BY <1>1, <2>1, <2>2 DEF PopStops
<1>7. Popped(a, x, v, e, b)
  <2>1. b = [i \in DOMAIN a |->
                IF i \notin Way(x, e) THEN a[i]
                ELSE IF i = e THEN v
                ELSE a[Smallest({j \in Way(x, e) : j > i})]]
    BY <1>1 DEF PopCore, e
  <2>2. \A i \in RootPath(e) : i \in DOMAIN a
    BY <1>0, <1>3 DEF Holds
  <2> HIDE DEF b
  <2>3. DOMAIN b = DOMAIN a
    BY <2>1
  <2>4. b[e] = v
    BY <2>1, <2>2, <1>2, <1>3 DEF Way
  <2>5. ASSUME NEW j \in RootPath(e), j > x PROVE b[Parent(j)] = a[j]
    <3>1. j \in Nat /\ j > 0 /\ j <= e
      BY <2>5, <1>0, <1>3
    <3>2. Parent(j) \in RootPath(e) /\ Parent(j) \in 0 .. j - 1 /\ Parent(j) >= x
      <4>1. Parent(j) \in RootPath(e) /\ Parent(j) \in 0 .. j - 1
        BY <3>1, <2>5, <1>2, PathFacts, ParentBelow
      <4>2. x <= Parent(j)
        BY <2>5, <1>1, <1>2, PathLine
      <4> QED
        BY <4>1, <4>2, <1>0
    <3> DEFINE R == {m \in Way(x, e) : m > Parent(j)}
    <3>3. R \in SUBSET Nat /\ j \in R
      <4>1. \A m \in Way(x, e) : m \in Nat
        BY <1>3 DEF Way
      <4>2. j \in Way(x, e) /\ j > Parent(j)
        BY <2>5, <3>1, <3>2, <1>0 DEF Way
      <4> QED
        BY <4>1, <4>2
    <3>4. ASSUME NEW m \in R PROVE j <= m
      <4> SUFFICES ASSUME m < j PROVE FALSE
        BY <3>1, <3>3
      <4>1. m \in RootPath(e) /\ m > Parent(j)
        BY DEF Way
      <4>2. m <= Parent(j)
        BY <4>1, <1>2, PathLine
      <4>3. m \in Nat /\ Parent(j) \in Nat
        BY <3>2, <3>3
      <4> QED
        BY <4>1, <4>2, <4>3
    <3>5. Smallest(R) = j
      <4> HIDE DEF R
      <4> QED
        BY <3>3, <3>4, SmallestIs
    <3>6. Parent(j) # e /\ Parent(j) \in DOMAIN a /\ Parent(j) \in Way(x, e)
      BY <3>1, <3>2, <2>2, <1>2 DEF Way
    <3> QED
      BY <2>1, <3>5, <3>6
  <2>6. ASSUME NEW i \in DOMAIN a, i \notin RootPath(e) \/ i < x PROVE b[i] = a[i]
    <3>1. i \notin Way(x, e)
      BY <2>6, <1>0, <1>3 DEF Way
    <3> QED
      BY <2>1, <3>1
  <2> QED
    BY <2>3, <2>4, <2>5, <2>6 DEF Popped
<1> QED
  BY <1>1, <1>6, <1>7 DEF e

(* What stands at a place that a pop leaves: the value, an item from below, *)
(* or what stood there.                                                     *)
Filled(i, a, x, v, e, b) ==
    \/ i = e /\ b[i] = v
    \/ /\ i \in RootPath(e) /\ x <= i /\ i < e
       /\ \E c \in RootPath(e) : c > x /\ c <= e /\ c > i /\ Parent(c) = i /\ b[i] = a[c]
    \/ (i \notin RootPath(e) \/ i < x) /\ i # x /\ b[i] = a[i]

LEMMA PopOrigin ==
    ASSUME NEW m \in Nat, NEW a, NEW x \in Nat, NEW v, NEW e \in x .. m - 1, NEW b,
           x \in RootPath(e), 0 .. m - 1 \subseteq DOMAIN a, Popped(a, x, v, e, b),
           NEW i \in 0 .. m - 1
    PROVE  Filled(i, a, x, v, e, b)
<1>1. e \in Nat /\ x <= e /\ \A j \in RootPath(e) : j \in 0 .. e
  BY PathFacts
<1>2. CASE i = e
  BY <1>2 DEF Popped, Filled
<1>3. CASE i \in RootPath(e) /\ x <= i /\ i # e
  <2>1. PICK c \in RootPath(e) : c > 0 /\ Parent(c) = i
    BY <1>1, <1>3, PathChild
  <2>2. c \in Nat /\ c <= e /\ i < c /\ x < c
    BY <1>1, <1>3, <2>1, ParentBelow
  <2>3. b[i] = a[c]
    BY <2>1, <2>2 DEF Popped
  <2>4. i < e
    BY <1>1, <1>3
  <2> QED
    BY <1>3, <2>1, <2>2, <2>3, <2>4 DEF Filled
<1>4. CASE i \notin RootPath(e) \/ i < x
  <2>1. b[i] = a[i] /\ i # x
    BY <1>4 DEF Popped
  <2> QED
    BY <1>4, <2>1 DEF Filled
<1> QED
  BY <1>2, <1>3, <1>4, <1>1

(* The items of the first m places: the one at x goes, the value comes.     *)
LEMMA PopKeepsApart ==
    ASSUME NEW m \in Nat, NEW a, NEW x \in Nat, NEW v, NEW e \in x .. m - 1, NEW b,
           x \in RootPath(e), 0 .. m - 1 \subseteq DOMAIN a, Popped(a, x, v, e, b),
           Apart(a, m), v \notin ItemsOf(a, m)
    PROVE  Apart(b, m)
<1> SUFFICES ASSUME NEW i \in 0 .. m - 1, NEW j \in 0 .. m - 1, b[i] = b[j] PROVE i = j
  BY DEF Apart
<1>1. \A k \in 0 .. m - 1 : a[k] # v
  BY DEF ItemsOf
<1>2. \A k, l \in 0 .. m - 1 : a[k] = a[l] => k = l
  BY DEF Apart
<1>3. e \in Nat /\ x <= e /\ e < m
  OBVIOUS
<1> DEFINE New(k) == k = e /\ b[k] = v
           Up(k) == \E c \in RootPath(e) : c \in 0 .. m - 1 /\ c > x /\ Parent(c) = k /\ b[k] = a[c]
           Same(k) == (k \notin RootPath(e) \/ k < x) /\ k # x /\ b[k] = a[k]
<1>4. \A k \in 0 .. m - 1 : New(k) \/ Up(k) \/ Same(k)
  <2> SUFFICES ASSUME NEW k \in 0 .. m - 1 PROVE New(k) \/ Up(k) \/ Same(k)
    OBVIOUS
  <2>1. Filled(k, a, x, v, e, b)
    BY PopOrigin
  <2>2. \A c \in RootPath(e) : c \in Nat
    BY <1>3, PathFacts
  <2> QED
    BY <2>1, <2>2, <1>3 DEF Filled
<1>5. CASE New(i) \/ New(j)
  <2>1. \A k \in 0 .. m - 1 : Up(k) => b[k] # v
    BY <1>1
  <2>2. \A k \in 0 .. m - 1 : Same(k) => b[k] # v
    BY <1>1
  <2> QED
    BY <1>4, <1>5, <2>1, <2>2
<1>6. CASE Up(i) /\ Up(j)
  <2>1. PICK c \in RootPath(e) : c \in 0 .. m - 1 /\ Parent(c) = i /\ b[i] = a[c]
    BY <1>6
  <2>2. PICK d \in RootPath(e) : d \in 0 .. m - 1 /\ Parent(d) = j /\ b[j] = a[d]
    BY <1>6
  <2>3. c = d
    BY <2>1, <2>2, <1>2
  <2> QED
    BY <2>1, <2>2, <2>3
<1>7. ASSUME NEW k \in 0 .. m - 1, NEW l \in 0 .. m - 1, Up(k), Same(l), b[k] = b[l] PROVE FALSE
  <2>1. PICK c \in RootPath(e) : c \in 0 .. m - 1 /\ c > x /\ b[k] = a[c]
    BY <1>7
  <2>2. c = l
    BY <2>1, <1>7, <1>2
  <2> QED
    BY <2>1, <2>2, <1>7
<1>8. CASE Same(i) /\ Same(j)
  BY <1>8, <1>2
<1> QED
  BY <1>4, <1>5, <1>6, <1>7, <1>8

LEMMA PopLeavesRest ==
    ASSUME NEW m \in Nat, NEW a, NEW x \in Nat, NEW v, NEW e \in x .. m - 1, NEW b,
           x \in RootPath(e), 0 .. m - 1 \subseteq DOMAIN a, Popped(a, x, v, e, b),
           Apart(a, m)
    PROVE  ItemsOf(b, m) = (ItemsOf(a, m) \ {a[x]}) \cup {v}
<1>1. e \in Nat /\ x <= e /\ e < m /\ x \in 0 .. m - 1 /\ e \in 0 .. m - 1
  OBVIOUS
<1>2. \A k, l \in 0 .. m - 1 : a[k] = a[l] => k = l
  BY DEF Apart
<1>3. ASSUME NEW i \in 0 .. m - 1 PROVE b[i] \in (ItemsOf(a, m) \ {a[x]}) \cup {v}
  <2>1. Filled(i, a, x, v, e, b)
    BY PopOrigin
  <2>2. CASE i = e /\ b[i] = v
    BY <2>2
  <2>3. CASE \E c \in RootPath(e) : c > x /\ c <= e /\ c > i /\ Parent(c) = i /\ b[i] = a[c]
    <3>1. PICK c \in RootPath(e) : c > x /\ c <= e /\ b[i] = a[c]
      BY <2>3
    <3>2. c \in 0 .. m - 1 /\ c # x
      BY <3>1, <1>1, PathFacts
    <3>3. a[c] \in ItemsOf(a, m) /\ a[c] # a[x]
      BY <3>2, <1>1, <1>2 DEF ItemsOf
    <3> QED
      BY <3>1, <3>3
  <2>4. CASE i # x /\ b[i] = a[i]
    <3>1. a[i] \in ItemsOf(a, m) /\ a[i] # a[x]
      BY <2>4, <1>1, <1>2 DEF ItemsOf
    <3> QED
      BY <2>4, <3>1
  <2> QED
    BY <2>1, <2>2, <2>3, <2>4 DEF Filled
<1>4. ASSUME NEW k \in 0 .. m - 1, k # x PROVE a[k] \in ItemsOf(b, m)
  <2>1. CASE k \in RootPath(e) /\ k > x
    <3>1. Parent(k) \in 0 .. k - 1 /\ b[Parent(k)] = a[k]
      BY <2>1, <1>1, ParentBelow DEF Popped
    <3>2. Parent(k) \in 0 .. m - 1
      BY <3>1
    <3> QED
      BY <3>1, <3>2 DEF ItemsOf
  <2>2. CASE k \notin RootPath(e) \/ k < x
    <3>1. b[k] = a[k]
      BY <2>2 DEF Popped
    <3> QED
      BY <3>1 DEF ItemsOf
  <2> QED
    BY <2>1, <2>2, <1>4
<1>5. v \in ItemsOf(b, m)
  <2>1. b[e] = v
    BY DEF Popped
  <2> QED
    BY <2>1, <1>1 DEF ItemsOf
<1>6. ItemsOf(b, m) \subseteq (ItemsOf(a, m) \ {a[x]}) \cup {v}
  BY <1>3 DEF ItemsOf
<1>7. ItemsOf(a, m) \ {a[x]} \subseteq ItemsOf(b, m)
  BY <1>4 DEF ItemsOf
<1> QED
  BY <1>5, <1>6, <1>7

(* Ordered but for what stands at x, which is not above what lies below.    *)
OrderedBut(b, n, x, key) ==
    /\ \A i \in 1 .. n - 1 : i # x => key[b[Parent(i)]] <= key[b[i]]
    /\ x > 0 => \A c \in 1 .. n - 1 : Parent(c) = x => key[b[Parent(x)]] <= key[b[c]]

(* The order of the heap after a pop at x.                                  *)
LEMMA PopKeepsOrder ==
    ASSUME NEW n \in Nat, NEW a, NEW x \in 0 .. n - 1, NEW v, NEW key, NEW e, NEW b,
           Holds(a, n, key), key[v] \in Int, HeapOrdered(a, n, key),
           PopStops(a, n, x, v, key, e), Popped(a, x, v, e, b)
    PROVE  OrderedBut(b, n, x, key)
<1>1. /\ e \in Nat /\ e \in 0 .. n - 1 /\ x <= e /\ x \in RootPath(e)
      /\ e \in RootPath(e) /\ \A j \in RootPath(e) : j \in 0 .. e
  <2>1. e \in Nat /\ e \in 0 .. n - 1 /\ x <= e /\ x \in RootPath(e)
    BY DEF PopStops
  <2> QED
    BY <2>1, PathFacts
<1>2. \A i \in 1 .. n - 1 :
        /\ i \in Nat /\ i > 0 /\ Parent(i) \in 0 .. n - 1 /\ Parent(i) \in 0 .. i - 1
        /\ i \in DOMAIN a /\ Parent(i) \in DOMAIN a
        /\ key[a[i]] \in Int /\ key[a[Parent(i)]] \in Int /\ key[a[Parent(i)]] <= key[a[i]]
  <2> SUFFICES ASSUME NEW i \in 1 .. n - 1
               PROVE  /\ i \in Nat /\ i > 0 /\ Parent(i) \in 0 .. n - 1 /\ Parent(i) \in 0 .. i - 1
                      /\ i \in DOMAIN a /\ Parent(i) \in DOMAIN a
                      /\ key[a[i]] \in Int /\ key[a[Parent(i)]] \in Int
                      /\ key[a[Parent(i)]] <= key[a[i]]
    OBVIOUS
  <2>1. Parent(i) \in 0 .. i - 1 /\ Parent(i) \in 0 .. n - 1
    BY ParentBelow
  <2> QED
    BY <2>1 DEF Holds, HeapOrdered
(* what stands at c on the way down, below x, is not less than what was     *)
<1>3. ASSUME NEW c \in RootPath(e), c > x
      PROVE  c \in 1 .. n - 1 /\ key[a[c]] \in Int /\ key[b[c]] \in Int /\ key[a[c]] <= key[b[c]]
  <2>1. c \in 1 .. n - 1
    BY <1>1, <1>3
  <2>2. CASE c = e
    BY <2>1, <2>2, <1>2, <1>3 DEF Popped, PopStops
  <2>3. CASE c # e
    <3>1. PICK d \in RootPath(e) : d > 0 /\ Parent(d) = c
      BY <1>1, <2>3, PathChild
    <3>2. d \in 1 .. n - 1 /\ d > x
      BY <3>1, <1>1, <1>2, <1>3
    <3>3. b[c] = a[d]
      BY <3>1, <3>2 DEF Popped
    <3> QED
      BY <2>1, <3>1, <3>2, <3>3, <1>2
  <2> QED
    BY <2>2, <2>3
<1>4. ASSUME NEW i \in 1 .. n - 1, i # x
      PROVE  key[b[Parent(i)]] <= key[b[i]]
  <2>1. CASE i \in RootPath(e) /\ i > x
    BY <2>1, <1>3 DEF Popped
  <2>2. CASE (i \notin RootPath(e) \/ i < x) /\ Parent(i) \in RootPath(e) /\ Parent(i) >= x
    <3>1. b[i] = a[i]
      BY <2>2, <1>2 DEF Popped
    <3>2. CASE Parent(i) = e
      <4>1. b[Parent(i)] = v /\ key[v] <= key[a[i]]
        BY <3>2 DEF Popped, PopStops
      <4> QED
        BY <3>1, <4>1
    <3>3. CASE Parent(i) # e
      <4>1. PICK c \in RootPath(e) : c > 0 /\ Parent(c) = Parent(i)
        BY <1>1, <2>2, <3>3, PathChild
      <4>2. c > x
        BY <4>1, <1>1, <2>2, ParentBelow
      <4>3. b[Parent(i)] = a[c] /\ key[a[c]] <= key[a[i]]
        BY <4>1, <4>2 DEF Popped, PopStops
      <4> QED
        BY <3>1, <4>3
    <3> QED
      BY <3>2, <3>3
  <2>3. CASE (i \notin RootPath(e) \/ i < x) /\ (Parent(i) \notin RootPath(e) \/ Parent(i) < x)
    BY <2>3, <1>2 DEF Popped
  <2> QED
    BY <2>1, <2>2, <2>3, <1>1, <1>2, <1>4
<1>5. ASSUME x > 0, NEW c \in 1 .. n - 1, Parent(c) = x
      PROVE  key[b[Parent(x)]] <= key[b[c]]
  <2>1. x \in 1 .. n - 1 /\ c > x
    BY <1>2, <1>5
  <2>2. b[Parent(x)] = a[Parent(x)]
    BY <2>1, <1>2 DEF Popped
  <2>3. key[a[c]] <= key[b[c]] /\ key[b[c]] \in Int
    <3>1. CASE c \in RootPath(e)
      BY <3>1, <2>1, <1>3
    <3>2. CASE c \notin RootPath(e)
      BY <3>2, <1>2 DEF Popped
    <3> QED
      BY <3>1, <3>2
  <2>4. key[a[Parent(x)]] <= key[a[x]] /\ key[a[x]] <= key[a[c]]
    BY <2>1, <1>2, <1>5
  <2>5. key[a[Parent(x)]] \in Int /\ key[a[x]] \in Int /\ key[a[c]] \in Int
    BY <2>1, <1>2
  <2> QED
    BY <2>2, <2>3, <2>4, <2>5
<1> QED
  BY <1>4, <1>5 DEF OrderedBut

(* What stands at x moves up: nothing is lost, and the order is whole.      *)
LEMMA RiseKeepsOrder ==
    ASSUME NEW n \in Nat, NEW b, NEW x \in 0 .. n - 1, NEW key, NEW e, NEW c,
           Holds(b, n, key), OrderedBut(b, n, x, key),
           PushStops(b, x, b[x], key, e), Pushed(b, x, b[x], e, c)
    PROVE  HeapOrdered(c, n, key)
<1>1. x \in Nat /\ Holds(b, x, key) /\ key[b[x]] \in Int /\ HeapOrdered(b, x, key)
  BY DEF Holds, HeapOrdered, OrderedBut
<1>2. HeapOrdered(c, x + 1, key)
  BY <1>1, PushKeepsOrder
<1>3. e \in RootPath(x) /\ x \in RootPath(x) /\ e \in 0 .. x /\ \A j \in RootPath(x) : j \in 0 .. x
  BY <1>1, PathFacts DEF PushStops
<1>4. \A i \in 0 .. n - 1 : i \in DOMAIN b /\ key[b[i]] \in Int
  BY DEF Holds
<1> SUFFICES ASSUME NEW i \in 1 .. n - 1
             PROVE  key[c[Parent(i)]] <= key[c[i]]
  BY DEF HeapOrdered
<1>5. i \in Nat /\ Parent(i) \in 0 .. n - 1 /\ Parent(i) \in 0 .. i - 1
  BY ParentBelow
<1>6. CASE i <= x
  BY <1>2, <1>6, <1>1 DEF HeapOrdered
<1>7. CASE i > x
  <2>1. c[i] = b[i]
    BY <1>7, <1>3, <1>4, <1>5 DEF Pushed
  <2>2. key[b[Parent(i)]] <= key[b[i]]
    BY <1>7, <1>1 DEF OrderedBut
  <2>3. CASE Parent(i) \notin RootPath(x) \/ Parent(i) < e
    <3>1. c[Parent(i)] = b[Parent(i)]
      BY <2>3, <1>4, <1>5 DEF Pushed
    <3> QED
      BY <3>1, <2>1, <2>2
  <2>4. CASE Parent(i) = e /\ e = x
    BY <2>4, <2>1, <2>2 DEF Pushed
  <2>5. CASE Parent(i) = e /\ e # x
    <3>1. PICK d \in RootPath(x) : d > 0 /\ Parent(d) = e
      BY <1>1, <1>3, <2>5, PathChild
    <3>2. d > e
      BY <3>1, <1>3, ParentBelow
    <3>3. key[b[x]] < key[b[e]] /\ c[e] = b[x]
      BY <3>1, <3>2 DEF PushStops, Pushed
    <3> QED
      BY <3>3, <2>1, <2>2, <2>5, <1>4, <1>5
  <2>6. CASE Parent(i) = x /\ e < x
    <3>1. c[x] = b[Parent(x)] /\ x > 0
      BY <2>6, <1>3 DEF Pushed
    <3>2. key[b[Parent(x)]] <= key[b[i]]
      BY <3>1, <2>6 DEF OrderedBut
    <3> QED
      BY <3>1, <3>2, <2>1, <2>6
  <2>7. CASE Parent(i) \in RootPath(x) /\ Parent(i) > e /\ Parent(i) # x
    <3>1. c[Parent(i)] = b[Parent(Parent(i))] /\ Parent(i) \in 1 .. n - 1
      BY <2>7, <1>3, <1>5 DEF Pushed
    <3>2. key[b[Parent(Parent(i))]] <= key[b[Parent(i)]]
      BY <3>1, <2>7 DEF OrderedBut
    <3>3. Parent(Parent(i)) \in 0 .. n - 1
      BY <3>1, ParentBelow
    <3> QED
      BY <3>1, <3>2, <3>3, <2>1, <2>2, <1>4, <1>5
  <2> QED
    BY <2>3, <2>4, <2>5, <2>6, <2>7, <1>3, <1>5
<1> QED
  BY <1>6, <1>7, <1>1

LEMMA RiseKeepsItems ==
    ASSUME NEW m \in Nat, NEW b, NEW x \in 0 .. m - 1, NEW key, NEW e, NEW c,
           Holds(b, m, key), Apart(b, m),
           PushStops(b, x, b[x], key, e), Pushed(b, x, b[x], e, c)
    PROVE  Apart(c, m) /\ ItemsOf(c, m) = ItemsOf(b, m)
<1>1. x \in Nat /\ Holds(b, x, key) /\ Apart(b, x) /\ b[x] \notin ItemsOf(b, x)
  BY DEF Holds, Apart, ItemsOf
<1>2. Apart(c, x + 1) /\ ItemsOf(c, x + 1) = ItemsOf(b, x) \cup {b[x]}
  BY <1>1, PushKeepsApart, PushAddsItem
<1>3. \A i \in 0 .. m - 1 : i > x => c[i] = b[i]
  <2>1. \A j \in RootPath(x) : j \in 0 .. x
    BY <1>1, PathFacts
  <2> QED
    BY <2>1 DEF Pushed, Holds
<1>4. \A i \in 0 .. x : c[i] \in ItemsOf(b, x) \cup {b[x]}
  BY <1>1, <1>2 DEF ItemsOf
<1>5. \A i \in 0 .. x : \E k \in 0 .. x : c[i] = b[k]
  <2>1. \A u \in ItemsOf(b, x) : \E k \in 0 .. x : u = b[k]
    BY DEF ItemsOf
  <2>2. x \in 0 .. x
    OBVIOUS
  <2> QED
    BY <1>4, <2>1, <2>2
<1>6. \A k \in 0 .. x : \E i \in 0 .. x : c[i] = b[k]
  <2>1. \A k \in 0 .. x : b[k] \in ItemsOf(c, x + 1)
    BY <1>1, <1>2 DEF ItemsOf
  <2> QED
    BY <2>1 DEF ItemsOf
<1>7. ASSUME NEW i \in 0 .. m - 1, NEW j \in 0 .. m - 1, c[i] = c[j], i <= j PROVE i = j
  <2>1. CASE j <= x
    BY <2>1, <1>2, <1>7, <1>1 DEF Apart
  <2>2. CASE i > x
    BY <2>2, <1>3, <1>7 DEF Apart
  <2>3. CASE i <= x /\ j > x
    <3>1. PICK k \in 0 .. x : c[i] = b[k]
      BY <2>3, <1>5
    <3>2. b[k] = b[j] /\ k \in 0 .. m - 1
      BY <3>1, <2>3, <1>3, <1>7
    <3> QED
      BY <3>2, <2>3, <3>1 DEF Apart
  <2> QED
    BY <2>1, <2>2, <2>3
<1>8. Apart(c, m)
  <2>1. ASSUME NEW i \in 0 .. m - 1, NEW j \in 0 .. m - 1, c[i] = c[j] PROVE i = j
    <3>1. i <= j \/ j <= i
      OBVIOUS
    <3> QED
      BY <3>1, <2>1, <1>7
  <2> QED
    BY <2>1 DEF Apart
<1>9. \A i \in 0 .. m - 1 : \E k \in 0 .. m - 1 : c[i] = b[k]
  <2> SUFFICES ASSUME NEW i \in 0 .. m - 1 PROVE \E k \in 0 .. m - 1 : c[i] = b[k]
    OBVIOUS
  <2>1. 0 .. x \subseteq 0 .. m - 1
    OBVIOUS
  <2>2. i \in 0 .. x \/ i > x
    OBVIOUS
  <2> QED
    BY <2>1, <2>2, <1>3, <1>5
<1>10. \A k \in 0 .. m - 1 : \E i \in 0 .. m - 1 : c[i] = b[k]
  <2> SUFFICES ASSUME NEW k \in 0 .. m - 1 PROVE \E i \in 0 .. m - 1 : c[i] = b[k]
    OBVIOUS
  <2>1. 0 .. x \subseteq 0 .. m - 1
    OBVIOUS
  <2>2. k \in 0 .. x \/ k > x
    OBVIOUS
  <2> QED
    BY <2>1, <2>2, <1>3, <1>6
<1>11. ItemsOf(c, m) = ItemsOf(b, m)
  BY <1>9, <1>10 DEF ItemsOf
<1> QED
  BY <1>8, <1>11

(* pop_by_index: a pop at x, after which what stands there may move up.     *)
LEMMA PopHolds ==
    ASSUME NEW a, NEW n, NEW x \in 0 .. n - 1, NEW v, NEW key, NEW e, NEW b,
           Ready(a, n, v, key), PopStops(a, n, x, v, key, e), Popped(a, x, v, e, b)
    PROVE  Holds(b, n, key)
<1>1. n \in Nat /\ x \in Nat /\ e \in x .. n - 1 /\ x \in RootPath(e) /\ 0 .. n - 1 \subseteq DOMAIN a
  BY DEF Ready, Holds, PopStops
<1>2. \A i \in 0 .. n - 1 : key[a[i]] \in Int
  BY DEF Ready, Holds
<1>3. ASSUME NEW i \in 0 .. n - 1 PROVE key[b[i]] \in Int
  <2>1. Filled(i, a, x, v, e, b)
    BY <1>1, PopOrigin
  <2>2. \A c \in RootPath(e) : c > x /\ c <= e => c \in 0 .. n - 1
    BY <1>1, PathFacts
  <2> QED
    BY <2>1, <2>2, <1>2 DEF Filled, Ready
<1>4. 0 .. n - 1 \subseteq DOMAIN b
  BY <1>1 DEF Popped
<1> QED
  BY <1>3, <1>4 DEF Holds

(* Where the order holds already, nothing moves.                            *)
Alike(b, c, n) == \A i \in 0 .. n - 1 : c[i] = b[i]

LEMMA RiseOfOrdered ==
    ASSUME NEW n \in Nat, NEW b, NEW x \in 0 .. n - 1, NEW key, NEW e, NEW c,
           Holds(b, n, key), HeapOrdered(b, n, key),
           PushStops(b, x, b[x], key, e), Pushed(b, x, b[x], e, c)
    PROVE  Alike(b, c, n)
<1>1. x \in Nat /\ x \in RootPath(x) /\ \A j \in RootPath(x) : j \in 0 .. x
  BY PathFacts
<1>2. e \in 0 .. x
  BY <1>1 DEF PushStops
<1>3. e = x
  <2> SUFFICES ASSUME e < x PROVE FALSE
    BY <1>2
  <2>1. key[b[x]] < key[b[Parent(x)]]
    BY <1>1 DEF PushStops
  <2>2. x \in 1 .. n - 1 /\ Parent(x) \in 0 .. n - 1
    BY <1>1, <1>2, ParentBelow
  <2>3. key[b[Parent(x)]] <= key[b[x]] /\ key[b[x]] \in Int /\ key[b[Parent(x)]] \in Int
    BY <2>2 DEF Holds, HeapOrdered
  <2> QED
    BY <2>1, <2>3
<1> QED
  BY <1>1, <1>3 DEF Pushed, Holds, Alike

(* seq[index >> 1] is not above seq[index]: then neither is its parent.     *)
LEMMA NeedNotRise ==
    ASSUME NEW n \in Nat, NEW b, NEW x \in 0 .. n - 1, NEW key, x % 2 = 1 \/ x <= 2,
           Holds(b, n, key), OrderedBut(b, n, x, key), ~GoesUp(b, x, key)
    PROVE  HeapOrdered(b, n, key)
<1>1. \A i \in 0 .. n - 1 : key[b[i]] \in Int
  BY DEF Holds
<1>2. ASSUME x > 0 PROVE key[b[Parent(x)]] <= key[b[x]]
  <2>0. x \div 2 \in 0 .. n - 1 /\ x \div 2 \in Nat
    OBVIOUS
  <2>1. key[b[x \div 2]] <= key[b[x]]
    BY <2>0, <1>1, CompareTold DEF GoesUp
  <2>2. CASE x % 2 = 1
    <3>1. Parent(x) = x \div 2
      BY <2>2 DEF Parent
    <3> QED
      BY <3>1, <2>1
  <2>3. CASE x = 1
    <3>1. x \div 2 = 0 /\ Parent(x) = 0
      BY <2>3 DEF Parent
    <3> QED
      BY <3>1, <2>1
  <2>4. CASE x = 2
    <3>1. x \div 2 = 1 /\ Parent(x) = 0 /\ Parent(1) = 0 /\ 1 \in 1 .. n - 1
      BY <2>4 DEF Parent
    <3>2. key[b[Parent(1)]] <= key[b[1]]
      BY <3>1, <2>4 DEF OrderedBut
    <3>3. 0 \in 0 .. n - 1 /\ 1 \in 0 .. n - 1
      BY <3>1
    <3> QED
      BY <3>1, <3>2, <3>3, <2>1, <1>1
  <2> QED
    BY <2>2, <2>3, <2>4, <1>2
<1> QED
  BY <1>2 DEF OrderedBut, HeapOrdered

(* What pop_by_index does, in these terms.                                  *)
Rising(b, x, key) == IF GoesUp(b, x, key) THEN PushCore(b, x, b[x], key) ELSE b

RisePath(b, x, key) == IF GoesUp(b, x, key) THEN PushPath(b, x, b[x], key) ELSE {}

LEMMA RiseTold ==
    ASSUME NEW n \in Nat, NEW b, NEW x \in 0 .. n - 1, NEW key, Holds(b, n, key)
    PROVE  /\ PushStops(b, x, b[x], key, PushEnd(b, x, b[x], key))
           /\ Pushed(b, x, b[x], PushEnd(b, x, b[x], key), PushCore(b, x, b[x], key))
<1>1. x \in Nat /\ Holds(b, x, key) /\ key[b[x]] \in Int
  BY DEF Holds
<1> QED
  BY <1>1, PushTold

LEMMA ByIndexOrder ==
    ASSUME NEW a, NEW n, NEW x \in 0 .. n - 1, NEW v, NEW key, Ready(a, n, v, key),
           HeapOrdered(a, n, key), x % 2 = 1 \/ x <= 2
    PROVE  HeapOrdered(PopByIndex(a, n, x, v, key), n, key)
<1> DEFINE e == PopEnd(a, n, x, v, key)
           b == PopCore(a, n, x, v, key)
<1>0. n \in Nat /\ Holds(a, n, key) /\ key[v] \in Int
  BY DEF Ready
<1>1. PopStops(a, n, x, v, key, e) /\ Popped(a, x, v, e, b)
  BY PopTold
<1>2. PopByIndex(a, n, x, v, key) = Rising(b, x, key)
  BY DEF PopByIndex, Rising
<1> HIDE DEF e, b
<1>3. Holds(b, n, key) /\ OrderedBut(b, n, x, key)
  BY <1>0, <1>1, PopHolds, PopKeepsOrder
<1>4. CASE GoesUp(b, x, key)
  <2>1. HeapOrdered(PushCore(b, x, b[x], key), n, key)
    BY <1>0, <1>3, RiseTold, RiseKeepsOrder
  <2> QED
    BY <2>1, <1>2, <1>4 DEF Rising
<1>5. CASE ~GoesUp(b, x, key)
  <2>1. HeapOrdered(b, n, key)
    BY <1>0, <1>3, <1>5, NeedNotRise
  <2> QED
    BY <2>1, <1>2, <1>5 DEF Rising
<1> QED
  BY <1>4, <1>5

(* The way down ends within the first m places, where the value is not.     *)
Fits(a, n, m, x, v, key) ==
    /\ m \in Nat /\ m <= n /\ x \in 0 .. m - 1
    /\ PopEnd(a, n, x, v, key) < m /\ v \notin ItemsOf(a, m)

LEMMA ByIndexItems ==
    ASSUME NEW a, NEW n, NEW m, NEW x, NEW v, NEW key,
           Ready(a, n, v, key), Fits(a, n, m, x, v, key), Apart(a, m)
    PROVE  /\ Apart(PopByIndex(a, n, x, v, key), m)
           /\ ItemsOf(PopByIndex(a, n, x, v, key), m) = (ItemsOf(a, m) \ {a[x]}) \cup {v}
<1> DEFINE e == PopEnd(a, n, x, v, key)
           b == PopCore(a, n, x, v, key)
<1>0. /\ m \in Nat /\ x \in 0 .. m - 1 /\ e < m /\ v \notin ItemsOf(a, m) /\ m <= n
      /\ n \in Nat /\ x \in 0 .. n - 1 /\ x \in Nat /\ 0 .. m - 1 \subseteq DOMAIN a
  BY DEF Ready, Holds, Fits
<1>1. PopStops(a, n, x, v, key, e) /\ Popped(a, x, v, e, b)
  BY <1>0, PopTold
<1>2. PopByIndex(a, n, x, v, key) = Rising(b, x, key)
  BY DEF PopByIndex, Rising
<1>3. e \in x .. m - 1 /\ x \in RootPath(e)
  BY <1>0, <1>1 DEF PopStops
<1> HIDE DEF e, b
<1>4. Holds(b, n, key)
  BY <1>0, <1>1, PopHolds
<1>5. Apart(b, m) /\ ItemsOf(b, m) = (ItemsOf(a, m) \ {a[x]}) \cup {v}
  BY <1>0, <1>1, <1>3, PopKeepsApart, PopLeavesRest
<1>6. Holds(b, m, key)
  BY <1>0, <1>4 DEF Holds
<1>7. CASE GoesUp(b, x, key)
  <2>1. /\ Apart(PushCore(b, x, b[x], key), m)
        /\ ItemsOf(PushCore(b, x, b[x], key), m) = ItemsOf(b, m)
    <3> DEFINE o == PushEnd(b, x, b[x], key)
               c == PushCore(b, x, b[x], key)
    <3>1. PushStops(b, x, b[x], key, o) /\ Pushed(b, x, b[x], o, c)
      BY <1>0, <1>6, RiseTold
    <3> HIDE DEF o, c
    <3>2. Apart(c, m) /\ ItemsOf(c, m) = ItemsOf(b, m)
      BY <3>1, <1>0, <1>5, <1>6, RiseKeepsItems
    <3> QED
      BY <3>2 DEF c
  <2> QED
    BY <2>1, <1>2, <1>5, <1>7 DEF Rising
<1>8. CASE ~GoesUp(b, x, key)
  BY <1>2, <1>5, <1>8 DEF Rising
<1> QED
  BY <1>7, <1>8

(* Places that are not written keep what they hold.                         *)
WrittenBy(a, n, x, v, key) ==
    PopPath(a, n, x, v, key) \cup RisePath(PopCore(a, n, x, v, key), x, key)

LEMMA ByIndexKeeps ==
    ASSUME NEW a, NEW n, NEW x \in 0 .. n - 1, NEW v, NEW key, Ready(a, n, v, key)
    PROVE  /\ \A i \in WrittenBy(a, n, x, v, key) :
                i \in Nat /\ (i <= x \/ i <= PopEnd(a, n, x, v, key))
           /\ \A i \in 0 .. n - 1 :
                i \notin WrittenBy(a, n, x, v, key) => PopByIndex(a, n, x, v, key)[i] = a[i]
<1> DEFINE e == PopEnd(a, n, x, v, key)
           b == PopCore(a, n, x, v, key)
           o == PushEnd(b, x, b[x], key)
           written == PopPath(a, n, x, v, key) \cup RisePath(b, x, key)
           c == PopByIndex(a, n, x, v, key)
<1>0. n \in Nat /\ x \in Nat /\ 0 .. n - 1 \subseteq DOMAIN a
  BY DEF Ready, Holds
<1>1. /\ PopStops(a, n, x, v, key, e) /\ Popped(a, x, v, e, b)
      /\ PopPath(a, n, x, v, key) = Way(x, e)
  BY PopTold
<1>2. c = Rising(b, x, key)
  BY DEF PopByIndex, Rising
<1>3. RisePath(b, x, key) = IF GoesUp(b, x, key) THEN Way(o, x) ELSE {}
  BY DEF RisePath, PushPath, Way
<1> HIDE DEF e, b, c, o
<1>4. e \in Nat /\ e <= n - 1
  BY <1>0, <1>1 DEF PopStops
<1>5. Holds(b, n, key)
  BY <1>0, <1>1, PopHolds
<1>6. PushStops(b, x, b[x], key, o) /\ Pushed(b, x, b[x], o, PushCore(b, x, b[x], key))
  BY <1>0, <1>5, RiseTold DEF o
<1>7. (\A i \in RootPath(x) : i \in 0 .. x) /\ (\A i \in RootPath(e) : i \in 0 .. e) /\ o \in 0 .. x
  BY <1>0, <1>4, <1>6, PathFacts DEF PushStops
<1>8. ASSUME NEW i \in written PROVE i \in Nat /\ (i <= x \/ i <= e)
  BY <1>1, <1>3, <1>7 DEF Way
<1>9. ASSUME NEW i \in 0 .. n - 1, i \notin written PROVE c[i] = a[i]
  <2>1. i \notin RootPath(e) \/ i < x
    BY <1>0, <1>1, <1>9 DEF Way
  <2>2. i \in DOMAIN a /\ i \in DOMAIN b /\ b[i] = a[i]
    BY <2>1, <1>0, <1>1 DEF Popped
  <2>3. CASE GoesUp(b, x, key)
    <3>1. i \notin RootPath(x) \/ i < o
      BY <2>3, <1>3, <1>7, <1>9 DEF Way
    <3>2. PushCore(b, x, b[x], key)[i] = b[i]
      BY <3>1, <2>2, <1>6 DEF Pushed
    <3> QED
      BY <3>2, <2>2, <2>3, <1>2 DEF Rising
  <2>4. CASE ~GoesUp(b, x, key)
    BY <2>2, <2>4, <1>2 DEF Rising
  <2> QED
    BY <2>3, <2>4
<1> QED
  BY <1>8, <1>9 DEF e, b, c, WrittenBy

(* The last item fills the hole: it is not reached on the way down.         *)
LEMMA LastStays ==
    ASSUME NEW a, NEW n, NEW x \in 0 .. n - 2, NEW key, Ready(a, n, a[n - 1], key)
    PROVE  PopEnd(a, n, x, a[n - 1], key) < n - 1
<1> DEFINE e == PopEnd(a, n, x, a[n - 1], key)
<1>0. n \in Nat /\ x \in 0 .. n - 1 /\ key[a[n - 1]] \in Int
  BY DEF Ready
<1>1. PopStops(a, n, x, a[n - 1], key, e)
  BY <1>0, PopTold
<1> HIDE DEF e
<1>2. e \in Nat /\ e <= n - 1 /\ e \in RootPath(e)
  BY <1>0, <1>1, PathFacts DEF PopStops
<1>3. e # n - 1
  <2> SUFFICES ASSUME e = n - 1 PROVE FALSE
    OBVIOUS
  <2>1. key[a[e]] < key[a[n - 1]]
    BY <1>0, <1>1, <1>2 DEF PopStops
  <2> QED
    BY <2>1, <1>0
<1> QED
  BY <1>2, <1>3, <1>0 DEF e

(* The last item itself is taken: the others stay where they are.           *)
LEMMA TakeLast ==
    ASSUME NEW a, NEW n, NEW x \in 0 .. n - 1, x = n - 1, NEW key,
           Ready(a, n, a[n - 1], key), HeapOrdered(a, n, key)
    PROVE  \A i \in 0 .. n - 1 : PopByIndex(a, n, x, a[n - 1], key)[i] = a[i]
<1> DEFINE v == a[n - 1]
           e == PopEnd(a, n, x, v, key)
           b == PopCore(a, n, x, v, key)
<1>0. n \in Nat /\ x \in 0 .. n - 1 /\ x \in Nat /\ Holds(a, n, key)
  BY DEF Ready
<1>1. PopStops(a, n, x, v, key, e) /\ Popped(a, x, v, e, b)
  BY <1>0, PopTold
<1>2. PopByIndex(a, n, x, v, key) = Rising(b, x, key)
  BY DEF PopByIndex, Rising
<1> HIDE DEF e, b
<1>3. e = x
  BY <1>0, <1>1 DEF PopStops
<1>4. \A i \in 0 .. n - 1 : b[i] = a[i]
  BY <1>0, <1>1, <1>3 DEF Popped, Holds
<1>5. Holds(b, n, key) /\ HeapOrdered(b, n, key)
  <2>1. Holds(b, n, key)
    BY <1>0, <1>1, PopHolds
  <2>2. \A i \in 1 .. n - 1 : b[i] = a[i] /\ b[Parent(i)] = a[Parent(i)]
    BY <1>0, <1>4, ParentBelow
  <2>3. HeapOrdered(b, n, key)
    BY <2>2 DEF HeapOrdered
  <2> QED
    BY <2>1, <2>3
<1>6. CASE GoesUp(b, x, key)
  <2>1. \A i \in 0 .. n - 1 : PushCore(b, x, b[x], key)[i] = b[i]
    <3> DEFINE o == PushEnd(b, x, b[x], key)
               c == PushCore(b, x, b[x], key)
    <3>1. PushStops(b, x, b[x], key, o) /\ Pushed(b, x, b[x], o, c)
      BY <1>0, <1>5, RiseTold
    <3> HIDE DEF o, c
    <3>2. Alike(b, c, n)
      BY <3>1, <1>0, <1>5, RiseOfOrdered
    <3> QED
      BY <3>2 DEF c, Alike
  <2> QED
    BY <2>1, <1>2, <1>4, <1>6 DEF Rising
<1>7. CASE ~GoesUp(b, x, key)
  BY <1>2, <1>4, <1>7 DEF Rising
<1> QED
  BY <1>6, <1>7

(* The first item of a heap is the least.                                   *)
LEMMA FirstIsLeast ==
    ASSUME NEW n \in Nat, NEW a, NEW key, Holds(a, n, key), HeapOrdered(a, n, key),
           NEW i \in 0 .. n - 1
    PROVE  key[a[0]] <= key[a[i]]
<1> DEFINE S == {k \in Nat : \A j \in 0 .. k : j < n => key[a[0]] <= key[a[j]]}
<1>1. \A j \in 0 .. n - 1 : key[a[j]] \in Int
  BY DEF Holds
<1>2. 0 \in 0 .. n - 1 /\ i \in Nat
  OBVIOUS
<1>3. 0 \in S
  BY <1>1, <1>2
<1>4. ASSUME NEW k \in Nat, k \in S PROVE k + 1 \in S
  <2>1. ASSUME k + 1 < n PROVE key[a[0]] <= key[a[k + 1]]
    <3>1. Parent(k + 1) \in 0 .. k /\ k + 1 \in 1 .. n - 1
      BY <2>1, ParentBelow
    <3>2. key[a[Parent(k + 1)]] <= key[a[k + 1]]
      BY <3>1 DEF HeapOrdered
    <3>3. key[a[0]] <= key[a[Parent(k + 1)]]
      BY <3>1, <2>1, <1>4
    <3>4. key[a[0]] \in Int /\ key[a[Parent(k + 1)]] \in Int /\ key[a[k + 1]] \in Int
      BY <1>1, <1>2, <3>1
    <3> QED
      BY <3>2, <3>3, <3>4
  <2>2. \A j \in 0 .. k + 1 : j \in 0 .. k \/ j = k + 1
    OBVIOUS
  <2> QED
    BY <1>4, <2>1, <2>2
<1>5. i \in S
  <2> HIDE DEF S
  <2> QED
    BY <1>2, <1>3, <1>4, Upwards
<1> QED
  BY <1>5

(* What a push and a pop leave, where nothing is known of the order.        *)
FullOf(a, n, T, D) ==
    n \in Nat /\ D \subseteq DOMAIN a /\ 0 .. n - 1 \subseteq D /\ \A i \in D : a[i] \in T

FullBut(a, n, x, T, D) ==
    /\ n \in Nat /\ x \in 0 .. n - 1 /\ D \subseteq DOMAIN a /\ 0 .. n - 1 \subseteq D
    /\ \A i \in D : i # x => a[i] \in T

PushLeaves(a, n, v, key, T, D) ==
    /\ PushPath(a, n, v, key) \subseteq 0 .. n
    /\ DOMAIN PushCore(a, n, v, key) = DOMAIN a \cup {n}
    /\ \A i \in D \cup {n} : PushCore(a, n, v, key)[i] \in T

PopLeaves(a, n, x, v, key, T, D) ==
    /\ PopPath(a, n, x, v, key) \subseteq 0 .. n - 1
    /\ DOMAIN PopCore(a, n, x, v, key) = DOMAIN a
    /\ \A i \in D : PopCore(a, n, x, v, key)[i] \in T

LEMMA PushValues ==
    ASSUME NEW n, NEW a, NEW T, NEW v \in T, NEW key, NEW D, FullOf(a, n, T, D)
    PROVE  PushLeaves(a, n, v, key, T, D)
<1> DEFINE S == {i \in RootPath(n) : i = 0 \/ Compare(key, a[Parent(i)], v) <= 0}
           e == PushEnd(a, n, v, key)
           path == PushPath(a, n, v, key)
           b == PushCore(a, n, v, key)
<1> USE DEF FullOf
<1>1. S \in SUBSET (0 .. n) /\ 0 \in S
  BY PathFacts, PathHasRoot
<1>2. e \in 0 .. n
  <2>1. e = Largest(S)
    BY DEF PushEnd
  <2> HIDE DEF S, e
  <2> QED
    BY <1>1, <2>1, LargestFound
<1>3. path \subseteq 0 .. n /\ \A i \in path : e <= i
  BY PathFacts DEF PushPath
<1>4. b = [i \in DOMAIN a \cup {n} |->
              IF i \notin path THEN a[i] ELSE IF i = e THEN v ELSE a[Parent(i)]]
  BY DEF PushCore
<1>5. n \in path
  BY <1>2, PathFacts DEF PushPath
<1> HIDE DEF e, path, b
<1>6. ASSUME NEW i \in D \cup {n} PROVE b[i] \in T
  <2>0. i \in DOMAIN a \cup {n}
    OBVIOUS
  <2>1. CASE i \notin path
    BY <2>0, <2>1, <1>4, <1>5
  <2>2. CASE i = e /\ i \in path
    BY <2>0, <2>2, <1>4
  <2>3. CASE i # e /\ i \in path
    <3>1. i \in 0 .. n /\ i > 0
      BY <1>2, <1>3, <2>3
    <3>2. Parent(i) \in 0 .. n - 1
      BY <3>1, ParentBelow
    <3> QED
      BY <2>0, <2>3, <3>2, <1>4
  <2> QED
    BY <2>1, <2>2, <2>3
<1>7. DOMAIN b = DOMAIN a \cup {n}
  BY <1>4
<1> QED
  BY <1>3, <1>6, <1>7 DEF path, b, PushLeaves

LEMMA PopValues ==
    ASSUME NEW n, NEW x, NEW a, NEW T, NEW v \in T, NEW key, NEW D, FullBut(a, n, x, T, D)
    PROVE  PopLeaves(a, n, x, v, key, T, D)
<1> DEFINE e == PopEnd(a, n, x, v, key)
           path == PopPath(a, n, x, v, key)
           b == PopCore(a, n, x, v, key)
<1> USE DEF FullBut
<1>1. path \subseteq x .. n - 1 /\ x \in path
  <2>1. x \in RootPath(x) /\ \A j \in RootPath(x) : j \in 0 .. x
    BY PathFacts
  <2> QED
    BY <2>1 DEF PopPath
<1>2. e = Largest(path)
  BY DEF PopEnd
<1>3. b = [i \in DOMAIN a |->
              IF i \notin path THEN a[i] ELSE IF i = e THEN v ELSE a[Smallest({j \in path : j > i})]]
  BY DEF PopCore
<1> HIDE DEF e, path, b
<1>4. e \in path /\ \A j \in path : j <= e
  <2>1. path \in SUBSET (0 .. n) /\ path # {}
    BY <1>1
  <2> QED
    BY <2>1, <1>2, LargestFound
<1>5. ASSUME NEW i \in D PROVE b[i] \in T
  <2>1. CASE i \notin path
    BY <2>1, <1>1, <1>3
  <2>2. CASE i = e /\ i \in path
    BY <2>2, <1>3
  <2>3. CASE i # e /\ i \in path
    <3> DEFINE R == {j \in path : j > i}
    <3>1. R \in SUBSET Nat /\ R # {}
      <4>1. e > i
        BY <1>1, <1>4, <2>3
      <4>2. e \in R
        BY <4>1, <1>4
      <4>3. \A j \in path : j \in Nat
        BY <1>1
      <4> QED
        BY <4>2, <4>3
    <3>2. Smallest(R) \in R
      <4> HIDE DEF R
      <4> QED
        BY <3>1, Least DEF Smallest
    <3>3. Smallest(R) \in 0 .. n - 1 /\ Smallest(R) # x
      <4> DEFINE m == Smallest(R)
      <4>1. m \in path /\ m > i
        BY <3>2
      <4> HIDE DEF m
      <4>2. m \in x .. n - 1 /\ i \in x .. n - 1
        BY <4>1, <1>1, <2>3
      <4>3. m \in 0 .. n - 1 /\ m # x
        BY <4>1, <4>2
      <4> QED
        BY <4>3 DEF m
    <3>4. b[i] = a[Smallest(R)]
      BY <2>3, <1>3
    <3> HIDE DEF R
    <3> QED
      BY <3>3, <3>4
  <2> QED
    BY <2>1, <2>2, <2>3
<1>6. DOMAIN b = DOMAIN a
  BY <1>3
<1>7. path \subseteq 0 .. n - 1
  BY <1>1
<1> QED
  BY <1>5, <1>6, <1>7 DEF path, b, PopLeaves
(* The heap of a program: types, whatever was called.                       *)
HeapFacts(v) ==
    /\ count \in Nat /\ heap \in [0 .. count - 1 -> HeapItem] /\ v \in HeapItem
    /\ Ready(heap, count, v, HeapKey) /\ FullOf(heap, count, HeapItem, 0 .. count - 1)

LEMMA HeapTells ==
    ASSUME HeapTypeOK, NEW v \in HeapItem
    PROVE  HeapFacts(v)
<1>1. /\ count \in Nat /\ heap \in [0 .. count - 1 -> HeapItem]
      /\ \A i \in 0 .. count - 1 : heap[i] \in HeapItem /\ HeapKey[heap[i]] \in Int
  BY HeapAssumption DEF HeapTypeOK
<1>2. Holds(heap, count, HeapKey) /\ HeapKey[v] \in Int
  BY <1>1, HeapAssumption DEF Holds
<1> QED
  BY <1>1, <1>2 DEF HeapFacts, Ready, FullOf

LEMMA BecomesTyped ==
    ASSUME HeapTypeOK, NEW a, NEW n \in 0 .. MaxHeap, NEW written \in SUBSET Nat,
           NEW holds \in SUBSET HeapItem, \A i \in 0 .. n - 1 : a[i] \in HeapItem,
           Becomes(a, n, written, holds), strayed' \in BOOLEAN
    PROVE  HeapTypeOK'
<1>1. \A v \in HeapItem : Placed(a, written, v) \in Nat
  <2> SUFFICES ASSUME NEW v \in HeapItem PROVE Placed(a, written, v) \in Nat
    OBVIOUS
  <2>1. position[v] \in Nat
    BY DEF HeapTypeOK
  <2>2. ASSUME \E i \in written : a[i] = v
        PROVE  (CHOOSE i \in written : a[i] = v) \in Nat
    BY <2>2
  <2> QED
    BY <2>1, <2>2 DEF Placed
<1>2. position' \in [HeapItem -> Nat]
  BY <1>1 DEF Becomes
<1> QED
  BY <1>2 DEF Becomes, HeapTypeOK

LEMMA TypesPush ==
    ASSUME HeapTypeOK, NEW v \in HeapItem, PushItem(v)
    PROVE  HeapTypeOK'
<1> DEFINE a == PushCore(heap, count, v, HeapKey)
           written == PushPath(heap, count, v, HeapKey)
<1>1. HeapFacts(v)
  BY HeapTells
<1>2. PushLeaves(heap, count, v, HeapKey, HeapItem, 0 .. count - 1)
  BY <1>1, PushValues DEF HeapFacts
<1>3. count \in Nat /\ count < MaxHeap /\ Becomes(a, count + 1, written, held \cup {v}) /\ strayed' = strayed
  BY <1>1 DEF PushItem, HeapFacts
<1>4. /\ \A i \in 0 .. count + 1 - 1 : a[i] \in HeapItem
      /\ written \in SUBSET Nat /\ count + 1 \in 0 .. MaxHeap
  <2>1. \A i \in 0 .. count + 1 - 1 : i \in 0 .. count - 1 \/ i = count
    BY <1>3
  <2>2. (\A i \in 0 .. count - 1 \cup {count} : a[i] \in HeapItem) /\ written \subseteq 0 .. count
    BY <1>2 DEF PushLeaves
  <2> HIDE DEF a, written
  <2> QED
    BY <2>1, <2>2, <1>3, HeapAssumption
<1>5. held \cup {v} \in SUBSET HeapItem /\ strayed \in BOOLEAN
  BY DEF HeapTypeOK
<1> HIDE DEF a, written
<1> QED
  BY <1>3, <1>4, <1>5, BecomesTyped

(* ... of a pop at x that leaves n items.                                   *)
LEMMA ByIndexValues ==
    ASSUME HeapTypeOK, NEW v \in HeapItem, NEW x \in 0 .. count - 1
    PROVE  /\ PopPath(heap, count, x, v, HeapKey) \subseteq 0 .. count - 1
           /\ WrittenAt(x, v) \subseteq 0 .. count - 1
           /\ \A i \in 0 .. count - 1 :
                /\ PopCore(heap, count, x, v, HeapKey)[i] \in HeapItem
                /\ PopByIndex(heap, count, x, v, HeapKey)[i] \in HeapItem
<1> DEFINE b == PopCore(heap, count, x, v, HeapKey)
           D == 0 .. count - 1
<1>0. HeapFacts(v)
  BY HeapTells
<1>1. count \in Nat /\ x \in Nat /\ x \in D /\ DOMAIN heap = D
  BY <1>0 DEF HeapFacts
<1>2. FullBut(heap, count, x, HeapItem, D)
  BY <1>0 DEF HeapFacts, FullOf, FullBut
<1>3. PopLeaves(heap, count, x, v, HeapKey, HeapItem, D)
  BY <1>2, PopValues
<1>4. DOMAIN b = D /\ \A i \in D : b[i] \in HeapItem
  BY <1>1, <1>3 DEF PopLeaves
<1> HIDE DEF b
<1>5. FullOf(b, x, HeapItem, D) /\ b[x] \in HeapItem
  <2>1. 0 .. x - 1 \subseteq D
    BY <1>1
  <2> QED
    BY <2>1, <1>1, <1>4 DEF FullOf
<1>6. PushLeaves(b, x, b[x], HeapKey, HeapItem, D)
  BY <1>5, PushValues
<1>7. WrittenAt(x, v) = PopPath(heap, count, x, v, HeapKey) \cup RisePath(b, x, HeapKey)
  BY DEF WrittenAt, RisePath, b
<1>8. RisePath(b, x, HeapKey) \subseteq D
  <2>1. 0 .. x \subseteq D
    BY <1>1
  <2> QED
    BY <2>1, <1>6 DEF RisePath, PushLeaves
<1>9. PopByIndex(heap, count, x, v, HeapKey) = Rising(b, x, HeapKey)
  BY DEF PopByIndex, Rising, b
<1>10. \A i \in D : Rising(b, x, HeapKey)[i] \in HeapItem
  BY <1>4, <1>6 DEF Rising, PushLeaves
<1> QED
  BY <1>3, <1>4, <1>7, <1>8, <1>9, <1>10 DEF PopLeaves, b

LEMMA LastIs ==
    ASSUME HeapTypeOK, count > 0
    PROVE  /\ Last = heap[count - 1] /\ Last \in HeapItem
           /\ count \in Nat /\ count - 1 \in 0 .. count - 1 /\ 0 \in 0 .. count - 1
           /\ count \in 0 .. MaxHeap /\ count - 1 \in 0 .. MaxHeap
<1>1. count \in 0 .. MaxHeap /\ MaxHeap \in Nat
  BY HeapAssumption DEF HeapTypeOK
<1> QED
  BY <1>1 DEF HeapTypeOK, Last

LEMMA TypesPop ==
    ASSUME HeapTypeOK, PopFirst \/ \E v \in HeapItem : ReplaceFirst(v)
    PROVE  HeapTypeOK'
<1>0. count > 0
  BY DEF PopFirst, ReplaceFirst
<1>1. /\ count \in Nat /\ 0 \in 0 .. count - 1 /\ Last \in HeapItem /\ Last = heap[count - 1]
      /\ count \in 0 .. MaxHeap /\ count - 1 \in 0 .. MaxHeap
  BY <1>0, LastIs
<1>2. held \subseteq HeapItem /\ strayed \in BOOLEAN
  BY DEF HeapTypeOK
<1>3. ASSUME NEW n \in 0 .. MaxHeap, n <= count, NEW v \in HeapItem, NEW holds \in SUBSET HeapItem,
             Becomes(PopCore(heap, count, 0, v, HeapKey), n, PopPath(heap, count, 0, v, HeapKey), holds),
             strayed' = strayed
      PROVE  HeapTypeOK'
  <2>1. /\ PopPath(heap, count, 0, v, HeapKey) \subseteq 0 .. count - 1
        /\ \A i \in 0 .. count - 1 : PopCore(heap, count, 0, v, HeapKey)[i] \in HeapItem
    BY <1>1, ByIndexValues
  <2>2. 0 .. n - 1 \subseteq 0 .. count - 1 /\ 0 .. count - 1 \subseteq Nat
    BY <1>1, <1>3, HeapAssumption
  <2>3. /\ \A i \in 0 .. n - 1 : PopCore(heap, count, 0, v, HeapKey)[i] \in HeapItem
        /\ PopPath(heap, count, 0, v, HeapKey) \in SUBSET Nat
    BY <2>1, <2>2
  <2> QED
    BY <2>3, <1>2, <1>3, BecomesTyped
<1>4. CASE PopFirst
  <2>1. /\ Becomes(PopCore(heap, count, 0, Last, HeapKey), count - 1,
                   PopPath(heap, count, 0, Last, HeapKey), held \ {heap[0]})
        /\ strayed' = strayed
    BY <1>1, <1>4 DEF PopFirst, Pop
  <2>2. held \ {heap[0]} \in SUBSET HeapItem /\ count - 1 <= count
    BY <1>1, <1>2
  <2> QED
    BY <2>1, <2>2, <1>1, <1>3
<1>5. CASE \E v \in HeapItem : ReplaceFirst(v)
  <2>1. PICK v \in HeapItem : ReplaceFirst(v)
    BY <1>5
  <2>2. /\ Becomes(PopCore(heap, count, 0, v, HeapKey), count,
                   PopPath(heap, count, 0, v, HeapKey), (held \ {heap[0]}) \cup {v})
        /\ strayed' = strayed
    BY <2>1 DEF ReplaceFirst
  <2>3. (held \ {heap[0]}) \cup {v} \in SUBSET HeapItem /\ count <= count
    BY <1>1, <1>2
  <2> QED
    BY <2>2, <2>3, <1>1, <1>3
<1> QED
  BY <1>4, <1>5

LEMMA RolledIn ==
    ASSUME HeapTypeOK, NEW given \in -count .. count - 1
    PROVE  Rolled(given) \in 0 .. count - 1 /\ count > 0
<1>1. count \in Nat
  BY HeapAssumption DEF HeapTypeOK
<1> QED
  BY <1>1 DEF Rolled

LEMMA TypesByIndex ==
    ASSUME HeapTypeOK, NEW given \in -count .. count - 1,
           PopAt(given) \/ \E v \in HeapItem : ReplaceAt(given, v)
    PROVE  HeapTypeOK'
<1> DEFINE x == Rolled(given)
<1>1. x \in 0 .. count - 1 /\ count > 0
  BY RolledIn
<1>2. /\ count \in Nat /\ Last \in HeapItem
      /\ count \in 0 .. MaxHeap /\ count - 1 \in 0 .. MaxHeap
  BY <1>1, LastIs
<1>3. held \subseteq HeapItem /\ strayed \in BOOLEAN /\ Strays(x) \in BOOLEAN
  BY DEF HeapTypeOK, Strays
<1> HIDE DEF x
<1>4. ASSUME NEW n \in 0 .. MaxHeap, n <= count, NEW v \in HeapItem, NEW holds \in SUBSET HeapItem,
             Becomes(PopByIndex(heap, count, x, v, HeapKey), n, WrittenAt(x, v), holds),
             strayed' \in BOOLEAN
      PROVE  HeapTypeOK'
  <2>1. /\ WrittenAt(x, v) \subseteq 0 .. count - 1
        /\ \A i \in 0 .. count - 1 : PopByIndex(heap, count, x, v, HeapKey)[i] \in HeapItem
    BY <1>1, ByIndexValues
  <2>2. 0 .. n - 1 \subseteq 0 .. count - 1 /\ 0 .. count - 1 \subseteq Nat
    BY <1>2, <1>4, HeapAssumption
  <2>3. /\ \A i \in 0 .. n - 1 : PopByIndex(heap, count, x, v, HeapKey)[i] \in HeapItem
        /\ WrittenAt(x, v) \in SUBSET Nat
    BY <2>1, <2>2
  <2> QED
    BY <2>3, <1>4, BecomesTyped
<1>5. CASE PopAt(given)
  <2>1. /\ Becomes(PopByIndex(heap, count, x, Last, HeapKey), count - 1,
                   WrittenAt(x, Last), held \ {heap[x]})
        /\ strayed' = (strayed \/ Strays(x))
    BY <1>5 DEF PopAt, x
  <2>2. held \ {heap[x]} \in SUBSET HeapItem /\ count - 1 <= count /\ strayed' \in BOOLEAN
    BY <2>1, <1>2, <1>3
  <2> QED
    BY <2>1, <2>2, <1>2, <1>4
<1>6. CASE \E v \in HeapItem : ReplaceAt(given, v)
  <2>1. PICK v \in HeapItem : ReplaceAt(given, v)
    BY <1>6
  <2>2. /\ Becomes(PopByIndex(heap, count, x, v, HeapKey), count,
                   WrittenAt(x, v), (held \ {heap[x]}) \cup {v})
        /\ strayed' = (strayed \/ Strays(x))
    BY <2>1 DEF ReplaceAt, x
  <2>3. (held \ {heap[x]}) \cup {v} \in SUBSET HeapItem /\ count <= count /\ strayed' \in BOOLEAN
    BY <2>2, <1>2, <1>3
  <2> QED
    BY <2>2, <2>3, <1>2, <1>4
<1> QED
  BY <1>5, <1>6

LEMMA HeapTypesStep == HeapTypeOK /\ [HeapNext]_heapVars => HeapTypeOK'
<1> SUFFICES ASSUME HeapTypeOK, [HeapNext]_heapVars PROVE HeapTypeOK'
  OBVIOUS
<1>1. CASE \E v \in HeapItem : PushItem(v)
  BY <1>1, TypesPush
<1>2. CASE PopFirst \/ \E v \in HeapItem : ReplaceFirst(v)
  BY <1>2, TypesPop
<1>3. CASE \E given \in -count .. count - 1 :
             PopAt(given) \/ \E v \in HeapItem : ReplaceAt(given, v)
  BY <1>3, TypesByIndex
<1>4. CASE UNCHANGED heapVars
  BY <1>4 DEF heapVars, HeapTypeOK
<1> QED
  BY <1>1, <1>2, <1>3, <1>4 DEF HeapNext

LEMMA HeapTypesInit == HeapInit => HeapTypeOK
<1> SUFFICES ASSUME HeapInit PROVE HeapTypeOK
  OBVIOUS
<1>1. heap \in [0 .. count - 1 -> HeapItem]
  BY DEF HeapInit
<1>2. position \in [HeapItem -> Nat] /\ held \subseteq HeapItem /\ strayed \in BOOLEAN
  BY DEF HeapInit
<1>3. count \in 0 .. MaxHeap
  BY HeapAssumption DEF HeapInit
<1> QED
  BY <1>1, <1>2, <1>3 DEF HeapTypeOK

(* The heap is filed: the items that are held, each once and at the place   *)
(* it knows, in order.                                                      *)
Filed(a, n, holds, positions) ==
    /\ Apart(a, n) /\ ItemsOf(a, n) = holds /\ HeapOrdered(a, n, HeapKey)
    /\ \A i \in 0 .. n - 1 : positions[a[i]] = i

HeapInv == HeapTypeOK /\ (~strayed => Filed(heap, count, held, position))

(* What an operation has to leave, for the heap to be filed: the items are  *)
(* apart in the first w places, which are all that it wrote.                *)
Leaves(a, n, w, written, holds) ==
    /\ n \in Nat /\ w \in Nat /\ n <= w /\ written \subseteq 0 .. w - 1
    /\ Apart(a, w) /\ ItemsOf(a, n) = holds /\ HeapOrdered(a, n, HeapKey)
    /\ holds \subseteq HeapItem
    /\ \A i \in 0 .. n - 1 : i \notin written => i < count /\ a[i] = heap[i]

LEMMA FiledBecomes ==
    ASSUME HeapInv, ~strayed, NEW a, NEW n, NEW w, NEW written, NEW holds,
           Leaves(a, n, w, written, holds), Becomes(a, n, written, holds)
    PROVE  Filed(heap', count', held', position')
<1>1. /\ n \in Nat /\ w \in Nat /\ n <= w /\ written \subseteq 0 .. w - 1
      /\ \A i, j \in 0 .. w - 1 : a[i] = a[j] => i = j
      /\ ItemsOf(a, n) = holds /\ HeapOrdered(a, n, HeapKey) /\ holds \subseteq HeapItem
      /\ \A i \in 0 .. n - 1 : i \notin written => i < count /\ a[i] = heap[i]
  BY DEF Leaves, Apart
<1>2. heap' = [i \in 0 .. n - 1 |-> a[i]] /\ count' = n /\ held' = holds
  BY DEF Becomes
<1>3. Apart(heap', n)
  BY <1>1, <1>2 DEF Apart
<1>4. ItemsOf(heap', n) = holds
  BY <1>1, <1>2 DEF ItemsOf
<1>5. HeapOrdered(heap', n, HeapKey)
  <2> SUFFICES ASSUME NEW i \in 1 .. n - 1
               PROVE  HeapKey[heap'[Parent(i)]] <= HeapKey[heap'[i]]
    BY DEF HeapOrdered
  <2>1. i \in 0 .. n - 1 /\ Parent(i) \in 0 .. n - 1
    BY <1>1, ParentBelow
  <2> QED
    BY <2>1, <1>1, <1>2 DEF HeapOrdered
<1>6. ASSUME NEW i \in 0 .. n - 1 PROVE position'[a[i]] = i
  <2>1. a[i] \in holds /\ a[i] \in HeapItem
    BY <1>1 DEF ItemsOf
  <2>2. position'[a[i]] = Placed(a, written, a[i])
    BY <2>1 DEF Becomes
  <2>3. i \in 0 .. w - 1
    BY <1>1
  <2>4. CASE i \in written
    <3>1. \A j \in written : a[j] = a[i] => j = i
      BY <2>3, <1>1
    <3> QED
      BY <2>2, <2>4, <3>1 DEF Placed
  <2>5. CASE i \notin written
    <3>1. ~\E j \in written : a[j] = a[i]
      BY <2>3, <2>5, <1>1
    <3>2. a[i] = heap[i] /\ i \in 0 .. count - 1
      BY <2>5, <1>1, HeapAssumption DEF HeapInv, HeapTypeOK
    <3>3. position[heap[i]] = i
      BY <3>2 DEF HeapInv, Filed
    <3> QED
      BY <2>2, <3>1, <3>2, <3>3 DEF Placed
  <2> QED
    BY <2>4, <2>5
<1>7. \A i \in 0 .. n - 1 : position'[heap'[i]] = i
  BY <1>2, <1>6
<1> QED
  BY <1>2, <1>3, <1>4, <1>5, <1>7 DEF Filed

(* What the invariant says, with an item at hand.                           *)
FiledFacts(v) ==
    /\ HeapFacts(v) /\ Holds(heap, count, HeapKey) /\ HeapKey[v] \in Int
    /\ Apart(heap, count) /\ ItemsOf(heap, count) = held /\ HeapOrdered(heap, count, HeapKey)
    /\ held \subseteq HeapItem /\ 0 .. count - 1 \subseteq DOMAIN heap

LEMMA FiledTells ==
    ASSUME HeapInv, ~strayed, NEW v \in HeapItem
    PROVE  FiledFacts(v)
<1>1. HeapTypeOK /\ Filed(heap, count, held, position)
  BY DEF HeapInv
<1>2. HeapFacts(v)
  BY <1>1, HeapTells
<1>3. Holds(heap, count, HeapKey) /\ HeapKey[v] \in Int /\ 0 .. count - 1 \subseteq DOMAIN heap
  BY <1>2 DEF HeapFacts, Ready, Holds
<1> QED
  BY <1>1, <1>2, <1>3 DEF Filed, FiledFacts, HeapTypeOK

LEMMA FiledPush ==
    ASSUME HeapInv, ~strayed, NEW v \in HeapItem, PushItem(v)
    PROVE  Filed(heap', count', held', position')
<1> DEFINE e == PushEnd(heap, count, v, HeapKey)
           a == PushCore(heap, count, v, HeapKey)
           written == PushPath(heap, count, v, HeapKey)
           n == count + 1
<1>1. FiledFacts(v) /\ count \in Nat
  BY FiledTells DEF FiledFacts, HeapFacts
<1>2. Holds(heap, count, HeapKey) /\ HeapKey[v] \in Int
  BY <1>1 DEF FiledFacts
<1>3. PushStops(heap, count, v, HeapKey, e) /\ Pushed(heap, count, v, e, a)
  BY <1>1, <1>2, PushTold
<1>4. written = {i \in RootPath(count) : i >= e}
  BY DEF PushPath
<1>5. v \notin held /\ Becomes(a, n, written, held \cup {v})
  BY DEF PushItem
<1> HIDE DEF e, a, written
<1>6. Apart(a, n) /\ ItemsOf(a, n) = held \cup {v} /\ HeapOrdered(a, n, HeapKey)
  BY <1>1, <1>2, <1>3, <1>5, PushKeepsApart, PushAddsItem, PushKeepsOrder DEF FiledFacts
<1>7. /\ n \in Nat /\ n <= n /\ written \subseteq 0 .. n - 1
      /\ \A i \in 0 .. n - 1 : i \notin written => i < count /\ a[i] = heap[i]
  <2>1. (\A j \in RootPath(count) : j \in 0 .. count) /\ count \in RootPath(count)
    BY <1>1, PathFacts
  <2>2. e \in 0 .. count
    BY <2>1, <1>3 DEF PushStops
  <2>3. written \subseteq 0 .. n - 1
    BY <2>1, <1>1, <1>4
  <2>4. ASSUME NEW i \in 0 .. n - 1, i \notin written PROVE i < count /\ a[i] = heap[i]
    <3>1. i \notin RootPath(count) \/ i < e
      BY <2>2, <2>4, <1>1, <1>4
    <3>2. i # count
      BY <3>1, <2>1, <2>2
    <3>3. i \in 0 .. count - 1
      BY <3>2, <1>1
    <3> QED
      BY <3>1, <3>3, <1>1, <1>3 DEF Pushed, FiledFacts
  <2> QED
    BY <2>3, <2>4, <1>1
<1>8. held \cup {v} \subseteq HeapItem
  BY <1>1 DEF FiledFacts
<1> HIDE DEF n
<1>9. Leaves(a, n, n, written, held \cup {v})
  BY <1>6, <1>7, <1>8 DEF Leaves
<1> QED
  BY <1>5, <1>9, FiledBecomes

(* A pop at x that leaves m items.  Where v is the last item and the hole   *)
(* is before it, m counts the items without it.                             *)
Fills(m, x, v) == Fits(heap, count, m, x, v, HeapKey)

LEMMA FillsWithNew ==
    ASSUME HeapInv, ~strayed, NEW v \in HeapItem, v \notin held, NEW x \in 0 .. count - 1
    PROVE  Fills(count, x, v) /\ ItemsOf(heap, count) = held
<1>1. FiledFacts(v) /\ Ready(heap, count, v, HeapKey) /\ count \in Nat
  BY FiledTells DEF FiledFacts, HeapFacts
<1>2. PopEnd(heap, count, x, v, HeapKey) \in x .. count - 1
  BY <1>1, PopTold DEF PopStops
<1> QED
  BY <1>1, <1>2 DEF Fills, Fits, FiledFacts

LEMMA FillsWithLast ==
    ASSUME HeapInv, ~strayed, NEW x \in 0 .. count - 2
    PROVE  /\ Fills(count - 1, x, Last)
           /\ (ItemsOf(heap, count - 1) \ {heap[x]}) \cup {Last} = held \ {heap[x]}
<1>0. count \in Nat /\ count > 0 /\ HeapTypeOK
  BY HeapAssumption DEF HeapInv, HeapTypeOK
<1>1. Last = heap[count - 1] /\ Last \in HeapItem /\ count - 1 \in 0 .. count - 1
  BY <1>0, LastIs
<1>2. FiledFacts(Last) /\ Ready(heap, count, heap[count - 1], HeapKey)
  BY <1>1, FiledTells DEF FiledFacts, HeapFacts
<1>3. PopEnd(heap, count, x, Last, HeapKey) < count - 1
  BY <1>1, <1>2, LastStays
<1>4. \A i, j \in 0 .. count - 1 : heap[i] = heap[j] => i = j
  BY <1>2 DEF FiledFacts, Apart
<1>5. \A i \in 0 .. count - 1 - 1 : i \in 0 .. count - 1 /\ heap[i] # Last
  BY <1>0, <1>1, <1>4
<1>6. Last \notin ItemsOf(heap, count - 1)
  BY <1>5 DEF ItemsOf
<1>7. ItemsOf(heap, count) = ItemsOf(heap, count - 1) \cup {Last}
  <2>1. \A i \in 0 .. count - 1 : i \in 0 .. count - 1 - 1 \/ i = count - 1
    BY <1>0
  <2>2. ItemsOf(heap, count) \subseteq ItemsOf(heap, count - 1) \cup {Last}
    BY <2>1, <1>1 DEF ItemsOf
  <2>3. ItemsOf(heap, count - 1) \cup {Last} \subseteq ItemsOf(heap, count)
    BY <1>1, <1>5 DEF ItemsOf
  <2> QED
    BY <2>2, <2>3
<1>8. heap[x] # Last /\ x \in 0 .. count - 1 - 1
  BY <1>0, <1>5
<1>9. (ItemsOf(heap, count - 1) \ {heap[x]}) \cup {Last} = held \ {heap[x]}
  BY <1>2, <1>7, <1>8 DEF FiledFacts
<1>10. count - 1 \in Nat /\ count - 1 <= count
  BY <1>0
<1> QED
  BY <1>3, <1>6, <1>8, <1>9, <1>10 DEF Fills, Fits

LEMMA FiledByIndex ==
    ASSUME HeapInv, ~strayed, NEW v \in HeapItem, NEW m, NEW x, Fills(m, x, v), ~Strays(x)
    PROVE  Leaves(PopByIndex(heap, count, x, v, HeapKey), m, m, WrittenAt(x, v),
                  (ItemsOf(heap, m) \ {heap[x]}) \cup {v})
<1> DEFINE c == PopByIndex(heap, count, x, v, HeapKey)
           e == PopEnd(heap, count, x, v, HeapKey)
<1>1. /\ FiledFacts(v) /\ Ready(heap, count, v, HeapKey) /\ count \in Nat
      /\ HeapOrdered(heap, count, HeapKey) /\ Apart(heap, count) /\ held \subseteq HeapItem
  BY FiledTells DEF FiledFacts, HeapFacts
<1>2. /\ m \in Nat /\ m <= count /\ x \in 0 .. m - 1 /\ x \in 0 .. count - 1 /\ x \in Nat
      /\ e < m /\ v \notin ItemsOf(heap, m)
  BY <1>1 DEF Fills, Fits
<1>3. x % 2 = 1 \/ x <= 2
  BY <1>2 DEF Strays
<1>4. Apart(heap, m)
  BY <1>1, <1>2 DEF Apart
<1>5. HeapOrdered(c, count, HeapKey)
  BY <1>1, <1>2, <1>3, ByIndexOrder
<1>6. Apart(c, m) /\ ItemsOf(c, m) = (ItemsOf(heap, m) \ {heap[x]}) \cup {v}
  BY <1>1, <1>4, ByIndexItems DEF Fills
<1>7. /\ \A i \in WrittenAt(x, v) : i \in Nat /\ (i <= x \/ i <= e)
      /\ \A i \in 0 .. count - 1 : i \notin WrittenAt(x, v) => c[i] = heap[i]
  <2>1. WrittenAt(x, v) = WrittenBy(heap, count, x, v, HeapKey)
    BY DEF WrittenAt, RisePath, WrittenBy
  <2>2. x \in 0 .. count - 1 /\ Ready(heap, count, v, HeapKey)
    BY <1>1, <1>2
  <2> HIDE DEF c, e
  <2>3. /\ \A i \in WrittenBy(heap, count, x, v, HeapKey) : i \in Nat /\ (i <= x \/ i <= e)
        /\ \A i \in 0 .. count - 1 : i \notin WrittenBy(heap, count, x, v, HeapKey) => c[i] = heap[i]
    BY <2>2, ByIndexKeeps DEF c, e
  <2> QED
    BY <2>1, <2>3
<1>8. e \in Nat
  <2>1. e \in x .. count - 1
    BY <1>1, <1>2, PopTold DEF PopStops
  <2> HIDE DEF e
  <2> QED
    BY <2>1, <1>1, <1>2
<1> HIDE DEF c, e
<1>9. HeapOrdered(c, m, HeapKey)
  BY <1>1, <1>2, <1>5 DEF HeapOrdered
<1>10. WrittenAt(x, v) \subseteq 0 .. m - 1
  BY <1>2, <1>7, <1>8
<1>11. \A i \in 0 .. m - 1 : i \notin WrittenAt(x, v) => i < count /\ c[i] = heap[i]
  BY <1>1, <1>2, <1>7
<1>12. (ItemsOf(heap, m) \ {heap[x]}) \cup {v} \subseteq HeapItem
  <2>1. ItemsOf(heap, m) \subseteq ItemsOf(heap, count)
    BY <1>1, <1>2 DEF ItemsOf
  <2> QED
    BY <2>1, <1>1 DEF FiledFacts
<1> QED
  BY <1>2, <1>6, <1>9, <1>10, <1>11, <1>12 DEF Leaves, c

(* The root does not move up: a pop is a pop by index 0.                    *)
LEMMA RootStays ==
    ASSUME NEW v \in HeapItem, HeapInv, ~strayed, count > 0
    PROVE  /\ PopByIndex(heap, count, 0, v, HeapKey) = PopCore(heap, count, 0, v, HeapKey)
           /\ WrittenAt(0, v) = PopPath(heap, count, 0, v, HeapKey)
           /\ ~Strays(0)
<1> DEFINE b == PopCore(heap, count, 0, v, HeapKey)
<1>1. ~GoesUp(b, 0, HeapKey)
  <2>1. b[0] \in HeapItem
    <3>1. HeapTypeOK /\ count \in Nat /\ 0 \in 0 .. count - 1
      BY HeapAssumption DEF HeapInv, HeapTypeOK
    <3> QED
      BY <3>1, ByIndexValues
  <2>2. HeapKey[b[0]] \in Int
    BY <2>1, HeapAssumption
  <2>3. 0 \div 2 = 0
    OBVIOUS
  <2> HIDE DEF b
  <2> QED
    BY <2>2, <2>3, CompareTold DEF GoesUp
<1> QED
  BY <1>1 DEF PopByIndex, WrittenAt, Strays

LEMMA FiledReplace ==
    ASSUME HeapInv, ~strayed, NEW v \in HeapItem, v \notin held, NEW x \in 0 .. count - 1, ~Strays(x),
           Becomes(PopByIndex(heap, count, x, v, HeapKey), count, WrittenAt(x, v),
                   (held \ {heap[x]}) \cup {v})
    PROVE  Filed(heap', count', held', position')
<1>1. Fills(count, x, v) /\ ItemsOf(heap, count) = held
  BY FillsWithNew
<1>2. Leaves(PopByIndex(heap, count, x, v, HeapKey), count, count, WrittenAt(x, v),
             (held \ {heap[x]}) \cup {v})
  BY <1>1, FiledByIndex
<1> QED
  BY <1>2, FiledBecomes

LEMMA FiledRemove ==
    ASSUME HeapInv, ~strayed, NEW x \in 0 .. count - 1, ~Strays(x),
           Becomes(PopByIndex(heap, count, x, Last, HeapKey), count - 1, WrittenAt(x, Last),
                   held \ {heap[x]})
    PROVE  Filed(heap', count', held', position')
<1>0. count \in Nat /\ count > 0 /\ HeapTypeOK /\ x \in Nat
  BY HeapAssumption DEF HeapInv, HeapTypeOK
<1>1. Last = heap[count - 1] /\ Last \in HeapItem /\ count - 1 \in 0 .. count - 1
  BY <1>0, LastIs
<1>2. CASE x # count - 1
  <2>1. x \in 0 .. count - 2
    BY <1>0, <1>2
  <2>2. /\ Fills(count - 1, x, Last)
        /\ (ItemsOf(heap, count - 1) \ {heap[x]}) \cup {Last} = held \ {heap[x]}
    BY <2>1, FillsWithLast
  <2>3. Leaves(PopByIndex(heap, count, x, Last, HeapKey), count - 1, count - 1,
               WrittenAt(x, Last), held \ {heap[x]})
    BY <2>2, <1>1, FiledByIndex
  <2> QED
    BY <2>3, FiledBecomes
<1>3. CASE x = count - 1
  <2> DEFINE c == PopByIndex(heap, count, x, Last, HeapKey)
             n == count - 1
  <2>1. /\ FiledFacts(Last) /\ Ready(heap, count, heap[count - 1], HeapKey)
        /\ Ready(heap, count, Last, HeapKey)
        /\ HeapOrdered(heap, count, HeapKey) /\ held \subseteq HeapItem
        /\ ItemsOf(heap, count) = held
    BY <1>1, FiledTells DEF FiledFacts, HeapFacts
  <2>2. \A i \in 0 .. count - 1 : c[i] = heap[i]
    <3>1. \A i \in 0 .. count - 1 : PopByIndex(heap, count, x, heap[count - 1], HeapKey)[i] = heap[i]
      BY <2>1, <1>3, TakeLast
    <3> QED
      BY <3>1, <1>1
  <2>3. WrittenAt(x, Last) \subseteq 0 .. count - 1
    BY <1>0, <1>1, ByIndexValues
  <2> HIDE DEF c
  <2>4. \A i, j \in 0 .. count - 1 : heap[i] = heap[j] => i = j
    BY <2>1 DEF FiledFacts, Apart
  <2>5. Apart(c, count)
    BY <2>2, <2>4 DEF Apart
  <2>6. \A i \in 0 .. n - 1 : i \in 0 .. count - 1 /\ i < count /\ i # x /\ c[i] = heap[i]
    BY <1>0, <1>3, <2>2
  <2>7. ItemsOf(c, n) = held \ {heap[x]}
    <3>1. \A i \in 0 .. count - 1 : i \in 0 .. n - 1 \/ i = x
      BY <1>0, <1>3
    <3>2. ItemsOf(c, n) = {heap[i] : i \in 0 .. n - 1}
      BY <2>6 DEF ItemsOf
    <3>3. \A i \in 0 .. n - 1 : heap[i] # heap[x]
      BY <2>4, <2>6
    <3>4. held = {heap[i] : i \in 0 .. n - 1} \cup {heap[x]}
      <4>1. held = {heap[i] : i \in 0 .. count - 1}
        BY <2>1 DEF ItemsOf
      <4>2. \A i \in 0 .. n - 1 : i \in 0 .. count - 1
        BY <2>6
      <4> HIDE DEF n
      <4> QED
        BY <4>1, <4>2, <3>1
    <3> QED
      BY <3>2, <3>3, <3>4
  <2>8. HeapOrdered(c, n, HeapKey)
    <3>1. ASSUME NEW i \in 1 .. n - 1 PROVE HeapKey[c[Parent(i)]] <= HeapKey[c[i]]
      <4>1. i \in 1 .. count - 1 /\ i \in 0 .. count - 1 /\ Parent(i) \in 0 .. count - 1
        BY <1>0, ParentBelow
      <4> QED
        BY <4>1, <2>1, <2>2 DEF HeapOrdered
    <3> QED
      BY <3>1 DEF HeapOrdered
  <2>9. n \in Nat /\ n <= count
    BY <1>0
  <2> HIDE DEF n
  <2>10. Leaves(c, n, count, WrittenAt(x, Last), held \ {heap[x]})
    <3>1. held \ {heap[x]} \subseteq HeapItem
      BY <2>1
    <3> QED
      BY <3>1, <1>0, <2>3, <2>5, <2>6, <2>7, <2>8, <2>9 DEF Leaves
  <2> QED
    BY <2>10, FiledBecomes DEF c, n
<1> QED
  BY <1>2, <1>3

LEMMA HeapInvStep == HeapInv /\ [HeapNext]_heapVars => HeapInv'
<1> SUFFICES ASSUME HeapInv, [HeapNext]_heapVars PROVE HeapInv'
  OBVIOUS
<1>1. HeapTypeOK'
  BY HeapTypesStep DEF HeapInv
<1>0. HeapTypeOK /\ count \in Nat
  BY HeapAssumption DEF HeapInv, HeapTypeOK
<1> SUFFICES ASSUME ~strayed' PROVE Filed(heap', count', held', position')
  BY <1>1 DEF HeapInv
<1>2. CASE \E v \in HeapItem : PushItem(v)
  <2>1. PICK v \in HeapItem : PushItem(v)
    BY <1>2
  <2>2. ~strayed
    BY <2>1 DEF PushItem
  <2> QED
    BY <2>1, <2>2, FiledPush
<1>3. CASE PopFirst
  <2>1. ~strayed /\ count > 0
    BY <1>3 DEF PopFirst
  <2>2. 0 \in 0 .. count - 1 /\ Last \in HeapItem /\ Last = heap[count - 1]
    BY <2>1, <1>0, LastIs
  <2>3. Becomes(PopCore(heap, count, 0, Last, HeapKey), count - 1,
                PopPath(heap, count, 0, Last, HeapKey), held \ {heap[0]})
    BY <2>2, <1>3 DEF PopFirst, Pop
  <2>4. /\ PopByIndex(heap, count, 0, Last, HeapKey) = PopCore(heap, count, 0, Last, HeapKey)
        /\ WrittenAt(0, Last) = PopPath(heap, count, 0, Last, HeapKey)
        /\ ~Strays(0)
    BY <2>1, <2>2, RootStays
  <2>5. Becomes(PopByIndex(heap, count, 0, Last, HeapKey), count - 1,
                WrittenAt(0, Last), held \ {heap[0]})
    BY <2>3, <2>4
  <2> QED
    BY <2>1, <2>2, <2>4, <2>5, FiledRemove
<1>4. CASE \E v \in HeapItem : ReplaceFirst(v)
  <2>1. PICK v \in HeapItem : ReplaceFirst(v)
    BY <1>4
  <2>2. /\ ~strayed /\ count > 0 /\ v \notin held /\ 0 \in 0 .. count - 1
        /\ Becomes(PopCore(heap, count, 0, v, HeapKey), count,
                   PopPath(heap, count, 0, v, HeapKey), (held \ {heap[0]}) \cup {v})
    BY <2>1, <1>0 DEF ReplaceFirst
  <2>3. /\ PopByIndex(heap, count, 0, v, HeapKey) = PopCore(heap, count, 0, v, HeapKey)
        /\ WrittenAt(0, v) = PopPath(heap, count, 0, v, HeapKey)
        /\ ~Strays(0)
    BY <2>2, RootStays
  <2>4. Becomes(PopByIndex(heap, count, 0, v, HeapKey), count,
                WrittenAt(0, v), (held \ {heap[0]}) \cup {v})
    BY <2>2, <2>3
  <2> QED
    BY <2>2, <2>3, <2>4, FiledReplace
<1>5. ASSUME NEW given \in -count .. count - 1, PopAt(given)
      PROVE  Filed(heap', count', held', position')
  <2> DEFINE x == Rolled(given)
  <2>1. x \in 0 .. count - 1
    BY <1>0, RolledIn
  <2>2. /\ Becomes(PopByIndex(heap, count, x, Last, HeapKey), count - 1,
                   WrittenAt(x, Last), held \ {heap[x]})
        /\ strayed' = (strayed \/ Strays(x))
    BY <1>5 DEF PopAt
  <2> HIDE DEF x
  <2>3. ~strayed /\ ~Strays(x)
    BY <2>2
  <2> QED
    BY <2>1, <2>2, <2>3, FiledRemove
<1>6. ASSUME NEW given \in -count .. count - 1, NEW v \in HeapItem, ReplaceAt(given, v)
      PROVE  Filed(heap', count', held', position')
  <2> DEFINE x == Rolled(given)
  <2>1. x \in 0 .. count - 1
    BY <1>0, RolledIn
  <2>2. /\ Becomes(PopByIndex(heap, count, x, v, HeapKey), count,
                   WrittenAt(x, v), (held \ {heap[x]}) \cup {v})
        /\ strayed' = (strayed \/ Strays(x)) /\ v \notin held
    BY <1>6 DEF ReplaceAt
  <2> HIDE DEF x
  <2>3. ~strayed /\ ~Strays(x)
    BY <2>2
  <2> QED
    BY <2>1, <2>2, <2>3, FiledReplace
<1>7. CASE UNCHANGED heapVars
  BY <1>7 DEF heapVars, HeapInv
<1> QED
  BY <1>2, <1>3, <1>4, <1>5, <1>6, <1>7 DEF HeapNext

LEMMA HeapInvInit == HeapInit => HeapInv
<1> SUFFICES ASSUME HeapInit PROVE Filed(heap, count, held, position)
  BY HeapTypesInit DEF HeapInv
<1>1. count = 0 /\ held = {}
  BY DEF HeapInit
<1> QED
  BY <1>1 DEF Filed, Apart, ItemsOf, HeapOrdered

(* The heap keeps the types of its variables, and takes no item that is not *)
(* one, whatever was called: also after pop_by_index left it out of order.  *)
THEOREM HeapTyping == HeapSpec => []HeapTypeOK
BY HeapTypesInit, HeapTypesStep, PTL DEF HeapSpec

LEMMA HeapInvHolds == HeapSpec => []HeapInv
BY HeapInvInit, HeapInvStep, PTL DEF HeapSpec

LEMMA FiledMeans == HeapInv => HeapFiled
<1> SUFFICES ASSUME HeapInv, ~strayed
             PROVE  /\ {heap[i] : i \in 0 .. count - 1} = held
                    /\ \A v \in held : position[v] < count /\ heap[position[v]] = v
  BY DEF HeapFiled
<1>1. {heap[i] : i \in 0 .. count - 1} = held
  BY DEF HeapInv, Filed, ItemsOf
<1>2. ASSUME NEW v \in held PROVE position[v] < count /\ heap[position[v]] = v
  <2>1. PICK i \in 0 .. count - 1 : heap[i] = v
    BY <1>1
  <2>2. position[v] = i
    BY <2>1 DEF HeapInv, Filed
  <2> QED
    BY <2>1, <2>2, HeapAssumption DEF HeapInv, HeapTypeOK
<1> QED
  BY <1>1, <1>2

(* push, pop and pop_by_index (heap_root.hpp:150-290), for any number of    *)
(* items and any keys, equal ones too: as long as no removal by an even     *)
(* index above 2 was asked for, the array holds exactly the items put in    *)
(* and not handed out, each once, and change_position has told each of them *)
(* where it stands.                                                         *)
THEOREM HeapIsFiled == HeapSpec => []HeapFiled
BY FiledMeans, HeapInvHolds, PTL

LEMMA LeastStep ==
    ASSUME HeapInv, ~strayed, count > 0, NEW u \in held
    PROVE  HeapKey[heap[0]] <= HeapKey[u]
<1>1. u \in HeapItem /\ count \in Nat
  BY HeapAssumption DEF HeapInv, HeapTypeOK
<1>2. /\ Holds(heap, count, HeapKey) /\ HeapOrdered(heap, count, HeapKey)
      /\ ItemsOf(heap, count) = held
  BY <1>1, FiledTells DEF FiledFacts
<1>3. PICK i \in 0 .. count - 1 : heap[i] = u
  BY <1>2 DEF ItemsOf
<1> QED
  BY <1>1, <1>2, <1>3, FirstIsLeast

(* pop(seq, length) and pop(seq, length, insert_value) hand out a least     *)
(* item of all that are held, under the same condition.                     *)
THEOREM HeapPopsLeast == HeapSpec => PopsLeast
<1> DEFINE LeastOut == PopFirst \/ (\E v \in HeapItem : ReplaceFirst(v)) =>
                        \A u \in held : strayed \/ HeapKey[heap[0]] <= HeapKey[u]
<1>1. HeapInv /\ [HeapNext]_heapVars => [LeastOut]_heapVars
  BY LeastStep DEF PopFirst, ReplaceFirst
<1>2. PopsLeast <=> [][LeastOut]_heapVars
  BY DEF PopsLeast
<1> HIDE DEF LeastOut
<1> QED
  BY <1>1, <1>2, HeapInvHolds, PTL DEF HeapSpec
------------------------------------------------------------------------------
(* The word of the group barrier: GroupWord implements GroupBarrier, for    *)
(* every number of threads that fits into the counters' fields and every    *)
(* size of the fields.  Each addition to the whole word changes the fields  *)
(* as the three counters of GroupBarrier change, and no carry or borrow     *)
(* gets into a field that should not change: that the counters are exact    *)
(* (GroupBarrierProofs) keeps them below the sizes of their fields.         *)

(* The theorems about the three counters, of the fields of the word         *)
ThreeCounters == INSTANCE GroupBarrierProofs WITH
    m_group  <- GroupOf(bits),
    m_owner  <- OwnerOf(bits),
    m_active <- ActiveOf(bits),
    stage <- at, group <- wants, index <- number,
    Contender <- Caller, Persistent <- Waiter, Group <- GroupId

Words == 0 .. Size - 1

(* A word and its fields *)
Word(g, o, a) == g + GroupSize * (o + OwnerSize * a)

------------------------------------------------------------------------------
(* Arithmetic of the fields                                                 *)

LEMMA Sizes ==
    /\ GroupSize \in Nat \ {0} /\ OwnerSize \in Nat \ {0} /\ ActiveSize \in Nat \ {0}
    /\ Size \in Nat \ {0}
  <1>1. GroupSize \in Nat \ {0} /\ OwnerSize \in Nat \ {0} /\ ActiveSize \in Nat \ {0}
    BY WidthAssumption
  <1>2. OwnerSize * ActiveSize \in Nat \ {0}
    BY <1>1
  <1> QED
    BY <1>1, <1>2 DEF Size

(* A number is told by its remainder and its quotient. *)
LEMMA Divided ==
    ASSUME NEW m \in Nat \ {0}, NEW r \in 0 .. m - 1, NEW q \in Nat
    PROVE  (r + m * q) % m = r /\ (r + m * q) \div m = q
  OBVIOUS

LEMMA Remainders ==
    ASSUME NEW m \in Nat \ {0}, NEW n \in Nat
    PROVE  /\ n % m \in 0 .. m - 1 /\ n \div m \in Nat
           /\ n = (n % m) + m * (n \div m)
  OBVIOUS

LEMMA Below ==
    ASSUME NEW m \in Nat \ {0}, NEW k \in Nat \ {0}, NEW r \in 0 .. m - 1, NEW q \in 0 .. k - 1
    PROVE  r + m * q \in 0 .. m * k - 1
  <1>1. m * q + m <= m * k
    <2>1. q + 1 <= k
      OBVIOUS
    <2>2. m * (q + 1) <= m * k
      BY <2>1
    <2> QED
      BY <2>2
  <1> QED
    BY <1>1

LEMMA FieldsOf ==
    ASSUME NEW g \in 0 .. GroupSize - 1, NEW o \in 0 .. OwnerSize - 1,
           NEW a \in 0 .. ActiveSize - 1
    PROVE  /\ Word(g, o, a) \in Words
           /\ GroupOf(Word(g, o, a)) = g
           /\ OwnerOf(Word(g, o, a)) = o
           /\ ActiveOf(Word(g, o, a)) = a
  <1> DEFINE high == o + OwnerSize * a
  <1>1. high \in 0 .. OwnerSize * ActiveSize - 1 /\ high % OwnerSize = o /\ high \div OwnerSize = a
    BY Sizes, Below, Divided
  <1>2. OwnerSize * ActiveSize \in Nat \ {0} /\ high \in Nat
    BY Sizes, <1>1
  <1> HIDE DEF high
  <1>3. g + GroupSize * high \in 0 .. GroupSize * (OwnerSize * ActiveSize) - 1
    BY Sizes, <1>1, <1>2, Below
  <1>4. (g + GroupSize * high) % GroupSize = g /\ (g + GroupSize * high) \div GroupSize = high
    BY Sizes, <1>2, Divided
  <1>5. Word(g, o, a) = g + GroupSize * high
    BY DEF Word, high
  <1> QED
    BY <1>1, <1>3, <1>4, <1>5 DEF Words, Size, GroupOf, OwnerOf, ActiveOf

LEMMA WordOf ==
    ASSUME NEW w \in Words
    PROVE  /\ GroupOf(w) \in 0 .. GroupSize - 1
           /\ OwnerOf(w) \in 0 .. OwnerSize - 1
           /\ ActiveOf(w) \in Nat
           /\ w = Word(GroupOf(w), OwnerOf(w), ActiveOf(w))
  <1> DEFINE high == w \div GroupSize
  <1>1. w \in Nat
    BY Sizes DEF Words
  <1>2. w % GroupSize \in 0 .. GroupSize - 1 /\ high \in Nat /\ w = (w % GroupSize) + GroupSize * high
    BY Sizes, <1>1, Remainders
  <1> HIDE DEF high
  <1>3. /\ high % OwnerSize \in 0 .. OwnerSize - 1 /\ high \div OwnerSize \in Nat
        /\ high = (high % OwnerSize) + OwnerSize * (high \div OwnerSize)
    BY Sizes, <1>2, Remainders
  <1> QED
    BY <1>2, <1>3 DEF GroupOf, OwnerOf, ActiveOf, Word, high

(* An addition within the word, and a subtraction *)
LEMMA Added ==
    ASSUME NEW w \in Nat, NEW v \in Nat, w + v \in Words
    PROVE  Plus(w, v) = w + v
  BY Sizes DEF Plus, Words

LEMMA Subtracted ==
    ASSUME NEW w \in Nat, NEW v \in Nat, w + v \in Words
    PROVE  Minus(w + v, v) = w
  <1>1. w \in 0 .. Size - 1 /\ Size \in Nat \ {0}
    BY Sizes DEF Words
  <1>2. (w + Size * 1) % Size = w
    BY <1>1, Divided
  <1>3. w + v + Size - v = w + Size * 1
    BY <1>1
  <1> QED
    BY <1>2, <1>3 DEF Minus

(* The values that are added *)
LEMMA Small ==
    ASSUME NEW m \in Nat \ {0}, NEW r \in 0 .. m - 1
    PROVE  r % m = r
  OBVIOUS

LEMMA Values ==
    ASSUME OwnerSize > 1, ActiveSize > 1
    PROVE  /\ TryEnter = GroupSize * OwnerSize
           /\ NewMember = GroupSize
           /\ LeaveValue = GroupSize * (1 + OwnerSize)
  <1>1. 0 % GroupSize = 0 /\ 0 % OwnerSize = 0 /\ 0 % ActiveSize = 0
    BY Sizes, Small
  <1>2. 1 % OwnerSize = 1 /\ 1 % ActiveSize = 1
    BY Sizes, Small
  <1> QED
    BY <1>1, <1>2, Sizes DEF TryEnter, NewMember, LeaveValue, Pack

(* What each atomic instruction makes of the fields *)
LEMMA EnterWord ==
    ASSUME NEW g \in 0 .. GroupSize - 1, NEW o \in 0 .. OwnerSize - 1,
           NEW a \in Nat, a + 1 < ActiveSize, OwnerSize > 1
    PROVE  /\ Plus(Word(g, o, a), TryEnter) = Word(g, o, a + 1)
           /\ Minus(Word(g, o, a + 1), TryEnter) = Word(g, o, a)
  <1>1. TryEnter = GroupSize * OwnerSize
    BY Values, Sizes
  <1>2. /\ Word(g, o, a) \in Nat /\ GroupSize * OwnerSize \in Nat
        /\ Word(g, o, a) + GroupSize * OwnerSize = Word(g, o, a + 1)
    BY Sizes DEF Word
  <1>3. Word(g, o, a + 1) \in Words
    BY FieldsOf, Sizes
  <1> QED
    BY <1>1, <1>2, <1>3, Added, Subtracted

LEMMA JoinWord ==
    ASSUME NEW g \in 0 .. GroupSize - 1, NEW o \in Nat, o + 1 < OwnerSize,
           NEW a \in 0 .. ActiveSize - 1, ActiveSize > 1
    PROVE  Plus(Word(g, o, a), NewMember) = Word(g, o + 1, a)
  <1>1. NewMember = GroupSize
    BY Values, Sizes
  <1>2. Word(g, o, a) \in Nat /\ Word(g, o, a) + GroupSize = Word(g, o + 1, a)
    BY Sizes DEF Word
  <1>3. Word(g, o + 1, a) \in Words
    BY FieldsOf, Sizes
  <1> QED
    BY <1>1, <1>2, <1>3, Added, Sizes

LEMMA LeaveWord ==
    ASSUME NEW g \in 0 .. GroupSize - 1, NEW o \in Nat, o + 1 < OwnerSize,
           NEW a \in Nat, a + 1 < ActiveSize
    PROVE  Minus(Word(g, o + 1, a + 1), LeaveValue) = Word(g, o, a)
  <1>1. LeaveValue = GroupSize * (1 + OwnerSize)
    BY Values, Sizes
  <1>2. /\ Word(g, o, a) \in Nat /\ GroupSize * (1 + OwnerSize) \in Nat
        /\ Word(g, o, a) + GroupSize * (1 + OwnerSize) = Word(g, o + 1, a + 1)
    BY Sizes DEF Word
  <1>3. Word(g, o + 1, a + 1) \in Words
    BY FieldsOf, Sizes
  <1> QED
    BY <1>1, <1>2, <1>3, Subtracted

(* The carry out of m_group counts the owner when the group's number does   *)
(* not grow, and the second argument of change_group when it does.          *)
LEMMA ChangeWord ==
    ASSUME NEW g \in 0 .. GroupSize - 1, NEW o \in Nat, o + 1 < OwnerSize,
           NEW a \in 0 .. ActiveSize - 1, NEW h \in 0 .. GroupSize - 1,
           NEW v \in Nat, GroupOf(v) = g
    PROVE  Plus(Word(g, o, a), ChangeGroup(h, v)) = Word(h, o + 1, a)
  <1>1. 0 % ActiveSize = 0 /\ 0 % OwnerSize = 0 /\ 1 % OwnerSize = 1
    BY Sizes, Small
  <1>2. Word(h, o + 1, a) \in Words
    BY FieldsOf, Sizes
  <1>3. CASE h >= g
    <2>1. (h + GroupSize - g) % GroupSize = h - g
      <3>1. h - g \in 0 .. GroupSize - 1 /\ h + GroupSize - g = (h - g) + GroupSize * 1
        BY <1>3, Sizes
      <3> QED
        BY <3>1, Sizes, Divided
    <2>2. ChangeGroup(h, v) = (h - g) + GroupSize
      BY <1>1, <1>3, <2>1, Sizes DEF ChangeGroup, Pack
    <2>3. Word(g, o, a) \in Nat /\ Word(g, o, a) + ((h - g) + GroupSize) = Word(h, o + 1, a)
      BY Sizes DEF Word
    <2> QED
      BY <1>2, <1>3, <2>2, <2>3, Added, Sizes
  <1>4. CASE h < g
    <2>1. (h + GroupSize - g) % GroupSize = h + GroupSize - g
      <3>1. h + GroupSize - g \in 0 .. GroupSize - 1
        BY <1>4, Sizes
      <3> QED
        BY <3>1, Sizes, Small
    <2>2. ChangeGroup(h, v) = h + GroupSize - g
      BY <1>1, <1>4, <2>1, Sizes DEF ChangeGroup, Pack
    <2>3. Word(g, o, a) \in Nat /\ Word(g, o, a) + (h + GroupSize - g) = Word(h, o + 1, a)
      BY Sizes DEF Word
    <2> QED
      BY <1>2, <1>4, <2>2, <2>3, Added, Sizes
  <1> QED
    BY <1>3, <1>4, Sizes

------------------------------------------------------------------------------
(* The inductive invariant: the invariant of the three counters holds of    *)
(* the fields, and what a thread is about to add to change the group was    *)
(* computed for the group that still owns the barrier.                      *)
WordInv ==
    /\ bits \in Words
    /\ ThreeCounters!IInv
    /\ change_group \in [Caller -> Nat]
    /\ \A t \in Caller : at[t] = "change" => change_group[t] = ChangeGroup(wants[t], bits)

(* FiniteSets is the same module in both places. *)
LEMMA SameSets ==
    /\ \A S : ThreeCounters!IsFiniteSet(S) <=> IsFiniteSet(S)
    /\ \A S : ThreeCounters!Cardinality(S) = Cardinality(S)
  BY DEF ThreeCounters!IsFiniteSet, IsFiniteSet, ThreeCounters!Cardinality, Cardinality

(* No field is full before a thread adds to it, none is empty before one    *)
(* subtracts.                                                               *)
LEMMA Room ==
    ASSUME WordInv, NEW t \in Caller
    PROVE  /\ OwnerSize > 1 /\ ActiveSize > 1
           /\ GroupOf(bits) \in 0 .. GroupSize - 1
           /\ OwnerOf(bits) \in 0 .. OwnerSize - 1
           /\ ActiveOf(bits) \in 0 .. ActiveSize - 1
           /\ bits = Word(GroupOf(bits), OwnerOf(bits), ActiveOf(bits))
           /\ at[t] \notin {"change", "join", "retreat", "held"} => ActiveOf(bits) + 1 < ActiveSize
           /\ at[t] # "held" => OwnerOf(bits) + 1 < OwnerSize
           /\ at[t] \in {"change", "join", "retreat", "held"} => ActiveOf(bits) > 0
           /\ at[t] = "held" => OwnerOf(bits) > 0
  <1> DEFINE C == ThreeCounters!Counted
             I == ThreeCounters!Inside
  <1>1. C \subseteq Caller /\ I \subseteq Caller /\ IsFiniteSet(Caller)
    BY WidthAssumption DEF ThreeCounters!Counted, ThreeCounters!Inside
  <1>2. /\ IsFiniteSet(C) /\ IsFiniteSet(I)
        /\ Cardinality(C) \in Nat /\ Cardinality(I) \in Nat /\ Cardinality(Caller) \in Nat
    BY <1>1, FS_Subset, FS_CardinalityType
  <1>3. /\ ActiveOf(bits) = Cardinality(C) /\ OwnerOf(bits) = Cardinality(I)
    BY SameSets DEF WordInv, ThreeCounters!IInv, ThreeCounters!CountersExact
  <1>4. /\ t \in C <=> at[t] \in {"change", "join", "retreat", "held"}
        /\ t \in I <=> at[t] = "held"
    BY DEF ThreeCounters!Counted, ThreeCounters!Inside
  <1> HIDE DEF C, I
  <1>5. Cardinality(C) <= Cardinality(Caller) /\ Cardinality(I) <= Cardinality(Caller)
    BY <1>1, FS_Subset
  <1>6. Cardinality(Caller) > 0
    BY <1>1, <1>2, FS_EmptySet
  <1>7. ASSUME NEW S, S \subseteq Caller, IsFiniteSet(S), Cardinality(S) \in Nat
        PROVE  /\ t \notin S => Cardinality(S) + 1 <= Cardinality(Caller)
               /\ t \in S => Cardinality(S) > 0
    <2>1. CASE t \notin S
      <3>1. Cardinality(S \cup {t}) = Cardinality(S) + 1 /\ S \cup {t} \subseteq Caller
        BY <1>7, <2>1, FS_AddElement
      <3> QED
        BY <1>1, <2>1, <3>1, FS_Subset
    <2>2. CASE t \in S
      BY <1>7, <2>2, FS_EmptySet
    <2> QED
      BY <2>1, <2>2
  <1>8. /\ t \notin C => Cardinality(C) + 1 <= Cardinality(Caller)
        /\ t \notin I => Cardinality(I) + 1 <= Cardinality(Caller)
        /\ t \in C => Cardinality(C) > 0
        /\ t \in I => Cardinality(I) > 0
    BY <1>1, <1>2, <1>7
  <1>9. Cardinality(Caller) < OwnerSize /\ Cardinality(Caller) < ActiveSize
    BY WidthAssumption
  <1>10. /\ GroupOf(bits) \in 0 .. GroupSize - 1
         /\ bits = Word(GroupOf(bits), OwnerOf(bits), ActiveOf(bits))
    BY WordOf DEF WordInv
  <1> QED
    BY <1>2, <1>3, <1>4, <1>5, <1>6, <1>8, <1>9, <1>10, Sizes

LEMMA ChangeOfGroup ==
    ASSUME NEW v, NEW w, GroupOf(v) = GroupOf(w)
    PROVE  \A h : ChangeGroup(h, v) = ChangeGroup(h, w)
  BY DEF ChangeGroup

LEMMA WordTyped ==
    ASSUME WordInv
    PROVE  /\ at \in [Caller -> {"idle", "enter", "change", "join", "retreat", "refused", "held"}]
           /\ wants \in [Caller -> GroupId \cup {0}] /\ number \in [Caller -> Nat]
           /\ \A t \in Caller : at[t] # "idle" => wants[t] \in 1 .. GroupSize - 1
           /\ bits \in Nat
  <1>1. ThreeCounters!GroupTypeOK /\ bits \in Words
    BY DEF WordInv, ThreeCounters!IInv
  <1>2. /\ at \in [Caller -> {"idle", "enter", "change", "join", "retreat", "refused", "held"}]
        /\ wants \in [Caller -> GroupId \cup {0}] /\ number \in [Caller -> Nat]
        /\ \A t \in Caller : at[t] # "idle" => wants[t] \in GroupId
    BY <1>1 DEF ThreeCounters!GroupTypeOK
  <1>3. GroupId \subseteq 1 .. GroupSize - 1 /\ bits \in Nat
    BY <1>1, WidthAssumption, Sizes DEF Words
  <1> QED
    BY <1>2, <1>3

LEMMA ChangeTyped ==
    ASSUME NEW h \in 0 .. GroupSize - 1, NEW w \in Words
    PROVE  ChangeGroup(h, w) \in Nat
  <1>1. GroupOf(w) \in 0 .. GroupSize - 1
    BY WordOf
  <1>2. h + GroupSize - GroupOf(w) \in Nat /\ (IF h >= GroupOf(w) THEN 1 ELSE 0) \in Nat /\ 0 \in Nat
    BY <1>1, Sizes
  <1>3. ASSUME NEW x \in Nat, NEW y \in Nat, NEW z \in Nat PROVE Pack(x, y, z) \in Nat
    <2>1. x % GroupSize \in Nat /\ y % OwnerSize \in Nat /\ z % ActiveSize \in Nat
      BY Sizes, Remainders
    <2> QED
      BY <2>1, Sizes DEF Pack
  <1> QED
    BY <1>2, <1>3 DEF ChangeGroup

(* The rest of the invariant after a step that keeps the group              *)
LEMMA SameGroup ==
    ASSUME WordInv, GroupOf(bits)' = GroupOf(bits), change_group' = change_group,
           \A x \in Caller : at'[x] = "change" => at[x] = "change" /\ wants'[x] = wants[x]
    PROVE  \A x \in Caller : at'[x] = "change" => change_group'[x] = ChangeGroup(wants'[x], bits')
  <1>1. \A h : ChangeGroup(h, bits') = ChangeGroup(h, bits)
    BY ChangeOfGroup DEF GroupOf
  <1> QED
    BY <1>1 DEF WordInv

------------------------------------------------------------------------------
(* Each step of a thread on the word is the step on the counters.           *)
LEMMA EnterImplements ==
    ASSUME WordInv, NEW t \in Caller, WordEnter(t)
    PROVE  /\ bits' \in Words
           /\ ThreeCounters!EnterFirst(t) \/ ThreeCounters!EnterMember(t) \/ ThreeCounters!EnterOther(t)
           /\ change_group' \in [Caller -> Nat]
           /\ \A x \in Caller : at'[x] = "change" => change_group'[x] = ChangeGroup(wants'[x], bits')
  <1> DEFINE g == GroupOf(bits)
             o == OwnerOf(bits)
             a == ActiveOf(bits)
  <1>0. at[t] = "enter"
    BY DEF WordEnter
  <1>1. /\ OwnerSize > 1 /\ g \in 0 .. GroupSize - 1 /\ o \in 0 .. OwnerSize - 1
        /\ a \in 0 .. ActiveSize - 1 /\ a + 1 < ActiveSize /\ bits = Word(g, o, a)
    BY <1>0, Room
  <1>2. bits' = Word(g, o, a + 1) /\ a + 1 \in 0 .. ActiveSize - 1
    <2>1. Plus(Word(g, o, a), TryEnter) = Word(g, o, a + 1)
      BY <1>1, EnterWord, Sizes
    <2> QED
      BY <1>1, <2>1, Sizes DEF WordEnter
  <1>3. bits' \in Words /\ GroupOf(bits') = g /\ OwnerOf(bits') = o /\ ActiveOf(bits') = a + 1
    BY <1>1, <1>2, FieldsOf
  <1>4. GroupOf(bits)' = g /\ OwnerOf(bits)' = o /\ ActiveOf(bits)' = a + 1
    BY <1>3 DEF GroupOf, OwnerOf, ActiveOf
  <1>5. ThreeCounters!EnterFirst(t) \/ ThreeCounters!EnterMember(t) \/ ThreeCounters!EnterOther(t)
    <2>1. CASE a = 0
      BY <1>4, <2>1 DEF WordEnter, Move, ThreeCounters!EnterFirst, ThreeCounters!Goto
    <2>2. CASE a # 0 /\ (g # wants[t] \/ o = 0)
      BY <1>4, <2>2 DEF WordEnter, Move, ThreeCounters!EnterOther, ThreeCounters!Goto
    <2>3. CASE a # 0 /\ g = wants[t] /\ o # 0
      BY <1>4, <2>3 DEF WordEnter, Move, ThreeCounters!EnterMember, ThreeCounters!Goto
    <2> QED
      BY <2>1, <2>2, <2>3
  <1>6. \A h : ChangeGroup(h, bits') = ChangeGroup(h, bits)
    BY <1>3, ChangeOfGroup
  <1>7. change_group' \in [Caller -> Nat]
    <2>1. ChangeGroup(wants[t], bits) \in Nat
      BY <1>0, WordTyped, ChangeTyped, Sizes DEF WordInv
    <2> QED
      BY <2>1 DEF WordEnter, WordInv
  <1>8. ASSUME NEW x \in Caller, at'[x] = "change"
        PROVE  change_group'[x] = ChangeGroup(wants'[x], bits')
    <2>1. wants' = wants
      BY DEF WordEnter
    <2>2. CASE x = t
      BY <1>6, <1>8, <2>1, <2>2, WordTyped DEF WordEnter, Move, WordInv
    <2>3. CASE x # t
      BY <1>6, <1>8, <2>1, <2>3, WordTyped DEF WordEnter, Move, WordInv
    <2> QED
      BY <2>2, <2>3
  <1> QED
    BY <1>3, <1>5, <1>7, <1>8

LEMMA ChangeImplements ==
    ASSUME WordInv, NEW t \in Caller, WordChange(t)
    PROVE  /\ bits' \in Words /\ ThreeCounters!Change(t) /\ change_group' \in [Caller -> Nat]
           /\ \A x \in Caller : at'[x] = "change" => change_group'[x] = ChangeGroup(wants'[x], bits')
  <1> DEFINE g == GroupOf(bits)
             o == OwnerOf(bits)
             a == ActiveOf(bits)
  <1>0. at[t] = "change" /\ wants' = wants
    BY DEF WordChange
  <1>1. /\ ActiveSize > 1 /\ g \in 0 .. GroupSize - 1 /\ o \in 0 .. OwnerSize - 1
        /\ a \in 0 .. ActiveSize - 1 /\ o + 1 < OwnerSize /\ bits = Word(g, o, a)
    BY <1>0, Room
  <1>2. wants[t] \in 0 .. GroupSize - 1 /\ bits \in Nat
    BY <1>0, WordTyped, Sizes
  <1>3. bits' = Word(wants[t], o + 1, a) /\ o + 1 \in 0 .. OwnerSize - 1
    <2>1. Plus(Word(g, o, a), ChangeGroup(wants[t], bits)) = Word(wants[t], o + 1, a)
      BY <1>1, <1>2, ChangeWord, Sizes
    <2> QED
      BY <1>0, <1>1, <2>1, Sizes DEF WordChange, WordInv
  <1>4. bits' \in Words /\ GroupOf(bits') = wants[t] /\ OwnerOf(bits') = o + 1 /\ ActiveOf(bits') = a
    BY <1>1, <1>2, <1>3, FieldsOf
  <1>5. ThreeCounters!Change(t)
    BY <1>4 DEF WordChange, Move, ThreeCounters!Change, ThreeCounters!Goto, GroupOf, OwnerOf, ActiveOf
  <1>6. change_group' \in [Caller -> Nat]
    BY DEF WordChange, WordInv
  <1>7. ASSUME NEW x \in Caller, at'[x] = "change" PROVE FALSE
    <2>1. x # t /\ at[x] = "change"
      BY <1>7, WordTyped DEF WordChange, Move
    <2> QED
      BY <1>0, <2>1 DEF WordInv, ThreeCounters!IInv, ThreeCounters!GroupAgreed
  <1> QED
    BY <1>4, <1>5, <1>6, <1>7

LEMMA JoinImplements ==
    ASSUME WordInv, NEW t \in Caller, WordJoin(t)
    PROVE  bits' \in Words /\ ThreeCounters!Join(t) /\ GroupOf(bits)' = GroupOf(bits)
  <1> DEFINE g == GroupOf(bits)
             o == OwnerOf(bits)
             a == ActiveOf(bits)
  <1>1. /\ ActiveSize > 1 /\ g \in 0 .. GroupSize - 1 /\ o \in 0 .. OwnerSize - 1
        /\ a \in 0 .. ActiveSize - 1 /\ o + 1 < OwnerSize /\ bits = Word(g, o, a)
    BY Room DEF WordJoin
  <1>2. bits' = Word(g, o + 1, a) /\ o + 1 \in 0 .. OwnerSize - 1
    <2>1. Plus(Word(g, o, a), NewMember) = Word(g, o + 1, a)
      BY <1>1, JoinWord, Sizes
    <2> QED
      BY <1>1, <2>1, Sizes DEF WordJoin
  <1>3. bits' \in Words /\ GroupOf(bits') = g /\ OwnerOf(bits') = o + 1 /\ ActiveOf(bits') = a
    BY <1>1, <1>2, FieldsOf
  <1> QED
    BY <1>3 DEF WordJoin, Move, ThreeCounters!Join, ThreeCounters!Goto, GroupOf, OwnerOf, ActiveOf

LEMMA RetreatImplements ==
    ASSUME WordInv, NEW t \in Caller, WordRetreat(t)
    PROVE  bits' \in Words /\ ThreeCounters!Retreat(t) /\ GroupOf(bits)' = GroupOf(bits)
  <1> DEFINE g == GroupOf(bits)
             o == OwnerOf(bits)
             b == ActiveOf(bits) - 1
  <1>1. /\ OwnerSize > 1 /\ g \in 0 .. GroupSize - 1 /\ o \in 0 .. OwnerSize - 1
        /\ b \in Nat /\ b + 1 < ActiveSize /\ ActiveOf(bits) = b + 1 /\ bits = Word(g, o, b + 1)
    BY Room, Sizes DEF WordRetreat
  <1>2. bits' = Word(g, o, b) /\ b \in 0 .. ActiveSize - 1
    <2>1. Minus(Word(g, o, b + 1), TryEnter) = Word(g, o, b)
      BY <1>1, EnterWord, Sizes
    <2> QED
      BY <1>1, <2>1, Sizes DEF WordRetreat
  <1>3. bits' \in Words /\ GroupOf(bits') = g /\ OwnerOf(bits') = o /\ ActiveOf(bits') = b
    BY <1>1, <1>2, FieldsOf
  <1> QED
    BY <1>3 DEF WordRetreat, Move, ThreeCounters!Retreat, ThreeCounters!Goto, GroupOf, OwnerOf, ActiveOf

LEMMA UnlockImplements ==
    ASSUME WordInv, NEW t \in Caller, WordUnlock(t)
    PROVE  bits' \in Words /\ ThreeCounters!GroupUnlock(t) /\ GroupOf(bits)' = GroupOf(bits)
  <1> DEFINE g == GroupOf(bits)
             p == OwnerOf(bits) - 1
             b == ActiveOf(bits) - 1
  <1>1. /\ g \in 0 .. GroupSize - 1 /\ p \in Nat /\ p + 1 < OwnerSize
        /\ b \in Nat /\ b + 1 < ActiveSize
        /\ OwnerOf(bits) = p + 1 /\ ActiveOf(bits) = b + 1 /\ bits = Word(g, p + 1, b + 1)
    BY Room, Sizes DEF WordUnlock
  <1>2. bits' = Word(g, p, b) /\ p \in 0 .. OwnerSize - 1 /\ b \in 0 .. ActiveSize - 1
    <2>1. Minus(Word(g, p + 1, b + 1), LeaveValue) = Word(g, p, b)
      BY <1>1, LeaveWord, Sizes
    <2> QED
      BY <1>1, <2>1, Sizes DEF WordUnlock
  <1>3. bits' \in Words /\ GroupOf(bits') = g /\ OwnerOf(bits') = p /\ ActiveOf(bits') = b
    BY <1>1, <1>2, FieldsOf
  <1> QED
    BY <1>3 DEF WordUnlock, Move, ThreeCounters!GroupUnlock, ThreeCounters!Goto, GroupOf, OwnerOf, ActiveOf

LEMMA QuietImplements ==
    ASSUME WordInv, NEW t \in Caller,
           WordRetry(t) \/ WordGiveUp(t) \/ \E g \in GroupId : WordCall(t, g)
    PROVE  /\ bits' = bits
           /\ ThreeCounters!TryAgain(t) \/ ThreeCounters!TurnAway(t)
              \/ \E g \in GroupId : ThreeCounters!AskFor(t, g)
  BY DEF WordRetry, WordGiveUp, WordCall, Move, ThreeCounters!TryAgain, ThreeCounters!TurnAway,
         ThreeCounters!AskFor, ThreeCounters!Goto, ThreeCounters!word, GroupOf, OwnerOf, ActiveOf

------------------------------------------------------------------------------
LEMMA CountersApply == ThreeCounters!GroupAssumption
  BY WidthAssumption, Sizes, SameSets DEF ThreeCounters!GroupAssumption

LEMMA InitImplements == WordInit => WordInv /\ ThreeCounters!GroupInit
  <1> SUFFICES ASSUME WordInit PROVE WordInv /\ ThreeCounters!GroupInit
    OBVIOUS
  <1>1. Word(0, 0, 0) = 0 /\ 0 \in 0 .. GroupSize - 1 /\ 0 \in 0 .. OwnerSize - 1
        /\ 0 \in 0 .. ActiveSize - 1
    BY Sizes DEF Word
  <1>2. bits \in Words /\ GroupOf(bits) = 0 /\ OwnerOf(bits) = 0 /\ ActiveOf(bits) = 0
    BY <1>1, FieldsOf DEF WordInit
  <1>3. ThreeCounters!GroupInit
    BY <1>2 DEF WordInit, ThreeCounters!GroupInit
  <1>4. ThreeCounters!IInv
    BY <1>3, ThreeCounters!InitIInv, CountersApply
  <1> QED
    BY <1>2, <1>3, <1>4 DEF WordInv, WordInit

LEMMA StepImplements ==
    ASSUME WordInv, [WordNext]_wordVars
    PROVE  WordInv' /\ [ThreeCounters!GroupNext]_ThreeCounters!groupVars
  <1>1. CASE UNCHANGED wordVars
    <2>1. UNCHANGED ThreeCounters!groupVars
      BY <1>1 DEF wordVars, ThreeCounters!groupVars, ThreeCounters!word, GroupOf, OwnerOf, ActiveOf
    <2>2. ThreeCounters!IInv'
      BY <2>1, ThreeCounters!NextIInv, CountersApply DEF WordInv
    <2>3. bits' \in Words /\ change_group' \in [Caller -> Nat]
      BY <1>1 DEF WordInv, wordVars
    <2>4. \A x \in Caller : at'[x] = "change" => change_group'[x] = ChangeGroup(wants'[x], bits')
      BY <1>1, SameGroup DEF wordVars, GroupOf
    <2> QED
      BY <2>1, <2>2, <2>3, <2>4 DEF WordInv, Words
  <1>2. ASSUME NEW t \in Caller,
               WordEnter(t) \/ WordChange(t) \/ WordJoin(t) \/ WordRetreat(t)
               \/ WordRetry(t) \/ WordGiveUp(t) \/ WordUnlock(t)
               \/ \E g \in GroupId : WordCall(t, g)
        PROVE  WordInv' /\ ThreeCounters!GroupNext
    <2>1. /\ bits' \in Words
          /\ ThreeCounters!GroupStep(t) \/ \E g \in GroupId : ThreeCounters!AskFor(t, g)
          /\ change_group' \in [Caller -> Nat]
          /\ \A x \in Caller : at'[x] = "change" => change_group'[x] = ChangeGroup(wants'[x], bits')
      <3>1. CASE WordEnter(t)
        BY <3>1, EnterImplements DEF ThreeCounters!GroupStep
      <3>2. CASE WordChange(t)
        BY <3>2, ChangeImplements DEF ThreeCounters!GroupStep
      <3>3. CASE WordJoin(t)
        <4>1. bits' \in Words /\ ThreeCounters!Join(t) /\ GroupOf(bits)' = GroupOf(bits)
          BY <3>3, JoinImplements
        <4>2. change_group' = change_group
              /\ \A x \in Caller : at'[x] = "change" => at[x] = "change" /\ wants'[x] = wants[x]
          BY <3>3, WordTyped DEF WordJoin, Move
        <4> QED
          BY <4>1, <4>2, SameGroup DEF ThreeCounters!GroupStep, WordInv
      <3>4. CASE WordRetreat(t)
        <4>1. bits' \in Words /\ ThreeCounters!Retreat(t) /\ GroupOf(bits)' = GroupOf(bits)
          BY <3>4, RetreatImplements
        <4>2. change_group' = change_group
              /\ \A x \in Caller : at'[x] = "change" => at[x] = "change" /\ wants'[x] = wants[x]
          BY <3>4, WordTyped DEF WordRetreat, Move
        <4> QED
          BY <4>1, <4>2, SameGroup DEF ThreeCounters!GroupStep, WordInv
      <3>5. CASE WordUnlock(t)
        <4>1. bits' \in Words /\ ThreeCounters!GroupUnlock(t) /\ GroupOf(bits)' = GroupOf(bits)
          BY <3>5, UnlockImplements
        <4>2. change_group' = change_group
              /\ \A x \in Caller : at'[x] = "change" => at[x] = "change" /\ wants'[x] = wants[x]
          BY <3>5, WordTyped DEF WordUnlock, Move
        <4> QED
          BY <4>1, <4>2, SameGroup DEF ThreeCounters!GroupStep, WordInv
      <3>6. CASE WordRetry(t) \/ WordGiveUp(t) \/ \E g \in GroupId : WordCall(t, g)
        <4>1. /\ bits' = bits
              /\ ThreeCounters!TryAgain(t) \/ ThreeCounters!TurnAway(t)
                 \/ \E g \in GroupId : ThreeCounters!AskFor(t, g)
          BY <3>6, QuietImplements
        <4>2. change_group' = change_group
              /\ \A x \in Caller : at'[x] = "change" => at[x] = "change" /\ wants'[x] = wants[x]
          BY <3>6, WordTyped DEF WordRetry, WordGiveUp, WordCall, Move
        <4>3. GroupOf(bits)' = GroupOf(bits) /\ bits' \in Words
          BY <4>1 DEF GroupOf, WordInv
        <4> QED
          BY <4>1, <4>2, <4>3, SameGroup DEF ThreeCounters!GroupStep, WordInv
      <3> QED
        BY <1>2, <3>1, <3>2, <3>3, <3>4, <3>5, <3>6
    <2>2. ThreeCounters!GroupNext
      BY <2>1 DEF ThreeCounters!GroupNext
    <2>3. ThreeCounters!IInv'
      BY <2>2, ThreeCounters!NextIInv, CountersApply DEF WordInv
    <2> QED
      BY <2>1, <2>2, <2>3 DEF WordInv, Words
  <1> QED
    BY <1>1, <1>2 DEF WordNext

(* The fields of the word are the counters of GroupBarrier at every moment: *)
(* a change to a group with a smaller number, whose carry counts the owner, *)
(* and additions and subtractions of other threads in between leave no      *)
(* carry in the wrong field (group_barrier.hpp:105-137).                    *)
THEOREM WordIsFields == WordSpec => RefinesFields
  <1>1. WordInit => Fields!GroupInit
    BY InitImplements DEF Fields!GroupInit, ThreeCounters!GroupInit
  <1>2. WordInv /\ [WordNext]_wordVars => WordInv' /\ [Fields!GroupNext]_Fields!groupVars
    BY StepImplements
       DEF ThreeCounters!GroupNext, Fields!GroupNext,
           ThreeCounters!GroupStep, Fields!GroupStep,
           ThreeCounters!EnterFirst, Fields!EnterFirst,
           ThreeCounters!EnterMember, Fields!EnterMember,
           ThreeCounters!EnterOther, Fields!EnterOther,
           ThreeCounters!Change, Fields!Change,
           ThreeCounters!Join, Fields!Join,
           ThreeCounters!Retreat, Fields!Retreat,
           ThreeCounters!TryAgain, Fields!TryAgain,
           ThreeCounters!TurnAway, Fields!TurnAway,
           ThreeCounters!GroupUnlock, Fields!GroupUnlock,
           ThreeCounters!AskFor, Fields!AskFor,
           ThreeCounters!Goto, Fields!Goto,
           ThreeCounters!groupVars, Fields!groupVars,
           ThreeCounters!word, Fields!word
  <1> QED
    BY <1>1, <1>2, InitImplements, PTL DEF WordSpec, RefinesFields, Fields!GroupSpec
------------------------------------------------------------------------------
(* The system: a step of one part leaves the variables of the others.       *)
SystemInv == TypeOK /\ LaneOwnership /\ MutualExclusion /\ IInv /\ ThreadInv /\ HeapInv

LEMMA SystemStep == SystemInv /\ [SystemNext]_systemVars => SystemInv'
<1> SUFFICES ASSUME SystemInv, [SystemNext]_systemVars
             PROVE  SystemInv'
  OBVIOUS
<1>1. [Next]_vars /\ [GroupNext]_groupVars /\ [ThreadNext]_threadVars /\ [HeapNext]_heapVars
  <2>1. CASE Only("policy", Next) /\ UNCHANGED <<groupVars, wordVars, threadVars, heapVars>>
    BY <2>1 DEF Only
  <2>2. CASE Only("fields", GroupNext) /\ UNCHANGED <<vars, wordVars, threadVars, heapVars>>
    BY <2>2 DEF Only
  <2>3. CASE Only("word", WordNext) /\ UNCHANGED <<vars, groupVars, threadVars, heapVars>>
    BY <2>3
  <2>4. CASE Only("thread", ThreadNext) /\ UNCHANGED <<vars, groupVars, wordVars, heapVars>>
    BY <2>4 DEF Only
  <2>5. CASE Only("heap", HeapNext) /\ UNCHANGED <<vars, groupVars, wordVars, threadVars>>
    BY <2>5 DEF Only
  <2>6. CASE UNCHANGED systemVars
    BY <2>6 DEF systemVars
  <2> QED
    BY <2>1, <2>2, <2>3, <2>4, <2>5, <2>6 DEF SystemNext
<1>2. TypeOK' /\ LaneOwnership' /\ MutualExclusion'
  BY <1>1, TypingStep, OwnershipStep, ExclusionStep DEF SystemInv
<1>3. IInv'
  BY <1>1, NextIInv DEF SystemInv
<1>4. ThreadInv'
  BY <1>1, ThreadInvStep DEF SystemInv
<1>5. HeapInv'
  BY <1>1, HeapInvStep DEF SystemInv
<1> QED
  BY <1>2, <1>3, <1>4, <1>5 DEF SystemInv

LEMMA SystemInvHolds == SystemSpec => []SystemInv
<1>1. SystemInit => SystemInv
  BY InitPolicy, InitIInv, InitThreadInv, HeapInvInit DEF SystemInit, SystemInv
<1> QED
  BY <1>1, SystemStep, PTL DEF SystemSpec

(* Every part keeps the types of its variables, whatever part runs.         *)
THEOREM SystemTyping == SystemSpec => []SystemTypeOK
<1>1. SystemInv => SystemTypeOK
  BY DEF SystemInv, SystemTypeOK, IInv, ThreadInv, Typed, HeapInv
<1> QED
  BY <1>1, SystemInvHolds, PTL

(* The invariants of the parts are invariants of the system: no step of one *)
(* part disturbs what another one promises.                                 *)
THEOREM SystemIsSafe ==
    SystemSpec => [](/\ LaneOwnership /\ MutualExclusion /\ CountersExact /\ OneGroup
                     /\ BlockOutlivesUsers /\ HeapFiled)
<1>1. SystemInv => /\ LaneOwnership /\ MutualExclusion /\ CountersExact /\ OneGroup
                   /\ BlockOutlivesUsers /\ HeapFiled
  BY InUseMeans, FiledMeans DEF SystemInv, IInv, GroupAgreed, OneGroup, Inside
<1> QED
  BY <1>1, SystemInvHolds, PTL
==============================================================================
