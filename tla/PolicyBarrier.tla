---------------------------- MODULE PolicyBarrier ----------------------------
(****************************************************************************)
(* concurrency/lock/policy_barrier.hpp.  The barrier is one machine word,   *)
(* m_state; every operation of the table owns some of its bits ("lanes"),   *)
(* all operations with an empty can<> list own one common bit.  The word is *)
(* modelled as the set of its bits that are 1.  Every atomic instruction of *)
(* try_lock / lock / unlock is one action, so the plain read of m_state and *)
(* the fetch_or that uses what was read are separate steps.                 *)
(****************************************************************************)
EXTENDS Naturals, FiniteSets

CONSTANTS
    Thread,         \* the threads that use the barrier
    Patient,        \* the threads that call lock(); the others call try_lock()
    Op,             \* the operations of the table
    Share,          \* Share[op]: the operations named in when<op>::can<...>
    Concurrency,    \* Concurrency[op]: channels of op
    GlobalMutex,    \* owner of bit 0, the bit of all operations with can<>
    None            \* no operation / no lane (a local that is out of scope)

(* What the templates make of a table: an operation that does not list      *)
(* itself has one channel (can_also<false>, line 144).  The last conjunct is *)
(* about the tables in use (docker/private/stack.hpp, queue.hpp): nobody    *)
(* shares with an operation that shares with nobody.                        *)
ASSUME TableAssumption ==
    /\ Patient \subseteq Thread
    /\ Share \in [Op -> SUBSET Op]
    /\ Concurrency \in [Op -> Nat \ {0}]
    /\ \A op \in Op : op \notin Share[op] => Concurrency[op] = 1
    /\ GlobalMutex \notin Op /\ None \notin Op
    /\ \A op \in Op : \A other \in Share[op] : Share[other] # {}

(* tidy: an operation with an empty can<> list is given bit 0, any other    *)
(* operation max_concurrency bits of its own.                               *)
GlobalBit       == <<GlobalMutex, 1>>
Mask(op)        == IF Share[op] = {} THEN {GlobalBit} ELSE {op} \X (1 .. Concurrency[op])
Master(op)      == IF Share[op] = {} THEN GlobalBit ELSE <<op, 1>>
Lane            == UNION {Mask(op) : op \in Op}
ShareMask(op)   == UNION {Mask(other) : other \in Share[op]}
Mutex_WithoutGlobal(op) == (Lane \ ShareMask(op)) \ {GlobalBit}  \* a mistake, see below
Mutex(op)       == Lane \ ShareMask(op)
CanConcurrency(op) == Concurrency[op] > 1

VARIABLES
    m_state,        \* the bits of the word that are set
    pc,             \* where each thread is
    operation,      \* the operation each thread asks for or runs
    candidate       \* the lane each thread is about to set or has set

vars == <<m_state, pc, operation, candidate>>

Init ==
    /\ m_state = {}
    /\ pc = [t \in Thread |-> "idle"]
    /\ operation = [t \in Thread |-> None]
    /\ candidate = [t \in Thread |-> None]

(* The first instruction of try_lock<op>: an operation with several lanes   *)
(* looks for a free one, the others go straight to fetch_or(master).        *)
StartTry(t, op) ==
    /\ pc' = [pc EXCEPT ![t] = IF CanConcurrency(op) THEN "scan" ELSE "claim"]
    /\ candidate' = [candidate EXCEPT ![t] = IF CanConcurrency(op) THEN None ELSE Master(op)]

Call(t, op) ==
    /\ pc[t] = "idle"
    /\ operation' = [operation EXCEPT ![t] = op]
    /\ StartTry(t, op)
    /\ UNCHANGED m_state

------------------------------------------------------------------------------
(* Plausible mistakes in the code below.  None is part of the model: each   *)
(* stands for the definition it is named after and must break a property.   *)

ScanFull_PastBoundary(t) ==
    /\ pc[t] = "scan"
    /\ Mask(operation[t]) \subseteq m_state
    /\ candidate' = [candidate EXCEPT ![t] = <<operation[t], Concurrency[operation[t]] + 1>>]
    /\ pc' = [pc EXCEPT ![t] = "claim"]
    /\ UNCHANGED <<m_state, operation>>

ClaimGranted_TakenLane(t) ==
    /\ pc[t] = "claim"
    /\ m_state \cap Mutex(operation[t]) = {}
    /\ m_state' = m_state \cup {candidate[t]}
    /\ pc' = [pc EXCEPT ![t] = "held"]
    /\ UNCHANGED <<operation, candidate>>

ClaimConflict_NoUndo(t) ==
    /\ pc[t] = "claim"
    /\ candidate[t] \notin m_state
    /\ m_state \cap Mutex(operation[t]) # {}
    /\ m_state' = m_state \cup {candidate[t]}
    /\ pc' = [pc EXCEPT ![t] = "refused"]
    /\ UNCHANGED <<operation, candidate>>

ClaimTaken_UndoAnyway(t) ==
    /\ pc[t] = "claim"
    /\ candidate[t] \in m_state
    /\ pc' = [pc EXCEPT ![t] = "undo"]
    /\ UNCHANGED <<m_state, operation, candidate>>

------------------------------------------------------------------------------
(* index_of_first_set(~m_state & raw::mask) found a clear bit               *)
Scan(t) ==
    /\ pc[t] = "scan"
    /\ \E lane \in Mask(operation[t]) \ m_state :
        /\ \A other \in Mask(operation[t]) \ m_state : lane[2] <= other[2]
        /\ candidate' = [candidate EXCEPT ![t] = lane]
    /\ pc' = [pc EXCEPT ![t] = "claim"]
    /\ UNCHANGED <<m_state, operation>>

(* index >= boundary: every lane of the operation is taken                  *)
ScanFull(t) ==
    /\ pc[t] = "scan"
    /\ Mask(operation[t]) \subseteq m_state
    /\ pc' = [pc EXCEPT ![t] = "refused"]
    /\ UNCHANGED <<m_state, operation, candidate>>

(* fetch_or set the lane and saw no bit of an excluded operation            *)
ClaimGranted(t) ==
    /\ pc[t] = "claim"
    /\ candidate[t] \notin m_state
    /\ m_state \cap Mutex(operation[t]) = {}
    /\ m_state' = m_state \cup {candidate[t]}
    /\ pc' = [pc EXCEPT ![t] = "held"]
    /\ UNCHANGED <<operation, candidate>>

(* fetch_or set the lane beside an excluded operation: it must be undone    *)
ClaimConflict(t) ==
    /\ pc[t] = "claim"
    /\ candidate[t] \notin m_state
    /\ m_state \cap Mutex(operation[t]) # {}
    /\ m_state' = m_state \cup {candidate[t]}
    /\ pc' = [pc EXCEPT ![t] = "undo"]
    /\ UNCHANGED <<operation, candidate>>

(* The lane was set by somebody else since it was read (or is the one lane  *)
(* of the operation): nothing to undo.  An operation with several lanes     *)
(* looks for another one unless it also met an excluded operation.          *)
ClaimTaken(t) ==
    /\ pc[t] = "claim"
    /\ candidate[t] \in m_state
    /\ LET again == /\ CanConcurrency(operation[t])
                    /\ m_state \cap Mutex(operation[t]) = {}
       IN  pc' = [pc EXCEPT ![t] = IF again THEN "scan" ELSE "refused"]
    /\ candidate' = [candidate EXCEPT ![t] = None]
    /\ UNCHANGED <<m_state, operation>>

Undo(t) ==
    /\ pc[t] = "undo"
    /\ m_state' = m_state \ {candidate[t]}
    /\ pc' = [pc EXCEPT ![t] = "refused"]
    /\ candidate' = [candidate EXCEPT ![t] = None]
    /\ UNCHANGED operation

(* not_exist: lock() yields and tries again, a caller of try_lock leaves    *)
Retry(t) ==
    /\ pc[t] = "refused"
    /\ t \in Patient
    /\ StartTry(t, operation[t])
    /\ UNCHANGED <<m_state, operation>>

GiveUp(t) ==
    /\ pc[t] = "refused"
    /\ t \notin Patient
    /\ pc' = [pc EXCEPT ![t] = "idle"]
    /\ operation' = [operation EXCEPT ![t] = None]
    /\ candidate' = [candidate EXCEPT ![t] = None]
    /\ UNCHANGED m_state

Unlock(t) ==
    /\ pc[t] = "held"
    /\ m_state' = m_state \ {candidate[t]}
    /\ pc' = [pc EXCEPT ![t] = "idle"]
    /\ operation' = [operation EXCEPT ![t] = None]
    /\ candidate' = [candidate EXCEPT ![t] = None]

(* The steps a thread takes once it has called the barrier                  *)
Step(t) ==
    \/ Scan(t) \/ ScanFull(t)
    \/ ClaimGranted(t) \/ ClaimConflict(t) \/ ClaimTaken(t)
    \/ Undo(t) \/ Retry(t) \/ GiveUp(t) \/ Unlock(t)

Next == \E t \in Thread : Step(t) \/ \E op \in Op : Call(t, op)

Spec == Init /\ [][Next]_vars

(* A thread that is inside the barrier keeps running; calls are the users'  *)
(* business.  That a holder unlocks is the contract of the callback form.   *)
FairSpec == Spec /\ \A t \in Thread : WF_vars(Step(t))

------------------------------------------------------------------------------
(* The threads that put a bit into the word and have not cleared it.        *)
Claimants == {t \in Thread : pc[t] \in {"held", "undo"}}
Holders   == {t \in Thread : pc[t] = "held"}

(* Types of the variables; a waiting, holding or undoing thread has an      *)
(* operation, and a claim is always for a lane of the thread's operation.   *)
TypeOK ==
    /\ m_state \subseteq Lane
    /\ pc \in [Thread -> {"idle", "scan", "claim", "undo", "refused", "held"}]
    /\ operation \in [Thread -> Op \cup {None}]
    /\ candidate \in [Thread -> Lane \cup {None}]
    /\ \A t \in Thread :
        /\ pc[t] # "idle" => operation[t] \in Op
        /\ pc[t] \in {"claim", "undo", "held"} => candidate[t] \in Mask(operation[t])

(* Every set bit of m_state was set by exactly one thread that still has to *)
(* clear it, and no claimant's bit has been cleared under it.  This is what *)
(* the test "(old & candicate) == 0" before the undo (lines 207 to 212) and *)
(* the early return of the one-lane branch (line 221) are there for.        *)
LaneOwnership ==
    /\ m_state = {candidate[t] : t \in Claimants}
    /\ \A t, u \in Claimants : candidate[t] = candidate[u] => t = u

(* Two threads are inside together only if the table allows the one that    *)
(* came last beside the other (for a symmetric table: if they share).       *)
MutualExclusion ==
    \A t, u \in Holders :
        t # u => \/ operation[u] \in Share[operation[t]]
                 \/ operation[t] \in Share[operation[u]]

(* try_lock / unlock implement the admission rule of the table.             *)
Admission == INSTANCE PolicyAdmission WITH
    Outside <- None,
    inside  <- [t \in Thread |-> IF pc[t] = "held" THEN operation[t] ELSE None]

RefinesAdmission == Admission!Spec

(* A bit that a refused attempt leaves behind, for a moment or for good,    *)
(* must not keep others out: once every other thread is outside the barrier *)
(* or uses other operations, all shared with t's, a thread in lock() gets   *)
(* in.  (Among threads of the same operation the race for the first free    *)
(* lane can be lost every time.)                                            *)
EntryWithoutRivals ==
    \A t \in Patient :
        <>[](\A u \in Thread \ {t} :
                \/ pc[u] = "idle"
                \/ /\ pc[t] # "idle"
                   /\ operation[u] \in Share[operation[t]] \ {operation[t]})
        => ((pc[t] # "idle") ~> (pc[t] = "held"))

(* README.md line 10: the policy lock avoids the starvation a read-write    *)
(* lock may cause.  A thread that asks for an exclusive operation (a        *)
(* writer) gets in although the other threads keep entering shared ones.    *)
NoWriterStarvation ==
    \A t \in Patient :
        [](\A u \in Thread \ {t} : pc[u] = "idle" \/ Share[operation[u]] # {})
        => ((pc[t] # "idle" /\ Share[operation[t]] = {}) ~> (pc[t] = "held"))
==============================================================================
