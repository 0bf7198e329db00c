----------------------------- MODULE RefHandles -----------------------------
(***************************************************************************)
(* The handles of src/gc/ref.hpp (ref_ptr, ref_array): variables that hold *)
(* a pointer to a counted node, used by several threads at once.  Shared  *)
(* variables are assigned, cleared and emptied by all of them; every       *)
(* thread has variables of its own.   The count of a node is lowered by    *)
(* the collector alone, after the pointer has been pushed to it: its      *)
(* pipeline is the subject of GcPipeline, here it is one step.            *)
(***************************************************************************)
EXTENDS Integers, FiniteSets

CONSTANTS
    Mutator, Shared, Node,
    NullRef,           \* null(): the memory of the empty object
    CopyShared,     \* threads copy from shared variables too, not only from
                    \* their own
    MaxPushed       \* places the queue of the collector has for a node

ASSUME HandlesAssumption ==
    /\ NullRef \notin Node /\ CopyShared \in BOOLEAN
    /\ MaxPushed \in Nat \ {0}
    /\ IsFiniteSet(Mutator) /\ IsFiniteSet(Shared)
    /\ Shared \cap (Mutator \X {1, 2}) = {}

VARIABLES
    mem,            \* [variable -> node or NullRef]
    owners,         \* [node -> m_record]
    alive,          \* the nodes that are allocated
    pushed,         \* [node -> times it waits in the queue of the collector]
    call            \* [thread -> the assignment it is in]

handleVars == <<mem, owners, alive, pushed, call>>

Own(t)   == {t} \X {1, 2}           \* the variables of a thread
Variable == Shared \cup UNION {Own(t) : t \in Mutator}
Pointer  == Node \cup {NullRef}
NoCall   == [stage |-> "idle", to |-> NullRef, om |-> NullRef]

Idle(t) == call[t].stage = "idle"
Goes(t, stage, to, om) == call' = [call EXCEPT ![t] = [stage |-> stage, to |-> to, om |-> om]]

\* every handle is destroyed by =(nullptr): what it held is pushed, once the
\* queue has room
HasRoom(p) == p # NullRef => pushed[p] < MaxPushed
Pushed(p) == IF p = NullRef THEN pushed ELSE [pushed EXCEPT ![p] = @ + 1]

\* ref_array(length, ...): a new node in a new handle
Make(t) ==
    /\ Idle(t)
    /\ \E n \in Node \ alive, own \in Own(t) :
         /\ mem[own] = NullRef
         /\ alive' = alive \cup {n}
         /\ owners' = [owners EXCEPT ![n] = 1]
         /\ mem' = [mem EXCEPT ![own] = n]
    /\ UNCHANGED <<pushed, call>>

Sources(t) == Own(t) \cup (IF CopyShared THEN Shared ELSE {})

\* meta(object): the new handle is the thread's own
CopyConstruct(t) ==
    /\ Idle(t)
    /\ \E from \in Sources(t), own \in Own(t) :
         /\ from # own /\ mem[own] = NullRef
         /\ Goes(t, "construct", own, mem[from])
    /\ UNCHANGED <<mem, owners, alive, pushed>>

\* v = object: object.mem is loaded once, nothing happens if v holds it
CopyAssign(t) ==
    /\ Idle(t)
    /\ \E v \in Shared \cup Own(t), from \in Sources(t) :
         v # from /\ Goes(t, "compare", v, mem[from])
    /\ UNCHANGED <<mem, owners, alive, pushed>>

\* what comes behind a step: the node is counted before it is seen in v
Behind_PublishFirst(stage) ==
    [compare |-> "swap", swap |-> "count", count |-> "idle"][stage]

Behind(stage) == [compare |-> "count", count |-> "swap", swap |-> "idle"][stage]

Compare(t) ==
    /\ call[t].stage = "compare"
    /\ IF call[t].om = mem[call[t].to]
       THEN call' = [call EXCEPT ![t] = NoCall]
       ELSE Goes(t, Behind("compare"), call[t].to, call[t].om)
    /\ UNCHANGED <<mem, owners, alive, pushed>>

Counted(p) == IF p = NullRef THEN owners ELSE [owners EXCEPT ![p] = @ + 1]

Count(t) ==
    /\ call[t].stage = "count"
    /\ owners' = Counted(call[t].om)
    /\ IF Behind("count") = "idle" THEN call' = [call EXCEPT ![t] = NoCall]
       ELSE Goes(t, Behind("count"), call[t].to, call[t].om)
    /\ UNCHANGED <<mem, alive, pushed>>

\* the copy constructor: counted, and held by the own handle
Construct(t) ==
    /\ call[t].stage = "construct"
    /\ owners' = Counted(call[t].om)
    /\ mem' = [mem EXCEPT ![call[t].to] = call[t].om]
    /\ call' = [call EXCEPT ![t] = NoCall]
    /\ UNCHANGED <<alive, pushed>>

\* v = move(object): object is emptied first
MoveAssign(t) ==
    /\ Idle(t)
    /\ \E v \in Shared, own \in Own(t) :
         /\ Goes(t, "moved", v, mem[own])
         /\ mem' = [mem EXCEPT ![own] = NullRef]
    /\ UNCHANGED <<owners, alive, pushed>>

\* atom_swap: what v held goes to old, which is destroyed
Swap(t) ==
    /\ call[t].stage \in {"swap", "moved"}
    /\ LET v    == call[t].to
           Last == call[t].stage = "moved" \/ Behind("swap") = "idle"
       IN  /\ HasRoom(mem[v])
           /\ mem' = [mem EXCEPT ![v] = call[t].om]
           /\ pushed' = Pushed(mem[v])
           /\ IF Last THEN call' = [call EXCEPT ![t] = NoCall]
              ELSE Goes(t, Behind("swap"), v, call[t].om)
    /\ UNCHANGED <<owners, alive>>

\* meta(move(object))
MoveConstruct(t) ==
    /\ Idle(t)
    /\ \E v \in Shared, own \in Own(t) :
         /\ mem[own] = NullRef
         /\ mem' = [mem EXCEPT ![own] = mem[v], ![v] = NullRef]
    /\ UNCHANGED <<owners, alive, pushed, call>>

\* v.swap(& own)
SwapHandles(t) ==
    /\ Idle(t)
    /\ \E v \in Shared, own \in Own(t) :
         mem' = [mem EXCEPT ![own] = mem[v], ![v] = mem[own]]
    /\ UNCHANGED <<owners, alive, pushed, call>>

\* v = nullptr, and the destructor
ClearHandle(t) ==
    /\ Idle(t)
    /\ \E v \in Shared \cup Own(t) :
         /\ mem[v] # NullRef /\ HasRoom(mem[v])
         /\ mem' = [mem EXCEPT ![v] = NullRef]
         /\ pushed' = Pushed(mem[v])
    /\ UNCHANGED <<owners, alive, call>>

\* the collector: lowers the count, destroys the node at zero
Collect ==
    \E n \in Node :
        /\ pushed[n] > 0
        /\ pushed' = [pushed EXCEPT ![n] = @ - 1]
        /\ owners' = [owners EXCEPT ![n] = @ - 1]
        /\ alive' = IF owners[n] = 1 THEN alive \ {n} ELSE alive
        /\ UNCHANGED <<mem, call>>

HandlesInit ==
    /\ mem = [v \in Variable |-> NullRef]
    /\ owners = [n \in Node |-> 0] /\ alive = {}
    /\ pushed = [n \in Node |-> 0]
    /\ call = [t \in Mutator |-> NoCall]

Steps(t) ==
    \/ Make(t) \/ CopyConstruct(t) \/ CopyAssign(t) \/ Compare(t) \/ Count(t)
    \/ Construct(t) \/ MoveAssign(t) \/ Swap(t) \/ MoveConstruct(t)
    \/ SwapHandles(t) \/ ClearHandle(t)

HandlesNext == Collect \/ \E t \in Mutator : Steps(t)

HandlesSpec == HandlesInit /\ [][HandlesNext]_handleVars

HandlesTypeOK ==
    /\ mem \in [Variable -> Pointer]
    /\ alive \subseteq Node
    /\ \A n \in Node : owners[n] >= 0 /\ pushed[n] >= 0
    /\ \A t \in Mutator : call[t].om \in Pointer

(***************************************************************************)
(* A node has as many owners as there are handles that hold it, pushes    *)
(* that wait and assignments that have counted it or taken it from a       *)
(* handle; so no node dies while a handle holds it, whatever assignments   *)
(* of the shared variables cross.                                          *)
(***************************************************************************)
HoldersOf(n) ==
    Cardinality({v \in Variable : mem[v] = n}) + pushed[n]
    + Cardinality({t \in Mutator : call[t].om = n /\ call[t].stage \in {"swap", "moved"}})

HandlesExact ==
    /\ \A n \in Node : owners[n] = HoldersOf(n)
    /\ \A n \in Node : n \in alive <=> owners[n] > 0

(***************************************************************************)
(* ref.hpp:263-280: with the empty object in place of nullptr the count   *)
(* of what object holds can be raised without a doubt.                     *)
(***************************************************************************)
CountsLiving ==
    \A t \in Mutator :
        call[t].stage \in {"count", "construct"} => call[t].om \in alive \cup {NullRef}

(* Who holds what is counted exactly: an object lives as long as a handle   *)
(* or an operation under way holds it, and its count is the number of its   *)
(* holders, however threads make, copy, move, swap and clear (ref.hpp).     *)
HoldersCounted == HandlesExact /\ CountsLiving
=============================================================================
