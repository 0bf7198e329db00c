--------------------------- MODULE ContainersProofs ---------------------------
(****************************************************************************)
(* Three parts of the containers, for any number of threads, nodes and keys:*)
(*   RefHandles: as long as threads copy from their own variables, the      *)
(* count of a node is the number of those who hold it, and nobody raises    *)
(* the count of a dead one.  (A copy from a shared variable breaks this:    *)
(* the run ref_shared.)                                                     *)
(*   GuardedList: a stack under its table, and a stack or a queue under a   *)
(* lock for one thread at a time, is what ListPromise says, and whoever     *)
(* holds a pointer inside the lock holds a node of the list.                *)
(*   HashMap: for any hash function and any sizes, growing, shrinking and   *)
(* collisions included, the table is the map of MapPromise, and a walk over *)
(* its lines meets every item once.                                         *)
(****************************************************************************)
EXTENDS RefHandles, GuardedList, HashMap, FunctionTheorems, FiniteSetTheorems, TLAPS

------------------------------------------------------------------------------
(* The handles                                                              *)
Stage == {"idle", "compare", "count", "construct", "swap", "moved"}
Calls == [stage : Stage, to : Variable \cup {NullRef}, om : Pointer]

HandlesTyped ==
    /\ mem \in [Variable -> Pointer]
    /\ owners \in [Node -> Int]
    /\ alive \subseteq Node
    /\ pushed \in [Node -> Nat]
    /\ call \in [Mutator -> Calls]

(* What a call writes to; what it carries from a variable of its thread is  *)
(* held there until it has been counted.                                    *)
Targets ==
    \A t \in Mutator :
        /\ call[t].stage \in {"compare", "count", "swap"} => call[t].to \in Shared \cup Own(t)
        /\ call[t].stage = "moved" => call[t].to \in Shared
        /\ call[t].stage = "construct" => call[t].to \in Own(t) /\ mem[call[t].to] = NullRef

StillHeld ==
    \A t \in Mutator : call[t].stage \in {"compare", "count", "construct"} =>
        \E own \in Own(t) : own # call[t].to /\ mem[own] = call[t].om

HandlesInv == HandlesTyped /\ Targets /\ StillHeld /\ HandlesExact

LEMMA VariableFinite == IsFiniteSet(Variable)
<1>1. IsFiniteSet({1, 2})
  <2>1. {1, 2} = {1} \cup {2}
    OBVIOUS
  <2>2. IsFiniteSet({1})
    BY FS_Singleton
  <2> QED
    BY <2>1, <2>2, FS_AddElement
<1>2. IsFiniteSet(Mutator \X {1, 2})
  BY <1>1, FS_Product, HandlesAssumption
<1>3. UNION {Own(t) : t \in Mutator} = Mutator \X {1, 2}
  BY DEF Own
<1> QED
  BY <1>2, <1>3, FS_Union, HandlesAssumption DEF Variable

(* The variables of two threads are different, and none is shared.          *)
LEMMA OwnApart ==
    /\ \A t \in Mutator : Own(t) \subseteq Variable /\ Own(t) \cap Shared = {}
    /\ \A t, u \in Mutator : t # u => Own(t) \cap Own(u) = {}
    /\ Shared \subseteq Variable
BY HandlesAssumption DEF Variable, Own

In(x, A) == IF x \in A THEN 1 ELSE 0

(* Two sets that differ in one place.                                       *)
LEMMA OnePlace ==
    ASSUME NEW S, IsFiniteSet(S), NEW A \in SUBSET S, NEW B \in SUBSET S, NEW x,
           A \ {x} = B \ {x}
    PROVE  /\ Cardinality(A) \in Nat /\ Cardinality(B) \in Nat
           /\ Cardinality(B) = Cardinality(A) - In(x, A) + In(x, B)
<1>1. IsFiniteSet(A) /\ IsFiniteSet(B)
  BY FS_Subset
<1>2. Cardinality(A) \in Nat /\ Cardinality(B) \in Nat
  BY <1>1, FS_CardinalityType
<1>3. Cardinality(A \ {x}) = IF x \in A THEN Cardinality(A) - 1 ELSE Cardinality(A)
  BY <1>1, FS_RemoveElement
<1>4. Cardinality(B \ {x}) = IF x \in B THEN Cardinality(B) - 1 ELSE Cardinality(B)
  BY <1>1, FS_RemoveElement
<1>5. Cardinality(A \ {x}) = Cardinality(B \ {x})
  OBVIOUS
<1> QED
  BY <1>2, <1>3, <1>4, <1>5 DEF In

(* The handles of a node before and after an assignment to one variable,    *)
(* and the calls that count as its holders.                                 *)
Has(f, n) == {v \in Variable : f[v] = n}
Counts(r, n) == r.om = n /\ r.stage \in {"swap", "moved"}
Carry(c, n) == {t \in Mutator : Counts(c[t], n)}

Same(a, b) == IF a = b THEN 1 ELSE 0
Carries(r, n) == IF Counts(r, n) THEN 1 ELSE 0

LEMMA SameType == \A a, b : Same(a, b) \in {0, 1} /\ (a = b <=> Same(a, b) = 1)
BY DEF Same

LEMMA HolderSum == \A n : HoldersOf(n) = Cardinality(Has(mem, n)) + pushed[n] + Cardinality(Carry(call, n))
BY DEF HoldersOf, Has, Carry, Counts

LEMMA HolderSumNext ==
    \A n : HoldersOf(n)' = Cardinality(Has(mem', n)) + pushed'[n] + Cardinality(Carry(call', n))
BY DEF HoldersOf, Has, Carry, Counts

Assigned(f, v, p, g) == f \in [Variable -> Pointer] /\ g = [f EXCEPT ![v] = p]
Calling(c, t, r, d)  == c \in [Mutator -> Calls] /\ d = [c EXCEPT ![t] = r]

LEMMA AssignCount ==
    ASSUME NEW f, NEW v \in Variable, NEW p, NEW g, Assigned(f, v, p, g), NEW n
    PROVE  Cardinality(Has(g, n)) = Cardinality(Has(f, n)) - Same(f[v], n) + Same(p, n)
<1> DEFINE A == Has(f, n)
           B == Has(g, n)
<1>1. A \in SUBSET Variable /\ B \in SUBSET Variable /\ A \ {v} = B \ {v}
  BY DEF Has, Assigned
<1>2. (v \in A <=> f[v] = n) /\ (v \in B <=> p = n)
  BY DEF Has, Assigned
<1>3. /\ Cardinality(A) \in Nat
      /\ Cardinality(B) = Cardinality(A) - In(v, A) + In(v, B)
  <2> HIDE DEF A, B
  <2> QED
    BY <1>1, VariableFinite, OnePlace
<1> QED
  BY <1>2, <1>3 DEF In, Same

LEMMA CallCount ==
    ASSUME NEW c, NEW t \in Mutator, NEW r, NEW d, Calling(c, t, r, d), NEW n
    PROVE  Cardinality(Carry(d, n)) = Cardinality(Carry(c, n)) - Carries(c[t], n) + Carries(r, n)
<1> DEFINE A == Carry(c, n)
           B == Carry(d, n)
<1>1. A \in SUBSET Mutator /\ B \in SUBSET Mutator /\ A \ {t} = B \ {t}
  BY DEF Carry, Calling
<1>2. (t \in A <=> Counts(c[t], n)) /\ (t \in B <=> Counts(r, n))
  BY DEF Carry, Calling
<1>3. /\ Cardinality(A) \in Nat
      /\ Cardinality(B) = Cardinality(A) - In(t, A) + In(t, B)
  <2>1. IsFiniteSet(Mutator)
    BY HandlesAssumption
  <2> HIDE DEF A, B
  <2> QED
    BY <1>1, <2>1, OnePlace
<1> QED
  BY <1>2, <1>3 DEF In, Carries

(* What a handle holds is alive.                                            *)
LEMMA HeldIsAlive ==
    ASSUME HandlesInv, NEW v \in Variable, mem[v] # NullRef
    PROVE  mem[v] \in alive /\ mem[v] \in Node
<1> PICK n \in Node : n = mem[v]
  BY DEF HandlesInv, HandlesTyped, Pointer
<1>1. Has(mem, n) # {} /\ Has(mem, n) \in SUBSET Variable
  BY DEF Has
<1>2. Cardinality(Has(mem, n)) \in Nat \ {0}
  BY <1>1, VariableFinite, FS_Subset, FS_EmptySet, FS_CardinalityType
<1>3. Cardinality(Carry(call, n)) \in Nat
  <2>1. Carry(call, n) \in SUBSET Mutator
    BY DEF Carry
  <2> QED
    BY <2>1, HandlesAssumption, FS_Subset, FS_CardinalityType
<1>4. pushed[n] \in Nat /\ owners[n] = HoldersOf(n)
  BY DEF HandlesInv, HandlesTyped, HandlesExact
<1>5. owners[n] > 0
  BY <1>2, <1>3, <1>4, HolderSum
<1> QED
  BY <1>5 DEF HandlesInv, HandlesExact

(* Somebody who still has to count a node holds it alive.                   *)
LEMMA CarriedIsAlive ==
    ASSUME HandlesInv, NEW t \in Mutator, call[t].stage \in {"compare", "count", "construct"}
    PROVE  call[t].om \in alive \cup {NullRef}
BY HeldIsAlive, OwnApart DEF HandlesInv, StillHeld

(* A step of one thread leaves the variables of the others alone.           *)
LEMMA OthersKeep ==
    ASSUME HandlesInv, NEW t \in Mutator, NEW r \in Calls,
           call' = [call EXCEPT ![t] = r],
           \A v \in Variable : v \notin Shared \cup Own(t) => mem'[v] = mem[v],
           r.stage \in {"compare", "count", "swap"} => r.to \in Shared \cup Own(t),
           r.stage = "moved" => r.to \in Shared,
           r.stage = "construct" => r.to \in Own(t) /\ mem'[r.to] = NullRef,
           r.stage \in {"compare", "count", "construct"} =>
               \E own \in Own(t) : own # r.to /\ mem'[own] = r.om
    PROVE  Targets' /\ StillHeld'
<1>1. call'[t] = r /\ \A u \in Mutator \ {t} : call'[u] = call[u]
  BY DEF HandlesInv, HandlesTyped
<1>2. \A u \in Mutator \ {t} : \A own \in Own(u) : mem'[own] = mem[own]
  <2> SUFFICES ASSUME NEW u \in Mutator \ {t}, NEW own \in Own(u) PROVE mem'[own] = mem[own]
    OBVIOUS
  <2>1. own \in Variable /\ own \notin Shared /\ own \notin Own(t)
    BY OwnApart
  <2> QED
    BY <2>1
<1>3. \A u \in Mutator : Own(u)' = Own(u)
  BY DEF Own
<1>4. Targets'
  <2> SUFFICES ASSUME NEW u \in Mutator
               PROVE  /\ call'[u].stage \in {"compare", "count", "swap"} => call'[u].to \in Shared \cup Own(u)
                      /\ call'[u].stage = "moved" => call'[u].to \in Shared
                      /\ call'[u].stage = "construct" => call'[u].to \in Own(u) /\ mem'[call'[u].to] = NullRef
    BY DEF Targets, Own
  <2>1. CASE u = t
    BY <1>1, <2>1
  <2>2. CASE u # t
    BY <1>1, <1>2, <2>2 DEF HandlesInv, Targets
  <2> QED
    BY <2>1, <2>2
<1>5. StillHeld'
  <2> SUFFICES ASSUME NEW u \in Mutator, call'[u].stage \in {"compare", "count", "construct"}
               PROVE  \E own \in Own(u) : own # call'[u].to /\ mem'[own] = call'[u].om
    BY DEF StillHeld, Own
  <2>1. CASE u = t
    BY <1>1, <2>1
  <2>2. CASE u # t
    BY <1>1, <1>2, <2>2 DEF HandlesInv, StillHeld
  <2> QED
    BY <2>1, <2>2
<1> QED
  BY <1>4, <1>5

(* The sum of the holders, in numbers.                                      *)
LEMMA SumType ==
    ASSUME HandlesInv, NEW n \in Node
    PROVE  /\ Cardinality(Has(mem, n)) \in Nat /\ Cardinality(Carry(call, n)) \in Nat
           /\ pushed[n] \in Nat /\ owners[n] \in Int /\ n # NullRef
           /\ owners[n] = Cardinality(Has(mem, n)) + pushed[n] + Cardinality(Carry(call, n))
           /\ n \in alive <=> owners[n] > 0
<1>1. Has(mem, n) \in SUBSET Variable /\ Carry(call, n) \in SUBSET Mutator
  BY DEF Has, Carry
<1>2. Cardinality(Has(mem, n)) \in Nat /\ Cardinality(Carry(call, n)) \in Nat
  BY <1>1, VariableFinite, HandlesAssumption, FS_Subset, FS_CardinalityType
<1> QED
  BY <1>2, HolderSum, HandlesAssumption DEF HandlesInv, HandlesTyped, HandlesExact

LEMMA ExactNext ==
    ASSUME \A n \in Node :
               /\ owners'[n] = Cardinality(Has(mem', n)) + pushed'[n] + Cardinality(Carry(call', n))
               /\ n \in alive' <=> owners'[n] > 0
    PROVE  HandlesExact'
BY HolderSumNext DEF HandlesExact

(* Steps that only change where a thread is.                                *)
LEMMA CallOnly ==
    ASSUME HandlesInv, NEW t \in Mutator, NEW r \in Calls,
           UNCHANGED <<mem, owners, alive, pushed>>, call' = [call EXCEPT ![t] = r],
           call[t].stage \notin {"swap", "moved"}, r.stage \notin {"swap", "moved"},
           r.stage \in {"compare", "count"} => r.to \in Shared \cup Own(t),
           r.stage = "construct" => r.to \in Own(t) /\ mem[r.to] = NullRef,
           r.stage \in {"compare", "count", "construct"} =>
               \E own \in Own(t) : own # r.to /\ mem[own] = r.om
    PROVE  HandlesInv'
<1>1. Targets' /\ StillHeld'
  BY OthersKeep
<1>2. HandlesTyped'
  BY DEF HandlesInv, HandlesTyped
<1>3. \A n : Carry(call', n) = Carry(call, n)
  BY DEF Carry, Counts, HandlesInv, HandlesTyped
<1>4. HandlesExact'
  BY <1>3, SumType, ExactNext
<1> QED
  BY <1>1, <1>2, <1>4 DEF HandlesInv

LEMMA CopyStarts ==
    ASSUME HandlesInv, ~CopyShared, NEW t \in Mutator, CopyConstruct(t) \/ CopyAssign(t)
    PROVE  HandlesInv'
<1>1. Sources(t) = Own(t) /\ Own(t) \subseteq Variable
  BY OwnApart DEF Sources
<1>2. CASE CopyConstruct(t)
  <2> PICK from \in Own(t), own \in Own(t) :
             /\ from # own /\ mem[own] = NullRef
             /\ call' = [call EXCEPT ![t] = [stage |-> "construct", to |-> own, om |-> mem[from]]]
    BY <1>1, <1>2 DEF CopyConstruct, Goes
  <2> DEFINE r == [stage |-> "construct", to |-> own, om |-> mem[from]]
  <2>1. r \in Calls
    BY <1>1 DEF Calls, Stage, HandlesInv, HandlesTyped
  <2>2. UNCHANGED <<mem, owners, alive, pushed>> /\ call[t].stage = "idle"
    BY <1>2 DEF CopyConstruct, Idle
  <2> QED
    BY <2>1, <2>2, CallOnly
<1>3. CASE CopyAssign(t)
  <2> PICK v \in Shared \cup Own(t), from \in Own(t) :
             /\ v # from
             /\ call' = [call EXCEPT ![t] = [stage |-> "compare", to |-> v, om |-> mem[from]]]
    BY <1>1, <1>3 DEF CopyAssign, Goes
  <2> DEFINE r == [stage |-> "compare", to |-> v, om |-> mem[from]]
  <2>1. r \in Calls
    BY <1>1, OwnApart DEF Calls, Stage, HandlesInv, HandlesTyped
  <2>2. UNCHANGED <<mem, owners, alive, pushed>> /\ call[t].stage = "idle"
    BY <1>3 DEF CopyAssign, Idle
  <2> QED
    BY <2>1, <2>2, CallOnly
<1> QED
  BY <1>2, <1>3

LEMMA NoCallType == NoCall \in Calls /\ NoCall.stage = "idle" /\ \A n : ~Counts(NoCall, n)
BY DEF NoCall, Calls, Stage, Pointer, Counts

LEMMA CompareStep == ASSUME HandlesInv, NEW t \in Mutator, Compare(t) PROVE HandlesInv'
<1>1. /\ call[t].stage = "compare" /\ call[t] \in Calls
      /\ call[t].to \in Shared \cup Own(t)
      /\ \E own \in Own(t) : own # call[t].to /\ mem[own] = call[t].om
  BY DEF Compare, HandlesInv, HandlesTyped, Targets, StillHeld
<1>2. UNCHANGED <<mem, owners, alive, pushed>>
  BY DEF Compare
<1> DEFINE r == [stage |-> "count", to |-> call[t].to, om |-> call[t].om]
<1>3. r \in Calls
  BY <1>1 DEF Calls, Stage
<1>4. call' = [call EXCEPT ![t] = NoCall] \/ call' = [call EXCEPT ![t] = r]
  BY DEF Compare, Behind, Goes
<1>5. CASE call' = [call EXCEPT ![t] = NoCall]
  BY <1>1, <1>2, <1>5, NoCallType, CallOnly
<1>6. CASE call' = [call EXCEPT ![t] = r]
  BY <1>1, <1>2, <1>3, <1>6, CallOnly
<1> QED
  BY <1>4, <1>5, <1>6

LEMMA CountTakes == ASSUME HandlesInv, NEW t \in Mutator, Count(t) PROVE HandlesInv'
<1> DEFINE p == call[t].om
           r == [stage |-> "swap", to |-> call[t].to, om |-> p]
<1>1. /\ call[t].stage = "count" /\ call[t] \in Calls
      /\ call[t].to \in Shared \cup Own(t)
  BY DEF Count, HandlesInv, HandlesTyped, Targets
<1>2. r \in Calls
  BY <1>1 DEF Calls, Stage
<1>3. call' = [call EXCEPT ![t] = r] /\ UNCHANGED <<mem, alive, pushed>>
  BY DEF Count, Behind, Goes
<1>4. owners' = IF p = NullRef THEN owners ELSE [owners EXCEPT ![p] = @ + 1]
  BY DEF Count, Counted
<1>5. p \in alive \cup {NullRef} /\ p \in Node \cup {NullRef}
  BY <1>1, CarriedIsAlive DEF Calls, Pointer
<1>6. Targets' /\ StillHeld'
  BY <1>1, <1>2, <1>3, OthersKeep
<1>7. HandlesTyped'
  BY <1>2, <1>3, <1>4, <1>5 DEF HandlesInv, HandlesTyped
<1>8. \A n : Carries(call[t], n) = 0 /\ Carries(r, n) = Same(p, n)
  BY <1>1 DEF Carries, Counts, Same
<1> HIDE DEF p, r
<1>9. \A n : Cardinality(Carry(call', n)) = Cardinality(Carry(call, n)) - Carries(call[t], n) + Carries(r, n)
  <2>1. Calling(call, t, r, call')
    BY <1>3 DEF Calling, HandlesInv, HandlesTyped
  <2> QED
    BY <2>1, CallCount
<1>10. HandlesExact'
  <2> SUFFICES ASSUME NEW n \in Node
               PROVE  /\ owners'[n] = Cardinality(Has(mem', n)) + pushed'[n] + Cardinality(Carry(call', n))
                      /\ n \in alive' <=> owners'[n] > 0
    BY ExactNext
  <2>1. Cardinality(Carry(call', n)) = Cardinality(Carry(call, n)) + Same(p, n)
    BY <1>8, <1>9, SumType DEF Same
  <2>2. owners'[n] = owners[n] + Same(p, n)
    BY <1>4, <1>5, SumType DEF Same, HandlesInv, HandlesTyped
  <2>3. mem' = mem /\ pushed' = pushed /\ alive' = alive
    BY <1>3
  <2>4. p = n => owners[n] > 0
    BY <1>5, SumType
  <2> QED
    BY <2>1, <2>2, <2>3, <2>4, SumType DEF Same
<1> QED
  BY <1>6, <1>7, <1>10 DEF HandlesInv

LEMMA ConstructHolds == ASSUME HandlesInv, NEW t \in Mutator, Construct(t) PROVE HandlesInv'
<1> DEFINE p == call[t].om
           v == call[t].to
<1>1. /\ call[t].stage = "construct" /\ call[t] \in Calls
      /\ v \in Own(t) /\ mem[v] = NullRef
  BY DEF Construct, HandlesInv, HandlesTyped, Targets
<1>2. /\ call' = [call EXCEPT ![t] = NoCall] /\ mem' = [mem EXCEPT ![v] = p]
      /\ UNCHANGED <<alive, pushed>>
  BY DEF Construct
<1>3. owners' = IF p = NullRef THEN owners ELSE [owners EXCEPT ![p] = @ + 1]
  BY DEF Construct, Counted
<1>4. p \in alive \cup {NullRef} /\ p \in Node \cup {NullRef} /\ v \in Variable
  BY <1>1, CarriedIsAlive, OwnApart DEF Calls, Pointer
<1>5. \A n : Carries(call[t], n) = 0 /\ Carries(NoCall, n) = 0
  BY <1>1, NoCallType DEF Carries, Counts
<1> HIDE DEF p, v
<1>6. mem \in [Variable -> Pointer] /\ call \in [Mutator -> Calls]
  BY DEF HandlesInv, HandlesTyped
<1>7. Targets' /\ StillHeld'
  BY <1>1, <1>2, <1>6, NoCallType, OthersKeep
<1>8. HandlesTyped'
  BY <1>2, <1>3, <1>4, NoCallType DEF HandlesInv, HandlesTyped, Pointer
<1>9. \A n : Cardinality(Carry(call', n)) = Cardinality(Carry(call, n)) - Carries(call[t], n) + Carries(NoCall, n)
  <2>1. Calling(call, t, NoCall, call')
    BY <1>2, <1>6 DEF Calling
  <2> QED
    BY <2>1, CallCount
<1>10. \A n : Cardinality(Has(mem', n)) = Cardinality(Has(mem, n)) - Same(mem[v], n) + Same(p, n)
  <2>1. Assigned(mem, v, p, mem')
    BY <1>2, <1>6 DEF Assigned
  <2> QED
    BY <1>4, <2>1, AssignCount
<1>11. HandlesExact'
  <2> SUFFICES ASSUME NEW n \in Node
               PROVE  /\ owners'[n] = Cardinality(Has(mem', n)) + pushed'[n] + Cardinality(Carry(call', n))
                      /\ n \in alive' <=> owners'[n] > 0
    BY ExactNext
  <2>1. Cardinality(Carry(call', n)) = Cardinality(Carry(call, n))
    BY <1>5, <1>9, SumType
  <2>2. Cardinality(Has(mem', n)) = Cardinality(Has(mem, n)) + Same(p, n)
    BY <1>1, <1>10, SumType, SameType
  <2>3. owners'[n] = owners[n] + Same(p, n)
    BY <1>3, <1>4, SumType DEF Same, HandlesInv, HandlesTyped
  <2>4. p = n => owners[n] > 0
    BY <1>4, SumType
  <2> QED
    BY <1>2, <2>1, <2>2, <2>3, <2>4, SumType, SameType
<1> QED
  BY <1>7, <1>8, <1>11 DEF HandlesInv

LEMMA MakeHolds == ASSUME HandlesInv, NEW t \in Mutator, Make(t) PROVE HandlesInv'
<1> PICK m \in Node \ alive, v \in Own(t) :
        /\ mem[v] = NullRef
        /\ alive' = alive \cup {m}
        /\ owners' = [owners EXCEPT ![m] = 1]
        /\ mem' = [mem EXCEPT ![v] = m]
  BY DEF Make
<1>1. call[t].stage = "idle" /\ UNCHANGED <<pushed, call>> /\ v \in Variable
  BY OwnApart DEF Make, Idle
<1>2. mem \in [Variable -> Pointer] /\ call \in [Mutator -> Calls] /\ call' = [call EXCEPT ![t] = call[t]]
  BY <1>1 DEF HandlesInv, HandlesTyped
<1>3. Targets' /\ StillHeld'
  BY <1>1, <1>2, OthersKeep
<1>4. HandlesTyped'
  BY <1>1 DEF HandlesInv, HandlesTyped, Pointer
<1>5. \A n : Cardinality(Has(mem', n)) = Cardinality(Has(mem, n)) - Same(mem[v], n) + Same(m, n)
  <2>1. Assigned(mem, v, m, mem')
    BY <1>2 DEF Assigned
  <2> QED
    BY <1>1, <2>1, AssignCount
<1>6. HandlesExact'
  <2> SUFFICES ASSUME NEW n \in Node
               PROVE  /\ owners'[n] = Cardinality(Has(mem', n)) + pushed'[n] + Cardinality(Carry(call', n))
                      /\ n \in alive' <=> owners'[n] > 0
    BY ExactNext
  <2>0. /\ Cardinality(Has(mem, n)) \in Nat /\ Cardinality(Carry(call, n)) \in Nat
        /\ pushed[n] \in Nat /\ owners[n] \in Int /\ n # NullRef
        /\ owners[n] = Cardinality(Has(mem, n)) + pushed[n] + Cardinality(Carry(call, n))
        /\ n \in alive <=> owners[n] > 0
    BY SumType
  <2>1. Cardinality(Has(mem', n)) = Cardinality(Has(mem, n)) + Same(m, n)
    <3>1. Cardinality(Has(mem', n)) = Cardinality(Has(mem, n)) - Same(NullRef, n) + Same(m, n)
      BY <1>5
    <3>2. Same(NullRef, n) = 0 /\ Same(m, n) \in {0, 1}
      BY <2>0, SameType
    <3> QED
      BY <2>0, <3>1, <3>2
  <2>2. owners'[n] = IF n = m THEN 1 ELSE owners[n]
    BY DEF HandlesInv, HandlesTyped
  <2>3. n = m => owners[n] = 0
    BY <2>0
  <2>4. (n = m => Same(m, n) = 1 /\ n \in alive') /\ (n # m => Same(m, n) = 0 /\ (n \in alive' <=> n \in alive))
    BY SameType
  <2>5. pushed' = pushed /\ call' = call
    BY <1>1
  <2> QED
    BY <2>0, <2>1, <2>2, <2>3, <2>4, <2>5
<1> QED
  BY <1>3, <1>4, <1>6 DEF HandlesInv

LEMMA MoveAssignHolds == ASSUME HandlesInv, NEW t \in Mutator, MoveAssign(t) PROVE HandlesInv'
<1> PICK v \in Shared, own \in Own(t) :
        /\ call' = [call EXCEPT ![t] = [stage |-> "moved", to |-> v, om |-> mem[own]]]
        /\ mem' = [mem EXCEPT ![own] = NullRef]
  BY DEF MoveAssign, Goes
<1> DEFINE p == mem[own]
           r == [stage |-> "moved", to |-> v, om |-> p]
<1>1. call[t].stage = "idle" /\ UNCHANGED <<owners, alive, pushed>> /\ own \in Variable /\ v \in Variable
  BY OwnApart DEF MoveAssign, Idle
<1>2. mem \in [Variable -> Pointer] /\ call \in [Mutator -> Calls] /\ call' = [call EXCEPT ![t] = r]
  BY DEF HandlesInv, HandlesTyped
<1>3. r \in Calls
  BY <1>1, <1>2 DEF Calls, Stage
<1>4. Targets' /\ StillHeld'
  BY <1>1, <1>2, <1>3, OthersKeep
<1>5. HandlesTyped'
  BY <1>1, <1>2, <1>3 DEF HandlesInv, HandlesTyped, Pointer
<1>6. \A n : Carries(call[t], n) = 0 /\ Carries(r, n) = Same(p, n)
  BY <1>1 DEF Carries, Counts, Same
<1> HIDE DEF r
<1>7. \A n : Cardinality(Has(mem', n)) = Cardinality(Has(mem, n)) - Same(p, n) + Same(NullRef, n)
  <2>1. Assigned(mem, own, NullRef, mem')
    BY <1>2 DEF Assigned
  <2> QED
    BY <1>1, <2>1, AssignCount
<1>8. \A n : Cardinality(Carry(call', n)) = Cardinality(Carry(call, n)) - Carries(call[t], n) + Carries(r, n)
  <2>1. Calling(call, t, r, call')
    BY <1>2 DEF Calling
  <2> QED
    BY <2>1, CallCount
<1>9. HandlesExact'
  <2> SUFFICES ASSUME NEW n \in Node
               PROVE  /\ owners'[n] = Cardinality(Has(mem', n)) + pushed'[n] + Cardinality(Carry(call', n))
                      /\ n \in alive' <=> owners'[n] > 0
    BY ExactNext
  <2>0. /\ Cardinality(Has(mem, n)) \in Nat /\ Cardinality(Carry(call, n)) \in Nat
        /\ pushed[n] \in Nat /\ owners[n] \in Int /\ n # NullRef
        /\ owners[n] = Cardinality(Has(mem, n)) + pushed[n] + Cardinality(Carry(call, n))
        /\ n \in alive <=> owners[n] > 0
    BY SumType
  <2>1. Cardinality(Has(mem', n)) = Cardinality(Has(mem, n)) - Same(p, n)
    <3>1. Cardinality(Has(mem', n)) = Cardinality(Has(mem, n)) - Same(p, n) + Same(NullRef, n)
      BY <1>7
    <3>2. Same(NullRef, n) = 0 /\ Same(p, n) \in {0, 1}
      BY <2>0, SameType
    <3> QED
      BY <2>0, <3>1, <3>2
  <2>2. Cardinality(Carry(call', n)) = Cardinality(Carry(call, n)) + Same(p, n)
    <3>1. Cardinality(Carry(call', n)) = Cardinality(Carry(call, n)) - 0 + Same(p, n)
      BY <1>6, <1>8
    <3>2. Same(p, n) \in {0, 1}
      BY SameType
    <3> QED
      BY <2>0, <3>1, <3>2
  <2> QED
    BY <1>1, <2>1, <2>2, SumType, SameType
<1> QED
  BY <1>4, <1>5, <1>9 DEF HandlesInv

LEMMA SwapHolds == ASSUME HandlesInv, NEW t \in Mutator, Swap(t) PROVE HandlesInv'
<1> DEFINE p == call[t].om
           v == call[t].to
<1>1. /\ call[t].stage \in {"swap", "moved"} /\ call[t] \in Calls
      /\ v \in Shared \cup Own(t)
  BY DEF Swap, HandlesInv, HandlesTyped, Targets
<1>2. /\ call' = [call EXCEPT ![t] = NoCall] /\ mem' = [mem EXCEPT ![v] = p]
      /\ UNCHANGED <<owners, alive>>
  BY DEF Swap, Behind
<1>3. pushed' = IF mem[v] = NullRef THEN pushed ELSE [pushed EXCEPT ![mem[v]] = @ + 1]
  BY DEF Swap, Pushed
<1>4. p \in Pointer /\ v \in Variable
  BY <1>1, OwnApart DEF Calls
<1>5. \A n : Carries(call[t], n) = Same(p, n) /\ Carries(NoCall, n) = 0
  BY <1>1, NoCallType DEF Carries, Counts, Same
<1> HIDE DEF p, v
<1>6. mem \in [Variable -> Pointer] /\ call \in [Mutator -> Calls]
  BY DEF HandlesInv, HandlesTyped
<1>7. Targets' /\ StillHeld'
  BY <1>1, <1>2, <1>6, NoCallType, OthersKeep
<1>8. HandlesTyped'
  BY <1>2, <1>3, <1>4, NoCallType DEF HandlesInv, HandlesTyped, Pointer
<1>9. \A n : Cardinality(Carry(call', n)) = Cardinality(Carry(call, n)) - Carries(call[t], n) + Carries(NoCall, n)
  <2>1. Calling(call, t, NoCall, call')
    BY <1>2, <1>6 DEF Calling
  <2> QED
    BY <2>1, CallCount
<1>10. \A n : Cardinality(Has(mem', n)) = Cardinality(Has(mem, n)) - Same(mem[v], n) + Same(p, n)
  <2>1. Assigned(mem, v, p, mem')
    BY <1>2, <1>6 DEF Assigned
  <2> QED
    BY <1>4, <2>1, AssignCount
<1>11. HandlesExact'
  <2> SUFFICES ASSUME NEW n \in Node
               PROVE  /\ owners'[n] = Cardinality(Has(mem', n)) + pushed'[n] + Cardinality(Carry(call', n))
                      /\ n \in alive' <=> owners'[n] > 0
    BY ExactNext
  <2>0. /\ Cardinality(Has(mem, n)) \in Nat /\ Cardinality(Carry(call, n)) \in Nat
        /\ pushed[n] \in Nat /\ owners[n] \in Int /\ n # NullRef
        /\ owners[n] = Cardinality(Has(mem, n)) + pushed[n] + Cardinality(Carry(call, n))
        /\ n \in alive <=> owners[n] > 0
    BY SumType
  <2>1. Cardinality(Carry(call', n)) = Cardinality(Carry(call, n)) - Same(p, n)
    BY <1>5, <1>9, SumType, SameType
  <2>2. pushed'[n] = pushed[n] + Same(mem[v], n)
    BY <1>3, SumType DEF Same, HandlesInv, HandlesTyped
  <2>3. Cardinality(Has(mem', n)) = Cardinality(Has(mem, n)) - Same(mem[v], n) + Same(p, n)
    BY <1>10
  <2>4. Same(mem[v], n) \in {0, 1} /\ Same(p, n) \in {0, 1}
    BY SameType
  <2>5. owners' = owners /\ alive' = alive
    BY <1>2
  <2> QED
    BY <2>0, <2>1, <2>2, <2>3, <2>4, <2>5
<1> QED
  BY <1>7, <1>8, <1>11 DEF HandlesInv

(* Two variables change: what the one held goes to the other.               *)
LEMMA TwoVariables ==
    ASSUME HandlesInv, NEW t \in Mutator, Idle(t), NEW v \in Shared, NEW own \in Own(t), NEW q \in Pointer,
           mem[own] = q \/ (mem[own] = NullRef /\ q = NullRef),
           mem' = [mem EXCEPT ![own] = mem[v], ![v] = q],
           UNCHANGED <<owners, alive, pushed, call>>
    PROVE  HandlesInv'
<1>1. own \in Variable /\ v \in Variable /\ own # v
  BY OwnApart
<1>2. mem \in [Variable -> Pointer] /\ call \in [Mutator -> Calls] /\ call' = [call EXCEPT ![t] = call[t]]
  BY DEF HandlesInv, HandlesTyped
<1>3. Targets' /\ StillHeld'
  <2>1. call[t].stage = "idle" /\ call[t] \in Calls
    BY <1>2 DEF Idle
  <2>2. \A x \in Variable : x \notin Shared \cup Own(t) => mem'[x] = mem[x]
    BY <1>1, <1>2
  <2> QED
    BY <1>2, <2>1, <2>2, OthersKeep
<1>4. HandlesTyped'
  BY <1>1, <1>2 DEF HandlesInv, HandlesTyped
<1> DEFINE f == [mem EXCEPT ![own] = mem[v]]
<1>5. f \in [Variable -> Pointer] /\ mem' = [f EXCEPT ![v] = q] /\ f[v] = mem[v] /\ mem[own] = q
  BY <1>1, <1>2
<1>6. \A n : Cardinality(Has(f, n)) = Cardinality(Has(mem, n)) - Same(mem[own], n) + Same(mem[v], n)
  <2>1. Assigned(mem, own, mem[v], f)
    BY <1>2 DEF Assigned
  <2> QED
    BY <1>1, <2>1, AssignCount
<1> HIDE DEF f
<1>7. \A n : Cardinality(Has(mem', n)) = Cardinality(Has(f, n)) - Same(f[v], n) + Same(q, n)
  <2>1. Assigned(f, v, q, mem')
    BY <1>5 DEF Assigned
  <2> QED
    BY <1>1, <2>1, AssignCount
<1>8. HandlesExact'
  <2> SUFFICES ASSUME NEW n \in Node
               PROVE  /\ owners'[n] = Cardinality(Has(mem', n)) + pushed'[n] + Cardinality(Carry(call', n))
                      /\ n \in alive' <=> owners'[n] > 0
    BY ExactNext
  <2>0. /\ Cardinality(Has(mem, n)) \in Nat /\ Cardinality(Carry(call, n)) \in Nat
        /\ pushed[n] \in Nat /\ owners[n] \in Int /\ n # NullRef
        /\ owners[n] = Cardinality(Has(mem, n)) + pushed[n] + Cardinality(Carry(call, n))
        /\ n \in alive <=> owners[n] > 0
    BY SumType
  <2>1. Cardinality(Has(mem', n)) = Cardinality(Has(f, n)) - Same(mem[v], n) + Same(q, n)
    BY <1>5, <1>7
  <2>2. Cardinality(Has(f, n)) = Cardinality(Has(mem, n)) - Same(q, n) + Same(mem[v], n)
    BY <1>5, <1>6
  <2>3. Same(mem[v], n) \in {0, 1} /\ Same(q, n) \in {0, 1}
    BY SameType
  <2>4. Cardinality(Has(mem', n)) = Cardinality(Has(mem, n))
    BY <2>0, <2>1, <2>2, <2>3
  <2> QED
    BY <2>0, <2>4
<1> QED
  BY <1>3, <1>4, <1>8 DEF HandlesInv

LEMMA ClearHolds == ASSUME HandlesInv, NEW t \in Mutator, ClearHandle(t) PROVE HandlesInv'
<1> PICK v \in Shared \cup Own(t) :
        /\ mem[v] # NullRef
        /\ mem' = [mem EXCEPT ![v] = NullRef]
        /\ pushed' = [pushed EXCEPT ![mem[v]] = @ + 1]
  BY DEF ClearHandle, Pushed
<1>1. call[t].stage = "idle" /\ UNCHANGED <<owners, alive, call>> /\ v \in Variable
  BY OwnApart DEF ClearHandle, Idle
<1>2. mem \in [Variable -> Pointer] /\ call \in [Mutator -> Calls] /\ call' = [call EXCEPT ![t] = call[t]]
  BY <1>1 DEF HandlesInv, HandlesTyped
<1>3. Targets' /\ StillHeld'
  BY <1>1, <1>2, OthersKeep
<1>4. mem[v] \in Node
  BY <1>1, <1>2 DEF Pointer
<1>5. HandlesTyped'
  BY <1>1, <1>4 DEF HandlesInv, HandlesTyped, Pointer
<1>6. \A n : Cardinality(Has(mem', n)) = Cardinality(Has(mem, n)) - Same(mem[v], n) + Same(NullRef, n)
  <2>1. Assigned(mem, v, NullRef, mem')
    BY <1>2 DEF Assigned
  <2> QED
    BY <1>1, <2>1, AssignCount
<1>7. HandlesExact'
  <2> SUFFICES ASSUME NEW n \in Node
               PROVE  /\ owners'[n] = Cardinality(Has(mem', n)) + pushed'[n] + Cardinality(Carry(call', n))
                      /\ n \in alive' <=> owners'[n] > 0
    BY ExactNext
  <2>0. /\ Cardinality(Has(mem, n)) \in Nat /\ Cardinality(Carry(call, n)) \in Nat
        /\ pushed[n] \in Nat /\ owners[n] \in Int /\ n # NullRef
        /\ owners[n] = Cardinality(Has(mem, n)) + pushed[n] + Cardinality(Carry(call, n))
        /\ n \in alive <=> owners[n] > 0
    BY SumType
  <2>1. pushed'[n] = pushed[n] + Same(mem[v], n)
    BY <1>4, SumType DEF Same, HandlesInv, HandlesTyped
  <2>2. Cardinality(Has(mem', n)) = Cardinality(Has(mem, n)) - Same(mem[v], n) + Same(NullRef, n)
    BY <1>6
  <2>3. Same(mem[v], n) \in {0, 1} /\ Same(NullRef, n) = 0
    BY <2>0, SameType
  <2>4. owners' = owners /\ alive' = alive /\ call' = call
    BY <1>1
  <2> QED
    BY <2>0, <2>1, <2>2, <2>3, <2>4
<1> QED
  BY <1>3, <1>5, <1>7 DEF HandlesInv

LEMMA CollectHolds == ASSUME HandlesInv, Collect PROVE HandlesInv'
<1> PICK m \in Node :
        /\ pushed[m] > 0
        /\ pushed' = [pushed EXCEPT ![m] = @ - 1]
        /\ owners' = [owners EXCEPT ![m] = @ - 1]
        /\ alive' = IF owners[m] = 1 THEN alive \ {m} ELSE alive
        /\ UNCHANGED <<mem, call>>
  BY DEF Collect
<1>1. HandlesTyped'
  BY DEF HandlesInv, HandlesTyped
<1>2. Targets' /\ StillHeld'
  BY DEF HandlesInv, Targets, StillHeld, Own
<1>3. HandlesExact'
  <2> SUFFICES ASSUME NEW n \in Node
               PROVE  /\ owners'[n] = Cardinality(Has(mem', n)) + pushed'[n] + Cardinality(Carry(call', n))
                      /\ n \in alive' <=> owners'[n] > 0
    BY ExactNext
  <2>1. owners'[n] = (IF n = m THEN owners[n] - 1 ELSE owners[n])
        /\ pushed'[n] = (IF n = m THEN pushed[n] - 1 ELSE pushed[n])
    BY DEF HandlesInv, HandlesTyped
  <2>2. owners[m] >= 1
    BY SumType
  <2> QED
    BY <2>1, <2>2, SumType
<1> QED
  BY <1>1, <1>2, <1>3 DEF HandlesInv

LEMMA HandlesStep == ~CopyShared /\ HandlesInv /\ [HandlesNext]_handleVars => HandlesInv'
<1> SUFFICES ASSUME ~CopyShared, HandlesInv, [HandlesNext]_handleVars PROVE HandlesInv'
  OBVIOUS
<1>1. CASE UNCHANGED handleVars
  <2>1. \A n : HoldersOf(n)' = HoldersOf(n)
    BY <1>1 DEF handleVars, HoldersOf
  <2> QED
    BY <1>1, <2>1 DEF handleVars, HandlesInv, HandlesTyped, Targets, StillHeld, HandlesExact, Own
<1>2. CASE Collect
  BY <1>2, CollectHolds
<1>3. CASE \E t \in Mutator : Steps(t)
  <2> PICK t \in Mutator : Steps(t)
    BY <1>3
  <2>1. CASE MoveConstruct(t)
    <3>1. NullRef \in Pointer
      BY DEF Pointer
    <3> QED
      BY <2>1, <3>1, TwoVariables DEF MoveConstruct
  <2>2. CASE SwapHandles(t)
    <3>1. \A own \in Own(t) : mem[own] \in Pointer
      BY OwnApart DEF HandlesInv, HandlesTyped
    <3> QED
      BY <2>2, <3>1, TwoVariables DEF SwapHandles
  <2>3. CASE ~MoveConstruct(t) /\ ~SwapHandles(t)
    BY <2>3, MakeHolds, CopyStarts, CompareStep, CountTakes, ConstructHolds, MoveAssignHolds, SwapHolds, ClearHolds
    DEF Steps
  <2> QED
    BY <2>1, <2>2, <2>3
<1> QED
  BY <1>1, <1>2, <1>3 DEF HandlesNext

LEMMA InitHandles == HandlesInit => HandlesInv
<1> SUFFICES ASSUME HandlesInit PROVE HandlesInv
  OBVIOUS
<1>1. HandlesTyped
  BY NoCallType DEF HandlesInit, HandlesTyped, Pointer
<1>2. Targets /\ StillHeld
  BY NoCallType DEF HandlesInit, Targets, StillHeld
<1>3. \A n \in Node : Has(mem, n) = {} /\ Carry(call, n) = {}
  BY NoCallType, HandlesAssumption DEF HandlesInit, Has, Carry
<1>4. HandlesExact
  <2>1. \A n \in Node : Cardinality(Has(mem, n)) = 0 /\ Cardinality(Carry(call, n)) = 0
    BY <1>3, FS_EmptySet
  <2>2. \A n \in Node : owners[n] = 0 /\ pushed[n] = 0 /\ n \notin alive
    BY DEF HandlesInit
  <2> QED
    BY <2>1, <2>2, HolderSum DEF HandlesExact
<1> QED
  BY <1>1, <1>2, <1>4 DEF HandlesInv

(* As long as threads copy only from their own variables, the count of a    *)
(* node is the number of handles, pushes and assignments that hold it, and  *)
(* whoever raises a count finds the node alive.                             *)
THEOREM CountedRight ==
    ASSUME ~CopyShared
    PROVE  HandlesSpec => []HoldersCounted
<1>1. HandlesInv /\ [HandlesNext]_handleVars => HandlesInv'
  BY HandlesStep
<1>2. HandlesInv => HoldersCounted
  BY CarriedIsAlive DEF HoldersCounted, CountsLiving, HandlesInv
<1> QED
  BY <1>1, <1>2, InitHandles, PTL DEF HandlesSpec

(* The variables keep their types; in particular no count falls below zero. *)
THEOREM HandlesTypeCorrect ==
    ASSUME ~CopyShared
    PROVE  HandlesSpec => []HandlesTypeOK
<1>1. HandlesInv /\ [HandlesNext]_handleVars => HandlesInv'
  BY HandlesStep
<1>2. HandlesInv => HandlesTypeOK
  <2> SUFFICES ASSUME HandlesInv PROVE HandlesTypeOK
    OBVIOUS
  <2>1. \A n \in Node : owners[n] >= 0 /\ pushed[n] >= 0
    BY SumType
  <2>2. \A t \in Mutator : call[t].om \in Pointer
    BY DEF HandlesInv, HandlesTyped, Calls
  <2> QED
    BY <2>1, <2>2 DEF HandlesInv, HandlesTyped, HandlesTypeOK
<1> QED
  BY <1>1, <1>2, InitHandles, PTL DEF HandlesSpec

------------------------------------------------------------------------------
(* Induction over sets: the shift by one is an injection of what is left    *)
(* into itself that misses its largest member.                              *)
LEMMA Descent ==
    ASSUME NEW k \in Nat, NEW T \in SUBSET (1 .. k), k \in T, \A j \in T : j - 1 \in T
    PROVE  FALSE
<1> DEFINE f == [j \in T |-> j - 1]
<1>1. IsFiniteSet(T)
  <2>1. IsFiniteSet(1 .. k)
    BY FS_Interval
  <2> QED
    BY <2>1, FS_Subset
<1>2. f \in Injection(T, T)
  <2>1. f \in [T -> T]
    OBVIOUS
  <2>2. IsInjective(f)
    BY DEF IsInjective
  <2> HIDE DEF f
  <2> QED
    BY <2>1, <2>2 DEF Injection
<1>3. f \in Surjection(T, T)
  BY <1>1, <1>2, FS_Injection
<1>4. PICK j \in T : f[j] = k
  <2> HIDE DEF f
  <2> QED
    BY <1>3 DEF Surjection
<1> QED
  BY <1>4

LEMMA Upwards ==
    ASSUME NEW S, 0 \in S, \A j \in Nat : j \in S => j + 1 \in S, NEW n \in Nat
    PROVE  n \in S
<1> SUFFICES ASSUME n \notin S PROVE FALSE
  OBVIOUS
<1> DEFINE T == {j \in 1 .. n : j \notin S}
<1>1. n \in T /\ T \in SUBSET (1 .. n)
  OBVIOUS
<1>2. ASSUME NEW j \in T PROVE j - 1 \in T
  OBVIOUS
<1> HIDE DEF T
<1> QED
  BY <1>1, <1>2, Descent

LEMMA Least ==
    ASSUME NEW S \in SUBSET Nat, S # {}
    PROVE  \E m \in S : \A o \in S : m <= o
<1> SUFFICES ASSUME \A m \in S : \E o \in S : o < m PROVE FALSE
  OBVIOUS
<1> DEFINE R == {j \in Nat : \A m \in S : m > j}
<1>1. 0 \in R
  OBVIOUS
<1>2. ASSUME NEW j \in Nat, j \in R PROVE j + 1 \in R
  BY <1>2
<1>3. PICK n \in S : TRUE
  OBVIOUS
<1>4. n \notin R
  BY <1>3
<1> HIDE DEF R
<1> QED
  BY <1>1, <1>2, <1>3, <1>4, Upwards

(* Paths: s leads from n along f to the first end.                          *)
Path(f, E, n, s) ==
    /\ s = <<>> <=> n = Null
    /\ s # <<>> => s[1] = n /\ s[Len(s)] \in E
    /\ \A i \in 1 .. Len(s) - 1 : s[i] \notin E /\ s[i + 1] = f[s[i]]

LEMMA OnePath ==
    ASSUME NEW f, NEW E, NEW n, NEW s \in Seq(Item), NEW t \in Seq(Item),
           Path(f, E, n, s), Path(f, E, n, t)
    PROVE  s = t
<1>1. CASE n = Null
  BY <1>1 DEF Path
<1>2. CASE n # Null
  <2>1. Len(s) \in Nat \ {0} /\ Len(t) \in Nat \ {0} /\ s[1] = n /\ t[1] = n
    BY <1>2 DEF Path
  <2> DEFINE R == {j \in Nat : j < Len(s) => j < Len(t) /\ s[j + 1] = t[j + 1]}
  <2>2. 0 \in R
    BY <2>1
  <2>3. ASSUME NEW j \in Nat, j \in R PROVE j + 1 \in R
    <3> SUFFICES ASSUME j + 1 < Len(s) PROVE j + 1 < Len(t) /\ s[j + 2] = t[j + 2]
      BY <2>3
    <3>1. j + 1 \in 1 .. Len(s) - 1 /\ j + 1 \in 1 .. Len(t) /\ s[j + 1] = t[j + 1]
      BY <2>1, <2>3
    <3>2. s[j + 1] \notin E /\ s[(j + 1) + 1] = f[s[j + 1]]
      BY <3>1 DEF Path
    <3>3. t[Len(t)] \in E
      BY <2>1 DEF Path
    <3>4. j + 1 # Len(t)
      BY <3>1, <3>2, <3>3
    <3>5. j + 1 \in 1 .. Len(t) - 1
      BY <3>1, <3>4, <2>1
    <3>6. t[(j + 1) + 1] = f[t[j + 1]]
      BY <3>5 DEF Path
    <3> QED
      BY <3>1, <3>2, <3>5, <3>6, <2>1
  <2> HIDE DEF R
  <2>4. \A j \in Nat : j \in R
    BY <2>2, <2>3, Upwards
  <2>5. \A j \in Nat : j < Len(s) => j < Len(t) /\ s[j + 1] = t[j + 1]
    BY <2>4 DEF R
  <2>6. Len(s) - 1 \in Nat /\ Len(s) - 1 < Len(s)
    BY <2>1
  <2>7. Len(s) <= Len(t) /\ s[Len(s)] = t[Len(s)]
    BY <2>1, <2>5, <2>6
  <2>8. s[Len(s)] \in E /\ \A i \in 1 .. Len(t) - 1 : t[i] \notin E
    BY <2>1 DEF Path
  <2>9. Len(s) = Len(t)
    BY <2>1, <2>7, <2>8
  <2>10. ASSUME NEW i \in 1 .. Len(s) PROVE s[i] = t[i]
    <3>1. i - 1 \in Nat /\ i - 1 < Len(s)
      BY <2>1
    <3> QED
      BY <2>5, <3>1
  <2> QED
    BY <2>9, <2>10
<1> QED
  BY <1>1, <1>2

LEMMA PathOnce ==
    ASSUME NEW f, NEW E, NEW n, NEW s \in Seq(Item), Path(f, E, n, s),
           NEW i \in 1 .. Len(s), NEW j \in 1 .. Len(s), i < j
    PROVE  s[i] # s[j]
<1> SUFFICES ASSUME s[i] = s[j] PROVE FALSE
  OBVIOUS
<1>1. Len(s) \in Nat /\ s # <<>>
  OBVIOUS
<1> DEFINE R == {k \in Nat : j + k <= Len(s) => s[i + k] = s[j + k]}
<1>2. 0 \in R
  OBVIOUS
<1>3. ASSUME NEW k \in Nat, k \in R PROVE k + 1 \in R
  <2> SUFFICES ASSUME j + (k + 1) <= Len(s) PROVE s[i + (k + 1)] = s[j + (k + 1)]
    OBVIOUS
  <2>1. i + k \in 1 .. Len(s) - 1 /\ j + k \in 1 .. Len(s) - 1 /\ s[i + k] = s[j + k]
    BY <1>1, <1>3
  <2>2. s[(i + k) + 1] = f[s[i + k]] /\ s[(j + k) + 1] = f[s[j + k]]
    BY <2>1 DEF Path
  <2> QED
    BY <2>1, <2>2
<1> HIDE DEF R
<1>4. \A k \in Nat : k \in R
  BY <1>2, <1>3, Upwards
<1>5. Len(s) - j \in Nat /\ j + (Len(s) - j) = Len(s)
  BY <1>1
<1>6. s[i + (Len(s) - j)] = s[Len(s)]
  <2>1. \A k \in Nat : j + k <= Len(s) => s[i + k] = s[j + k]
    BY <1>4 DEF R
  <2>2. j + (Len(s) - j) <= Len(s)
    BY <1>1, <1>5
  <2>3. s[i + (Len(s) - j)] = s[j + (Len(s) - j)]
    BY <1>5, <2>1, <2>2
  <2> QED
    BY <1>5, <2>3
<1>7. i + (Len(s) - j) \in 1 .. Len(s) - 1
  <2>1. i \in Nat /\ j \in Nat /\ 1 <= i /\ i + 1 <= j /\ j <= Len(s)
    BY <1>1
  <2> QED
    BY <1>1, <2>1
<1> QED
  BY <1>1, <1>6, <1>7 DEF Path

(* and no longer than there are items                                       *)
LEMMA PathShort ==
    ASSUME NEW S, IsFiniteSet(S), NEW s \in Seq(S),
           \A i, j \in 1 .. Len(s) : i < j => s[i] # s[j]
    PROVE  s \in SeqOf(S, Cardinality(S))
<1>1. s \in [1 .. Len(s) -> S] /\ Len(s) \in Nat
  OBVIOUS
<1>2. s \in Injection(1 .. Len(s), S)
  <2>1. ASSUME NEW i \in 1 .. Len(s), NEW j \in 1 .. Len(s), s[i] = s[j] PROVE i = j
    BY <1>1, <2>1
  <2> QED
    BY <1>1, <2>1 DEF Injection, IsInjective
<1>3. Cardinality(1 .. Len(s)) <= Cardinality(S) /\ Cardinality(1 .. Len(s)) = Len(s)
  <2>1. Cardinality(1 .. Len(s)) <= Cardinality(S)
    BY <1>2, FS_Injection
  <2>2. Cardinality(1 .. Len(s)) = IF 1 > Len(s) THEN 0 ELSE Len(s) - 1 + 1
    BY <1>1, FS_Interval
  <2> QED
    BY <1>1, <2>1, <2>2
<1>4. Len(s) \in 0 .. Cardinality(S)
  <2>1. Cardinality(S) \in Nat
    BY FS_CardinalityType
  <2> QED
    BY <1>1, <1>3, <2>1
<1> QED
  BY <1>1, <1>4 DEF SeqOf

------------------------------------------------------------------------------
(* Sequences                                                                *)
LEMMA Consed ==
    ASSUME NEW c \in Item, NEW s \in Seq(Item)
    PROVE  /\ <<c>> \o s \in Seq(Item) /\ Len(<<c>> \o s) = Len(s) + 1 /\ (<<c>> \o s)[1] = c
           /\ \A i \in 1 .. Len(s) : (<<c>> \o s)[i + 1] = s[i]
           /\ <<c>> \o s # <<>> /\ Tail(<<c>> \o s) = s
           /\ Len(s) \in Nat /\ (s = <<>> <=> Len(s) = 0) /\ \A i \in 1 .. Len(s) : s[i] \in Item
<1> DEFINE t == <<c>> \o s
<1>1. /\ t \in Seq(Item) /\ Len(t) = Len(s) + 1 /\ t[1] = c /\ t # <<>>
      /\ Len(s) \in Nat /\ (s = <<>> <=> Len(s) = 0) /\ \A i \in 1 .. Len(s) : s[i] \in Item
  OBVIOUS
<1>2. \A i \in 1 .. Len(s) : t[i + 1] = s[i]
  OBVIOUS
<1> HIDE DEF t
<1>3. Tail(t) = s
  <2>1. Tail(t) \in Seq(Item) /\ Len(Tail(t)) = Len(s)
    BY <1>1
  <2>2. \A i \in 1 .. Len(s) : Tail(t)[i] = s[i]
    BY <1>1, <1>2
  <2> QED
    BY <1>1, <2>1, <2>2
<1> QED
  BY <1>1, <1>2, <1>3 DEF t

LEMMA Emptied ==
    ASSUME NEW s \in Seq(Item)
    PROVE  s = <<>> <=> Len(s) = 0
OBVIOUS

LEMMA Tailed ==
    ASSUME NEW s \in Seq(Item), s # <<>>
    PROVE  /\ Tail(s) \in Seq(Item) /\ Len(Tail(s)) = Len(s) - 1 /\ Len(s) \in Nat \ {0}
           /\ \A i \in 1 .. Len(s) - 1 : Tail(s)[i] = s[i + 1]
           /\ (Tail(s) = <<>> <=> Len(s) = 1) /\ \A i \in 1 .. Len(s) : s[i] \in Item
<1>1. /\ Tail(s) \in Seq(Item) /\ Len(Tail(s)) = Len(s) - 1 /\ Len(s) \in Nat \ {0}
      /\ \A i \in 1 .. Len(s) - 1 : Tail(s)[i] = s[i + 1]
      /\ \A i \in 1 .. Len(s) : s[i] \in Item
  OBVIOUS
<1>2. Tail(s) = <<>> <=> Len(s) = 1
  <2> DEFINE r == Tail(s)
  <2>1. r \in Seq(Item) /\ Len(r) = Len(s) - 1
    BY <1>1
  <2> HIDE DEF r
  <2>2. r = <<>> <=> Len(r) = 0
    BY <2>1, Emptied
  <2>3. r = <<>> <=> Len(s) = 1
    BY <1>1, <2>1, <2>2
  <2> QED
    BY <2>3 DEF r
<1> QED
  BY <1>1, <1>2

------------------------------------------------------------------------------
(* The invariant                                                            *)
Away    == {"idle", "free", "sweep"}
Pushing == {"push", "link", "behind", "swap"}
Looking == {"peek", "poke", "touch"}
Walking == {"foreach", "walk"}

Together(a, b) ==
    \/ a \in Pushing \cup Looking /\ b \in Pushing \cup Looking
    \/ a \in Walking \cup Looking /\ b \in Walking \cup Looking

(* the rows of the table that a step may be in                              *)
Ops(a) == IF a \in Pushing THEN {"push"}
          ELSE IF a \in {"pop", "unlink"} THEN {"pop"}
          ELSE IF a = "clear" THEN {"clear"}
          ELSE IF a \in Walking THEN {"foreach"}
          ELSE {"peek", "poke"}

Rows ==
    \A u \in User : IF at[u] \in Away THEN inside[u] = Null
                    ELSE \E op \in Ops(at[u]) : inside[u] = <<shape[2], op>>
Beside ==
    \A u, v \in User : u # v /\ at[u] \notin Away /\ at[v] \notin Away =>
        shape[2] = "policy" /\ Together(at[u], at[v])

Placed ==
    /\ ListTypeOK /\ Rows /\ Beside
    /\ IsStack \/ shape[2] = "lwmutex"

(* No two pushes have the same node.                                        *)
Pushers ==
    \A u, v \in User : u # v /\ at[u] \in Pushing /\ at[v] \in Pushing => cur[u] # cur[v]

(* What a push knows of its node                                            *)
PushKnows(u) ==
    /\ at[u] \in {"push", "behind", "swap"} => cur[u] \in Item /\ fate[cur[u]] = "made"
    /\ at[u] = "link" => IsStack /\ cur[u] \in Item /\ fate[cur[u]] = "linked"
    /\ at[u] = "behind" => ~IsStack /\ top # Null /\ old[u] = top /\ next[cur[u]] = next[top]
    /\ at[u] = "swap" => ~IsStack /\ (IF top = Null THEN next[cur[u]] = cur[u] ELSE next[top] = cur[u])

(* Who frees nodes behind the lock meets only nodes that were taken off.    *)
Gone == {"taken", "freed"}
FreeKnows(u) ==
    /\ at[u] = "free" => cur[u] \in Item /\ fate[cur[u]] \in Gone
    /\ at[u] = "sweep" => \E S \in SUBSET Item :
        /\ cur[u] \in S \cup {Null}
        /\ \A n \in S : fate[n] \in Gone /\ next[n] \in S \cup {Null}

(* What is read under the lock: the first node, one that is linked, the     *)
(* node behind those that a walk has seen.                                  *)
LookKnows(u, s) ==
    /\ at[u] = "unlink" => top # Null /\ cur[u] = First
    /\ at[u] = "touch" /\ cur[u] # Null => fate[cur[u]] = "linked"
    /\ at[u] = "walk" =>
        /\ Len(seen[u]) <= Len(s) /\ \A i \in 1 .. Len(seen[u]) : seen[u][i] = s[i]
        /\ cur[u] = IF Len(seen[u]) < Len(s) THEN s[Len(seen[u]) + 1] ELSE Null

(* s is the list, with the node in front that is about to be its top.       *)
Swapping(n) == top # Null /\ \E u \in User : at[u] = "swap" /\ cur[u] = n

Listed(s) ==
    /\ s \in Seq(Item) /\ From(First, s)
    /\ top # Null => fate[top] = "linked"
    /\ \A n \in Item : (\E i \in 1 .. Len(s) : s[i] = n) <=> fate[n] = "linked" \/ Swapping(n)

State(s) ==
    /\ Placed /\ Pushers /\ Listed(s)
    /\ \A u \in User : PushKnows(u) /\ FreeKnows(u) /\ LookKnows(u, s)

(* What the container's content is then                                     *)
Shown(s) == IF s # <<>> /\ fate[s[1]] # "linked" THEN Tail(s) ELSE s

ListInv == \E s \in Seq(Item) : State(s)

------------------------------------------------------------------------------
LEMMA NullApart == Null \notin Item /\ \A row \in Row : row # Null
BY ListAssumption

(* The link of a node whose push is under way is the one the push read.     *)
LinkKnown ==
    \A n \in Item :
        /\ \A u \in User : at[u] = "link" /\ cur[u] = n => Link(n) = old[u]
        /\ (\A u \in User : at[u] = "link" => cur[u] # n) => Link(n) = next[n]

LEMMA LinkLemma == Pushers => LinkKnown
<1> SUFFICES ASSUME Pushers, NEW n \in Item
             PROVE  /\ \A u \in User : at[u] = "link" /\ cur[u] = n => Link(n) = old[u]
                    /\ (\A u \in User : at[u] = "link" => cur[u] # n) => Link(n) = next[n]
  BY DEF LinkKnown
<1>1. ASSUME NEW u \in User, at[u] = "link", cur[u] = n
      PROVE  Link(n) = old[u]
  <2> DEFINE w == CHOOSE v \in User : at[v] = "link" /\ cur[v] = n
  <2>1. w \in User /\ at[w] = "link" /\ cur[w] = n
    BY <1>1
  <2>2. Link(n) = old[w]
    BY <1>1 DEF Link
  <2> HIDE DEF w
  <2>3. w = u
    BY <1>1, <2>1 DEF Pushers, Pushing
  <2> QED
    BY <2>2, <2>3
<1>2. ASSUME \A u \in User : at[u] = "link" => cur[u] # n
      PROVE  Link(n) = next[n]
  BY <1>2 DEF Link
<1> QED
  BY <1>1, <1>2

(* There is one path only.                                                  *)
LEMMA FromPath ==
    ASSUME NEW n, NEW s \in Seq(Item), From(n, s)
    PROVE  Path([m \in Item |-> Link(m)], {m \in Item : Ends(m)}, n, s)
<1> DEFINE f == [m \in Item |-> Link(m)]
           E == {m \in Item : Ends(m)}
<1>1. \A m \in Item : f[m] = Link(m) /\ (m \in E <=> Ends(m))
  OBVIOUS
<1>2. Len(s) \in Nat /\ \A i \in 1 .. Len(s) : s[i] \in Item
  OBVIOUS
<1>3. s # <<>> => Len(s) \in 1 .. Len(s)
  BY <1>2
<1> HIDE DEF f, E
<1>4. s = <<>> <=> n = Null
  BY DEF From
<1>5. s # <<>> => s[1] = n /\ s[Len(s)] \in E
  BY <1>1, <1>2, <1>3 DEF From
<1>6. ASSUME NEW i \in 1 .. Len(s) - 1
      PROVE  s[i] \notin E /\ s[i + 1] = f[s[i]]
  <2>1. s[i] \in Item /\ ~Ends(s[i]) /\ s[i + 1] = Link(s[i])
    BY <1>2 DEF From
  <2> QED
    BY <1>1, <2>1
<1>7. Path(f, E, n, s)
  BY <1>4, <1>5, <1>6 DEF Path
<1> QED
  BY <1>7 DEF f, E

LEMMA FromOnce ==
    ASSUME NEW n, NEW s \in Seq(Item), From(n, s)
    PROVE  /\ \A t \in Seq(Item) : From(n, t) => t = s
           /\ \A i, j \in 1 .. Len(s) : i < j => s[i] # s[j]
<1>1. ASSUME NEW t \in Seq(Item), From(n, t) PROVE t = s
  BY <1>1, FromPath, OnePath
<1>2. ASSUME NEW i \in 1 .. Len(s), NEW j \in 1 .. Len(s), i < j PROVE s[i] # s[j]
  BY <1>2, FromPath, PathOnce
<1> QED
  BY <1>1, <1>2

LEMMA ChainIs ==
    ASSUME NEW n, NEW s \in Seq(Item), From(n, s), \A i \in 1 .. Len(s) : s[i] \in InList
    PROVE  Chain(n) = s
<1> DEFINE rest  == InList \ {n}
           paths == {<<>>} \cup {<<n>> \o r : r \in SeqOf(rest, Cardinality(rest))}
           found == {t \in paths : From(n, t)}
<1>1. IsFiniteSet(rest)
  BY ListAssumption, FS_Subset DEF InList
<1>2. s \in paths /\ \A t \in found : t = s
  <2>1. CASE s = <<>>
    <3>1. n = Null
      BY <2>1 DEF From
    <3> QED
      BY <2>1, <3>1 DEF From
  <2>2. CASE s # <<>>
    <3> DEFINE q == Tail(s)
    <3>1. /\ q \in Seq(Item) /\ Len(q) = Len(s) - 1 /\ Len(s) \in Nat \ {0}
          /\ \A i \in 1 .. Len(s) - 1 : q[i] = s[i + 1]
      BY <2>2, Tailed
    <3>2. n = s[1] /\ n \in Item /\ n # Null
      BY <2>2, <3>1, NullApart DEF From
    <3>3. \A i, j \in 1 .. Len(s) : i < j => s[i] # s[j]
      BY FromOnce
    <3>4. s = <<n>> \o q
      BY <2>2, <3>2
    <3> HIDE DEF q
    <3>5. \A i \in 1 .. Len(q) : q[i] \in rest
      <4>1. ASSUME NEW i \in 1 .. Len(q)
            PROVE  /\ i \in 1 .. Len(s) - 1 /\ i + 1 \in 1 .. Len(s)
                   /\ 1 < i + 1 /\ 1 \in 1 .. Len(s)
        BY <3>1
      <4> QED
        BY <3>1, <3>2, <3>3, <4>1
    <3>6. \A i, j \in 1 .. Len(q) : i < j => q[i] # q[j]
      <4>1. ASSUME NEW i \in 1 .. Len(q), NEW j \in 1 .. Len(q), i < j
            PROVE  /\ i \in 1 .. Len(s) - 1 /\ i + 1 \in 1 .. Len(s)
                   /\ j \in 1 .. Len(s) - 1 /\ j + 1 \in 1 .. Len(s) /\ i + 1 < j + 1
        BY <3>1, <4>1
      <4> QED
        BY <3>1, <3>3, <4>1
    <3>7. q \in SeqOf(rest, Cardinality(rest))
      <4>1. q \in Seq(rest)
        BY <3>1, <3>5
      <4> QED
        BY <1>1, <3>6, <4>1, PathShort
    <3>8. ASSUME NEW t \in found PROVE t = s
      <4>1. t # <<>>
        BY <3>2 DEF From
      <4>2. PICK r \in SeqOf(rest, Cardinality(rest)) : t = <<n>> \o r
        BY <4>1
      <4>3. r \in UNION {[1 .. k -> rest] : k \in 0 .. Cardinality(rest)}
        BY DEF SeqOf
      <4>4. PICK k \in 0 .. Cardinality(rest) : r \in [1 .. k -> rest]
        BY <4>3
      <4>5. Cardinality(rest) \in Nat
        BY <1>1, FS_CardinalityType
      <4>6. r \in [1 .. k -> Item] /\ k \in Nat
        BY <4>4, <4>5 DEF InList
      <4>7. r \in Seq(Item)
        BY <4>6
      <4>8. t \in Seq(Item) /\ From(n, t)
        BY <3>2, <4>2, <4>7, Consed
      <4> QED
        BY <4>8, FromOnce
    <3> QED
      BY <3>4, <3>7, <3>8
  <2> QED
    BY <2>1, <2>2
<1>3. found # {} /\ \A t \in found : t = s
  BY <1>2
<1>4. Chain(n) = IF found = {} THEN <<Null>> ELSE CHOOSE t \in found : TRUE
  BY DEF Chain
<1> HIDE DEF found
<1> QED
  BY <1>3, <1>4

LEMMA ListedIn ==
    ASSUME NEW s, State(s)
    PROVE  \A i \in 1 .. Len(s) : s[i] \in InList
<1> SUFFICES ASSUME NEW i \in 1 .. Len(s) PROVE s[i] \in InList
  OBVIOUS
<1>1. s[i] \in Item
  BY DEF State, Listed
<1>2. fate[s[i]] = "linked" \/ Swapping(s[i])
  BY <1>1 DEF State, Listed
<1>3. Swapping(s[i]) => fate[s[i]] = "made"
  BY DEF State, Swapping, PushKnows
<1> QED
  BY <1>1, <1>2, <1>3 DEF InList

ContentKnown == \A s \in Seq(Item) : State(s) => Content = Shown(s)

LEMMA ContentLemma == ContentKnown
<1> SUFFICES ASSUME NEW s \in Seq(Item), State(s) PROVE Content = Shown(s)
  BY DEF ContentKnown
<1>1. Chain(First) = s
  BY ListedIn, ChainIs DEF State, Listed
<1>2. s # <<>> => s[1] \in Item
  OBVIOUS
<1> QED
  BY <1>1, <1>2 DEF Content, Shown

LEMMA ListInitial ==
    ASSUME ListInit, \A sh \in Shape : sh[1] = "stack" \/ sh[2] = "lwmutex"
    PROVE  State(<<>>)
<1> USE DEF ListInit
<1>1. Placed
  <2>1. inside = [u \in User |-> Null]
    BY DEF Lock!Init
  <2>2. ListTypeOK
    BY <2>1, ListAssumption DEF ListTypeOK, Step
  <2>3. Rows /\ Beside
    BY <2>1 DEF Rows, Beside, Away
  <2> QED
    BY <2>2, <2>3 DEF Placed, IsStack
<1>2. Pushers
  BY DEF Pushers, Pushing
<1>3. Listed(<<>>)
  <2>1. From(First, <<>>)
    BY DEF From, First
  <2> QED
    BY <2>1 DEF Listed, Swapping
<1>4. \A u \in User : PushKnows(u) /\ FreeKnows(u) /\ LookKnows(u, <<>>)
  BY DEF PushKnows, FreeKnows, LookKnows
<1> QED
  BY <1>1, <1>2, <1>3, <1>4 DEF State

------------------------------------------------------------------------------
(* Who is inside together                                                   *)
LEMMA Company ==
    ASSUME Placed, NEW u \in User, NEW v \in User, u # v, at[u] \notin Away, at[v] \notin Away
    PROVE  IsStack /\ Together(at[u], at[v])
BY DEF Placed, Beside

LEMMA Stays ==
    ASSUME Placed, NEW u \in User, NEW x \in Step, at' = [at EXCEPT ![u] = x], Ops(at[u]) = Ops(x),
           at[u] \notin Away, x \notin Away,
           at[u] \in Pushing <=> x \in Pushing, at[u] \in Looking <=> x \in Looking,
           at[u] \in Walking <=> x \in Walking,
           UNCHANGED <<shape, inside>>, ListTypeOK'
    PROVE  Placed'
<1> USE DEF Placed
<1>1. at \in [User -> Step]
  BY DEF ListTypeOK
<1>2. at'[u] = x /\ \A v \in User \ {u} : at'[v] = at[v]
  BY <1>1
<1>3. Rows'
  BY <1>2 DEF Rows
<1>4. Beside'
  <2> SUFFICES ASSUME NEW a \in User, NEW b \in User, a # b, at'[a] \notin Away, at'[b] \notin Away
               PROVE  shape[2] = "policy" /\ Together(at'[a], at'[b])
    BY DEF Beside
  <2>1. at[a] \notin Away /\ at[b] \notin Away
    BY <1>2
  <2>2. shape[2] = "policy" /\ Together(at[a], at[b])
    BY <2>1 DEF Beside
  <2>3. \A v \in User : /\ at[v] \in Pushing <=> at'[v] \in Pushing
                        /\ at[v] \in Looking <=> at'[v] \in Looking
                        /\ at[v] \in Walking <=> at'[v] \in Walking
    BY <1>2
  <2> QED
    BY <2>2, <2>3 DEF Together
<1> QED
  BY <1>3, <1>4 DEF IsStack

LEMMA Leaves ==
    ASSUME Placed, NEW u \in User, NEW x \in Away, at' = [at EXCEPT ![u] = x],
           inside' = [inside EXCEPT ![u] = Null] \/ (inside' = inside /\ at[u] \in Away),
           UNCHANGED shape, ListTypeOK'
    PROVE  Placed'
<1> USE DEF Placed
<1>1. at \in [User -> Step] /\ inside \in [User -> Row \cup {Null}]
  BY DEF ListTypeOK
<1>2. at'[u] = x /\ \A v \in User \ {u} : at'[v] = at[v] /\ inside'[v] = inside[v]
  BY <1>1
<1>3. inside'[u] = Null
  BY <1>1 DEF Rows
<1>4. Rows'
  BY <1>2, <1>3 DEF Rows
<1>5. Beside'
  BY <1>2 DEF Beside
<1> QED
  BY <1>4, <1>5 DEF IsStack

LEMMA Enters ==
    ASSUME Placed, NEW u \in User, at[u] = "idle", NEW op \in Operation,
           at' = [at EXCEPT ![u] = op], Lock!Enter(u, <<shape[2], op>>), UNCHANGED shape, ListTypeOK'
    PROVE  Placed'
<1> USE DEF Placed
<1>1. /\ at \in [User -> Step] /\ inside \in [User -> Row \cup {Null}]
      /\ shape[2] \in {"policy", "lwmutex"}
  BY ListAssumption DEF ListTypeOK
<1>2. at'[u] = op /\ \A v \in User \ {u} : at'[v] = at[v]
  BY <1>1
<1>3. <<shape[2], op>> \in Row
  BY <1>1 DEF Row
<1>4. inside' = [inside EXCEPT ![u] = <<shape[2], op>>]
  BY DEF Lock!Enter
<1>5. op \in Ops(op) /\ op \notin Away /\ op \in {"clear", "push", "pop", "foreach", "peek", "poke"}
  BY DEF Operation, Ops, Away, Pushing, Walking
<1>6. Rows'
  BY <1>1, <1>2, <1>4, <1>5 DEF Rows
<1>7. ASSUME NEW v \in User, u # v, at[v] \notin Away
      PROVE  shape[2] = "policy" /\ Together(op, at[v])
  <2>1. PICK q \in Ops(at[v]) : inside[v] = <<shape[2], q>>
    BY <1>7 DEF Rows
  <2>2. q \in Operation
    BY DEF Operation, Ops
  <2>3. <<shape[2], q>> \in Row
    BY <1>1, <2>2 DEF Row
  <2>4. inside[v] # Null
    BY <2>1, <2>3, NullApart
  <2>5. inside[v] \in IF shape[2] = "policy" THEN {"policy"} \X Table[op] ELSE {}
    BY <1>3, <2>4 DEF Lock!Enter
  <2>6. shape[2] = "policy" /\ q \in Table[op]
    BY <2>1, <2>5
  <2>7. Together(op, at[v])
    BY <1>1, <1>5, <1>7, <2>1, <2>6 DEF Table, Operation, Together, Ops, Pushing, Walking, Looking, Away, Step
  <2> QED
    BY <2>6, <2>7
<1>8. Beside'
  BY <1>2, <1>7 DEF Beside, Together
<1> QED
  BY <1>6, <1>8 DEF IsStack

------------------------------------------------------------------------------
(* Upwards that leave the list alone                                          *)
LEMMA FreeFrame ==
    ASSUME NEW v \in User, FreeKnows(v), at'[v] = at[v], cur'[v] = cur[v],
           \A n \in Item : fate[n] \in Gone => fate'[n] \in Gone /\ next'[n] = next[n]
    PROVE  FreeKnows(v)'
BY DEF FreeKnows

(* s stays the list, and everybody but u knows what it knew.                *)
QuietFor(u, s) ==
    /\ Pushers /\ Listed(s) /\ \A v \in User : PushKnows(v)
    /\ \A v \in User \ {u} : FreeKnows(v) /\ LookKnows(v, s)

LEMMA Quiet ==
    ASSUME NEW s, State(s), NEW u \in User, at[u] \notin Pushing, NEW x \in Step \ Pushing,
           at' = [at EXCEPT ![u] = x], UNCHANGED <<shape, top, next>>,
           \A v \in User \ {u} : cur'[v] = cur[v] /\ old'[v] = old[v] /\ seen'[v] = seen[v],
           \A n \in Item : fate'[n] = fate[n] \/ (fate[n] \in Gone /\ fate'[n] \in Gone)
    PROVE  QuietFor(u, s)'
<1> USE DEF State
<1>1. at'[u] = x /\ \A v \in User \ {u} : at'[v] = at[v]
  BY DEF Placed, ListTypeOK
<1>2. Pushers'
  BY <1>1 DEF Pushers
<1>3. LinkKnown /\ LinkKnown'
  BY <1>2, LinkLemma, PTL
<1>4. \A v \in User : at'[v] = "link" <=> at[v] = "link"
  BY <1>1 DEF Pushing
<1>5. ASSUME NEW n \in Item PROVE Link(n)' = Link(n)
  <2>1. CASE \E v \in User : at[v] = "link" /\ cur[v] = n
    <3>1. PICK v \in User : at[v] = "link" /\ cur[v] = n
      BY <2>1
    <3>2. v # u /\ at'[v] = "link" /\ cur'[v] = n /\ old'[v] = old[v]
      BY <1>1, <3>1 DEF Pushing
    <3> QED
      BY <1>3, <3>1, <3>2 DEF LinkKnown
  <2>2. CASE \A v \in User : at[v] = "link" => cur[v] # n
    <3>1. \A v \in User : at'[v] = "link" => cur'[v] # n
      BY <1>1, <2>2 DEF Pushing
    <3> QED
      BY <1>3, <2>2, <3>1 DEF LinkKnown
  <2> QED
    BY <2>1, <2>2
<1>6. Listed(s)'
  <2>1. First' = First /\ (IsStack <=> IsStack')
    BY DEF First, IsStack
  <2>2. From(First, s)'
    <3>1. From(First, s) /\ s \in Seq(Item)
      BY DEF Listed
    <3>2. \A n \in Item : Ends(n)' <=> Ends(n)
      BY <1>5, <2>1 DEF Ends
    <3>3. Len(s) \in Nat /\ (s # <<>> => Len(s) \in 1 .. Len(s)) /\ \A i \in 1 .. Len(s) : s[i] \in Item
      BY <3>1
    <3> QED
      BY <1>5, <2>1, <3>1, <3>2, <3>3 DEF From
  <2>3. \A n \in Item : Swapping(n)' <=> Swapping(n)
    BY <1>1 DEF Swapping, Pushing
  <2>4. top \in Item \cup {Null}
    BY DEF Placed, ListTypeOK
  <2> QED
    BY <2>2, <2>3, <2>4 DEF Listed, Gone
<1>7. \A v \in User : PushKnows(v)'
  BY <1>1 DEF PushKnows, IsStack, Pushing, Gone
<1>8. \A v \in User \ {u} : FreeKnows(v)' /\ LookKnows(v, s)'
  <2> SUFFICES ASSUME NEW v \in User \ {u} PROVE FreeKnows(v)' /\ LookKnows(v, s)'
    OBVIOUS
  <2>1. FreeKnows(v)'
    BY <1>1, FreeFrame
  <2>2. LookKnows(v, s)'
    <3>1. First' = First
      BY DEF First, IsStack
    <3>2. cur[v] \in Item \cup {Null}
      BY DEF Placed, ListTypeOK
    <3> QED
      BY <1>1, <3>1, <3>2 DEF LookKnows, Gone
  <2> QED
    BY <2>1, <2>2
<1> QED
  BY <1>2, <1>6, <1>7, <1>8 DEF QuietFor

LEMMA QuietDone ==
    ASSUME NEW u \in User, NEW s, QuietFor(u, s)', Placed', FreeKnows(u)', LookKnows(u, s)'
    PROVE  State(s)'
BY DEF QuietFor, State

LEMMA BeginStep ==
    ASSUME NEW s, State(s), NEW u \in User, Begin(u)
    PROVE  State(s)'
<1> USE DEF State
<1>1. PICK op \in Operation \ {"push"} : Lock!Enter(u, <<shape[2], op>>) /\ Go(u, op)
  BY DEF Begin
<1>2. /\ at[u] = "idle" /\ at' = [at EXCEPT ![u] = op] /\ UNCHANGED <<shape, top, next, fate, cur, old, seen>>
      /\ op \in Step \ Pushing /\ op \notin Away /\ op \notin {"unlink", "touch", "walk"}
  BY <1>1 DEF Begin, Go, Operation, Step, Pushing, Away
<1>3. at'[u] = op
  BY <1>2 DEF Placed, ListTypeOK
<1>4. ListTypeOK'
  <2>1. <<shape[2], op>> \in Row
    BY ListAssumption DEF Placed, ListTypeOK, Row
  <2>2. inside' \in [User -> Row \cup {Null}]
    BY <1>1, <2>1 DEF Lock!Enter, Placed, ListTypeOK
  <2> QED
    BY <1>2, <2>2 DEF Placed, ListTypeOK
<1>5. Placed'
  BY <1>1, <1>2, <1>4, Enters
<1>6. QuietFor(u, s)'
  BY <1>2, Quiet DEF Pushing
<1>7. FreeKnows(u)' /\ LookKnows(u, s)'
  BY <1>2, <1>3 DEF FreeKnows, LookKnows, Away
<1> QED
  BY <1>5, <1>6, <1>7, QuietDone

LEMMA PopReadStep ==
    ASSUME NEW s, State(s), NEW u \in User, PopRead(u)
    PROVE  State(s)'
<1> USE DEF State
<1>1. PICK x \in {"idle", "unlink"} :
        /\ at[u] = "pop" /\ at' = [at EXCEPT ![u] = x] /\ UNCHANGED <<shape, top, next, fate, old, seen>>
        /\ x = "idle" => /\ top = Null /\ cur' = cur /\ inside' = [inside EXCEPT ![u] = Null]
        /\ x = "unlink" => /\ top # Null /\ cur' = [cur EXCEPT ![u] = First] /\ inside' = inside
  BY DEF PopRead, Go, Hold, Lock!Leave, First
<1>2. at'[u] = x /\ x \in Step \ Pushing /\ \A v \in User \ {u} : cur'[v] = cur[v]
  BY <1>1 DEF Placed, ListTypeOK, Step, Pushing
<1>3. First \in Item \cup {Null}
  BY DEF Placed, ListTypeOK, First
<1>4. ListTypeOK'
  BY <1>1, <1>3 DEF Placed, ListTypeOK, Step
<1>5. Placed'
  <2>1. CASE x = "idle"
    BY <1>1, <1>4, <2>1, Leaves DEF Away
  <2>2. CASE x = "unlink"
    <3>1. /\ Ops(at[u]) = Ops(x) /\ at[u] \notin Away /\ x \notin Away /\ at[u] \notin Pushing
          /\ x \notin Pushing /\ at[u] \notin Looking /\ x \notin Looking
          /\ at[u] \notin Walking /\ x \notin Walking
      BY <1>1, <2>2 DEF Ops, Away, Pushing, Looking, Walking
    <3> QED
      BY <1>1, <1>2, <1>4, <2>2, <3>1, Stays
  <2> QED
    BY <2>1, <2>2
<1>6. QuietFor(u, s)'
  BY <1>1, <1>2, Quiet DEF Pushing
<1>7. FreeKnows(u)'
  BY <1>1, <1>2 DEF FreeKnows
<1>8. LookKnows(u, s)'
  <2>1. x = "unlink" => cur'[u] = First
    BY <1>1 DEF Placed, ListTypeOK
  <2>2. First' = First
    BY <1>1 DEF First, IsStack
  <2> QED
    BY <1>1, <1>2, <2>1, <2>2 DEF LookKnows
<1> QED
  BY <1>5, <1>6, <1>7, <1>8, QuietDone

LEMMA PopFreeStep ==
    ASSUME NEW s, State(s), NEW u \in User, PopFree(u)
    PROVE  State(s)'
<1> USE DEF State
<1>1. /\ at[u] = "free" /\ fate' = [fate EXCEPT ![cur[u]] = "freed"]
      /\ at' = [at EXCEPT ![u] = "idle"] /\ cur' = [cur EXCEPT ![u] = Null]
      /\ UNCHANGED <<shape, inside, top, next, old, seen>>
  BY DEF PopFree, Drop, Hold, Go
<1>2. cur[u] \in Item /\ fate[cur[u]] \in Gone
  BY <1>1 DEF FreeKnows
<1>3. ListTypeOK'
  BY <1>1 DEF Placed, ListTypeOK, Step
<1>4. /\ at'[u] = "idle" /\ \A v \in User \ {u} : cur'[v] = cur[v]
      /\ \A n \in Item : fate'[n] = fate[n] \/ (fate[n] \in Gone /\ fate'[n] \in Gone)
  BY <1>1, <1>2 DEF Placed, ListTypeOK, Gone
<1>5. Placed'
  BY <1>1, <1>3, Leaves DEF Away
<1>6. QuietFor(u, s)'
  BY <1>1, <1>4, Quiet DEF Pushing, Step
<1>7. FreeKnows(u)' /\ LookKnows(u, s)'
  BY <1>4 DEF FreeKnows, LookKnows
<1> QED
  BY <1>5, <1>6, <1>7, QuietDone

LEMMA ClearFreeStep ==
    ASSUME NEW s, State(s), NEW u \in User, ClearFree(u)
    PROVE  State(s)'
<1> USE DEF State
<1> DEFINE node == IF ~IsStack /\ next[cur[u]] = old[u] THEN Null ELSE next[cur[u]]
<1>1. /\ at[u] = "sweep" /\ cur[u] # Null /\ fate' = [fate EXCEPT ![cur[u]] = "freed"]
      /\ cur' = [cur EXCEPT ![u] = node]
      /\ UNCHANGED <<shape, inside, top, next, at, old, seen>>
  BY DEF ClearFree, Hold
<1>2. PICK S \in SUBSET Item :
        /\ cur[u] \in S \cup {Null}
        /\ \A n \in S : fate[n] \in Gone /\ next[n] \in S \cup {Null}
  BY <1>1 DEF FreeKnows
<1>3. cur[u] \in S /\ cur[u] \in Item /\ fate[cur[u]] \in Gone /\ node \in S \cup {Null}
  BY <1>1, <1>2
<1> HIDE DEF node
<1>4. ListTypeOK'
  BY <1>1, <1>3 DEF Placed, ListTypeOK
<1>5. /\ cur'[u] = node /\ \A v \in User \ {u} : cur'[v] = cur[v]
      /\ \A n \in Item : fate'[n] = fate[n] \/ (fate[n] \in Gone /\ fate'[n] \in Gone)
  BY <1>1, <1>3 DEF Placed, ListTypeOK, Gone
<1>6. at' = [at EXCEPT ![u] = "sweep"]
  BY <1>1 DEF Placed, ListTypeOK
<1>7. Placed'
  BY <1>1, <1>4, <1>6, Leaves DEF Away
<1>8. QuietFor(u, s)'
  BY <1>1, <1>5, <1>6, Quiet DEF Pushing, Step
<1>9. FreeKnows(u)'
  <2>1. \A n \in S : fate'[n] \in Gone /\ next'[n] \in S \cup {Null}
    BY <1>1, <1>2, <1>5
  <2> QED
    BY <1>1, <1>3, <1>5, <2>1 DEF FreeKnows
<1>10. LookKnows(u, s)'
  BY <1>1 DEF LookKnows
<1> QED
  BY <1>7, <1>8, <1>9, <1>10, QuietDone

LEMMA ClearEndStep ==
    ASSUME NEW s, State(s), NEW u \in User, ClearEnd(u)
    PROVE  State(s)'
<1> USE DEF State
<1>1. /\ at[u] = "sweep" /\ at' = [at EXCEPT ![u] = "idle"] /\ old' = [old EXCEPT ![u] = Null]
      /\ UNCHANGED <<shape, inside, top, next, fate, cur, seen>>
  BY DEF ClearEnd, Go
<1>2. ListTypeOK'
  BY <1>1 DEF Placed, ListTypeOK, Step
<1>3. at'[u] = "idle" /\ \A v \in User \ {u} : old'[v] = old[v]
  BY <1>1 DEF Placed, ListTypeOK
<1>4. Placed'
  BY <1>1, <1>2, Leaves DEF Away
<1>5. QuietFor(u, s)'
  BY <1>1, <1>3, Quiet DEF Pushing, Step
<1>6. FreeKnows(u)' /\ LookKnows(u, s)'
  BY <1>3 DEF FreeKnows, LookKnows
<1> QED
  BY <1>4, <1>5, <1>6, QuietDone

LEMMA LookEndStep ==
    ASSUME NEW s, State(s), NEW u \in User, LookEnd(u)
    PROVE  State(s)'
<1> USE DEF State
<1>1. /\ at[u] \in {"touch", "walk"} /\ at' = [at EXCEPT ![u] = "idle"]
      /\ inside' = [inside EXCEPT ![u] = Null]
      /\ cur' = [cur EXCEPT ![u] = Null] /\ seen' = [seen EXCEPT ![u] = <<>>]
      /\ UNCHANGED <<shape, top, next, fate, old>>
  BY DEF LookEnd, Lock!Leave, Drop, Hold, Go
<1>2. ListTypeOK'
  BY <1>1 DEF Placed, ListTypeOK, Step
<1>3. at'[u] = "idle" /\ \A v \in User \ {u} : cur'[v] = cur[v] /\ seen'[v] = seen[v]
  BY <1>1 DEF Placed, ListTypeOK
<1>4. Placed'
  BY <1>1, <1>2, Leaves DEF Away
<1>5. QuietFor(u, s)'
  BY <1>1, <1>3, Quiet DEF Pushing, Step
<1>6. FreeKnows(u)' /\ LookKnows(u, s)'
  BY <1>3 DEF FreeKnows, LookKnows
<1> QED
  BY <1>4, <1>5, <1>6, QuietDone

(* What is at the front of the list, as long as no queue is being pushed to *)
LEMMA FirstLinked ==
    ASSUME NEW s, State(s), \A v \in User : ~(~IsStack /\ at[v] = "swap")
    PROVE  /\ First \in Item \cup {Null} /\ (First = Null <=> s = <<>>)
           /\ First # Null => fate[First] = "linked" /\ s[1] = First /\ Len(s) >= 1
           /\ \A i \in 1 .. Len(s) : fate[s[i]] = "linked"
<1> USE DEF State
<1>1. First \in Item \cup {Null}
  BY DEF Placed, ListTypeOK, First
<1>2. s \in Seq(Item) /\ (s = <<>> <=> First = Null) /\ (s # <<>> => s[1] = First)
  BY DEF Listed, From
<1>3. \A n \in Item : ~Swapping(n)
  BY DEF Swapping, PushKnows
<1>4. \A i \in 1 .. Len(s) : fate[s[i]] = "linked"
  BY <1>2, <1>3 DEF Listed
<1>5. s # <<>> => Len(s) >= 1 /\ 1 \in 1 .. Len(s)
  BY <1>2
<1> QED
  BY <1>1, <1>2, <1>4, <1>5

LEMMA LookStep ==
    ASSUME NEW s, State(s), NEW u \in User, Look(u)
    PROVE  State(s)'
<1> USE DEF State
<1> DEFINE x == IF at[u] = "foreach" THEN "walk" ELSE "touch"
<1>1. /\ at[u] \in {"foreach", "peek", "poke"} /\ at' = [at EXCEPT ![u] = x]
      /\ cur' = [cur EXCEPT ![u] = First] /\ seen' = [seen EXCEPT ![u] = <<>>]
      /\ UNCHANGED <<shape, inside, top, next, fate, old>>
  BY DEF Look, Hold, Go
<1>2. \A v \in User : ~(~IsStack /\ at[v] = "swap")
  <2> SUFFICES ASSUME NEW v \in User, at[v] = "swap", ~IsStack PROVE FALSE
    OBVIOUS
  <2>1. v # u /\ at[u] \notin Away /\ at[v] \notin Away
    BY <1>1 DEF Away
  <2> QED
    BY <2>1, Company
<1>3. /\ First \in Item \cup {Null} /\ (First = Null <=> s = <<>>)
      /\ First # Null => fate[First] = "linked" /\ s[1] = First /\ Len(s) >= 1
  BY <1>2, FirstLinked
<1>4. ListTypeOK'
  BY <1>1, <1>3 DEF Placed, ListTypeOK, Step
<1>5. /\ at'[u] = x /\ cur'[u] = First /\ seen'[u] = <<>>
      /\ \A v \in User \ {u} : cur'[v] = cur[v] /\ seen'[v] = seen[v]
  BY <1>1 DEF Placed, ListTypeOK
<1>6. /\ Ops(at[u]) = Ops(x) /\ at[u] \notin Away /\ x \notin Away /\ at[u] \notin Pushing
      /\ x \in Step \ Pushing /\ (at[u] \in Looking <=> x \in Looking)
      /\ (at[u] \in Walking <=> x \in Walking) /\ x \in {"walk", "touch"}
  BY <1>1 DEF Ops, Away, Pushing, Looking, Walking, Step
<1> HIDE DEF x
<1>7. Placed'
  BY <1>1, <1>4, <1>6, Stays
<1>8. QuietFor(u, s)'
  BY <1>1, <1>5, <1>6, Quiet
<1>9. FreeKnows(u)'
  BY <1>5, <1>6 DEF FreeKnows
<1>10. LookKnows(u, s)'
  <2>1. s \in Seq(Item)
    BY DEF Listed
  <2>2. /\ Len(<<>>) = 0 /\ Len(s) \in Nat /\ (s = <<>> <=> Len(s) = 0)
    BY <2>1
  <2>3. First = IF 0 < Len(s) THEN s[0 + 1] ELSE Null
    BY <1>3, <2>2
  <2> QED
    BY <1>1, <1>3, <1>5, <1>6, <2>2, <2>3 DEF LookKnows
<1> QED
  BY <1>7, <1>8, <1>9, <1>10, QuietDone

(* Beside a walk nobody pushes.                                             *)
LEMMA WalkAlone ==
    ASSUME NEW s, State(s), NEW u \in User, at[u] \in Walking
    PROVE  /\ \A v \in User : at[v] \notin Pushing
           /\ \A n \in Item : Link(n) = next[n]
<1>1. ASSUME NEW v \in User, at[v] \in Pushing PROVE FALSE
  <2>1. v # u /\ at[u] \notin Away /\ at[v] \notin Away
    BY <1>1 DEF Away, Pushing, Walking
  <2>2. Together(at[u], at[v])
    BY <2>1, Company DEF State
  <2> QED
    BY <1>1, <2>2 DEF Together, Pushing, Walking, Looking
<1>2. LinkKnown
  BY LinkLemma DEF State
<1> QED
  BY <1>1, <1>2 DEF LinkKnown, Pushing

LEMMA VisitStep ==
    ASSUME NEW s, State(s), NEW u \in User, Visit(u)
    PROVE  State(s)'
<1> USE DEF State
<1> DEFINE c == cur[u]
           k == Len(seen[u])
           node == IF ~IsStack /\ c = top THEN Null ELSE next[c]
<1>1. /\ at[u] = "walk" /\ c # Null
      /\ seen' = [seen EXCEPT ![u] = Append(seen[u], c)] /\ cur' = [cur EXCEPT ![u] = node]
      /\ UNCHANGED <<shape, inside, top, next, fate, at, old>>
  BY DEF Visit, Hold
<1>2. /\ s \in Seq(Item) /\ Len(s) \in Nat /\ k \in Nat /\ seen[u] \in Seq(Item)
      /\ c \in Item /\ next[c] \in Item \cup {Null} /\ node \in Item \cup {Null}
  BY <1>1 DEF Listed, Placed, ListTypeOK
<1>3. k < Len(s) /\ c = s[k + 1] /\ \A i \in 1 .. k : seen[u][i] = s[i]
  BY <1>1, <1>2 DEF LookKnows
<1>4. Link(c) = next[c]
  BY <1>1, <1>2, WalkAlone DEF Walking
<1>5. node = IF k + 1 < Len(s) THEN s[k + 2] ELSE Null
  <2>1. CASE k + 1 < Len(s)
    <3>1. k + 1 \in 1 .. Len(s) - 1 /\ (k + 1) + 1 = k + 2
      BY <1>2, <2>1
    <3>2. ~Ends(s[k + 1]) /\ s[(k + 1) + 1] = Link(s[k + 1])
      BY <3>1 DEF Listed, From
    <3> QED
      BY <1>3, <1>4, <2>1, <3>1, <3>2 DEF Ends
  <2>2. CASE ~(k + 1 < Len(s))
    <3>1. k + 1 = Len(s) /\ s # <<>>
      BY <1>2, <1>3, <2>2
    <3>2. Ends(s[Len(s)])
      BY <3>1 DEF Listed, From
    <3> QED
      BY <1>3, <1>4, <2>2, <3>1, <3>2 DEF Ends
  <2> QED
    BY <2>1, <2>2
<1>6. ListTypeOK'
  BY <1>1, <1>2 DEF Placed, ListTypeOK
<1>7. at' = [at EXCEPT ![u] = "walk"]
  BY <1>1 DEF Placed, ListTypeOK
<1>8. Placed'
  BY <1>1, <1>6 DEF Placed, Rows, Beside, IsStack
<1>9. /\ cur'[u] = node /\ seen'[u] = Append(seen[u], c)
      /\ \A v \in User \ {u} : cur'[v] = cur[v] /\ seen'[v] = seen[v]
  BY <1>1 DEF Placed, ListTypeOK
<1>10. QuietFor(u, s)'
  BY <1>1, <1>7, <1>9, Quiet DEF Pushing, Step
<1>11. FreeKnows(u)'
  BY <1>1 DEF FreeKnows
<1>12. LookKnows(u, s)'
  <2> HIDE DEF node
  <2>1. Len(seen'[u]) = k + 1 /\ seen'[u][k + 1] = c /\ \A i \in 1 .. k : seen'[u][i] = seen[u][i]
    BY <1>2, <1>9
  <2>2. \A i \in 1 .. k + 1 : seen'[u][i] = s[i]
    BY <1>2, <1>3, <2>1
  <2>3. (k + 1) + 1 = k + 2
    BY <1>2
  <2> QED
    BY <1>1, <1>2, <1>3, <1>5, <1>9, <2>1, <2>2, <2>3 DEF LookKnows
<1> QED
  BY <1>8, <1>10, <1>11, <1>12, QuietDone

------------------------------------------------------------------------------
(* A link stays as long as neither the node nor its push changes.           *)
LEMMA LinkFrame ==
    ASSUME Pushers, Pushers', NEW n \in Item, next'[n] = next[n],
           \A v \in User : at[v] = "link" /\ cur[v] = n <=> at'[v] = "link" /\ cur'[v] = n,
           \A v \in User : at[v] = "link" /\ cur[v] = n => old'[v] = old[v]
    PROVE  Link(n)' = Link(n)
<1>1. LinkKnown /\ LinkKnown'
  BY LinkLemma, PTL
<1>2. CASE \E v \in User : at[v] = "link" /\ cur[v] = n
  BY <1>1, <1>2 DEF LinkKnown
<1>3. CASE \A v \in User : at[v] = "link" => cur[v] # n
  BY <1>1, <1>3 DEF LinkKnown
<1> QED
  BY <1>2, <1>3

LEMMA BeginPushStep ==
    ASSUME NEW s, State(s), NEW u \in User, BeginPush(u)
    PROVE  State(s)'
<1> USE DEF State
<1> DEFINE n == CHOOSE m \in FreshItem : \A o \in FreshItem : m <= o
<1>1. /\ at[u] = "idle" /\ at' = [at EXCEPT ![u] = "push"] /\ FreshItem # {}
      /\ cur' = [cur EXCEPT ![u] = n] /\ fate' = [fate EXCEPT ![n] = "made"]
      /\ Lock!Enter(u, <<shape[2], "push">>)
      /\ UNCHANGED <<shape, top, next, old, seen>>
  BY DEF BeginPush, Go, Hold
<1>2. n \in Item /\ fate[n] = "unused"
  <2>1. FreshItem \in SUBSET Nat
    BY ListAssumption DEF FreshItem
  <2>2. n \in FreshItem
    BY <1>1, <2>1, Least
  <2> QED
    BY <2>2 DEF FreshItem
<1> HIDE DEF n
<1>3. /\ fate \in [Item -> {"unused", "made", "linked", "taken", "freed"}] /\ cur \in [User -> Item \cup {Null}]
      /\ at \in [User -> Step]
  BY DEF Placed, ListTypeOK
<1>4. /\ at'[u] = "push" /\ cur'[u] = n /\ fate'[n] = "made"
      /\ \A v \in User \ {u} : at'[v] = at[v] /\ cur'[v] = cur[v]
      /\ \A m \in Item \ {n} : fate'[m] = fate[m]
  BY <1>1, <1>2, <1>3
<1>5. Placed'
  <2>1. <<shape[2], "push">> \in Row
    BY ListAssumption DEF Placed, ListTypeOK, Row, Operation
  <2>2. inside' \in [User -> Row \cup {Null}]
    BY <1>1, <2>1 DEF Lock!Enter, Placed, ListTypeOK
  <2>3. ListTypeOK'
    BY <1>1, <1>2, <2>2 DEF Placed, ListTypeOK, Step
  <2>4. "push" \in Operation
    BY DEF Operation
  <2> QED
    BY <1>1, <2>3, <2>4, Enters
<1>6. \A v \in User : at[v] \in Pushing => cur[v] \in Item /\ cur[v] # n
  BY <1>2 DEF PushKnows, Pushing
<1>7. Pushers'
  BY <1>4, <1>6 DEF Pushers
<1>8. ASSUME NEW m \in Item PROVE Link(m)' = Link(m)
  <2>1. \A v \in User : at[v] = "link" /\ cur[v] = m <=> at'[v] = "link" /\ cur'[v] = m
    BY <1>1, <1>4
  <2> QED
    BY <1>1, <1>7, <2>1, LinkFrame
<1>9. Listed(s)'
  <2>1. First' = First /\ (IsStack <=> IsStack')
    BY <1>1 DEF First, IsStack
  <2>2. From(First, s) /\ s \in Seq(Item)
    BY DEF Listed
  <2>3. \A m \in Item : Ends(m)' <=> Ends(m)
    BY <1>1, <1>8, <2>1 DEF Ends
  <2>4. Len(s) \in Nat /\ (s # <<>> => Len(s) \in 1 .. Len(s)) /\ \A i \in 1 .. Len(s) : s[i] \in Item
    BY <2>2
  <2>5. From(First, s)'
    BY <1>8, <2>1, <2>2, <2>3, <2>4 DEF From
  <2>6. \A m \in Item : Swapping(m)' <=> Swapping(m)
    BY <1>1, <1>4 DEF Swapping
  <2>7. \A m \in Item : fate'[m] = "linked" <=> fate[m] = "linked"
    BY <1>2, <1>4
  <2>8. top \in Item \cup {Null}
    BY DEF Placed, ListTypeOK
  <2> QED
    BY <1>1, <2>2, <2>5, <2>6, <2>7, <2>8 DEF Listed
<1>10. ASSUME NEW v \in User PROVE PushKnows(v)' /\ FreeKnows(v)' /\ LookKnows(v, s)'
  <2>1. CASE v = u
    BY <1>2, <1>4, <2>1 DEF PushKnows, FreeKnows, LookKnows
  <2>2. CASE v # u
    <3>1. at'[v] = at[v] /\ cur'[v] = cur[v] /\ old'[v] = old[v] /\ seen'[v] = seen[v]
      BY <1>1, <1>4, <2>2
    <3>2. PushKnows(v)'
      BY <1>1, <1>4, <1>6, <3>1 DEF PushKnows, Pushing, IsStack
    <3>3. FreeKnows(v)'
      BY <1>1, <1>2, <1>4, <3>1, FreeFrame DEF Gone
    <3>4. First' = First
      BY <1>1 DEF First, IsStack
    <3>5. LookKnows(v, s)'
      BY <1>1, <1>2, <1>3, <1>4, <3>1, <3>4 DEF LookKnows
    <3> QED
      BY <3>2, <3>3, <3>5
  <2> QED
    BY <2>1, <2>2
<1> QED
  BY <1>5, <1>7, <1>9, <1>10

LEMMA StackSwapStep ==
    ASSUME NEW s, State(s), NEW u \in User, StackSwap(u), NEW c, c = cur[u], NEW t, t = <<c>> \o s
    PROVE  State(t)'
<1> USE DEF State
<1>1. /\ at[u] = "push" /\ IsStack /\ at' = [at EXCEPT ![u] = "link"] /\ old' = [old EXCEPT ![u] = top]
      /\ top' = c /\ fate' = [fate EXCEPT ![c] = "linked"]
      /\ UNCHANGED <<shape, inside, next, cur, seen>>
  BY DEF StackSwap, Go
<1>2. c \in Item /\ fate[c] = "made" /\ c # Null
  BY <1>1, ListAssumption DEF PushKnows
<1>3. /\ at'[u] = "link" /\ old'[u] = top /\ fate'[c] = "linked"
      /\ \A v \in User \ {u} : at'[v] = at[v] /\ old'[v] = old[v]
      /\ \A m \in Item \ {c} : fate'[m] = fate[m]
  BY <1>1, <1>2 DEF Placed, ListTypeOK
<1>4. s \in Seq(Item) /\ From(First, s) /\ IsStack' /\ First = top /\ First' = top'
  BY <1>1 DEF Listed, First, IsStack
<1>5. \A v \in User : at[v] # "swap"
  BY <1>1 DEF PushKnows
<1>6. \A i \in 1 .. Len(s) : s[i] \in Item \ {c} /\ fate[s[i]] = "linked"
  BY <1>2, <1>4, <1>5, FirstLinked
<1>7. Placed'
  <2>1. top' \in Item \cup {Null} /\ top \in Item \cup {Null}
    BY <1>1, <1>2 DEF Placed, ListTypeOK
  <2>2. ListTypeOK'
    BY <1>1, <2>1 DEF Placed, ListTypeOK, Step
  <2>3. /\ Ops(at[u]) = Ops("link") /\ at[u] \notin Away /\ "link" \notin Away
        /\ at[u] \in Pushing /\ "link" \in Pushing /\ at[u] \notin Looking /\ "link" \notin Looking
        /\ at[u] \notin Walking /\ "link" \notin Walking /\ "link" \in Step
    BY <1>1 DEF Ops, Away, Pushing, Looking, Walking, Step
  <2> QED
    BY <1>1, <2>2, <2>3, Stays
<1>8. Pushers'
  BY <1>1, <1>3 DEF Pushers, Pushing
<1>9. Link(c)' = top
  <2>1. LinkKnown'
    BY <1>8, LinkLemma, PTL
  <2>2. cur'[u] = c
    BY <1>1
  <2> QED
    BY <1>2, <1>3, <2>1, <2>2 DEF LinkKnown
<1>10. ASSUME NEW m \in Item, m # c PROVE Link(m)' = Link(m)
  <2>1. \A v \in User : at[v] = "link" /\ cur[v] = m <=> at'[v] = "link" /\ cur'[v] = m
    BY <1>1, <1>3, <1>10
  <2>2. \A v \in User : at[v] = "link" /\ cur[v] = m => old'[v] = old[v]
    BY <1>1, <1>3
  <2> QED
    BY <1>1, <1>8, <2>1, <2>2, LinkFrame
<1>11. /\ t \in Seq(Item) /\ Len(t) = Len(s) + 1 /\ t[1] = c /\ t # <<>>
       /\ \A i \in 1 .. Len(s) : t[i + 1] = s[i]
       /\ Len(s) \in Nat /\ (s = <<>> <=> Len(s) = 0)
  BY <1>2, <1>4, Consed
<1>12. \A m \in Item : (Ends(m)' <=> Link(m)' = Null) /\ (Ends(m) <=> Link(m) = Null)
  BY <1>1, <1>4 DEF Ends
<1>13. From(First, t)'
  <2>1. t[Len(t)] \in Item /\ Ends(t[Len(t)])'
    <3>1. CASE s = <<>>
      <4>1. Len(t) = 1 /\ top = Null
        BY <1>4, <1>11, <3>1 DEF From
      <4> QED
        BY <1>2, <1>9, <1>11, <1>12, <4>1
    <3>2. CASE s # <<>>
      <4>1. Len(s) \in 1 .. Len(s) /\ Ends(s[Len(s)]) /\ t[Len(t)] = s[Len(s)]
        BY <1>4, <1>11, <3>2 DEF From
      <4> QED
        BY <1>6, <1>10, <1>12, <4>1
    <3> QED
      BY <3>1, <3>2
  <2>2. ASSUME NEW i \in 1 .. Len(t) - 1 PROVE ~Ends(t[i])' /\ t[i + 1] = Link(t[i])'
    <3>1. CASE i = 1
      <4>1. s # <<>> /\ 1 \in 1 .. Len(s) /\ s[1] = top /\ t[1 + 1] = s[1] /\ top # Null
        BY <1>4, <1>11, <3>1 DEF From
      <4> QED
        BY <1>2, <1>9, <1>11, <1>12, <3>1, <4>1
    <3>2. CASE i # 1
      <4>1. PICK j \in 1 .. Len(s) - 1 : i = j + 1
        <5>1. i - 1 \in 1 .. Len(s) - 1
          BY <1>11, <3>2
        <5> QED
          BY <5>1
      <4>2. j \in 1 .. Len(s) /\ j + 1 \in 1 .. Len(s)
        BY <1>11
      <4>3. ~Ends(s[j]) /\ s[j + 1] = Link(s[j])
        BY <1>4 DEF From
      <4>4. t[i] = s[j] /\ t[i + 1] = s[j + 1]
        BY <1>11, <4>1, <4>2
      <4> QED
        BY <1>6, <1>10, <1>12, <4>2, <4>3, <4>4
    <3> QED
      BY <3>1, <3>2
  <2> QED
    BY <1>1, <1>2, <1>4, <1>11, <2>1, <2>2 DEF From
<1>14. Listed(t)'
  <2>1. ASSUME NEW m \in Item PROVE ~Swapping(m)' /\ ~Swapping(m)
    BY <1>3, <1>5 DEF Swapping
  <2>2. ASSUME NEW m \in Item
        PROVE  (\E i \in 1 .. Len(t) : t[i] = m) <=> fate'[m] = "linked"
    <3>1. (\E i \in 1 .. Len(s) : s[i] = m) <=> fate[m] = "linked"
      BY <2>1 DEF Listed
    <3>2. (\E i \in 1 .. Len(t) : t[i] = m) <=> m = c \/ \E i \in 1 .. Len(s) : s[i] = m
      <4>1. ASSUME NEW i \in 1 .. Len(t) PROVE i = 1 \/ (i - 1 \in 1 .. Len(s) /\ (i - 1) + 1 = i)
        BY <1>11
      <4>2. \A i \in 1 .. Len(s) : i + 1 \in 1 .. Len(t)
        BY <1>11
      <4>3. 1 \in 1 .. Len(t)
        BY <1>11
      <4> QED
        BY <1>11, <4>1, <4>2, <4>3
    <3> QED
      BY <1>3, <3>1, <3>2
  <2> QED
    BY <1>1, <1>3, <1>11, <1>13, <2>1, <2>2 DEF Listed
<1>15. ASSUME NEW v \in User PROVE PushKnows(v)' /\ FreeKnows(v)' /\ LookKnows(v, t)'
  <2>1. CASE v = u
    BY <1>1, <1>2, <1>3, <1>4, <2>1 DEF PushKnows, FreeKnows, LookKnows
  <2>2. CASE v # u
    <3>1. at'[v] = at[v] /\ cur'[v] = cur[v] /\ old'[v] = old[v] /\ seen'[v] = seen[v]
      BY <1>1, <1>3, <2>2
    <3>2. at[v] \in Pushing => cur[v] # c
      BY <1>1, <2>2 DEF Pushers, Pushing
    <3>3. PushKnows(v)'
      BY <1>1, <1>3, <1>4, <3>1, <3>2 DEF PushKnows, Pushing
    <3>4. FreeKnows(v)'
      BY <1>1, <1>2, <1>3, <3>1, FreeFrame DEF Gone
    <3>5. at[v] \notin {"unlink", "walk"}
      <4>1. at[u] \notin Away /\ (at[v] \in {"unlink", "walk"} => at[v] \notin Away)
        BY <1>1 DEF Away
      <4>2. at[v] \in {"unlink", "walk"} => Together(at[u], at[v])
        BY <2>2, <4>1, Company
      <4> QED
        BY <1>1, <4>2 DEF Together, Pushing, Walking, Looking
    <3>6. cur[v] \in Item \cup {Null}
      BY DEF Placed, ListTypeOK
    <3>7. LookKnows(v, t)'
      BY <1>3, <3>1, <3>5, <3>6 DEF LookKnows
    <3> QED
      BY <3>3, <3>4, <3>7
  <2> QED
    BY <2>1, <2>2
<1> QED
  BY <1>7, <1>8, <1>14, <1>15

LEMMA StackLinkStep ==
    ASSUME NEW s, State(s), NEW u \in User, StackLink(u), NEW c, c = cur[u]
    PROVE  State(s)'
<1> USE DEF State
<1>1. /\ at[u] = "link" /\ at' = [at EXCEPT ![u] = "idle"] /\ old' = [old EXCEPT ![u] = Null]
      /\ next' = [next EXCEPT ![c] = old[u]] /\ cur' = [cur EXCEPT ![u] = Null]
      /\ inside' = [inside EXCEPT ![u] = Null]
      /\ UNCHANGED <<shape, top, fate, seen>>
  BY DEF StackLink, Lock!Leave, Drop, Hold, Go
<1>2. c \in Item /\ fate[c] = "linked" /\ IsStack /\ old[u] \in Item \cup {Null}
  BY <1>1 DEF PushKnows, Placed, ListTypeOK
<1>3. /\ at'[u] = "idle" /\ next'[c] = old[u]
      /\ \A v \in User \ {u} : at'[v] = at[v] /\ cur'[v] = cur[v] /\ old'[v] = old[v]
      /\ \A m \in Item \ {c} : next'[m] = next[m]
  BY <1>1, <1>2 DEF Placed, ListTypeOK
<1>4. ListTypeOK'
  BY <1>1, <1>2 DEF Placed, ListTypeOK, Step
<1>5. Placed'
  BY <1>1, <1>4, Leaves DEF Away
<1>6. Pushers'
  BY <1>3 DEF Pushers, Pushing
<1>7. ASSUME NEW m \in Item PROVE Link(m)' = Link(m)
  <2>1. LinkKnown /\ LinkKnown'
    BY <1>6, LinkLemma, PTL
  <2>2. CASE m = c
    <3>1. Link(m) = old[u]
      BY <1>1, <2>1, <2>2 DEF LinkKnown
    <3>2. \A v \in User : at'[v] = "link" => cur'[v] # c
      BY <1>1, <1>3 DEF Pushers, Pushing
    <3>3. Link(m)' = next'[m]
      BY <2>1, <2>2, <3>2 DEF LinkKnown
    <3> QED
      BY <1>3, <2>2, <3>1, <3>3
  <2>3. CASE m # c
    <3>1. \A v \in User : at[v] = "link" /\ cur[v] = m <=> at'[v] = "link" /\ cur'[v] = m
      BY <1>1, <1>3, <2>3
    <3>2. \A v \in User : at[v] = "link" /\ cur[v] = m => old'[v] = old[v]
      BY <1>1, <1>3, <2>3
    <3> QED
      BY <1>3, <1>6, <2>3, <3>1, <3>2, LinkFrame
  <2> QED
    BY <2>2, <2>3
<1>8. IsStack' /\ First = top /\ First' = top
  BY <1>1, <1>2 DEF First, IsStack
<1>9. Listed(s)'
  <2>1. From(First, s) /\ s \in Seq(Item)
    BY DEF Listed
  <2>2. \A m \in Item : Ends(m)' <=> Ends(m)
    BY <1>2, <1>7, <1>8 DEF Ends
  <2>3. Len(s) \in Nat /\ (s # <<>> => Len(s) \in 1 .. Len(s)) /\ \A i \in 1 .. Len(s) : s[i] \in Item
    BY <2>1
  <2>4. From(First, s)'
    BY <1>7, <1>8, <2>1, <2>2, <2>3 DEF From
  <2>5. \A m \in Item : Swapping(m)' <=> Swapping(m)
    BY <1>1, <1>3 DEF Swapping
  <2> QED
    BY <1>1, <2>1, <2>4, <2>5 DEF Listed
<1>10. ASSUME NEW v \in User PROVE PushKnows(v)' /\ FreeKnows(v)' /\ LookKnows(v, s)'
  <2>1. CASE v = u
    BY <1>3, <2>1 DEF PushKnows, FreeKnows, LookKnows
  <2>2. CASE v # u
    <3>1. at'[v] = at[v] /\ cur'[v] = cur[v] /\ old'[v] = old[v] /\ seen'[v] = seen[v]
      BY <1>1, <1>3, <2>2
    <3>2. PushKnows(v)'
      BY <1>1, <1>2, <1>8, <3>1 DEF PushKnows
    <3>3. FreeKnows(v)'
      BY <1>1, <1>2, <1>3, <3>1, FreeFrame DEF Gone
    <3>4. LookKnows(v, s)'
      BY <1>1, <1>8, <3>1 DEF LookKnows
    <3> QED
      BY <3>2, <3>3, <3>4
  <2> QED
    BY <2>1, <2>2
<1> QED
  BY <1>5, <1>6, <1>9, <1>10

------------------------------------------------------------------------------
(* Operations that are alone inside                                         *)
Lone(u)  == \A v \in User \ {u} : at[v] \in Away
Unlinked == \A v \in User : at[v] # "link"
AsNext   == \A n \in Item : Link(n) = next[n]

LEMMA NextLinks == Unlinked => AsNext
BY DEF Unlinked, AsNext, Link

LEMMA Alone ==
    ASSUME NEW s, State(s), NEW u \in User, at[u] \notin Away,
           ~IsStack \/ at[u] \in {"pop", "unlink", "clear"}
    PROVE  Lone(u)
<1> SUFFICES ASSUME NEW v \in User \ {u}, at[v] \notin Away PROVE FALSE
  BY DEF Lone
<1>1. IsStack /\ Together(at[u], at[v])
  BY Company DEF State
<1> QED
  BY <1>1 DEF Together, Pushing, Walking, Looking

LEMMA AloneRest ==
    ASSUME NEW s, State(s), NEW u \in User, Lone(u), NEW t,
           \A v \in User \ {u} : at'[v] = at[v] /\ cur'[v] = cur[v],
           \A n \in Item : fate[n] \in Gone => fate'[n] \in Gone /\ next'[n] = next[n]
    PROVE  /\ Pushers' /\ Lone(u)'
           /\ \A v \in User \ {u} : PushKnows(v)' /\ FreeKnows(v)' /\ LookKnows(v, t)'
<1>1. Pushers'
  BY DEF Pushers, Lone, Away, Pushing
<1>2. ASSUME NEW v \in User \ {u} PROVE PushKnows(v)' /\ FreeKnows(v)' /\ LookKnows(v, t)'
  <2>1. FreeKnows(v)'
    BY FreeFrame DEF State
  <2> QED
    BY <2>1 DEF Lone, Away, PushKnows, LookKnows
<1> QED
  BY <1>1, <1>2 DEF Lone

LEMMA AloneDone ==
    ASSUME NEW u \in User, NEW t, Placed', Listed(t)', Pushers',
           PushKnows(u)', FreeKnows(u)', LookKnows(u, t)',
           \A v \in User \ {u} : PushKnows(v)' /\ FreeKnows(v)' /\ LookKnows(v, t)'
    PROVE  State(t)'
BY DEF State

LEMMA QueueReadTopStep ==
    ASSUME NEW s, State(s), NEW u \in User, QueueReadTop(u), NEW c, c = cur[u]
    PROVE  State(s)'
<1> USE DEF State
<1> DEFINE x == IF top = Null THEN "swap" ELSE "behind"
           n == IF top = Null THEN c ELSE next[top]
<1>1. /\ at[u] = "push" /\ ~IsStack /\ at' = [at EXCEPT ![u] = x]
      /\ next' = [next EXCEPT ![c] = n] /\ old' = [old EXCEPT ![u] = top]
      /\ UNCHANGED <<shape, inside, top, fate, cur, seen>>
  BY DEF QueueReadTop, Go
<1>2. /\ c \in Item /\ fate[c] = "made" /\ top \in Item \cup {Null} /\ (top = Null => ~(top \in Item))
      /\ n \in Item \cup {Null}
  BY <1>1, ListAssumption DEF PushKnows, Placed, ListTypeOK
<1>3. top # c
  BY <1>2 DEF Listed
<1>4. /\ at'[u] = x /\ next'[c] = n /\ old'[u] = top
      /\ \A v \in User \ {u} : at'[v] = at[v] /\ cur'[v] = cur[v]
      /\ \A m \in Item \ {c} : next'[m] = next[m]
  BY <1>1, <1>2 DEF Placed, ListTypeOK
<1>5. ListTypeOK'
  BY <1>1, <1>2 DEF Placed, ListTypeOK, Step
<1>6. Placed'
  <2>1. /\ Ops(at[u]) = Ops(x) /\ at[u] \notin Away /\ x \notin Away
        /\ at[u] \in Pushing /\ x \in Pushing /\ at[u] \notin Looking /\ x \notin Looking
        /\ at[u] \notin Walking /\ x \notin Walking /\ x \in Step
    BY <1>1 DEF Ops, Away, Pushing, Looking, Walking, Step
  <2> QED
    BY <1>1, <1>5, <2>1, Stays
<1>7. Lone(u)
  BY <1>1, Alone DEF Away
<1>8. \A m \in Item : fate[m] \in Gone => fate'[m] \in Gone /\ next'[m] = next[m]
  BY <1>1, <1>2, <1>4 DEF Gone
<1>9. /\ Pushers' /\ Lone(u)'
      /\ \A v \in User \ {u} : PushKnows(v)' /\ FreeKnows(v)' /\ LookKnows(v, s)'
  BY <1>4, <1>7, <1>8, AloneRest
<1>10. AsNext /\ AsNext'
  <2>1. Unlinked /\ Unlinked'
    BY <1>1, <1>4, <1>7 DEF Unlinked, Lone, Away
  <2> QED
    BY <2>1, NextLinks, PTL
<1>11. First' = First /\ ~IsStack'
  BY <1>1, <1>2, <1>3, <1>4 DEF First, IsStack
<1>12. s \in Seq(Item) /\ From(First, s) /\ \A m \in Item : ~Swapping(m)
  BY <1>1, <1>7 DEF Listed, Swapping, Lone, Away
<1>13. \A i \in 1 .. Len(s) : s[i] \in Item \ {c}
  BY <1>2, <1>12 DEF Listed
<1>14. \A m \in Item \ {c} : Link(m)' = Link(m) /\ (Ends(m)' <=> Ends(m))
  BY <1>1, <1>4, <1>10, <1>11 DEF AsNext, Ends
<1>15. From(First, s)'
  <2>1. Len(s) \in Nat /\ (s # <<>> => Len(s) \in 1 .. Len(s)) /\ \A i \in 1 .. Len(s) - 1 : i \in 1 .. Len(s)
    BY <1>12
  <2> QED
    BY <1>11, <1>12, <1>13, <1>14, <2>1 DEF From
<1>16. \A m \in Item : ~Swapping(m)'
  BY <1>1, <1>4, <1>9 DEF Swapping, Lone, Away
<1>17. Listed(s)'
  BY <1>1, <1>12, <1>15, <1>16 DEF Listed
<1>18. PushKnows(u)'
  <2>1. cur'[u] = c /\ next'[c] = n /\ (top # Null => next'[top] = next[top])
    BY <1>1, <1>2, <1>3, <1>4
  <2> QED
    BY <1>1, <1>2, <1>4, <1>11, <2>1 DEF PushKnows
<1>19. FreeKnows(u)' /\ LookKnows(u, s)'
  BY <1>4 DEF FreeKnows, LookKnows
<1> QED
  BY <1>6, <1>9, <1>17, <1>18, <1>19, AloneDone

(* What is known of a list that nobody pushes to at the moment              *)
Facts(s) ==
    /\ s \in Seq(Item) /\ Len(s) \in Nat /\ (s = <<>> <=> Len(s) = 0) /\ (s = <<>> <=> First = Null)
    /\ (top = Null <=> First = Null)
    /\ top \in Item \cup {Null} /\ (top # Null => fate[top] = "linked" /\ top \in Item)
    /\ \A i \in 1 .. Len(s) : s[i] \in Item /\ fate[s[i]] = "linked"
    /\ \A m \in Item : fate[m] = "linked" => \E i \in 1 .. Len(s) : s[i] = m
    /\ s # <<>> => s[1] = First /\ Ends(s[Len(s)]) /\ Len(s) \in 1 .. Len(s) /\ 1 \in 1 .. Len(s)
    /\ \A i \in 1 .. Len(s) - 1 : /\ i \in 1 .. Len(s) /\ i + 1 \in 1 .. Len(s)
                                  /\ ~Ends(s[i]) /\ s[i + 1] = next[s[i]]
    /\ \A i, j \in 1 .. Len(s) : i < j => s[i] # s[j]
    /\ \A m \in Item : Link(m) = next[m] /\ (Ends(m) <=> IF IsStack THEN next[m] = Null ELSE m = top)

LEMMA ListFacts ==
    ASSUME NEW s, State(s), \A v \in User : at[v] \notin {"link", "swap"}
    PROVE  Facts(s)
<1> USE DEF State
<1>1. s \in Seq(Item) /\ From(First, s) /\ (top # Null => fate[top] = "linked")
  BY DEF Listed
<1>2. Len(s) \in Nat /\ (s = <<>> <=> Len(s) = 0) /\ \A i \in 1 .. Len(s) : s[i] \in Item
  BY <1>1
<1>3. /\ s # <<>> => Len(s) \in 1 .. Len(s) /\ 1 \in 1 .. Len(s)
      /\ \A i \in 1 .. Len(s) - 1 : i \in 1 .. Len(s) /\ i + 1 \in 1 .. Len(s)
  BY <1>2
<1>4. AsNext
  BY NextLinks DEF Unlinked
<1>5. top \in Item \cup {Null} /\ (top # Null => top \in Item)
  BY DEF Placed, ListTypeOK
<1>6. \A m \in Item : (\E i \in 1 .. Len(s) : s[i] = m) <=> fate[m] = "linked"
  BY DEF Listed, Swapping
<1>7. (s = <<>> <=> First = Null) /\ (s # <<>> => s[1] = First /\ Ends(s[Len(s)]))
  BY <1>1 DEF From
<1>8. \A i \in 1 .. Len(s) - 1 : ~Ends(s[i]) /\ s[i + 1] = next[s[i]]
  BY <1>1, <1>2, <1>3, <1>4 DEF From, AsNext
<1>9. \A i, j \in 1 .. Len(s) : i < j => s[i] # s[j]
  BY <1>1, FromOnce
<1>10. \A m \in Item : Link(m) = next[m] /\ (Ends(m) <=> IF IsStack THEN next[m] = Null ELSE m = top)
  BY <1>4 DEF AsNext, Ends
<1>11. top = Null <=> First = Null
  <2>1. top = Null => First = Null
    BY DEF First
  <2>2. top # Null => s # <<>>
    BY <1>1, <1>2, <1>5, <1>6
  <2> QED
    BY <1>7, <2>1, <2>2
<1>12. \A i \in 1 .. Len(s) : s[i] \in Item /\ fate[s[i]] = "linked"
  BY <1>2, <1>6
<1> QED
  BY <1>1, <1>2, <1>3, <1>5, <1>6, <1>7, <1>8, <1>9, <1>10, <1>11, <1>12 DEF Facts

LEMMA QueueLinkStep ==
    ASSUME NEW s, State(s), NEW u \in User, QueueLink(u), NEW c, c = cur[u], NEW t, t = <<c>> \o s
    PROVE  State(t)'
<1> USE DEF State
<1>1. /\ at[u] = "behind" /\ at' = [at EXCEPT ![u] = "swap"]
      /\ next' = [next EXCEPT ![old[u]] = c]
      /\ UNCHANGED <<shape, inside, top, fate, cur, old, seen>>
  BY DEF QueueLink, Go
<1>2. /\ c \in Item /\ fate[c] = "made" /\ ~IsStack /\ top # Null /\ old[u] = top
      /\ next[c] = next[top] /\ First = next[top]
  BY <1>1 DEF PushKnows, First
<1>3. Lone(u)
  BY <1>1, <1>2, Alone DEF Away
<1>4. \A v \in User : at[v] \notin {"link", "swap"}
  BY <1>1, <1>3 DEF Lone, Away
<1>5. /\ s \in Seq(Item) /\ Len(s) \in Nat /\ (s = <<>> <=> Len(s) = 0)
      /\ First # Null /\ s # <<>> /\ top \in Item /\ fate[top] = "linked"
      /\ \A i \in 1 .. Len(s) : s[i] \in Item \ {c} /\ fate[s[i]] = "linked"
      /\ \A m \in Item : fate[m] = "linked" => \E i \in 1 .. Len(s) : s[i] = m
      /\ s[1] = First /\ s[Len(s)] = top /\ Len(s) \in 1 .. Len(s) /\ 1 \in 1 .. Len(s)
      /\ \A i \in 1 .. Len(s) - 1 : /\ i \in 1 .. Len(s) /\ i + 1 \in 1 .. Len(s)
                                    /\ s[i] # top /\ s[i + 1] = next[s[i]]
  <2>1. Facts(s)
    BY <1>4, ListFacts
  <2>2. First # Null /\ s # <<>>
    BY <1>2, <2>1 DEF Facts
  <2>3. \A i \in 1 .. Len(s) : s[i] \in Item \ {c} /\ fate[s[i]] = "linked"
    BY <1>2, <2>1 DEF Facts
  <2>4. s[1] = First /\ s[Len(s)] = top /\ Len(s) \in 1 .. Len(s) /\ 1 \in 1 .. Len(s)
    BY <1>2, <2>1, <2>2 DEF Facts
  <2>5. \A i \in 1 .. Len(s) - 1 : /\ i \in 1 .. Len(s) /\ i + 1 \in 1 .. Len(s)
                                  /\ s[i] # top /\ s[i + 1] = next[s[i]]
    BY <1>2, <2>1 DEF Facts
  <2> QED
    BY <1>2, <2>1, <2>2, <2>3, <2>4, <2>5 DEF Facts
<1>6. /\ at'[u] = "swap" /\ next'[top] = c /\ c # top
      /\ \A v \in User \ {u} : at'[v] = at[v] /\ cur'[v] = cur[v]
      /\ \A m \in Item \ {top} : next'[m] = next[m]
  BY <1>1, <1>2, <1>5 DEF Placed, ListTypeOK
<1>7. ListTypeOK'
  BY <1>1, <1>2 DEF Placed, ListTypeOK, Step
<1>8. Placed'
  <2>1. /\ Ops(at[u]) = Ops("swap") /\ at[u] \notin Away /\ "swap" \notin Away
        /\ at[u] \in Pushing /\ "swap" \in Pushing /\ at[u] \notin Looking /\ "swap" \notin Looking
        /\ at[u] \notin Walking /\ "swap" \notin Walking /\ "swap" \in Step
    BY <1>1 DEF Ops, Away, Pushing, Looking, Walking, Step
  <2> QED
    BY <1>1, <1>7, <2>1, Stays
<1>9. \A m \in Item : fate[m] \in Gone => fate'[m] \in Gone /\ next'[m] = next[m]
  BY <1>1, <1>5, <1>6 DEF Gone
<1>10. /\ Pushers' /\ Lone(u)'
       /\ \A v \in User \ {u} : PushKnows(v)' /\ FreeKnows(v)' /\ LookKnows(v, t)'
  BY <1>3, <1>6, <1>9, AloneRest
<1>11. AsNext'
  <2>1. Unlinked'
    BY <1>6, <1>10 DEF Unlinked, Lone, Away
  <2> QED
    BY <2>1, NextLinks, PTL
<1>12. First' = c /\ ~IsStack'
  BY <1>1, <1>2, <1>6 DEF First, IsStack
<1>13. /\ t \in Seq(Item) /\ Len(t) = Len(s) + 1 /\ t[1] = c /\ t # <<>>
       /\ \A i \in 1 .. Len(s) : t[i + 1] = s[i]
  BY <1>2, <1>5, Consed
<1>14. \A i \in 1 .. Len(t) : i = 1 \/ (i - 1 \in 1 .. Len(s) /\ t[i] = s[i - 1])
  <2>1. ASSUME NEW i \in 1 .. Len(t), i # 1 PROVE i - 1 \in 1 .. Len(s) /\ (i - 1) + 1 = i
    BY <1>5, <1>13, <2>1
  <2> QED
    BY <1>13, <2>1
<1>15. \A m \in Item : Link(m)' = next'[m] /\ (Ends(m)' <=> m = top)
  BY <1>1, <1>11, <1>12 DEF AsNext, Ends
<1>16. From(c, t)'
  <2>1. t[Len(t)] = top
    BY <1>5, <1>13
  <2>2. ASSUME NEW i \in 1 .. Len(t) - 1 PROVE t[i] \in Item \ {top} /\ t[i + 1] = next'[t[i]]
    <3>1. CASE i = 1
      <4>1. t[1 + 1] = s[1] /\ next'[c] = next[c]
        BY <1>2, <1>5, <1>6, <1>13
      <4> QED
        BY <1>2, <1>5, <1>6, <1>13, <3>1, <4>1
    <3>2. CASE i # 1
      <4>1. PICK j \in 1 .. Len(s) - 1 : i = j + 1
        <5>1. i - 1 \in 1 .. Len(s) - 1 /\ i = (i - 1) + 1
          BY <1>5, <1>13, <3>2
        <5> QED
          BY <5>1
      <4>2. /\ j \in 1 .. Len(s) /\ j + 1 \in 1 .. Len(s)
            /\ s[j] \in Item /\ s[j] # top /\ s[j + 1] = next[s[j]]
        BY <1>5, <4>1
      <4>3. t[i] = s[j] /\ t[i + 1] = s[j + 1]
        BY <1>13, <4>1, <4>2
      <4> QED
        BY <1>6, <4>2, <4>3
    <3> QED
      BY <3>1, <3>2
  <2>3. c # Null
    BY <1>2, ListAssumption
  <2> QED
    <3>1. Ends(t[Len(t)])'
      BY <1>5, <1>15, <2>1
    <3>2. \A i \in 1 .. Len(t) - 1 : ~Ends(t[i])' /\ t[i + 1] = Link(t[i])'
      BY <1>15, <2>2
    <3> QED
      BY <1>13, <2>3, <3>1, <3>2 DEF From
<1>17. Listed(t)'
  <2>1. \A m \in Item : Swapping(m)' <=> m = c
    BY <1>1, <1>2, <1>6, <1>10 DEF Swapping, Lone, Away
  <2>2. ASSUME NEW m \in Item
        PROVE  (\E i \in 1 .. Len(t) : t[i] = m) <=> fate[m] = "linked" \/ m = c
    <3>1. (\E i \in 1 .. Len(s) : s[i] = m) <=> fate[m] = "linked"
      BY <1>5
    <3>2. \A i \in 1 .. Len(s) : i + 1 \in 1 .. Len(t)
      BY <1>5, <1>13
    <3>3. 1 \in 1 .. Len(t)
      BY <1>5, <1>13
    <3>4. (\E i \in 1 .. Len(t) : t[i] = m) => m = c \/ \E i \in 1 .. Len(s) : s[i] = m
      BY <1>13, <1>14
    <3>5. m = c \/ (\E i \in 1 .. Len(s) : s[i] = m) => \E i \in 1 .. Len(t) : t[i] = m
      BY <1>13, <3>2, <3>3
    <3> QED
      BY <3>1, <3>4, <3>5
  <2> QED
    BY <1>1, <1>5, <1>12, <1>13, <1>16, <2>1, <2>2 DEF Listed
<1>18. PushKnows(u)'
  BY <1>1, <1>2, <1>6, <1>12 DEF PushKnows
<1>19. FreeKnows(u)' /\ LookKnows(u, t)'
  BY <1>6 DEF FreeKnows, LookKnows
<1> QED
  BY <1>8, <1>10, <1>17, <1>18, <1>19, AloneDone

LEMMA Appended ==
    ASSUME NEW c \in Item, NEW r \in Seq(Item)
    PROVE  /\ Append(r, c) \in Seq(Item) /\ Len(Append(r, c)) = Len(r) + 1
           /\ Append(r, c)[Len(r) + 1] = c /\ Append(r, c) # <<>>
           /\ \A i \in 1 .. Len(r) : Append(r, c)[i] = r[i]
           /\ Len(r) \in Nat /\ (r = <<>> <=> Len(r) = 0) /\ \A i \in 1 .. Len(r) : r[i] \in Item
OBVIOUS

(* The queue without the new node in front of it                            *)
OldQueue(c, r) ==
    /\ r \in Seq(Item)
    /\ \A i \in 1 .. Len(r) : r[i] \in Item \ {c}
    /\ \A m \in Item : (\E i \in 1 .. Len(r) : r[i] = m) <=> fate[m] = "linked"
    /\ \A i \in 1 .. Len(r) - 1 : r[i + 1] = next[r[i]]
    /\ r = <<>> => next[c] = c
    /\ r # <<>> => next[c] = r[1] /\ r[Len(r)] = top /\ next[top] = c

LEMMA BeforeSwap ==
    ASSUME NEW s, State(s), NEW u \in User, at[u] = "swap", NEW c, c = cur[u], NEW r, r = Shown(s)
    PROVE  OldQueue(c, r)
<1> USE DEF State
<1>1. c \in Item /\ fate[c] = "made" /\ ~IsStack
  BY DEF PushKnows
<1>2. Lone(u)
  BY <1>1, Alone DEF Away
<1>3. AsNext
  BY <1>2, NextLinks DEF Unlinked, Lone, Away
<1>4. s \in Seq(Item) /\ From(First, s) /\ top \in Item \cup {Null} /\ (top # Null => fate[top] = "linked")
  BY DEF Listed, Placed, ListTypeOK
<1>5. \A m \in Item : Swapping(m) <=> top # Null /\ m = c
  BY <1>1, <1>2 DEF Swapping, Lone, Away
<1>6. CASE top = Null
  <2>1. s = <<>> /\ next[c] = c
    BY <1>4, <1>6 DEF From, First, PushKnows
  <2>2. r = <<>>
    BY <2>1 DEF Shown
  <2>3. \A m \in Item : fate[m] # "linked"
    BY <1>5, <1>6, <2>1 DEF Listed
  <2>4. r \in Seq(Item) /\ Len(r) = 0
    BY <2>2
  <2>5. \A i \in 1 .. Len(r) : FALSE
    BY <2>4
  <2>6. \A i \in 1 .. Len(r) - 1 : FALSE
    BY <2>4
  <2> QED
    BY <2>1, <2>2, <2>3, <2>4, <2>5, <2>6 DEF OldQueue
<1>7. CASE top # Null
  <2>1. First = c /\ next[top] = c /\ c # Null
    BY <1>1, <1>7, ListAssumption DEF First, PushKnows
  <2>2. s # <<>> /\ s[1] = c /\ Ends(s[Len(s)]) /\ Len(s) \in Nat \ {0}
    BY <1>4, <2>1 DEF From
  <2>3. s[Len(s)] = top /\ top # c /\ Len(s) # 1
    BY <1>1, <1>4, <1>7, <2>2 DEF Ends
  <2>4. r = Tail(s)
    BY <1>1, <2>2 DEF Shown
  <2>5. /\ r \in Seq(Item) /\ Len(r) = Len(s) - 1 /\ \A i \in 1 .. Len(s) - 1 : r[i] = s[i + 1]
        /\ (r = <<>> <=> Len(s) = 1) /\ \A i \in 1 .. Len(s) : s[i] \in Item
    BY <1>4, <2>2, <2>4, Tailed
  <2>6. \A i \in 1 .. Len(r) : i \in 1 .. Len(s) - 1 /\ i + 1 \in 1 .. Len(s) /\ 1 < i + 1 /\ 1 \in 1 .. Len(s)
    BY <2>2, <2>5
  <2>7. ASSUME NEW i \in 1 .. Len(r) PROVE r[i] \in Item \ {c}
    <3>1. s[1] # s[i + 1]
      BY <1>4, <2>6, FromOnce
    <3> QED
      BY <2>2, <2>5, <2>6, <3>1
  <2>8. ASSUME NEW m \in Item PROVE (\E i \in 1 .. Len(r) : r[i] = m) <=> fate[m] = "linked"
    <3>1. (\E i \in 1 .. Len(s) : s[i] = m) <=> fate[m] = "linked" \/ m = c
      BY <1>5, <1>7 DEF Listed
    <3>2. (\E i \in 1 .. Len(r) : r[i] = m) => fate[m] = "linked"
      BY <2>5, <2>6, <2>7, <3>1
    <3>3. ASSUME fate[m] = "linked" PROVE \E i \in 1 .. Len(r) : r[i] = m
      <4>1. PICK i \in 1 .. Len(s) : s[i] = m
        BY <3>1, <3>3
      <4>2. i # 1
        BY <1>1, <2>2, <3>3, <4>1
      <4>3. i - 1 \in 1 .. Len(r) /\ i - 1 \in 1 .. Len(s) - 1 /\ (i - 1) + 1 = i
        BY <2>2, <2>5, <4>2
      <4> QED
        BY <2>5, <4>1, <4>3
    <3> QED
      BY <3>2, <3>3
  <2>9. ASSUME NEW i \in 1 .. Len(r) - 1 PROVE r[i + 1] = next[r[i]]
    <3>1. i + 1 \in 1 .. Len(s) - 1 /\ i \in 1 .. Len(s) - 1 /\ i + 1 \in 1 .. Len(s)
      BY <2>2, <2>5
    <3>2. s[(i + 1) + 1] = Link(s[i + 1])
      BY <1>4, <3>1 DEF From
    <3> QED
      BY <1>3, <2>5, <3>1, <3>2 DEF AsNext
  <2>10. next[c] = r[1] /\ r[Len(r)] = top /\ r # <<>>
    <3>1. 1 \in 1 .. Len(s) - 1 /\ Len(r) \in 1 .. Len(s) - 1 /\ Len(r) + 1 = Len(s)
      BY <2>2, <2>3, <2>5
    <3>2. s[1 + 1] = Link(s[1])
      BY <1>4, <3>1 DEF From
    <3> QED
      BY <1>1, <1>3, <2>2, <2>3, <2>5, <3>1, <3>2 DEF AsNext
  <2> QED
    BY <2>1, <2>5, <2>7, <2>8, <2>9, <2>10 DEF OldQueue
<1> QED
  BY <1>6, <1>7

LEMMA QueueSwapStep ==
    ASSUME NEW s, State(s), NEW u \in User, QueueSwap(u), NEW c, c = cur[u],
           NEW r, r = Shown(s), NEW t, t = Append(r, c)
    PROVE  State(t)'
<1> USE DEF State
<1>1. /\ at[u] = "swap" /\ at' = [at EXCEPT ![u] = "idle"] /\ old' = [old EXCEPT ![u] = Null]
      /\ top' = c /\ fate' = [fate EXCEPT ![c] = "linked"] /\ cur' = [cur EXCEPT ![u] = Null]
      /\ inside' = [inside EXCEPT ![u] = Null]
      /\ UNCHANGED <<shape, next, seen>>
  BY DEF QueueSwap, Lock!Leave, Drop, Hold, Go
<1>2. c \in Item /\ fate[c] = "made" /\ ~IsStack /\ c # Null
  BY <1>1, ListAssumption DEF PushKnows
<1>3. Lone(u)
  BY <1>1, <1>2, Alone DEF Away
<1>4. /\ r \in Seq(Item)
      /\ \A i \in 1 .. Len(r) : r[i] \in Item \ {c}
      /\ \A m \in Item : (\E i \in 1 .. Len(r) : r[i] = m) <=> fate[m] = "linked"
      /\ \A i \in 1 .. Len(r) - 1 : r[i + 1] = next[r[i]]
      /\ r = <<>> => next[c] = c
      /\ r # <<>> => next[c] = r[1] /\ r[Len(r)] = top /\ next[top] = c
  <2>1. OldQueue(c, r)
    BY <1>1, BeforeSwap
  <2> QED
    BY <2>1 DEF OldQueue
<1>5. /\ at'[u] = "idle" /\ fate'[c] = "linked"
      /\ \A v \in User \ {u} : at'[v] = at[v] /\ cur'[v] = cur[v]
      /\ \A m \in Item \ {c} : fate'[m] = fate[m]
  BY <1>1, <1>2 DEF Placed, ListTypeOK
<1>6. ListTypeOK'
  BY <1>1, <1>2 DEF Placed, ListTypeOK, Step
<1>7. Placed'
  BY <1>1, <1>6, Leaves DEF Away
<1>8. \A m \in Item : fate[m] \in Gone => fate'[m] \in Gone /\ next'[m] = next[m]
  BY <1>1, <1>2, <1>5 DEF Gone
<1>9. /\ Pushers' /\ Lone(u)'
      /\ \A v \in User \ {u} : PushKnows(v)' /\ FreeKnows(v)' /\ LookKnows(v, t)'
  BY <1>3, <1>5, <1>8, AloneRest
<1>10. AsNext'
  <2>1. Unlinked'
    BY <1>5, <1>9 DEF Unlinked, Lone, Away
  <2> QED
    BY <2>1, NextLinks, PTL
<1>11. First' = next[c] /\ ~IsStack'
  BY <1>1, <1>2 DEF First, IsStack
<1>12. \A m \in Item : Link(m)' = next[m] /\ (Ends(m)' <=> m = c)
  BY <1>1, <1>10, <1>11 DEF AsNext, Ends
<1>13. /\ t \in Seq(Item) /\ Len(t) = Len(r) + 1 /\ t[Len(r) + 1] = c /\ t # <<>>
       /\ \A i \in 1 .. Len(r) : t[i] = r[i]
       /\ Len(r) \in Nat /\ (r = <<>> <=> Len(r) = 0) /\ \A i \in 1 .. Len(r) : r[i] \in Item
  BY <1>2, <1>4, Appended
<1>14. t[1] = next[c] /\ next[c] # Null
  <2>1. CASE r = <<>>
    BY <1>2, <1>4, <1>13, <2>1
  <2>2. CASE r # <<>>
    <3>1. 1 \in 1 .. Len(r)
      BY <1>13, <2>2
    <3> QED
      BY <1>4, <1>13, <2>2, <3>1, ListAssumption
  <2> QED
    BY <2>1, <2>2
<1>15. ASSUME NEW i \in 1 .. Len(t) - 1 PROVE ~Ends(t[i])' /\ t[i + 1] = Link(t[i])'
  <2>1. i \in 1 .. Len(r) /\ t[i] = r[i] /\ r[i] \in Item /\ r[i] # c
    BY <1>4, <1>13
  <2>2. t[i + 1] = next[r[i]]
    <3>1. CASE i = Len(r)
      BY <1>4, <1>13, <2>1, <3>1
    <3>2. CASE i # Len(r)
      <4>1. i \in 1 .. Len(r) - 1 /\ i + 1 \in 1 .. Len(r)
        BY <1>13, <2>1, <3>2
      <4> QED
        BY <1>4, <1>13, <4>1
    <3> QED
      BY <3>1, <3>2
  <2> QED
    BY <1>12, <2>1, <2>2
<1>16. From(First, t)'
  <2>1. Ends(t[Len(t)])'
    BY <1>2, <1>12, <1>13
  <2> QED
    BY <1>1, <1>11, <1>13, <1>14, <1>15, <2>1 DEF From
<1>17. Listed(t)'
  <2>1. \A m \in Item : ~Swapping(m)'
    BY <1>5, <1>9 DEF Swapping, Lone, Away
  <2>2. ASSUME NEW m \in Item
        PROVE  (\E i \in 1 .. Len(t) : t[i] = m) <=> fate'[m] = "linked"
    <3>1. (\E i \in 1 .. Len(r) : r[i] = m) <=> fate[m] = "linked"
      BY <1>4
    <3>2. \A i \in 1 .. Len(t) : i = Len(r) + 1 \/ i \in 1 .. Len(r)
      BY <1>13
    <3>3. Len(r) + 1 \in 1 .. Len(t) /\ \A i \in 1 .. Len(r) : i \in 1 .. Len(t)
      BY <1>13
    <3>4. (\E i \in 1 .. Len(t) : t[i] = m) => m = c \/ \E i \in 1 .. Len(r) : r[i] = m
      BY <1>13, <3>2
    <3>5. m = c \/ (\E i \in 1 .. Len(r) : r[i] = m) => \E i \in 1 .. Len(t) : t[i] = m
      BY <1>13, <3>3
    <3> QED
      BY <1>5, <3>1, <3>4, <3>5
  <2> QED
    BY <1>1, <1>5, <1>13, <1>16, <2>1, <2>2 DEF Listed
<1>18. PushKnows(u)' /\ FreeKnows(u)' /\ LookKnows(u, t)'
  BY <1>5 DEF PushKnows, FreeKnows, LookKnows
<1> QED
  BY <1>7, <1>9, <1>17, <1>18, AloneDone

LEMMA PopUnlinkStep ==
    ASSUME NEW s, State(s), NEW u \in User, PopUnlink(u), NEW c, c = cur[u], NEW t, t = Tail(s)
    PROVE  State(t)' /\ s # <<>> /\ s[1] = c /\ fate[c] = "linked"
<1> USE DEF State
<1>1. /\ at[u] = "unlink" /\ at' = [at EXCEPT ![u] = "free"]
      /\ fate' = [fate EXCEPT ![c] = "taken"] /\ inside' = [inside EXCEPT ![u] = Null]
      /\ UNCHANGED <<shape, cur, old, seen>>
  BY DEF PopUnlink, Lock!Leave, Go
<1>2. /\ IsStack => top' = next[c] /\ next' = next
      /\ ~IsStack /\ c = top => top' = Null /\ next' = next
      /\ ~IsStack /\ c # top => next' = [next EXCEPT ![top] = next[c]] /\ top' = top
  BY DEF PopUnlink
<1>3. Lone(u)
  BY <1>1, Alone DEF Away
<1>4. \A v \in User : at[v] \notin {"link", "swap"}
  BY <1>1, <1>3 DEF Lone, Away
<1>5. Facts(s)
  BY <1>4, ListFacts
<1>6. top # Null /\ c = First /\ s # <<>> /\ s[1] = c
  BY <1>1, <1>5 DEF LookKnows, Facts
<1>7. c \in Item /\ fate[c] = "linked" /\ top \in Item /\ fate[top] = "linked"
  BY <1>5, <1>6 DEF Facts
<1>8. /\ t \in Seq(Item) /\ Len(t) = Len(s) - 1 /\ Len(s) \in Nat \ {0}
      /\ \A i \in 1 .. Len(s) - 1 : t[i] = s[i + 1]
      /\ (t = <<>> <=> Len(s) = 1) /\ \A i \in 1 .. Len(s) : s[i] \in Item
  <2>1. s \in Seq(Item)
    BY <1>5 DEF Facts
  <2> QED
    BY <1>6, <2>1, Tailed
<1>9. \A i \in 1 .. Len(t) : i + 1 \in 1 .. Len(s) /\ t[i] = s[i + 1] /\ s[i + 1] # c
  <2>1. \A i \in 1 .. Len(t) : i \in 1 .. Len(s) - 1 /\ i + 1 \in 1 .. Len(s) /\ 1 < i + 1 /\ 1 \in 1 .. Len(s)
    BY <1>8
  <2> QED
    BY <1>5, <1>6, <1>8, <2>1 DEF Facts
<1>10. /\ Len(s) = 1 => Ends(c)
       /\ Len(s) # 1 => ~Ends(c) /\ next[c] = s[2] /\ s[2] = t[1] /\ s[2] \in Item /\ s[2] # c
                        /\ fate[s[2]] = "linked"
  <2>1. CASE Len(s) = 1
    BY <1>5, <1>6, <2>1 DEF Facts
  <2>2. CASE Len(s) # 1
    <3>1. 1 \in 1 .. Len(s) - 1 /\ 1 \in 1 .. Len(t) /\ 2 \in 1 .. Len(s) /\ 1 + 1 = 2
      BY <1>8, <2>2
    <3>2. ~Ends(s[1]) /\ s[1 + 1] = next[s[1]]
      BY <1>5, <3>1 DEF Facts
    <3>3. fate[s[2]] = "linked" /\ s[2] \in Item
      BY <1>5, <3>1 DEF Facts
    <3> QED
      BY <1>6, <1>9, <2>2, <3>1, <3>2, <3>3
  <2> QED
    BY <2>1, <2>2
<1>11. Ends(c) <=> IF IsStack THEN next[c] = Null ELSE c = top
  BY <1>5, <1>7 DEF Facts
<1>12. /\ next[c] \in Item \cup {Null} /\ top' \in Item \cup {Null}
       /\ next' \in [Item -> Item \cup {Null}]
       /\ \A m \in Item : next'[m] # next[m] => m = top /\ ~IsStack /\ c # top
  <2>1. next \in [Item -> Item \cup {Null}] /\ next[c] \in Item \cup {Null} /\ top \in Item
    BY <1>7 DEF Placed, ListTypeOK
  <2>2. CASE IsStack
    BY <1>2, <2>1, <2>2
  <2>3. CASE ~IsStack /\ c = top
    BY <1>2, <2>1, <2>3
  <2>4. CASE ~IsStack /\ c # top
    <3>1. next' = [next EXCEPT ![top] = next[c]] /\ top' = top
      BY <1>2, <2>4
    <3> QED
      BY <2>1, <2>4, <3>1
  <2> QED
    BY <2>2, <2>3, <2>4
<1>13. /\ at'[u] = "free" /\ fate'[c] = "taken"
       /\ \A v \in User \ {u} : at'[v] = at[v] /\ cur'[v] = cur[v]
       /\ \A m \in Item \ {c} : fate'[m] = fate[m]
  BY <1>1, <1>7 DEF Placed, ListTypeOK
<1>14. Placed'
  <2>1. ListTypeOK'
    BY <1>1, <1>12 DEF Placed, ListTypeOK, Step
  <2> QED
    BY <1>1, <2>1, Leaves DEF Away
<1>15. \A m \in Item : fate[m] \in Gone => fate'[m] \in Gone /\ next'[m] = next[m]
  BY <1>7, <1>12, <1>13 DEF Gone
<1>16. /\ Pushers' /\ Lone(u)'
       /\ \A v \in User \ {u} : PushKnows(v)' /\ FreeKnows(v)' /\ LookKnows(v, t)'
  BY <1>3, <1>13, <1>15, AloneRest
<1>17. AsNext'
  <2>1. Unlinked'
    BY <1>13, <1>16 DEF Unlinked, Lone, Away
  <2> QED
    BY <2>1, NextLinks, PTL
<1>18. (IsStack <=> IsStack') /\ First' = IF top' = Null \/ IsStack THEN top' ELSE next'[top']
  BY <1>1 DEF First, IsStack
<1>19. \A m \in Item : Link(m)' = next'[m] /\ (Ends(m)' <=> IF IsStack THEN next'[m] = Null ELSE m = top')
  BY <1>17, <1>18 DEF AsNext, Ends
<1>20. /\ t = <<>> => First' = Null
       /\ t # <<>> => First' = t[1] /\ First' # Null /\ top' # Null /\ top' # c /\ fate[top'] = "linked"
                      /\ (~IsStack => top' = top)
  <2>1. CASE Len(s) = 1
    BY <1>2, <1>8, <1>10, <1>11, <1>18, <2>1
  <2>2. CASE Len(s) # 1
    <3>1. next[c] = t[1] /\ t[1] \in Item /\ t[1] # c /\ fate[t[1]] = "linked" /\ t[1] # Null
      BY <1>10, <2>2, ListAssumption
    <3>2. CASE IsStack
      BY <1>2, <1>18, <1>8, <2>2, <3>1, <3>2
    <3>3. CASE ~IsStack
      <4>1. c # top /\ top' = top /\ next'[top] = next[c]
        BY <1>2, <1>7, <1>10, <1>11, <2>2, <3>3 DEF Placed, ListTypeOK
      <4> QED
        BY <1>6, <1>7, <1>8, <1>18, <2>2, <3>1, <3>3, <4>1
    <3> QED
      BY <3>2, <3>3
  <2> QED
    BY <2>1, <2>2
<1>21. ASSUME NEW i \in 1 .. Len(t) - 1 PROVE ~Ends(t[i])' /\ t[i + 1] = Link(t[i])'
  <2>1. i \in 1 .. Len(t) /\ i + 1 \in 1 .. Len(t) /\ i + 1 \in 1 .. Len(s) - 1 /\ t # <<>>
    BY <1>8
  <2>2. ~Ends(s[i + 1]) /\ s[(i + 1) + 1] = next[s[i + 1]] /\ s[i + 1] \in Item
    BY <1>5, <2>1 DEF Facts
  <2>3. t[i] = s[i + 1] /\ t[i + 1] = s[(i + 1) + 1]
    BY <1>9, <2>1
  <2>4. Ends(s[i + 1]) <=> IF IsStack THEN next[s[i + 1]] = Null ELSE s[i + 1] = top
    BY <1>5, <2>2 DEF Facts
  <2>5. next'[s[i + 1]] = next[s[i + 1]]
    BY <1>12, <2>2, <2>4
  <2> QED
    BY <1>19, <1>20, <2>1, <2>2, <2>3, <2>4, <2>5
<1>22. t # <<>> => Ends(t[Len(t)])'
  <2> SUFFICES ASSUME t # <<>> PROVE Ends(t[Len(t)])'
    OBVIOUS
  <2>1. Len(t) \in 1 .. Len(t) /\ Len(t) + 1 = Len(s)
    BY <1>8
  <2>2. t[Len(t)] = s[Len(s)] /\ s[Len(s)] \in Item /\ Ends(s[Len(s)])
    BY <1>5, <1>6, <1>9, <2>1 DEF Facts
  <2>3. IF IsStack THEN next[s[Len(s)]] = Null ELSE s[Len(s)] = top
    BY <1>5, <2>2 DEF Facts
  <2> QED
    BY <1>12, <1>19, <1>20, <2>2, <2>3
<1>23. Listed(t)'
  <2>1. From(First, t)'
    BY <1>20, <1>21, <1>22 DEF From
  <2>2. \A m \in Item : ~Swapping(m)'
    BY <1>13, <1>16 DEF Swapping, Lone, Away
  <2>3. ASSUME NEW m \in Item
        PROVE  (\E i \in 1 .. Len(t) : t[i] = m) <=> fate'[m] = "linked"
    <3>1. ASSUME NEW i \in 1 .. Len(t), t[i] = m PROVE fate'[m] = "linked"
      <4>1. i + 1 \in 1 .. Len(s) /\ m = s[i + 1] /\ m # c
        BY <1>9, <3>1
      <4>2. fate[m] = "linked"
        BY <1>5, <4>1 DEF Facts
      <4> QED
        BY <1>13, <4>1, <4>2
    <3>2. ASSUME fate'[m] = "linked" PROVE \E i \in 1 .. Len(t) : t[i] = m
      <4>1. m # c /\ fate[m] = "linked"
        BY <1>13, <3>2
      <4>2. PICK i \in 1 .. Len(s) : s[i] = m
        BY <1>5, <4>1 DEF Facts
      <4>3. i # 1
        BY <1>6, <4>1, <4>2
      <4>4. i - 1 \in 1 .. Len(t) /\ (i - 1) + 1 = i
        BY <1>8, <4>3
      <4> QED
        BY <1>9, <4>2, <4>4
    <3> QED
      BY <3>1, <3>2
  <2>4. t = <<>> => top' = Null
    BY <1>2, <1>8, <1>10, <1>11
  <2>5. top' # Null => fate'[top'] = "linked"
    BY <1>12, <1>13, <1>20, <2>4
  <2> QED
    BY <1>8, <2>1, <2>2, <2>3, <2>5 DEF Listed
<1>24. PushKnows(u)' /\ FreeKnows(u)' /\ LookKnows(u, t)'
  BY <1>1, <1>7, <1>13 DEF PushKnows, FreeKnows, LookKnows, Gone
<1>25. State(t)'
  BY <1>14, <1>16, <1>23, <1>24, AloneDone
<1> QED
  BY <1>6, <1>7, <1>25

LEMMA ClearSwapStep ==
    ASSUME NEW s, State(s), NEW u \in User, ClearSwap(u), NEW t, t = <<>>
    PROVE  State(t)'
<1> USE DEF State
<1>1. /\ at[u] = "clear" /\ at' = [at EXCEPT ![u] = "sweep"]
      /\ top' = Null /\ cur' = [cur EXCEPT ![u] = top] /\ old' = [old EXCEPT ![u] = top]
      /\ fate' = [n \in Item |-> IF fate[n] = "linked" THEN "taken" ELSE fate[n]]
      /\ inside' = [inside EXCEPT ![u] = Null]
      /\ UNCHANGED <<shape, next, seen>>
  BY DEF ClearSwap, Lock!Leave, Hold, Go
<1>2. Lone(u)
  BY <1>1, Alone DEF Away
<1>3. Facts(s)
  <2>1. \A v \in User : at[v] \notin {"link", "swap"}
    BY <1>1, <1>2 DEF Lone, Away
  <2> QED
    BY <2>1, ListFacts
<1>4. /\ at'[u] = "sweep" /\ cur'[u] = top
      /\ \A v \in User \ {u} : at'[v] = at[v] /\ cur'[v] = cur[v]
      /\ \A m \in Item : fate'[m] = IF fate[m] = "linked" THEN "taken" ELSE fate[m]
  BY <1>1 DEF Placed, ListTypeOK
<1>5. Placed'
  <2>1. ListTypeOK'
    BY <1>1, <1>3 DEF Placed, ListTypeOK, Step, Facts
  <2> QED
    BY <1>1, <2>1, Leaves DEF Away
<1>6. \A m \in Item : fate[m] \in Gone => fate'[m] \in Gone /\ next'[m] = next[m]
  BY <1>1, <1>4 DEF Gone
<1>7. /\ Pushers' /\ Lone(u)'
      /\ \A v \in User \ {u} : PushKnows(v)' /\ FreeKnows(v)' /\ LookKnows(v, t)'
  BY <1>2, <1>4, <1>6, AloneRest
<1>8. Listed(t)'
  <2>1. First' = Null
    BY <1>1 DEF First
  <2>2. t \in Seq(Item) /\ Len(t) = 0
    OBVIOUS
  <2>3. (\A i \in 1 .. Len(t) : FALSE) /\ (\A i \in 1 .. Len(t) - 1 : FALSE)
    BY <2>2
  <2>4. From(First, t)'
    BY <2>1, <2>2, <2>3 DEF From
  <2>5. \A m \in Item : fate'[m] # "linked" /\ ~Swapping(m)'
    BY <1>1, <1>4 DEF Swapping
  <2> QED
    BY <1>1, <2>2, <2>3, <2>4, <2>5 DEF Listed
<1>9. FreeKnows(u)'
  <2> DEFINE S == {n \in Item : fate[n] = "linked"}
  <2>1. top \in S \cup {Null}
    BY <1>3 DEF Facts
  <2>2. ASSUME NEW n \in S PROVE fate'[n] \in Gone /\ next'[n] \in S \cup {Null}
    <3>1. PICK i \in 1 .. Len(s) : s[i] = n
      BY <1>3 DEF Facts
    <3>2. CASE i # Len(s)
      <4>1. i \in 1 .. Len(s) - 1 /\ i + 1 \in 1 .. Len(s)
        BY <1>3, <3>2 DEF Facts
      <4>2. next[n] = s[i + 1] /\ s[i + 1] \in S
        BY <1>3, <3>1, <4>1 DEF Facts
      <4> QED
        BY <1>1, <1>4, <4>2 DEF Gone
    <3>3. CASE i = Len(s)
      <4>1. s # <<>> /\ 1 \in 1 .. Len(s) /\ Ends(n) /\ s[1] = First
        BY <1>3, <3>1, <3>3 DEF Facts
      <4>2. First \in S
        BY <1>3, <4>1 DEF Facts
      <4>3. IF IsStack THEN next[n] = Null ELSE n = top
        BY <1>3, <4>1 DEF Facts
      <4>4. next[n] \in S \cup {Null}
        <5>1. CASE IsStack
          BY <4>3, <5>1
        <5>2. CASE ~IsStack
          BY <4>2, <4>3, <5>2, ListAssumption DEF First
        <5> QED
          BY <5>1, <5>2
      <4> QED
        BY <1>1, <1>4, <4>4 DEF Gone
    <3> QED
      BY <3>2, <3>3
  <2>3. S \in SUBSET Item
    OBVIOUS
  <2> HIDE DEF S
  <2> QED
    BY <1>4, <2>1, <2>2, <2>3 DEF FreeKnows
<1>10. PushKnows(u)' /\ LookKnows(u, t)'
  BY <1>4 DEF PushKnows, LookKnows
<1> QED
  BY <1>5, <1>7, <1>8, <1>9, <1>10, AloneDone

------------------------------------------------------------------------------
(* What a step does to the content                                          *)
Got    == [u \in User |-> IF at[u] = "free" THEN cur[u] ELSE Null]
Mapped == <<IsStack, Content, Got>>

PlainKnown ==
    \A s \in Seq(Item) : State(s) /\ (\A v \in User : ~(~IsStack /\ at[v] = "swap")) =>
        Content = s /\ \A i \in 1 .. Len(s) : fate[s[i]] = "linked"

LEMMA PlainLemma == PlainKnown
<1> SUFFICES ASSUME NEW s \in Seq(Item), State(s), \A v \in User : ~(~IsStack /\ at[v] = "swap")
             PROVE  Content = s /\ \A i \in 1 .. Len(s) : fate[s[i]] = "linked"
  BY DEF PlainKnown
<1>1. Content = Shown(s)
  BY ContentLemma DEF ContentKnown
<1>2. \A i \in 1 .. Len(s) : fate[s[i]] = "linked"
  BY FirstLinked
<1>3. s # <<>> => 1 \in 1 .. Len(s)
  OBVIOUS
<1> QED
  BY <1>1, <1>2, <1>3 DEF Shown

(* Most steps change neither the list nor what was popped.                  *)
LEMMA Stutters ==
    ASSUME NEW s \in Seq(Item), State(s), State(s)', UNCHANGED shape,
           \A m \in Item : fate'[m] = "linked" <=> fate[m] = "linked",
           \A v \in User : /\ at'[v] = "free" <=> at[v] = "free"
                           /\ at[v] = "free" => cur'[v] = cur[v]
    PROVE  UNCHANGED Mapped
<1>1. Content = Shown(s) /\ Content' = Shown(s)'
  <2>1. ContentKnown /\ ContentKnown'
    BY ContentLemma, PTL
  <2> QED
    BY <2>1 DEF ContentKnown
<1>2. s # <<>> => s[1] \in Item
  OBVIOUS
<1>3. Shown(s)' = Shown(s)
  BY <1>2 DEF Shown
<1>4. Got' = Got
  BY DEF Got
<1>5. IsStack' = IsStack
  BY DEF IsStack
<1> QED
  BY <1>1, <1>3, <1>4, <1>5 DEF Mapped

QuietNext ==
    \E u \in User :
        \/ Begin(u) \/ BeginPush(u) \/ StackLink(u) \/ QueueReadTop(u) \/ PopRead(u)
        \/ ClearFree(u) \/ ClearEnd(u) \/ Look(u) \/ Visit(u) \/ LookEnd(u)

LEMMA QuietNextStep ==
    ASSUME NEW s \in Seq(Item), State(s), QuietNext
    PROVE  State(s)' /\ UNCHANGED Mapped
<1>1. PICK u \in User :
        \/ Begin(u) \/ BeginPush(u) \/ StackLink(u) \/ QueueReadTop(u) \/ PopRead(u)
        \/ ClearFree(u) \/ ClearEnd(u) \/ Look(u) \/ Visit(u) \/ LookEnd(u)
  BY DEF QuietNext
<1>2. State(s)'
  BY <1>1, BeginStep, BeginPushStep, StackLinkStep, QueueReadTopStep, PopReadStep, ClearFreeStep,
     ClearEndStep, LookStep, VisitStep, LookEndStep
<1>3. ListTypeOK /\ FreeKnows(u) /\ Null \notin Item
  BY ListAssumption DEF State, Placed
<1>4. UNCHANGED shape
  BY <1>1 DEF Begin, BeginPush, StackLink, QueueReadTop, PopRead, ClearFree, ClearEnd, Look, Visit, LookEnd
<1>5. \A m \in Item : fate'[m] = "linked" <=> fate[m] = "linked"
  <2>1. CASE BeginPush(u)
    <3> DEFINE n == CHOOSE m \in FreshItem : \A o \in FreshItem : m <= o
    <3>1. FreshItem # {} /\ fate' = [fate EXCEPT ![n] = "made"]
      BY <2>1 DEF BeginPush
    <3>2. n \in FreshItem
      <4>1. FreshItem \in SUBSET Nat
        BY ListAssumption DEF FreshItem
      <4> QED
        BY <3>1, <4>1, Least
    <3> HIDE DEF n
    <3> QED
      BY <1>3, <3>1, <3>2 DEF ListTypeOK, FreshItem
  <2>2. CASE ClearFree(u)
    <3>1. fate' = [fate EXCEPT ![cur[u]] = "freed"] /\ at[u] = "sweep" /\ cur[u] # Null
      BY <2>2 DEF ClearFree
    <3>2. fate[cur[u]] \in Gone
      BY <1>3, <3>1 DEF FreeKnows
    <3> QED
      BY <1>3, <3>1, <3>2 DEF ListTypeOK, Gone
  <2> QED
    BY <1>1, <2>1, <2>2 DEF Begin, StackLink, QueueReadTop, PopRead, ClearEnd, Look, Visit, LookEnd
<1>6. \A v \in User : /\ at'[v] = "free" <=> at[v] = "free"
                      /\ at[v] = "free" => cur'[v] = cur[v]
  <2>1. at \in [User -> Step] /\ cur \in [User -> Item \cup {Null}]
    BY <1>3 DEF ListTypeOK
  <2>2. CASE Begin(u) \/ BeginPush(u)
    BY <2>1, <2>2 DEF Begin, BeginPush, Operation, Go, Hold
  <2>3. CASE StackLink(u) \/ QueueReadTop(u)
    BY <2>1, <2>3 DEF StackLink, QueueReadTop, Drop, Go, Hold
  <2>4. CASE PopRead(u) \/ ClearFree(u) \/ ClearEnd(u)
    BY <2>1, <2>4 DEF PopRead, ClearFree, ClearEnd, Go, Hold
  <2>5. CASE Look(u) \/ Visit(u) \/ LookEnd(u)
    BY <2>1, <2>5 DEF Look, Visit, LookEnd, Drop, Go, Hold
  <2> QED
    BY <1>1, <2>2, <2>3, <2>4, <2>5
<1> QED
  BY <1>2, <1>4, <1>5, <1>6, Stutters

PromiseStep == Promise!Next \/ UNCHANGED Mapped

LEMMA PopFreePromise ==
    ASSUME NEW s \in Seq(Item), State(s), NEW u \in User, PopFree(u)
    PROVE  State(s)' /\ PromiseStep
<1>1. State(s)'
  BY PopFreeStep
<1>2. /\ at[u] = "free" /\ fate' = [fate EXCEPT ![cur[u]] = "freed"]
      /\ at' = [at EXCEPT ![u] = "idle"] /\ cur' = [cur EXCEPT ![u] = Null] /\ shape' = shape
  BY DEF PopFree, Drop, Hold, Go
<1>3. ListTypeOK /\ fate[cur[u]] \in Gone
  BY <1>2 DEF State, Placed, FreeKnows
<1>4. Shown(s)' = Shown(s)
  <2>1. \A m \in Item : fate'[m] = "linked" <=> fate[m] = "linked"
    BY <1>2, <1>3 DEF ListTypeOK, Gone
  <2>2. s # <<>> => s[1] \in Item
    OBVIOUS
  <2> QED
    BY <2>1, <2>2 DEF Shown
<1>5. Content' = Content
  <2>1. ContentKnown /\ ContentKnown'
    BY ContentLemma, PTL
  <2>2. Content = Shown(s) /\ Content' = Shown(s)'
    BY <1>1, <2>1 DEF ContentKnown
  <2> QED
    BY <1>4, <2>2
<1>6. Got' = [Got EXCEPT ![u] = Null]
  BY <1>2, <1>3 DEF Got, ListTypeOK
<1>7. IsStack' = IsStack
  BY <1>2 DEF IsStack
<1>8. Promise!Forget(u)
  BY <1>5, <1>6, <1>7 DEF Promise!Forget, Got
<1> QED
  BY <1>1, <1>8 DEF PromiseStep, Promise!Next

LEMMA StackSwapPromise ==
    ASSUME NEW s \in Seq(Item), State(s), NEW u \in User, StackSwap(u), NEW c, c = cur[u], NEW t, t = <<c>> \o s
    PROVE  State(t)' /\ PromiseStep
<1>1. State(t)'
  BY StackSwapStep
<1>2. /\ at[u] = "push" /\ IsStack /\ at' = [at EXCEPT ![u] = "link"]
      /\ fate' = [fate EXCEPT ![c] = "linked"] /\ UNCHANGED <<shape, cur>>
  BY DEF StackSwap, Go
<1>3. ListTypeOK /\ c \in Item /\ fate[c] = "made"
  BY <1>2 DEF State, Placed, PushKnows
<1>4. t \in Seq(Item)
  BY <1>3
<1>5. IsStack' /\ IsStack' = IsStack
  BY <1>2 DEF IsStack
<1>6. Content = s /\ \A i \in 1 .. Len(s) : fate[s[i]] = "linked"
  BY <1>2, PlainLemma DEF PlainKnown
<1>7. Content' = t
  <2>1. PlainKnown'
    BY PlainLemma, PTL
  <2> QED
    BY <1>1, <1>4, <1>5, <2>1 DEF PlainKnown
<1>8. Got' = Got
  BY <1>2, <1>3 DEF Got, ListTypeOK
<1>9. c \notin {Content[i] : i \in DOMAIN Content}
  <2>1. DOMAIN s = 1 .. Len(s)
    OBVIOUS
  <2> QED
    BY <1>3, <1>6, <2>1
<1>10. Promise!Push(c)
  BY <1>2, <1>5, <1>6, <1>7, <1>8, <1>9 DEF Promise!Push, Got
<1> QED
  BY <1>1, <1>3, <1>10 DEF PromiseStep, Promise!Next

LEMMA QueueLinkPromise ==
    ASSUME NEW s \in Seq(Item), State(s), NEW u \in User, QueueLink(u), NEW c, c = cur[u], NEW t, t = <<c>> \o s
    PROVE  State(t)' /\ PromiseStep
<1>1. State(t)'
  BY QueueLinkStep
<1>2. /\ at[u] = "behind" /\ at' = [at EXCEPT ![u] = "swap"] /\ UNCHANGED <<shape, cur, fate>>
  BY DEF QueueLink, Go
<1>3. ListTypeOK /\ c \in Item /\ fate[c] = "made" /\ ~IsStack
  BY <1>2 DEF State, Placed, PushKnows
<1>4. t \in Seq(Item) /\ t # <<>> /\ t[1] = c /\ Tail(t) = s
  BY <1>3, Consed
<1>5. Lone(u)
  BY <1>2, <1>3, Alone DEF Away
<1>6. Content = s
  <2>1. \A v \in User : at[v] # "swap"
    BY <1>2, <1>5 DEF Lone, Away
  <2> QED
    BY <2>1, PlainLemma DEF PlainKnown
<1>7. Content' = s
  <2>1. ContentKnown'
    BY ContentLemma, PTL
  <2>2. Content' = Shown(t)'
    BY <1>1, <1>4, <2>1 DEF ContentKnown
  <2>3. Shown(t)' = s
    BY <1>2, <1>3, <1>4 DEF Shown
  <2> QED
    BY <2>2, <2>3
<1>8. Got' = Got /\ IsStack' = IsStack
  BY <1>2, <1>3 DEF Got, ListTypeOK, IsStack
<1> QED
  BY <1>1, <1>6, <1>7, <1>8 DEF PromiseStep, Mapped

LEMMA QueueSwapPromise ==
    ASSUME NEW s \in Seq(Item), State(s), NEW u \in User, QueueSwap(u), NEW c, c = cur[u],
           NEW r, r = Shown(s), NEW t, t = Append(r, c)
    PROVE  State(t)' /\ PromiseStep
<1>1. State(t)'
  BY QueueSwapStep
<1>2. /\ at[u] = "swap" /\ at' = [at EXCEPT ![u] = "idle"] /\ cur' = [cur EXCEPT ![u] = Null]
      /\ UNCHANGED shape
  BY DEF QueueSwap, Drop, Hold, Go
<1>3. ListTypeOK /\ c \in Item /\ ~IsStack
  BY <1>2 DEF State, Placed, PushKnows
<1>4. /\ r \in Seq(Item)
      /\ \A i \in 1 .. Len(r) : r[i] \in Item \ {c}
  <2>1. OldQueue(c, r)
    BY <1>2, BeforeSwap
  <2> QED
    BY <2>1 DEF OldQueue
<1>5. t \in Seq(Item)
  BY <1>3, <1>4
<1>6. Lone(u)
  BY <1>2, <1>3, Alone DEF Away
<1>7. Content = r
  BY ContentLemma DEF ContentKnown
<1>8. Content' = t
  <2>1. \A v \in User : at'[v] # "swap"
    BY <1>2, <1>3, <1>6 DEF ListTypeOK, Lone, Away
  <2>2. PlainKnown'
    BY PlainLemma, PTL
  <2> QED
    BY <1>1, <1>5, <2>1, <2>2 DEF PlainKnown
<1>9. Got' = Got /\ IsStack' = IsStack
  BY <1>2, <1>3 DEF Got, ListTypeOK, IsStack
<1>10. c \notin {Content[i] : i \in DOMAIN Content}
  BY <1>4, <1>7
<1>11. Promise!Push(c)
  BY <1>3, <1>7, <1>8, <1>9, <1>10 DEF Promise!Push, Got
<1> QED
  BY <1>1, <1>3, <1>11 DEF PromiseStep, Promise!Next

LEMMA PopUnlinkPromise ==
    ASSUME NEW s \in Seq(Item), State(s), NEW u \in User, PopUnlink(u), NEW c, c = cur[u], NEW t, t = Tail(s)
    PROVE  State(t)' /\ PromiseStep /\ t \in Seq(Item)
<1>1. State(t)' /\ s # <<>> /\ s[1] = c /\ fate[c] = "linked"
  BY PopUnlinkStep
<1>2. at[u] = "unlink" /\ at' = [at EXCEPT ![u] = "free"] /\ UNCHANGED <<shape, cur>>
  BY DEF PopUnlink, Go
<1>3. ListTypeOK
  BY DEF State, Placed
<1>4. t \in Seq(Item) /\ Head(s) = c
  BY <1>1
<1>5. Lone(u)
  BY <1>2, Alone DEF Away
<1>6. Content = s
  <2>1. \A v \in User : at[v] # "swap"
    BY <1>2, <1>5 DEF Lone, Away
  <2> QED
    BY <2>1, PlainLemma DEF PlainKnown
<1>7. Content' = t
  <2>1. \A v \in User : at'[v] # "swap"
    BY <1>2, <1>3, <1>5 DEF ListTypeOK, Lone, Away
  <2>2. PlainKnown'
    BY PlainLemma, PTL
  <2> QED
    BY <1>1, <1>4, <2>1, <2>2 DEF PlainKnown
<1>8. IsStack' = IsStack /\ Got' = [Got EXCEPT ![u] = c] /\ Got[u] = Null
  BY <1>2, <1>3 DEF Got, ListTypeOK, IsStack
<1>9. Promise!Pop(u)
  BY <1>1, <1>4, <1>6, <1>7, <1>8 DEF Promise!Pop, Got
<1> QED
  BY <1>1, <1>4, <1>9 DEF PromiseStep, Promise!Next

LEMMA ClearSwapPromise ==
    ASSUME NEW s \in Seq(Item), State(s), NEW u \in User, ClearSwap(u)
    PROVE  State(<<>>)' /\ PromiseStep
<1>1. State(<<>>)'
  BY ClearSwapStep
<1>2. /\ at[u] = "clear" /\ at' = [at EXCEPT ![u] = "sweep"] /\ cur' = [cur EXCEPT ![u] = top]
      /\ UNCHANGED shape
  BY DEF ClearSwap, Hold, Go
<1>3. ListTypeOK
  BY DEF State, Placed
<1>4. Content' = <<>>
  <2>1. <<>> \in Seq(Item)
    OBVIOUS
  <2>2. ContentKnown'
    BY ContentLemma, PTL
  <2>3. Content' = Shown(<<>>)'
    BY <1>1, <2>1, <2>2 DEF ContentKnown
  <2> QED
    BY <2>3 DEF Shown
<1>5. IsStack' = IsStack /\ Got' = Got
  BY <1>2, <1>3 DEF Got, ListTypeOK, IsStack
<1>6. Promise!Clear
  BY <1>4, <1>5 DEF Promise!Clear, Got
<1> QED
  BY <1>1, <1>6 DEF PromiseStep, Promise!Next

LEMMA ListStep == ListInv /\ [ListNext]_listVars => ListInv' /\ PromiseStep
<1> SUFFICES ASSUME ListInv, [ListNext]_listVars PROVE ListInv' /\ PromiseStep
  OBVIOUS
<1>1. PICK s \in Seq(Item) : State(s)
  BY DEF ListInv
<1>2. CASE UNCHANGED listVars
  <2> USE DEF listVars
  <2>1. Placed' /\ Pushers'
    BY <1>1, <1>2 DEF State, Placed, ListTypeOK, Rows, Beside, IsStack, Pushers
  <2>2. \A n \in Item : Link(n)' = Link(n) /\ (Swapping(n)' <=> Swapping(n))
    BY <1>2 DEF Link, Swapping
  <2>3. First' = First /\ IsStack' = IsStack
    BY <1>2 DEF First, IsStack
  <2>4. Listed(s)'
    <3>1. From(First, s) /\ \A n \in Item : Ends(n)' <=> Ends(n)
      BY <1>1, <1>2, <2>2, <2>3 DEF State, Listed, Ends
    <3>2. Len(s) \in Nat /\ (s # <<>> => Len(s) \in 1 .. Len(s)) /\ \A i \in 1 .. Len(s) : s[i] \in Item
      OBVIOUS
    <3>3. From(First, s)'
      BY <2>2, <2>3, <3>1, <3>2 DEF From
    <3> QED
      BY <1>1, <1>2, <2>2, <3>3 DEF State, Listed
  <2>5. \A u \in User : PushKnows(u)' /\ FreeKnows(u)' /\ LookKnows(u, s)'
    <3> SUFFICES ASSUME NEW u \in User PROVE PushKnows(u)' /\ FreeKnows(u)' /\ LookKnows(u, s)'
      OBVIOUS
    <3>1. PushKnows(u) /\ FreeKnows(u) /\ LookKnows(u, s)
      BY <1>1 DEF State
    <3>2. PushKnows(u)'
      BY <1>2, <2>3, <3>1 DEF PushKnows
    <3>3. FreeKnows(u)'
      BY <1>2, <3>1 DEF FreeKnows
    <3>4. LookKnows(u, s)'
      BY <1>2, <2>3, <3>1 DEF LookKnows
    <3> QED
      BY <3>2, <3>3, <3>4
  <2>6. State(s)'
    BY <2>1, <2>4, <2>5 DEF State
  <2>7. UNCHANGED Mapped
    BY <1>1, <1>2, <2>6, Stutters
  <2> QED
    BY <2>6, <2>7 DEF ListInv, PromiseStep
<1>3. CASE QuietNext
  BY <1>1, <1>3, QuietNextStep DEF ListInv, PromiseStep
<1>4. ASSUME NEW u \in User, PopFree(u) PROVE ListInv' /\ PromiseStep
  BY <1>1, <1>4, PopFreePromise DEF ListInv
<1>5. ASSUME NEW u \in User, StackSwap(u) \/ QueueLink(u) PROVE ListInv' /\ PromiseStep
  <2>1. cur[u] \in Item
    BY <1>1, <1>5 DEF State, PushKnows, StackSwap, QueueLink
  <2>2. PICK c \in Item : c = cur[u]
    BY <2>1
  <2>3. PICK t \in Seq(Item) : t = <<c>> \o s
    <3>1. <<c>> \o s \in Seq(Item)
      OBVIOUS
    <3> QED
      BY <3>1, Zenon
  <2>4. State(t)' /\ PromiseStep
    BY <1>1, <1>5, <2>2, <2>3, StackSwapPromise, QueueLinkPromise
  <2> QED
    BY <2>3, <2>4 DEF ListInv
<1>6. ASSUME NEW u \in User, QueueSwap(u) PROVE ListInv' /\ PromiseStep
  <2>1. at[u] = "swap" /\ cur[u] \in Item
    BY <1>1, <1>6 DEF State, PushKnows, QueueSwap
  <2>2. PICK c \in Item : c = cur[u]
    BY <2>1
  <2>3. Shown(s) \in Seq(Item)
    <3>1. OldQueue(c, Shown(s))
      BY <1>1, <2>1, <2>2, BeforeSwap
    <3> QED
      BY <3>1 DEF OldQueue
  <2>4. PICK r \in Seq(Item) : r = Shown(s)
    BY <2>3
  <2>5. PICK t \in Seq(Item) : t = Append(r, c)
    <3>1. Append(r, c) \in Seq(Item)
      OBVIOUS
    <3> QED
      BY <3>1, Zenon
  <2>6. State(t)' /\ PromiseStep
    BY <1>1, <1>6, <2>2, <2>4, <2>5, QueueSwapPromise
  <2> QED
    BY <2>5, <2>6 DEF ListInv
<1>7. ASSUME NEW u \in User, PopUnlink(u) PROVE ListInv' /\ PromiseStep
  <2>1. PICK t, c : t = Tail(s) /\ c = cur[u]
    OBVIOUS
  <2>2. State(t)' /\ PromiseStep /\ t \in Seq(Item)
    BY <1>1, <1>7, <2>1, PopUnlinkPromise
  <2> QED
    BY <2>2 DEF ListInv
<1>8. ASSUME NEW u \in User, ClearSwap(u) PROVE ListInv' /\ PromiseStep
  <2>1. State(<<>>)' /\ PromiseStep
    BY <1>1, <1>8, ClearSwapPromise
  <2>2. <<>> \in Seq(Item)
    OBVIOUS
  <2> QED
    BY <2>1, <2>2 DEF ListInv
<1> QED
  BY <1>2, <1>3, <1>4, <1>5, <1>6, <1>7, <1>8 DEF ListNext, QuietNext

(* A queue is not used under its table: there pushes run beside each other. *)
OnePusher == \A sh \in Shape : sh[1] = "stack" \/ sh[2] = "lwmutex"

LEMMA ListAlways == OnePusher /\ ListSpec => []ListInv
<1>1. OnePusher /\ ListInit => ListInv
  <2> SUFFICES ASSUME OnePusher, ListInit PROVE ListInv
    OBVIOUS
  <2>1. State(<<>>)
    BY ListInitial DEF OnePusher
  <2>2. <<>> \in Seq(Item)
    OBVIOUS
  <2> QED
    BY <2>1, <2>2 DEF ListInv
<1> QED
  BY <1>1, ListStep, PTL DEF ListSpec

(* The list's variables keep their types.                                   *)
THEOREM ListTypeCorrect == OnePusher /\ ListSpec => []ListTypeOK
<1>1. ListInv => ListTypeOK
  BY DEF ListInv, State, Placed
<1> QED
  BY <1>1, ListAlways, PTL

(* However the steps of pushes, pops, walks and accesses interleave as far  *)
(* as the table (stack.hpp:37) or the lock lets them, each operation takes  *)
(* effect at once on a stack (a queue) of items: none is lost or doubled,   *)
(* and they come in order (stack.hpp:73 to 150, queue.hpp:63 to 167).       *)
THEOREM ListRefinement == OnePusher /\ ListSpec => RefinesPromise
<1>1. OnePusher /\ ListInit => Promise!Init
  <2> SUFFICES ASSUME OnePusher, ListInit PROVE Promise!Init
    OBVIOUS
  <2>1. State(<<>>) /\ <<>> \in Seq(Item)
    BY ListInitial DEF OnePusher
  <2>2. Content = <<>>
    BY <2>1, ContentLemma DEF ContentKnown, Shown
  <2>3. \A u \in User : at[u] = "idle"
    BY DEF ListInit
  <2> QED
    BY <2>2, <2>3 DEF Promise!Init, IsStack
<1>2. ListInv /\ [ListNext]_listVars => [Promise!Next]_Mapped
  BY ListStep DEF PromiseStep
<1> QED
  BY <1>1, <1>2, ListAlways, PTL DEF ListSpec, RefinesPromise, Promise!Spec, Mapped, Got

LEMMA Readers ==
    ASSUME NEW s \in Seq(Item), State(s), NEW u \in User
    PROVE  /\ at[u] \in {"touch", "walk", "unlink"} /\ cur[u] # Null => fate[cur[u]] = "linked"
           /\ at[u] = "walk" => seen[u] \o Chain(cur[u]) = Content
<1> USE DEF State
<1>1. CASE at[u] = "touch"
  BY <1>1 DEF LookKnows
<1>2. CASE at[u] = "unlink"
  <2>1. Lone(u)
    BY <1>2, Alone DEF Away
  <2>2. \A v \in User : ~(~IsStack /\ at[v] = "swap")
    BY <1>2, <2>1 DEF Lone, Away
  <2>3. First # Null => fate[First] = "linked"
    BY <2>2, FirstLinked
  <2> QED
    BY <1>2, <2>3 DEF LookKnows
<1>3. CASE at[u] = "walk"
  <2> DEFINE k == Len(seen[u])
             r == [i \in 1 .. Len(s) - k |-> s[i + k]]
  <2>1. \A v \in User : at[v] \notin {"link", "swap"}
    BY <1>3, WalkAlone DEF Walking, Pushing
  <2>2. Facts(s) /\ Content = s
    BY <2>1, ListFacts, PlainLemma DEF PlainKnown
  <2>3. /\ seen[u] \in Seq(Item) /\ k \in Nat /\ Len(s) \in Nat /\ k <= Len(s)
        /\ \A i \in 1 .. k : seen[u][i] = s[i]
        /\ cur[u] = IF k < Len(s) THEN s[k + 1] ELSE Null
    BY <1>3 DEF LookKnows, Placed, ListTypeOK
  <2>4. \A i \in 1 .. Len(s) : s[i] \in Item /\ fate[s[i]] = "linked" /\ s[i] # Null
    BY <2>2, ListAssumption DEF Facts
  <2>5. \A i \in 1 .. Len(s) - k : i + k \in 1 .. Len(s)
    BY <2>3
  <2>6. r \in Seq(Item) /\ Len(r) = Len(s) - k /\ \A i \in 1 .. Len(s) - k : r[i] = s[i + k]
    <3>1. Len(s) - k \in Nat /\ r \in [1 .. Len(s) - k -> Item]
      BY <2>3, <2>4, <2>5
    <3> QED
      BY <3>1
  <2>7. s = seen[u] \o r
    <3> HIDE DEF k, r
    <3>1. /\ seen[u] \o r \in Seq(Item) /\ Len(seen[u] \o r) = k + Len(r)
          /\ \A i \in 1 .. k : (seen[u] \o r)[i] = seen[u][i]
          /\ \A i \in k + 1 .. k + Len(r) : (seen[u] \o r)[i] = r[i - k]
      BY <2>3, <2>6 DEF k
    <3>2. Len(seen[u] \o r) = Len(s)
      BY <2>3, <2>6, <3>1
    <3>3. ASSUME NEW i \in 1 .. Len(s) PROVE (seen[u] \o r)[i] = s[i]
      <4>1. CASE i <= k
        <5>1. i \in 1 .. k
          BY <2>3, <4>1
        <5> QED
          BY <2>3, <3>1, <5>1
      <4>2. CASE i > k
        <5>1. i \in k + 1 .. k + Len(r) /\ i - k \in 1 .. Len(s) - k /\ (i - k) + k = i
          BY <2>3, <2>6, <4>2
        <5> QED
          BY <2>6, <3>1, <5>1
      <4>3. i <= k \/ i > k
        BY <2>3
      <4> QED
        BY <4>1, <4>2, <4>3
    <3> QED
      <4> DEFINE q == seen[u] \o r
      <4>1. q \in Seq(Item) /\ Len(q) = Len(s) /\ \A i \in 1 .. Len(s) : q[i] = s[i]
        BY <3>1, <3>2, <3>3
      <4> HIDE DEF q
      <4>2. q = s
        BY <4>1
      <4> QED
        BY <4>2 DEF q
  <2>8. Chain(cur[u]) = r
    <3> HIDE DEF k, r
    <3>1. (r = <<>> <=> Len(r) = 0) /\ (r # <<>> => Len(r) \in 1 .. Len(r) /\ 1 \in 1 .. Len(r) /\ k < Len(s))
      BY <2>3, <2>6, Emptied
    <3>2. r = <<>> <=> cur[u] = Null
      BY <2>3, <2>4, <2>5, <2>6, <3>1
    <3>3. r # <<>> => r[1] = cur[u] /\ Ends(r[Len(r)])
      <4> SUFFICES ASSUME r # <<>> PROVE r[1] = cur[u] /\ Ends(r[Len(r)])
        OBVIOUS
      <4>1. r[1] = s[1 + k] /\ r[Len(r)] = s[Len(r) + k] /\ Len(r) + k = Len(s) /\ 1 + k = k + 1
        BY <2>3, <2>6, <3>1
      <4>2. s # <<>>
        BY <2>3, <3>1
      <4> QED
        BY <2>2, <2>3, <3>1, <4>1, <4>2 DEF Facts
    <3>4. ASSUME NEW i \in 1 .. Len(r) - 1 PROVE ~Ends(r[i]) /\ r[i + 1] = Link(r[i])
      <4>1. /\ i \in 1 .. Len(s) - k /\ i + 1 \in 1 .. Len(s) - k /\ i + k \in 1 .. Len(s) - 1
            /\ (i + 1) + k = (i + k) + 1
        BY <2>3, <2>6
      <4>2. r[i] = s[i + k] /\ r[i + 1] = s[(i + k) + 1]
        BY <2>6, <4>1
      <4>3. s[i + k] \in Item
        BY <2>4, <2>5, <4>1
      <4>4. ~Ends(s[i + k]) /\ s[(i + k) + 1] = next[s[i + k]]
        BY <2>2, <4>1 DEF Facts
      <4>5. Link(s[i + k]) = next[s[i + k]]
        BY <2>2, <4>3 DEF Facts
      <4> QED
        BY <4>2, <4>4, <4>5
    <3>5. From(cur[u], r)
      BY <3>2, <3>3, <3>4 DEF From
    <3>6. \A i \in 1 .. Len(r) : r[i] \in InList
      BY <2>4, <2>5, <2>6 DEF InList
    <3> QED
      BY <2>6, <3>5, <3>6, ChainIs
  <2>9. cur[u] # Null => fate[cur[u]] = "linked"
    <3>1. k < Len(s) => k + 1 \in 1 .. Len(s)
      BY <2>3
    <3> QED
      BY <2>3, <2>4, <3>1
  <2> HIDE DEF k, r
  <2> QED
    BY <1>3, <2>2, <2>7, <2>8, <2>9
<1> QED
  BY <1>1, <1>2, <1>3

(* Who holds a pointer inside the lock (pop, foreach, the accesses to the   *)
(* first item) holds a node that nobody has taken off or freed, and a walk  *)
(* sees all of the list, in its order, each node once.                      *)
THEOREM ListReadersSafe == OnePusher /\ ListSpec => []ReadersSafe
<1>1. ListInv => ReadersSafe
  BY Readers DEF ListInv, ReadersSafe
<1> QED
  BY <1>1, ListAlways, PTL

LEMMA Kept ==
    ASSUME NEW s \in Seq(Item), State(s)
    PROVE  PushesKept
<1> SUFFICES ASSUME NEW n \in Item, fate[n] = "linked" PROVE \E i \in DOMAIN Content : Content[i] = n
  BY DEF PushesKept
<1>1. Content = Shown(s)
  BY ContentLemma DEF ContentKnown
<1>2. CASE \E v \in User : ~IsStack /\ at[v] = "swap"
  <2>1. PICK v \in User : at[v] = "swap"
    BY <1>2
  <2>2. PICK c, r : c = cur[v] /\ r = Shown(s)
    OBVIOUS
  <2>3. r \in Seq(Item) /\ \E i \in 1 .. Len(r) : r[i] = n
    <3>1. OldQueue(c, r)
      BY <2>1, <2>2, BeforeSwap
    <3> QED
      BY <3>1 DEF OldQueue
  <2>4. DOMAIN r = 1 .. Len(r)
    BY <2>3
  <2> QED
    BY <1>1, <2>2, <2>3, <2>4
<1>3. CASE \A v \in User : ~(~IsStack /\ at[v] = "swap")
  <2>1. Content = s
    BY <1>3, PlainLemma DEF PlainKnown
  <2>2. \E i \in 1 .. Len(s) : s[i] = n
    BY DEF State, Listed
  <2>3. DOMAIN s = 1 .. Len(s)
    OBVIOUS
  <2> QED
    BY <2>1, <2>2, <2>3
<1> QED
  BY <1>2, <1>3

(* No item whose push is over is missing from the list: what a queue under  *)
(* its table, where pushes run beside each other (queue.hpp:41), loses.     *)
THEOREM ListKeepsPushes == OnePusher /\ ListSpec => []PushesKept
<1>1. ListInv => PushesKept
  BY Kept DEF ListInv
<1> QED
  BY <1>1, ListAlways, PTL
------------------------------------------------------------------------------
(* The hash map                                                             *)

(* A recursion along the numbers whose steps stay in a set has a solution.  *)
Attempt(g, n, U, x, G) ==
    g \in [0 .. n -> U] /\ g[0] = x /\ \A i \in 1 .. n : g[i] = G[<<i, g[i - 1]>>]

StepsIn(G, U)         == G \in [Nat \X U -> U]
Solves(f, U, x, G)  == f \in [Nat -> U] /\ f[0] = x /\ \A n \in Nat : f[n + 1] = G[<<n + 1, f[n]>>]

LEMMA AttemptsAgree ==
    ASSUME NEW U, NEW x, x \in U, NEW G, StepsIn(G, U), NEW n \in Nat,
           NEW g, NEW h, Attempt(g, n, U, x, G), Attempt(h, n + 1, U, x, G)
    PROVE  g[n] = h[n]
<1> DEFINE S == {j \in Nat : j <= n => g[j] = h[j]}
<1>1. 0 \in S
  BY DEF Attempt
<1>2. ASSUME NEW j \in Nat, j \in S PROVE j + 1 \in S
  <2> SUFFICES ASSUME j + 1 <= n PROVE g[j + 1] = h[j + 1]
    OBVIOUS
  <2>1. j + 1 \in 1 .. n /\ j + 1 \in 1 .. n + 1 /\ (j + 1) - 1 = j
    OBVIOUS
  <2>2. g[j] = h[j]
    BY <1>2
  <2>3. g[j + 1] = G[<<j + 1, g[(j + 1) - 1]>>]
    BY <2>1 DEF Attempt
  <2>4. h[j + 1] = G[<<j + 1, h[(j + 1) - 1]>>]
    BY <2>1 DEF Attempt
  <2> QED
    BY <2>1, <2>2, <2>3, <2>4
<1>3. n \in S
  <2> HIDE DEF S
  <2> QED
    BY <1>1, <1>2, Upwards
<1> QED
  BY <1>3

LEMMA Recursion ==
    ASSUME NEW U, NEW x, x \in U, NEW G, StepsIn(G, U)
    PROVE  \E f : Solves(f, U, x, G)
<1>0. G \in [Nat \X U -> U]
  BY DEF StepsIn
<1> DEFINE S == {n \in Nat : \E g : Attempt(g, n, U, x, G)}
           A(n) == CHOOSE g : Attempt(g, n, U, x, G)
           f == [n \in Nat |-> A(n)[n]]
<1>1. 0 \in S
  <2>1. Attempt([i \in 0 .. 0 |-> x], 0, U, x, G)
    BY DEF Attempt
  <2> QED
    BY <2>1
<1>2. ASSUME NEW n \in Nat, n \in S PROVE n + 1 \in S
  <2>1. PICK g : Attempt(g, n, U, x, G)
    BY <1>2
  <2> DEFINE h == [i \in 0 .. n + 1 |-> IF i = n + 1 THEN G[<<i, g[n]>>] ELSE g[i]]
  <2>2. g[n] \in U /\ G[<<n + 1, g[n]>>] \in U
    BY <1>0, <2>1 DEF Attempt
  <2>3. h \in [0 .. n + 1 -> U] /\ h[0] = x
    BY <2>1, <2>2 DEF Attempt
  <2>4. ASSUME NEW i \in 1 .. n + 1 PROVE h[i] = G[<<i, h[i - 1]>>]
    <3>1. CASE i = n + 1
      BY <3>1
    <3>2. CASE i # n + 1
      <4>1. i \in 1 .. n /\ h[i] = g[i] /\ h[i - 1] = g[i - 1]
        BY <3>2
      <4> QED
        BY <4>1, <2>1 DEF Attempt
    <3> QED
      BY <3>1, <3>2
  <2>5. Attempt(h, n + 1, U, x, G)
    <3> HIDE DEF h
    <3> QED
      BY <2>3, <2>4 DEF Attempt
  <2> QED
    BY <2>5
<1>3. \A n \in Nat : n \in S
  <2> HIDE DEF S
  <2> QED
    BY <1>1, <1>2, Upwards
<1>4. \A n \in Nat : Attempt(A(n), n, U, x, G)
  BY <1>3
<1> HIDE DEF A, S
<1>5. f \in [Nat -> U] /\ f[0] = x
  BY <1>4 DEF Attempt
<1>6. ASSUME NEW n \in Nat PROVE f[n + 1] = G[<<n + 1, f[n]>>]
  <2>1. Attempt(A(n), n, U, x, G) /\ Attempt(A(n + 1), n + 1, U, x, G)
    BY <1>4
  <2>2. ASSUME NEW g, NEW h, Attempt(g, n, U, x, G), Attempt(h, n + 1, U, x, G)
        PROVE  g[n] = h[n]
    <3>1. x \in U /\ StepsIn(G, U) /\ n \in Nat
      OBVIOUS
    <3>2. Attempt(g, n, U, x, G) /\ Attempt(h, n + 1, U, x, G)
      BY <2>2
    <3> HIDE DEF f
    <3> QED
      BY <3>1, <3>2, AttemptsAgree
  <2>3. A(n + 1)[n + 1] = G[<<n + 1, A(n + 1)[(n + 1) - 1]>>]
    BY <2>1 DEF Attempt
  <2>4. A(n)[n] = A(n + 1)[n]
    BY <2>1, <2>2
  <2> QED
    BY <2>3, <2>4
<1> QED
  <2> HIDE DEF f
  <2> QED
    BY <1>5, <1>6 DEF Solves

(* Tables of any hash function.                                             *)
Addr(h, k, c) == h[k] % c

Pair == Key \X Value

AtHome(h, c, L) ==
    \A i \in Line(c) : \A n \in 1 .. Len(L[i]) :
        /\ Addr(h, L[i][n][1], c) = i
        /\ \A m \in 1 .. Len(L[i]) : L[i][m][1] = L[i][n][1] => m = n

HashTable(h, c, L) ==
    h \in [Key -> Nat] /\ c \in Nat \ {0} /\ L \in [Line(c) -> Seq(Pair)] /\ AtHome(h, c, L)

ItemsIn(c, L) == {p \in Pair : \E i \in Line(c) : \E n \in 1 .. Len(L[i]) : L[i][n] = p}

ValueIn(h, c, L, k) ==
    LET chain == L[Addr(h, k, c)]
        n     == IndexIn(chain, k)
    IN  IF n = 0 THEN Nothing ELSE chain[n][2]

LEMMA AddrIsLine ==
    ASSUME NEW h \in [Key -> Nat], NEW c \in Nat \ {0}, NEW k \in Key
    PROVE  Addr(h, k, c) \in Line(c)
BY DEF Addr, Line

LEMMA IndexTold ==
    ASSUME NEW chain \in Seq(Pair), NEW k
    PROVE  \/ IndexIn(chain, k) = 0 /\ \A n \in 1 .. Len(chain) : chain[n][1] # k
           \/ IndexIn(chain, k) \in 1 .. Len(chain) /\ chain[IndexIn(chain, k)][1] = k
<1> DEFINE I == {i \in 1 .. Len(chain) : chain[i][1] = k}
<1>1. IndexIn(chain, k) = IF I # {} THEN Min(I) ELSE 0
  BY DEF IndexIn, SelectInSeq
<1>2. CASE I = {}
  BY <1>1, <1>2
<1>3. CASE I # {}
  <2>1. I \in SUBSET Nat
    OBVIOUS
  <2>2. \E m \in I : \A o \in I : m <= o
    BY <1>3, <2>1, Least
  <2>3. Min(I) \in I
    <3> HIDE DEF I
    <3> QED
      BY <2>2 DEF Min
  <2> QED
    BY <1>1, <1>3, <2>3
<1> QED
  BY <1>2, <1>3

(* What get gives, from what is in the table.                               *)
LEMMA ValueTold ==
    ASSUME NEW h, NEW c, NEW L, HashTable(h, c, L), NEW k \in Key
    PROVE  \/ /\ ValueIn(h, c, L, k) = Nothing
              /\ \A v : <<k, v>> \notin ItemsIn(c, L)
           \/ /\ ValueIn(h, c, L, k) \in Value
              /\ \A v : <<k, v>> \in ItemsIn(c, L) <=> v = ValueIn(h, c, L, k)
<1> DEFINE a == Addr(h, k, c)
           chain == L[a]
           n == IndexIn(chain, k)
<1>1. a \in Line(c) /\ chain \in Seq(Pair)
  BY AddrIsLine DEF HashTable
<1>2. ASSUME NEW v, <<k, v>> \in ItemsIn(c, L)
      PROVE  \E m \in 1 .. Len(chain) : chain[m] = <<k, v>>
  <2>0. PICK i \in Line(c) : \E m \in 1 .. Len(L[i]) : L[i][m] = <<k, v>>
    BY <1>2 DEF ItemsIn
  <2>1. PICK m \in 1 .. Len(L[i]) : L[i][m] = <<k, v>>
    BY <2>0
  <2>2. L[i][m][1] = k
    BY <2>1
  <2>3. i = a
    BY <2>1, <2>2 DEF HashTable, AtHome
  <2> QED
    BY <2>1, <2>3
<1>3. CASE n = 0
  <2>1. \A m \in 1 .. Len(chain) : chain[m][1] # k
    BY <1>1, <1>3, IndexTold
  <2>2. ASSUME NEW v, <<k, v>> \in ItemsIn(c, L) PROVE FALSE
    <3>1. PICK m \in 1 .. Len(chain) : chain[m] = <<k, v>>
      BY <1>2, <2>2
    <3>2. chain[m][1] = k
      BY <3>1
    <3> QED
      BY <2>1, <3>2
  <2> QED
    BY <1>3, <2>2 DEF ValueIn
<1>4. CASE n # 0
  <2>1. n \in 1 .. Len(chain) /\ chain[n][1] = k
    BY <1>1, <1>4, IndexTold
  <2>2. chain[n] \in Pair /\ chain[n] = <<k, chain[n][2]>> /\ chain[n][2] \in Value
    BY <1>1, <2>1 DEF Pair
  <2>3. ValueIn(h, c, L, k) = chain[n][2]
    BY <1>4 DEF ValueIn
  <2>4. <<k, chain[n][2]>> \in ItemsIn(c, L)
    BY <1>1, <2>1, <2>2 DEF ItemsIn
  <2>5. ASSUME NEW v, <<k, v>> \in ItemsIn(c, L) PROVE v = chain[n][2]
    <3>1. PICK m \in 1 .. Len(chain) : chain[m] = <<k, v>>
      BY <1>2, <2>5
    <3>2. m = n
      BY <1>1, <2>1, <3>1 DEF HashTable, AtHome
    <3> QED
      BY <3>1, <3>2
  <2> QED
    BY <2>2, <2>3, <2>4, <2>5
<1> QED
  BY <1>3, <1>4

Elements(s) == {s[n] : n \in 1 .. Len(s)}
Spread(s)   == \A n, m \in 1 .. Len(s) : s[m][1] = s[n][1] => m = n

(* Another chain for one line.                                              *)
LEMMA LineItems ==
    ASSUME NEW h, NEW c, NEW L, HashTable(h, c, L), NEW i \in Line(c)
    PROVE  Elements(L[i]) = {p \in ItemsIn(c, L) : Addr(h, p[1], c) = i}
<1>1. L[i] \in Seq(Pair) /\ \A j \in Line(c) : L[j] \in Seq(Pair)
  BY DEF HashTable
<1>2. ASSUME NEW n \in 1 .. Len(L[i])
      PROVE  L[i][n] \in ItemsIn(c, L) /\ Addr(h, L[i][n][1], c) = i
  <2>1. L[i][n] \in Pair
    BY <1>1
  <2> QED
    BY <2>1 DEF ItemsIn, HashTable, AtHome
<1>3. ASSUME NEW p \in ItemsIn(c, L), Addr(h, p[1], c) = i
      PROVE  p \in Elements(L[i])
  <2>1. PICK j \in Line(c) : \E n \in 1 .. Len(L[j]) : L[j][n] = p
    BY DEF ItemsIn
  <2>2. PICK n \in 1 .. Len(L[j]) : L[j][n] = p
    BY <2>1
  <2>3. j = i
    BY <2>2, <1>3 DEF HashTable, AtHome
  <2> QED
    BY <2>2, <2>3 DEF Elements
<1> QED
  BY <1>2, <1>3 DEF Elements

(* What stays when the chain of line i goes.                                *)
Besides(h, c, L, i) == {p \in ItemsIn(c, L) : Addr(h, p[1], c) # i}

Fits(h, c, i, r) == r \in Seq(Pair) /\ Spread(r) /\ \A n \in 1 .. Len(r) : Addr(h, r[n][1], c) = i
With(L, i, r)    == [L EXCEPT ![i] = r]

LEMMA LineReplaced ==
    ASSUME NEW h, NEW c, NEW L, HashTable(h, c, L), NEW i, i \in Line(c), NEW r, Fits(h, c, i, r),
           NEW M, M = With(L, i, r)
    PROVE  /\ HashTable(h, c, M)
           /\ ItemsIn(c, M) = Besides(h, c, L, i) \cup Elements(r)
<1>0. L \in [Line(c) -> Seq(Pair)] /\ \A j \in Line(c) : L[j] \in Seq(Pair)
  BY DEF HashTable
<1>r. r \in Seq(Pair) /\ Spread(r) /\ \A n \in 1 .. Len(r) : Addr(h, r[n][1], c) = i
  BY DEF Fits
<1>1. M \in [Line(c) -> Seq(Pair)] /\ M[i] = r /\ \A j \in Line(c) : j # i => M[j] = L[j]
  BY <1>0, <1>r DEF With
<1>2. AtHome(h, c, M)
  <2> SUFFICES ASSUME NEW j \in Line(c), NEW n \in 1 .. Len(M[j])
               PROVE  /\ Addr(h, M[j][n][1], c) = j
                      /\ \A m \in 1 .. Len(M[j]) : M[j][m][1] = M[j][n][1] => m = n
    BY DEF AtHome
  <2>1. CASE j = i
    BY <2>1, <1>r, <1>1 DEF Spread
  <2>2. CASE j # i
    BY <2>2, <1>1 DEF HashTable, AtHome
  <2> QED
    BY <2>1, <2>2
<1>3. HashTable(h, c, M)
  BY <1>1, <1>2 DEF HashTable
<1>4. ASSUME NEW p \in ItemsIn(c, M)
      PROVE  p \in {q \in ItemsIn(c, L) : Addr(h, q[1], c) # i} \cup Elements(r)
  <2>1. PICK j \in Line(c) : \E n \in 1 .. Len(M[j]) : M[j][n] = p
    BY DEF ItemsIn
  <2>2. PICK n \in 1 .. Len(M[j]) : M[j][n] = p
    BY <2>1
  <2>3. CASE j = i
    BY <2>2, <2>3, <1>1 DEF Elements
  <2>4. CASE j # i
    <3>1. p \in ItemsIn(c, L)
      BY <2>2, <2>4, <1>1 DEF ItemsIn
    <3>2. Addr(h, p[1], c) = j
      BY <2>2, <1>2 DEF AtHome
    <3> QED
      BY <3>1, <3>2, <2>4
  <2> QED
    BY <2>3, <2>4
<1>5. ASSUME NEW p \in ItemsIn(c, L), Addr(h, p[1], c) # i
      PROVE  p \in ItemsIn(c, M)
  <2>1. PICK j \in Line(c) : \E n \in 1 .. Len(L[j]) : L[j][n] = p
    BY DEF ItemsIn
  <2>2. PICK n \in 1 .. Len(L[j]) : L[j][n] = p
    BY <2>1
  <2>3. j # i
    BY <2>2, <1>5 DEF HashTable, AtHome
  <2> QED
    BY <2>2, <2>3, <1>1 DEF ItemsIn
<1>6. ASSUME NEW n \in 1 .. Len(r) PROVE r[n] \in ItemsIn(c, M)
  <2>1. r[n] \in Pair
    BY <1>r
  <2> QED
    BY <2>1, <1>1 DEF ItemsIn
<1> QED
  BY <1>3, <1>4, <1>5, <1>6 DEF Elements, Besides

(* The ways a chain changes.                                                *)
LEMMA Changed ==
    ASSUME NEW P, NEW s \in Seq(P), NEW n \in 1 .. Len(s), NEW x \in P
    PROVE  [s EXCEPT ![n] = x] \in Seq(P) /\ Len([s EXCEPT ![n] = x]) = Len(s)
OBVIOUS

LEMMA Joined ==
    ASSUME NEW a \in Seq(Pair), NEW b \in Seq(Pair)
    PROVE  /\ a \o b \in Seq(Pair) /\ Len(a \o b) = Len(a) + Len(b)
           /\ \A m \in 1 .. Len(a) : (a \o b)[m] = a[m]
           /\ \A m \in 1 .. Len(b) : (a \o b)[Len(a) + m] = b[m]
OBVIOUS

Over(s, n, v) == [s EXCEPT ![n][2] = v]

LEMMA Overwritten ==
    ASSUME NEW s \in Seq(Pair), Spread(s), NEW n \in 1 .. Len(s), NEW v \in Value
    PROVE  LET r == Over(s, n, v)
           IN  /\ r \in Seq(Pair) /\ Spread(r) /\ Len(r) = Len(s)
               /\ Elements(r) = (Elements(s) \ {s[n]}) \cup {<<s[n][1], v>>}
<1> DEFINE r == Over(s, n, v)
<1>1. s[n] \in Pair /\ \A m \in 1 .. Len(s) : s[m] \in Pair
  OBVIOUS
<1>2. [s[n] EXCEPT ![2] = v] = <<s[n][1], v>>
  BY <1>1 DEF Pair
<1>3. <<s[n][1], v>> \in Pair
  BY <1>1 DEF Pair
<1>4. r = [s EXCEPT ![n] = <<s[n][1], v>>]
  BY <1>2 DEF Over
<1>5. r \in Seq(Pair) /\ Len(r) = Len(s)
  <2> HIDE DEF r
  <2> QED
    BY <1>3, <1>4, Changed
<1>6. r[n] = <<s[n][1], v>> /\ \A m \in 1 .. Len(s) : m # n => r[m] = s[m]
  BY <1>4
<1>7. \A m \in 1 .. Len(s) : r[m][1] = s[m][1]
  BY <1>6
<1> HIDE DEF r
<1>8. Spread(r)
  BY <1>5, <1>7 DEF Spread
<1>9. \A m \in 1 .. Len(s) : s[m] = s[n] => m = n
  BY DEF Spread
<1>10. Elements(r) = (Elements(s) \ {s[n]}) \cup {<<s[n][1], v>>}
  BY <1>5, <1>6, <1>9 DEF Elements
<1> QED
  BY <1>5, <1>8, <1>10 DEF r

LEMMA Lengthened ==
    ASSUME NEW s \in Seq(Pair), Spread(s), NEW p \in Pair, \A m \in 1 .. Len(s) : s[m][1] # p[1]
    PROVE  LET r == Append(s, p)
           IN  r \in Seq(Pair) /\ Spread(r) /\ Len(r) = Len(s) + 1 /\ Elements(r) = Elements(s) \cup {p}
<1> DEFINE r == Append(s, p)
<1>1. r \in Seq(Pair) /\ Len(r) = Len(s) + 1
  OBVIOUS
<1>2. r[Len(s) + 1] = p /\ \A m \in 1 .. Len(s) : r[m] = s[m]
  OBVIOUS
<1>3. Len(s) \in Nat /\ \A m \in 1 .. Len(s) + 1 : m \in 1 .. Len(s) \/ m = Len(s) + 1
  OBVIOUS
<1> HIDE DEF r
<1>4. Spread(r)
  BY <1>1, <1>2, <1>3 DEF Spread
<1>5. Elements(r) = Elements(s) \cup {p}
  BY <1>1, <1>2, <1>3 DEF Elements
<1> QED
  BY <1>1, <1>4, <1>5 DEF r

LEMMA Relinked ==
    ASSUME NEW s \in Seq(Pair), Spread(s), NEW p \in Pair, \A m \in 1 .. Len(s) : s[m][1] # p[1]
    PROVE  LET r == Relink(s, p)
           IN  r \in Seq(Pair) /\ Spread(r) /\ Len(r) = Len(s) + 1 /\ Elements(r) = Elements(s) \cup {p}
<1> DEFINE r == Relink(s, p)
<1>1. CASE s = <<>>
  <2>1. r = <<p>>
    BY <1>1 DEF Relink
  <2> HIDE DEF r
  <2>2. r \in Seq(Pair) /\ Len(r) = 1 /\ r[1] = p /\ Len(s) = 0
    BY <2>1, <1>1
  <2>3. Spread(r) /\ Elements(r) = {p} /\ Elements(s) = {}
    BY <2>2 DEF Spread, Elements
  <2> QED
    BY <2>2, <2>3 DEF r
<1>2. CASE s # <<>>
  <2>0. Len(s) \in Nat \ {0} /\ Head(s) = s[1] /\ Head(s) \in Pair
    BY <1>2
  <2>1. Tail(s) \in Seq(Pair) /\ Len(Tail(s)) = Len(s) - 1 /\ \A m \in 1 .. Len(s) - 1 : Tail(s)[m] = s[m + 1]
    BY <1>2
  <2>2. r = <<Head(s), p>> \o Tail(s)
    BY <1>2 DEF Relink
  <2> DEFINE two == <<Head(s), p>>
  <2>3. two \in Seq(Pair) /\ Len(two) = 2 /\ two[1] = s[1] /\ two[2] = p
    BY <2>0
  <2> HIDE DEF r, two
  <2>3a. r = two \o Tail(s)
    BY <2>2 DEF two
  <2>3b. /\ two \o Tail(s) \in Seq(Pair) /\ Len(two \o Tail(s)) = Len(two) + Len(Tail(s))
         /\ \A m \in 1 .. Len(two) : (two \o Tail(s))[m] = two[m]
         /\ \A m \in 1 .. Len(Tail(s)) : (two \o Tail(s))[Len(two) + m] = Tail(s)[m]
    <3>1. two \in Seq(Pair) /\ Tail(s) \in Seq(Pair)
      BY <2>1, <2>3
    <3> QED
      BY <3>1, Joined
  <2>4. r \in Seq(Pair) /\ Len(r) = Len(s) + 1
    BY <2>0, <2>1, <2>3, <2>3a, <2>3b
  <2>5. r[1] = s[1] /\ r[2] = p
    BY <2>3, <2>3a, <2>3b
  <2>6. \A m \in 3 .. Len(s) + 1 : r[m] = s[m - 1]
    <3> SUFFICES ASSUME NEW m \in 3 .. Len(s) + 1 PROVE r[m] = s[m - 1]
      OBVIOUS
    <3>1. m - 2 \in 1 .. Len(s) - 1 /\ (m - 2) + 1 = m - 1 /\ 2 + (m - 2) = m
      BY <2>0
    <3>2. r[2 + (m - 2)] = Tail(s)[m - 2]
      BY <3>1, <2>1, <2>3, <2>3a, <2>3b
    <3> QED
      BY <2>1, <3>1, <3>2
  <2>7. ASSUME NEW m \in 1 .. Len(r), m # 2
        PROVE  \E q \in 1 .. Len(s) : r[m] = s[q] /\ m = IF q = 1 THEN 1 ELSE q + 1
    <3>1. CASE m = 1
      BY <3>1, <2>0, <2>5
    <3>2. CASE m # 1
      <4>1. m \in 3 .. Len(s) + 1
        BY <3>2, <2>0, <2>4, <2>7
      <4>2. m - 1 \in 1 .. Len(s) /\ m - 1 # 1 /\ (m - 1) + 1 = m
        BY <4>1, <2>0
      <4>3. r[m] = s[m - 1]
        BY <4>1, <2>6
      <4> QED
        BY <4>2, <4>3
    <3> QED
      BY <3>1, <3>2
  <2>8. ASSUME NEW m \in 1 .. Len(r), m # 2 PROVE r[m][1] # p[1]
    BY <2>7, <2>8
  <2>9. Spread(r)
    <3> SUFFICES ASSUME NEW n \in 1 .. Len(r), NEW m \in 1 .. Len(r), r[m][1] = r[n][1]
                 PROVE  m = n
      BY DEF Spread
    <3>1. CASE m = 2
      BY <3>1, <2>5, <2>8
    <3>2. CASE n = 2
      BY <3>2, <2>5, <2>8
    <3>3. CASE m # 2 /\ n # 2
      <4>1. PICK q \in 1 .. Len(s) : r[m] = s[q] /\ m = IF q = 1 THEN 1 ELSE q + 1
        BY <3>3, <2>7
      <4>2. PICK o \in 1 .. Len(s) : r[n] = s[o] /\ n = IF o = 1 THEN 1 ELSE o + 1
        BY <3>3, <2>7
      <4>3. q = o
        BY <4>1, <4>2 DEF Spread
      <4> QED
        BY <4>1, <4>2, <4>3
    <3> QED
      BY <3>1, <3>2, <3>3
  <2>10. ASSUME NEW m \in 1 .. Len(s) PROVE s[m] \in Elements(r)
    <3>1. CASE m = 1
      BY <3>1, <2>0, <2>4, <2>5 DEF Elements
    <3>2. CASE m # 1
      <4>1. m + 1 \in 3 .. Len(s) + 1 /\ (m + 1) - 1 = m /\ m + 1 \in 1 .. Len(s) + 1
        BY <3>2, <2>0
      <4>2. r[m + 1] = s[m]
        BY <4>1, <2>6
      <4> QED
        BY <4>1, <4>2, <2>4 DEF Elements
    <3> QED
      BY <3>1, <3>2
  <2>11. p \in Elements(r)
    <3>1. 2 \in 1 .. Len(r)
      BY <2>0, <2>4
    <3> QED
      BY <3>1, <2>5 DEF Elements
  <2>12. ASSUME NEW m \in 1 .. Len(r) PROVE r[m] \in Elements(s) \cup {p}
    BY <2>5, <2>7 DEF Elements
  <2>13. Elements(r) = Elements(s) \cup {p}
    BY <2>10, <2>11, <2>12 DEF Elements
  <2> QED
    BY <2>4, <2>9, <2>13 DEF r
<1> QED
  BY <1>1, <1>2

LEMMA Shortened ==
    ASSUME NEW s \in Seq(Pair), Spread(s), NEW n \in 1 .. Len(s)
    PROVE  LET r == Without(s, n)
           IN  r \in Seq(Pair) /\ Spread(r) /\ Len(r) = Len(s) - 1 /\ Elements(r) = Elements(s) \ {s[n]}
<1> DEFINE r == Without(s, n)
           A == SubSeq(s, 1, n - 1)
           B == SubSeq(s, n + 1, Len(s))
<1>0. Len(s) \in Nat /\ n - 1 \in 0 .. Len(s) /\ n - 1 \in Nat
  OBVIOUS
<1>1. r = A \o B
  BY DEF Without, RemoveAt
<1>2. A \in Seq(Pair) /\ Len(A) = n - 1 /\ \A m \in 1 .. n - 1 : A[m] = s[m]
  BY <1>0
<1>3. B \in Seq(Pair) /\ Len(B) = Len(s) - n /\ \A m \in 1 .. Len(s) - n : B[m] = s[m + n]
  BY <1>0
<1> HIDE DEF r, A, B
<1>3a. /\ A \o B \in Seq(Pair) /\ Len(A \o B) = Len(A) + Len(B)
       /\ \A m \in 1 .. Len(A) : (A \o B)[m] = A[m]
       /\ \A m \in 1 .. Len(B) : (A \o B)[Len(A) + m] = B[m]
  <2>1. A \in Seq(Pair) /\ B \in Seq(Pair)
    BY <1>2, <1>3
  <2> QED
    BY <2>1, Joined
<1>4. r \in Seq(Pair) /\ Len(r) = Len(s) - 1
  <2>1. (n - 1) + (Len(s) - n) = Len(s) - 1
    BY <1>0
  <2> QED
    BY <1>1, <1>2, <1>3, <1>3a, <2>1
<1>5. \A m \in 1 .. n - 1 : r[m] = s[m]
  BY <1>1, <1>2, <1>3a
<1>6. \A m \in n .. Len(s) - 1 : r[m] = s[m + 1]
  <2> SUFFICES ASSUME NEW m \in n .. Len(s) - 1 PROVE r[m] = s[m + 1]
    OBVIOUS
  <2>1. m - (n - 1) \in 1 .. Len(s) - n /\ (m - (n - 1)) + n = m + 1 /\ (n - 1) + (m - (n - 1)) = m
    BY <1>0
  <2>2. r[(n - 1) + (m - (n - 1))] = B[m - (n - 1)]
    BY <2>1, <1>1, <1>2, <1>3, <1>3a
  <2> QED
    BY <2>1, <2>2, <1>3
<1>7. \A m \in 1 .. Len(s) - 1 : m \in 1 .. n - 1 \/ m \in n .. Len(s) - 1
  BY <1>0
<1>8. \A m \in n .. Len(s) - 1 : m + 1 \in 1 .. Len(s) /\ m + 1 > n
  BY <1>0
<1>9. Spread(r)
  BY <1>0, <1>4, <1>5, <1>6, <1>7, <1>8 DEF Spread
<1>10. ASSUME NEW m \in 1 .. Len(r) PROVE r[m] \in Elements(s) /\ r[m] # s[n]
  <2>1. CASE m \in 1 .. n - 1
    <3>1. r[m] = s[m] /\ m \in 1 .. Len(s) /\ m # n
      BY <2>1, <1>0, <1>5
    <3> QED
      BY <3>1 DEF Spread, Elements
  <2>2. CASE m \in n .. Len(s) - 1
    <3>1. r[m] = s[m + 1] /\ m + 1 \in 1 .. Len(s) /\ m + 1 # n
      BY <2>2, <1>0, <1>6, <1>8
    <3> QED
      BY <3>1 DEF Spread, Elements
  <2> QED
    BY <2>1, <2>2, <1>4, <1>7
<1>11. ASSUME NEW m \in 1 .. Len(s), s[m] # s[n] PROVE s[m] \in Elements(r)
  <2>1. CASE m < n
    <3>1. m \in 1 .. n - 1 /\ m \in 1 .. Len(r)
      BY <2>1, <1>0, <1>4
    <3> QED
      BY <3>1, <1>5 DEF Elements
  <2>2. CASE m > n
    <3>1. m - 1 \in n .. Len(s) - 1 /\ (m - 1) + 1 = m /\ m - 1 \in 1 .. Len(r)
      BY <2>2, <1>0, <1>4
    <3>2. r[m - 1] = s[m]
      BY <3>1, <1>6
    <3> QED
      BY <3>1, <3>2 DEF Elements
  <2>3. m # n
    BY <1>11
  <2> QED
    BY <2>1, <2>2, <2>3
<1>12. Elements(r) = Elements(s) \ {s[n]}
  BY <1>10, <1>11 DEF Elements
<1> QED
  BY <1>4, <1>9, <1>12 DEF r

(* All nodes of a table, line by line.                                      *)
NodeLists(c, L, B, p) ==
    p = [i \in 0 .. c |->
            IF i = 0 THEN <<>>
            ELSE IF i - 1 \in B THEN p[i - 1] \o L[i - 1] ELSE p[i - 1]]

Collected(c, L, B) == (CHOOSE p : NodeLists(c, L, B, p))[c]

Bits(c, L) == {i \in Line(c) : L[i] # <<>>}

Gathered(h, c, L, i, s) ==
    /\ s \in Seq(Pair)
    /\ \A a \in 1 .. Len(s) : s[a] \in ItemsIn(c, L) /\ Addr(h, s[a][1], c) < i
    /\ \A j \in Line(c) : j < i => \A n \in 1 .. Len(L[j]) : L[j][n] \in Elements(s)
    /\ Spread(s)

LEMMA GatherLine ==
    ASSUME NEW h, NEW c, NEW L, HashTable(h, c, L), NEW i \in Line(c),
           NEW s, Gathered(h, c, L, i, s)
    PROVE  Gathered(h, c, L, i + 1, s \o L[i])
<1> DEFINE r == s \o L[i]
<1>0. i \in Nat /\ c \in Nat /\ Line(c) \subseteq Nat
  BY DEF Line, HashTable
<1>1. s \in Seq(Pair) /\ L[i] \in Seq(Pair)
  BY DEF Gathered, HashTable
<1>2. /\ r \in Seq(Pair) /\ Len(r) = Len(s) + Len(L[i])
      /\ \A m \in 1 .. Len(s) : r[m] = s[m]
      /\ \A m \in 1 .. Len(L[i]) : r[Len(s) + m] = L[i][m]
  BY <1>1, Joined
<1>3. Len(s) \in Nat /\ Len(L[i]) \in Nat
  BY <1>1
<1> HIDE DEF r
<1>4. \A a \in 1 .. Len(r) : a \in 1 .. Len(s) \/ a - Len(s) \in 1 .. Len(L[i])
  BY <1>2, <1>3
<1>5. \A a \in 1 .. Len(r) : a - Len(s) \in 1 .. Len(L[i]) => r[a] = L[i][a - Len(s)]
  BY <1>2, <1>3
<1>6. \A m \in 1 .. Len(L[i]) :
          /\ L[i][m] \in Pair /\ L[i][m] \in ItemsIn(c, L)
          /\ Addr(h, L[i][m][1], c) = i
  <2> SUFFICES ASSUME NEW m \in 1 .. Len(L[i])
               PROVE  /\ L[i][m] \in Pair /\ L[i][m] \in ItemsIn(c, L)
                      /\ Addr(h, L[i][m][1], c) = i
    OBVIOUS
  <2>1. L[i][m] \in Pair
    BY <1>1
  <2> QED
    BY <2>1 DEF ItemsIn, HashTable, AtHome
<1>7. ASSUME NEW a \in 1 .. Len(s)
      PROVE  /\ s[a] \in ItemsIn(c, L) /\ Addr(h, s[a][1], c) < i
             /\ Addr(h, s[a][1], c) \in Nat
  <2>1. s[a] \in Pair
    BY <1>1
  <2>2. s[a][1] \in Key
    BY <2>1 DEF Pair
  <2> QED
    BY <2>2, <1>0, AddrIsLine DEF Gathered, HashTable
<1>8. \A a \in 1 .. Len(r) : r[a] \in ItemsIn(c, L) /\ Addr(h, r[a][1], c) < i + 1
  <2> SUFFICES ASSUME NEW a \in 1 .. Len(r)
               PROVE  r[a] \in ItemsIn(c, L) /\ Addr(h, r[a][1], c) < i + 1
    OBVIOUS
  <2>1. CASE a \in 1 .. Len(s)
    BY <2>1, <1>0, <1>2, <1>7
  <2>2. CASE a - Len(s) \in 1 .. Len(L[i])
    BY <2>2, <1>0, <1>5, <1>6
  <2> QED
    BY <2>1, <2>2, <1>4
<1>9. ASSUME NEW j \in Line(c), j < i + 1, NEW n \in 1 .. Len(L[j])
      PROVE  L[j][n] \in Elements(r)
  <2>1. CASE j = i
    <3>1. Len(s) + n \in 1 .. Len(r) /\ r[Len(s) + n] = L[i][n]
      BY <2>1, <1>2, <1>3
    <3> QED
      BY <3>1, <2>1 DEF Elements
  <2>2. CASE j # i
    <3>1. j < i
      BY <2>2, <1>0, <1>9
    <3>2. L[j][n] \in Elements(s)
      BY <3>1 DEF Gathered
    <3>3. PICK m \in 1 .. Len(s) : s[m] = L[j][n]
      BY <3>2 DEF Elements
    <3>4. m \in 1 .. Len(r) /\ r[m] = L[j][n]
      BY <3>3, <1>2, <1>3
    <3> QED
      BY <3>4 DEF Elements
  <2> QED
    BY <2>1, <2>2
<1>10. Spread(r)
  <2> SUFFICES ASSUME NEW n \in 1 .. Len(r), NEW m \in 1 .. Len(r), r[m][1] = r[n][1]
               PROVE  m = n
    BY DEF Spread
  <2>1. CASE n \in 1 .. Len(s) /\ m \in 1 .. Len(s)
    <3>1. Spread(s) /\ s[m][1] = s[n][1]
      BY <2>1, <1>2 DEF Gathered
    <3> QED
      BY <3>1, <2>1 DEF Spread
  <2>2. CASE n \in 1 .. Len(s) /\ m - Len(s) \in 1 .. Len(L[i])
    <3>1. Addr(h, r[n][1], c) < i /\ Addr(h, r[n][1], c) \in Nat
      BY <2>2, <1>2, <1>7
    <3>2. Addr(h, r[m][1], c) = i
      BY <2>2, <1>5, <1>6
    <3> QED
      BY <3>1, <3>2, <1>0
  <2>3. CASE n - Len(s) \in 1 .. Len(L[i]) /\ m \in 1 .. Len(s)
    <3>1. Addr(h, r[m][1], c) < i /\ Addr(h, r[m][1], c) \in Nat
      BY <2>3, <1>2, <1>7
    <3>2. Addr(h, r[n][1], c) = i
      BY <2>3, <1>5, <1>6
    <3> QED
      BY <3>1, <3>2, <1>0
  <2>4. CASE n - Len(s) \in 1 .. Len(L[i]) /\ m - Len(s) \in 1 .. Len(L[i])
    <3>1. L[i][m - Len(s)][1] = L[i][n - Len(s)][1]
      BY <2>4, <1>5
    <3>2. m - Len(s) = n - Len(s)
      BY <2>4, <3>1 DEF HashTable, AtHome
    <3> QED
      BY <3>2, <1>3
  <2> QED
    BY <2>1, <2>2, <2>3, <2>4, <1>4
<1> QED
  BY <1>2, <1>8, <1>9, <1>10 DEF Gathered, r

LEMMA GatherNone ==
    ASSUME NEW h, NEW c, NEW L, HashTable(h, c, L), NEW i \in Line(c), L[i] = <<>>,
           NEW s, Gathered(h, c, L, i, s)
    PROVE  Gathered(h, c, L, i + 1, s)
<1>0. i \in Nat /\ c \in Nat /\ Line(c) \subseteq Nat
  BY DEF Line, HashTable
<1>1. \A a \in 1 .. Len(s) : Addr(h, s[a][1], c) < i + 1
  <2> SUFFICES ASSUME NEW a \in 1 .. Len(s) PROVE Addr(h, s[a][1], c) < i + 1
    OBVIOUS
  <2>1. s[a] \in Pair
    BY DEF Gathered
  <2>2. s[a][1] \in Key
    BY <2>1 DEF Pair
  <2>3. Addr(h, s[a][1], c) \in Line(c)
    BY <2>2, AddrIsLine DEF HashTable
  <2> QED
    BY <2>3, <1>0 DEF Gathered
<1>2. ASSUME NEW j \in Line(c), j < i + 1, NEW n \in 1 .. Len(L[j])
      PROVE  L[j][n] \in Elements(s)
  <2>1. j # i
    BY <1>2
  <2>2. j < i
    BY <2>1, <1>0, <1>2
  <2> QED
    BY <2>2 DEF Gathered
<1> QED
  BY <1>1, <1>2 DEF Gathered

(* The list exists, for any chains, and gathers every node once.            *)
LEMMA CollectedTold ==
    ASSUME NEW h, NEW c, NEW L, HashTable(h, c, L)
    PROVE  /\ Collected(c, L, Bits(c, L)) \in Seq(Pair)
           /\ Elements(Collected(c, L, Bits(c, L))) = ItemsIn(c, L)
           /\ Spread(Collected(c, L, Bits(c, L)))
<1> DEFINE B == Bits(c, L)
           U == Seq(Pair)
           G == [x \in Nat \X U |-> IF x[1] - 1 \in B THEN x[2] \o L[x[1] - 1] ELSE x[2]]
           p == CHOOSE q : NodeLists(c, L, B, q)
<1>0. c \in Nat /\ B \subseteq Line(c) /\ \A i \in Line(c) : L[i] \in U
  BY DEF HashTable, Bits
<1>1. <<>> \in U
  OBVIOUS
<1>2. G \in [Nat \X U -> U]
  <2> SUFFICES ASSUME NEW x \in Nat \X U
               PROVE  (IF x[1] - 1 \in B THEN x[2] \o L[x[1] - 1] ELSE x[2]) \in U
    OBVIOUS
  <2>1. x[2] \in U
    OBVIOUS
  <2>2. CASE x[1] - 1 \in B
    <3>1. L[x[1] - 1] \in U
      BY <2>2, <1>0
    <3> HIDE DEF B
    <3> QED
      BY <2>1, <2>2, <3>1, Joined
  <2> QED
    BY <2>1, <2>2
<1>3. PICK f \in [Nat -> U] : f[0] = <<>> /\ \A n \in Nat : f[n + 1] = G[<<n + 1, f[n]>>]
  <2>1. StepsIn(G, U)
    <3> HIDE DEF G, U
    <3> QED
      BY <1>2 DEF StepsIn
  <2> HIDE DEF G, U
  <2>2. PICK f : Solves(f, U, <<>>, G)
    BY <1>1, <2>1, Recursion
  <2> QED
    BY <2>2 DEF Solves
<1>4. \A n \in Nat : f[n + 1] = IF n \in B THEN f[n] \o L[n] ELSE f[n]
  <2> SUFFICES ASSUME NEW n \in Nat
               PROVE  f[n + 1] = IF n \in B THEN f[n] \o L[n] ELSE f[n]
    OBVIOUS
  <2>1. <<n + 1, f[n]>> \in Nat \X U /\ (n + 1) - 1 = n
    <3>1. f[n] \in U
      BY <1>3
    <3> HIDE DEF U
    <3> QED
      BY <3>1
  <2>2. G[<<n + 1, f[n]>>] = IF (n + 1) - 1 \in B THEN f[n] \o L[(n + 1) - 1] ELSE f[n]
    <3> HIDE DEF B, U
    <3> QED
      BY <2>1
  <2> HIDE DEF B, G
  <2> QED
    BY <1>3, <2>1, <2>2
<1> HIDE DEF B, G
<1>5. NodeLists(c, L, B, [i \in 0 .. c |-> f[i]])
  <2> DEFINE g == [i \in 0 .. c |-> f[i]]
  <2>1. ASSUME NEW i \in 0 .. c
        PROVE  f[i] = IF i = 0 THEN <<>>
                      ELSE IF i - 1 \in B THEN g[i - 1] \o L[i - 1] ELSE g[i - 1]
    <3>1. CASE i = 0
      BY <3>1, <1>3
    <3>2. CASE i # 0
      <4>1. i - 1 \in Nat /\ (i - 1) + 1 = i /\ i - 1 \in 0 .. c
        BY <3>2, <1>0
      <4>2. g[i - 1] = f[i - 1]
        BY <4>1
      <4>3. f[(i - 1) + 1] = IF i - 1 \in B THEN f[i - 1] \o L[i - 1] ELSE f[i - 1]
        BY <4>1, <1>4
      <4> HIDE DEF g
      <4> QED
        BY <3>2, <4>1, <4>2, <4>3
    <3> QED
      BY <3>1, <3>2
  <2> QED
    BY <2>1 DEF NodeLists
<1>6. NodeLists(c, L, B, p)
  BY <1>5
<1>7. /\ p[0] = <<>>
      /\ \A i \in Nat : i < c => p[i + 1] = IF i \in B THEN p[i] \o L[i] ELSE p[i]
  <2> HIDE DEF p
  <2>1. p[0] = <<>>
    BY <1>0, <1>6 DEF NodeLists
  <2>2. ASSUME NEW i \in Nat, i < c
        PROVE  p[i + 1] = IF i \in B THEN p[i] \o L[i] ELSE p[i]
    <3>1. i + 1 \in 0 .. c /\ i + 1 # 0 /\ (i + 1) - 1 = i
      BY <1>0, <2>2
    <3>2. p[i + 1] = IF i + 1 = 0 THEN <<>>
                     ELSE IF (i + 1) - 1 \in B THEN p[(i + 1) - 1] \o L[(i + 1) - 1]
                          ELSE p[(i + 1) - 1]
      BY <3>1, <1>6 DEF NodeLists
    <3> QED
      BY <3>1, <3>2
  <2> QED
    BY <2>1, <2>2
<1> DEFINE S == {i \in Nat : i <= c => Gathered(h, c, L, i, p[i])}
<1>8. 0 \in S
  <2> HIDE DEF p
  <2>1. <<>> \in Seq(Pair) /\ Len(<<>>) = 0
    OBVIOUS
  <2>2. \A j \in Line(c) : ~(j < 0)
    BY <1>0 DEF Line
  <2>3. Gathered(h, c, L, 0, <<>>)
    BY <2>1, <2>2 DEF Gathered, Spread
  <2> QED
    BY <2>3, <1>7
<1>9. ASSUME NEW i \in Nat, i \in S PROVE i + 1 \in S
  <2> HIDE DEF p
  <2> SUFFICES ASSUME i + 1 <= c PROVE Gathered(h, c, L, i + 1, p[i + 1])
    OBVIOUS
  <2>1. i < c /\ i \in Line(c)
    BY <1>0 DEF Line
  <2>2. Gathered(h, c, L, i, p[i])
    BY <1>9, <2>1, <1>0
  <2>3. CASE i \in B
    <3>1. p[i + 1] = p[i] \o L[i]
      BY <2>1, <2>3, <1>7
    <3> QED
      BY <2>1, <2>2, <3>1, GatherLine
  <2>4. CASE i \notin B
    <3>1. p[i + 1] = p[i]
      BY <2>1, <2>4, <1>7
    <3>2. L[i] = <<>>
      BY <2>1, <2>4 DEF B, Bits
    <3> QED
      BY <2>1, <2>2, <3>1, <3>2, GatherNone
  <2> QED
    BY <2>3, <2>4
<1>10. c \in S
  <2> HIDE DEF S
  <2> QED
    BY <1>0, <1>8, <1>9, Upwards
<1>11. Gathered(h, c, L, c, p[c])
  <2> HIDE DEF p
  <2> QED
    BY <1>0, <1>10
<1>12. Collected(c, L, B) = p[c]
  BY DEF Collected
<1> HIDE DEF p
<1>13. p[c] \in Seq(Pair) /\ Spread(p[c])
  BY <1>11 DEF Gathered
<1>14. ASSUME NEW x \in ItemsIn(c, L) PROVE x \in Elements(p[c])
  <2>1. PICK j \in Line(c) : \E n \in 1 .. Len(L[j]) : L[j][n] = x
    BY DEF ItemsIn
  <2>2. j < c
    BY <1>0 DEF Line
  <2> QED
    BY <2>1, <2>2, <1>11 DEF Gathered
<1>15. ASSUME NEW x \in Elements(p[c]) PROVE x \in ItemsIn(c, L)
  BY <1>11 DEF Gathered, Elements
<1> QED
  BY <1>12, <1>13, <1>14, <1>15 DEF B

(* What resize_to makes of a list of nodes with different keys.             *)
Moves(h, all, cap, p) ==
    p = [j \in 0 .. Len(all) |->
            IF j = 0 THEN EmptyLines(cap)
            ELSE [p[j - 1] EXCEPT ![Addr(h, all[j][1], cap)] = Relink(@, all[j])]]

Moved(h, all, cap) == (CHOOSE p : Moves(h, all, cap, p))[Len(all)]

Holds(h, all, cap, j, L) == HashTable(h, cap, L) /\ ItemsIn(cap, L) = {all[a] : a \in 1 .. j}

LEMMA NoItems ==
    ASSUME NEW h \in [Key -> Nat], NEW c \in Nat \ {0}
    PROVE  HashTable(h, c, EmptyLines(c)) /\ ItemsIn(c, EmptyLines(c)) = {}
<1>1. <<>> \in Seq(Pair) /\ Len(<<>>) = 0
  OBVIOUS
<1>2. EmptyLines(c) \in [Line(c) -> Seq(Pair)] /\ \A i \in Line(c) : Len(EmptyLines(c)[i]) = 0
  BY <1>1 DEF EmptyLines
<1>3. HashTable(h, c, EmptyLines(c))
  BY <1>2 DEF HashTable, AtHome
<1>4. ASSUME NEW x \in ItemsIn(c, EmptyLines(c)) PROVE FALSE
  <2>1. PICK j \in Line(c) : \E n \in 1 .. Len(EmptyLines(c)[j]) : EmptyLines(c)[j][n] = x
    BY DEF ItemsIn
  <2> QED
    BY <2>1, <1>2
<1> QED
  BY <1>3, <1>4

LEMMA RelinkType ==
    ASSUME NEW s \in Seq(Pair), NEW p \in Pair
    PROVE  Relink(s, p) \in Seq(Pair)
<1>1. CASE s = <<>>
  BY <1>1 DEF Relink
<1>2. CASE s # <<>>
  <2>1. <<Head(s), p>> \in Seq(Pair) /\ Tail(s) \in Seq(Pair)
    BY <1>2
  <2> QED
    BY <2>1, <1>2, Joined DEF Relink
<1> QED
  BY <1>1, <1>2

LEMMA MoveOne ==
    ASSUME NEW h, NEW cap, NEW all \in Seq(Pair), Spread(all), NEW j \in Nat, j < Len(all),
           NEW L, Holds(h, all, cap, j, L),
           NEW M, M = With(L, Addr(h, all[j + 1][1], cap), Relink(L[Addr(h, all[j + 1][1], cap)], all[j + 1]))
    PROVE  Holds(h, all, cap, j + 1, M)
<1> DEFINE node == all[j + 1]
           i == Addr(h, node[1], cap)
           r == Relink(L[i], node)
<1>0. j + 1 \in 1 .. Len(all) /\ HashTable(h, cap, L) /\ h \in [Key -> Nat] /\ cap \in Nat \ {0}
  BY DEF Holds, HashTable
<1>1. node \in Pair /\ node[1] \in Key
  BY <1>0 DEF Pair
<1>2. i \in Line(cap)
  BY <1>0, <1>1, AddrIsLine
<1>3. L[i] \in Seq(Pair) /\ Spread(L[i]) /\ \A n \in 1 .. Len(L[i]) : Addr(h, L[i][n][1], cap) = i
  BY <1>0, <1>2 DEF HashTable, AtHome, Spread
<1>4. Elements(L[i]) = {p \in ItemsIn(cap, L) : Addr(h, p[1], cap) = i}
  BY <1>0, <1>2, LineItems
<1> HIDE DEF i, node
<1>5. \A n \in 1 .. Len(L[i]) : L[i][n][1] # node[1]
  <2> SUFFICES ASSUME NEW n \in 1 .. Len(L[i]), L[i][n][1] = node[1] PROVE FALSE
    OBVIOUS
  <2>1. L[i][n] \in ItemsIn(cap, L)
    BY <1>4 DEF Elements
  <2>2. PICK a \in 1 .. j : all[a] = L[i][n]
    BY <2>1 DEF Holds
  <2>3. a \in 1 .. Len(all) /\ all[a][1] = all[j + 1][1]
    BY <2>2, <1>0 DEF node
  <2>4. a = j + 1
    BY <2>3, <1>0 DEF Spread
  <2> QED
    BY <2>4
<1>6. r \in Seq(Pair) /\ Spread(r) /\ Elements(r) = Elements(L[i]) \cup {node}
  BY <1>1, <1>3, <1>5, Relinked
<1> HIDE DEF r
<1>7. ASSUME NEW n \in 1 .. Len(r) PROVE Addr(h, r[n][1], cap) = i
  <2>1. r[n] \in Elements(r)
    BY DEF Elements
  <2> QED
    BY <2>1, <1>4, <1>6 DEF i
<1>8. M = With(L, i, r)
  BY DEF i, r, node
<1>8a. Fits(h, cap, i, r)
  BY <1>6, <1>7 DEF Fits
<1>9. /\ HashTable(h, cap, M)
      /\ ItemsIn(cap, M) = Besides(h, cap, L, i) \cup Elements(r)
  <2>1. HashTable(h, cap, L) /\ i \in Line(cap) /\ Fits(h, cap, i, r) /\ M = With(L, i, r)
    BY <1>0, <1>2, <1>8, <1>8a
  <2> QED
    BY <2>1, LineReplaced
<1>10. ItemsIn(cap, M) = ItemsIn(cap, L) \cup {node}
  BY <1>4, <1>6, <1>9 DEF Besides
<1>11. {all[a] : a \in 1 .. j + 1} = {all[a] : a \in 1 .. j} \cup {node}
  <2>1. \A a \in 1 .. j + 1 : a \in 1 .. j \/ a = j + 1
    OBVIOUS
  <2> QED
    BY <2>1 DEF node
<1> QED
  BY <1>9, <1>10, <1>11 DEF Holds

LEMMA MovedTold ==
    ASSUME NEW h \in [Key -> Nat], NEW cap \in Nat \ {0}, NEW all \in Seq(Pair), Spread(all)
    PROVE  /\ HashTable(h, cap, Moved(h, all, cap))
           /\ ItemsIn(cap, Moved(h, all, cap)) = Elements(all)
<1> DEFINE N == Len(all)
           U == [Line(cap) -> Seq(Pair)]
           Put(L, node) == [L EXCEPT ![Addr(h, node[1], cap)] = Relink(@, node)]
           G == [x \in Nat \X U |-> IF x[1] \in 1 .. N THEN Put(x[2], all[x[1]]) ELSE x[2]]
           p == CHOOSE q : Moves(h, all, cap, q)
<1>0. N \in Nat /\ \A j \in 1 .. N : all[j] \in Pair
  OBVIOUS
<1>1. EmptyLines(cap) \in U
  BY NoItems DEF HashTable
<1>2. ASSUME NEW L \in U, NEW node \in Pair PROVE Put(L, node) \in U
  <2>1. node[1] \in Key
    BY DEF Pair
  <2>2. Addr(h, node[1], cap) \in Line(cap)
    BY <2>1, AddrIsLine
  <2>3. Relink(L[Addr(h, node[1], cap)], node) \in Seq(Pair)
    BY <2>2, RelinkType
  <2> QED
    BY <2>2, <2>3
<1> HIDE DEF Put
<1>3. G \in [Nat \X U -> U]
  <2> SUFFICES ASSUME NEW x \in Nat \X U
               PROVE  (IF x[1] \in 1 .. N THEN Put(x[2], all[x[1]]) ELSE x[2]) \in U
    OBVIOUS
  <2>1. x[2] \in U
    OBVIOUS
  <2> HIDE DEF U, N
  <2>2. CASE x[1] \in 1 .. N
    BY <2>1, <2>2, <1>0, <1>2
  <2>3. CASE x[1] \notin 1 .. N
    BY <2>1, <2>3
  <2> QED
    BY <2>2, <2>3
<1>4. PICK f : f \in [Nat -> U] /\ f[0] = EmptyLines(cap) /\ \A n \in Nat : f[n + 1] = G[<<n + 1, f[n]>>]
  <2>1. StepsIn(G, U)
    <3> HIDE DEF G, U
    <3> QED
      BY <1>3 DEF StepsIn
  <2> HIDE DEF G, U
  <2>2. PICK f : Solves(f, U, EmptyLines(cap), G)
    BY <1>1, <2>1, Recursion
  <2> QED
    BY <2>2 DEF Solves
<1>5. \A n \in Nat : n < N => f[n + 1] = Put(f[n], all[n + 1])
  <2> SUFFICES ASSUME NEW n \in Nat, n < N PROVE f[n + 1] = Put(f[n], all[n + 1])
    OBVIOUS
  <2>1. <<n + 1, f[n]>> \in Nat \X U
    <3> HIDE DEF U
    <3> QED
      BY <1>4
  <2>2. G[<<n + 1, f[n]>>] = IF n + 1 \in 1 .. N THEN Put(f[n], all[n + 1]) ELSE f[n]
    <3> HIDE DEF U, N
    <3> QED
      BY <2>1
  <2>3. n + 1 \in 1 .. N
    <3> HIDE DEF N
    <3> QED
      BY <1>0
  <2> HIDE DEF G, N
  <2> QED
    BY <1>4, <2>2, <2>3
<1> HIDE DEF G
<1>6. Moves(h, all, cap, [j \in 0 .. N |-> f[j]])
  <2> DEFINE g == [j \in 0 .. N |-> f[j]]
  <2>1. ASSUME NEW j \in 0 .. N
        PROVE  f[j] = IF j = 0 THEN EmptyLines(cap) ELSE Put(g[j - 1], all[j])
    <3>1. CASE j = 0
      BY <3>1, <1>4
    <3>2. CASE j # 0
      <4>1. j - 1 \in Nat /\ (j - 1) + 1 = j /\ j - 1 \in 0 .. N /\ j - 1 < N
        BY <3>2, <1>0
      <4>2. g[j - 1] = f[j - 1]
        BY <4>1
      <4>3. f[(j - 1) + 1] = Put(f[j - 1], all[(j - 1) + 1])
        BY <4>1, <1>5
      <4> HIDE DEF g
      <4> QED
        BY <3>2, <4>1, <4>2, <4>3
    <3> QED
      BY <3>1, <3>2
  <2>2. g = [j \in 0 .. N |-> IF j = 0 THEN EmptyLines(cap) ELSE Put(g[j - 1], all[j])]
    BY <2>1
  <2> HIDE DEF g
  <2>3. Moves(h, all, cap, g)
    BY <2>2 DEF Moves, Put
  <2> QED
    BY <2>3 DEF g
<1>7. Moves(h, all, cap, p)
  BY <1>6
<1>8. p = [j \in 0 .. N |-> IF j = 0 THEN EmptyLines(cap) ELSE Put(p[j - 1], all[j])]
  <2> HIDE DEF p
  <2> QED
    BY <1>7 DEF Moves, Put
<1> HIDE DEF p
<1>9. p[0] = EmptyLines(cap)
  <2> HIDE DEF N
  <2>1. 0 \in 0 .. N
    BY <1>0
  <2> QED
    BY <2>1, <1>8
<1>10. ASSUME NEW i \in Nat, i < N PROVE p[i + 1] = Put(p[i], all[i + 1])
  <2> HIDE DEF N
  <2>1. i + 1 \in 0 .. N /\ i + 1 # 0 /\ (i + 1) - 1 = i
    BY <1>0, <1>10
  <2>2. p[i + 1] = IF i + 1 = 0 THEN EmptyLines(cap) ELSE Put(p[(i + 1) - 1], all[i + 1])
    BY <2>1, <1>8
  <2> QED
    BY <2>1, <2>2
<1> DEFINE S == {i \in Nat : i <= N => Holds(h, all, cap, i, p[i])}
<1>11. 0 \in S
  <2>1. {all[a] : a \in 1 .. 0} = {}
    OBVIOUS
  <2>2. Holds(h, all, cap, 0, EmptyLines(cap))
    BY <2>1, NoItems DEF Holds
  <2> QED
    BY <2>2, <1>9
<1>12. ASSUME NEW i \in Nat, i \in S PROVE i + 1 \in S
  <2> SUFFICES ASSUME i + 1 <= N PROVE Holds(h, all, cap, i + 1, p[i + 1])
    OBVIOUS
  <2>1. i < N
    BY <1>0
  <2>2. Holds(h, all, cap, i, p[i])
    BY <1>12, <2>1, <1>0
  <2>3. p[i + 1] = With(p[i], Addr(h, all[i + 1][1], cap),
                        Relink(p[i][Addr(h, all[i + 1][1], cap)], all[i + 1]))
    BY <2>1, <1>10 DEF Put, With
  <2> QED
    BY <2>1, <2>2, <2>3, MoveOne
<1>13. N \in S
  <2> HIDE DEF S
  <2> QED
    BY <1>0, <1>11, <1>12, Upwards
<1>14. Holds(h, all, cap, N, p[N])
  BY <1>0, <1>13
<1>15. Moved(h, all, cap) = p[N]
  BY DEF Moved, p
<1> QED
  BY <1>14, <1>15 DEF Holds, Elements

(* The sizes a table can have: the first, and any times multi.              *)
Grown == {c \in Nat : \A S \in SUBSET Nat :
             StartCapacity \in S /\ (\A s \in S : s * Multi \in S) => c \in S}

LEMMA Times ==
    ASSUME NEW d \in Nat \ {0}, NEW m \in Nat \ {0, 1}
    PROVE  /\ d * m \in Nat \ {0} /\ d * m > d /\ (d * m) \div m = d
           /\ \A n \in Nat : d * m >= n * m * 2 => d >= n * 2
<1>1. d * m \in Nat /\ d * m > d
  OBVIOUS
<1>2. (d * m) \div m = d
  OBVIOUS
<1>3. ASSUME NEW n \in Nat, d * m >= n * m * 2 PROVE d >= n * 2
  <2> SUFFICES ASSUME d < n * 2 PROVE FALSE
    OBVIOUS
  <2> DEFINE e == n * 2 - d
  <2>1. e \in Nat \ {0} /\ n * 2 = d + e
    OBVIOUS
  <2> HIDE DEF e
  <2>2. (d + e) * m = d * m + e * m /\ e * m > 0 /\ d * m \in Nat
    BY <2>1
  <2>3. n * m * 2 = (n * 2) * m
    OBVIOUS
  <2> QED
    BY <1>3, <2>1, <2>2, <2>3
<1> QED
  BY <1>1, <1>2, <1>3

LEMMA GrownFacts ==
    /\ StartCapacity \in Grown
    /\ \A c \in Grown : c \in Nat \ {0} /\ c * Multi \in Grown
    /\ \A c \in Grown : c # StartCapacity => \E d \in Grown : c = d * Multi
<1>0. StartCapacity \in Nat \ {0} /\ Multi \in Nat \ {0, 1}
  BY HashAssumption
<1>1. StartCapacity \in Grown
  BY <1>0 DEF Grown
<1>2. ASSUME NEW c \in Grown PROVE c \in Nat \ {0}
  <2> DEFINE S == Nat \ {0}
  <2>1. \A s \in S : s * Multi \in S
    BY <1>0, Times
  <2>2. S \in SUBSET Nat /\ StartCapacity \in S
    BY <1>0
  <2> QED
    BY <2>1, <2>2 DEF Grown
<1>3. ASSUME NEW c \in Grown PROVE c * Multi \in Grown
  <2>1. c * Multi \in Nat
    BY <1>0, <1>2, Times
  <2>2. ASSUME NEW S \in SUBSET Nat, StartCapacity \in S, \A s \in S : s * Multi \in S
        PROVE  c * Multi \in S
    BY <2>2 DEF Grown
  <2> QED
    BY <2>1, <2>2 DEF Grown
<1>4. ASSUME NEW c \in Grown, c # StartCapacity PROVE \E d \in Grown : c = d * Multi
  <2> DEFINE S == {s \in Grown : s = StartCapacity \/ \E d \in Grown : s = d * Multi}
  <2>1. S \in SUBSET Nat /\ StartCapacity \in S
    BY <1>1, <1>2
  <2>2. \A s \in S : s * Multi \in S
    BY <1>3
  <2>3. c \in S
    <3> HIDE DEF S
    <3> QED
      BY <2>1, <2>2 DEF Grown
  <2> QED
    BY <2>3, <1>4
<1> QED
  BY <1>1, <1>2, <1>3, <1>4

Sound(h, c, n, B, L) ==
    /\ h \in HashOf /\ HashTable(h, c, L) /\ c \in Grown /\ c <= MaxLines
    /\ B = Bits(c, L)
    /\ IsFiniteSet(ItemsIn(c, L)) /\ n = Cardinality(ItemsIn(c, L)) /\ n < c

HashInv == Sound(hash, m_lines, m_count, line_bits, nodes)

(* A resize keeps what is in the table, and so what get gives.              *)
LEMMA ResizeKeeps ==
    ASSUME NEW h, NEW c, NEW L, HashTable(h, c, L), NEW d \in Nat \ {0},
           NEW M, M = Moved(h, Collected(c, L, Bits(c, L)), d)
    PROVE  HashTable(h, d, M) /\ ItemsIn(d, M) = ItemsIn(c, L)
<1> DEFINE all == Collected(c, L, Bits(c, L))
<1>1. all \in Seq(Pair) /\ Elements(all) = ItemsIn(c, L) /\ Spread(all)
  BY CollectedTold
<1> HIDE DEF all
<1>2. h \in [Key -> Nat]
  BY DEF HashTable
<1>3. HashTable(h, d, Moved(h, all, d)) /\ ItemsIn(d, Moved(h, all, d)) = Elements(all)
  BY <1>1, <1>2, MovedTold
<1> QED
  BY <1>1, <1>3 DEF all

(* An entry says what get gives, and the other way round.                   *)
LEMMA ValueFound ==
    ASSUME NEW h, NEW c, NEW L, HashTable(h, c, L), NEW k \in Key
    PROVE  /\ ValueIn(h, c, L, k) \in Value \cup {Nothing}
           /\ ValueIn(h, c, L, k) # Nothing => <<k, ValueIn(h, c, L, k)>> \in ItemsIn(c, L)
           /\ \A v : <<k, v>> \in ItemsIn(c, L) => v = ValueIn(h, c, L, k) /\ v # Nothing
<1>1. \/ ValueIn(h, c, L, k) = Nothing /\ \A v : <<k, v>> \notin ItemsIn(c, L)
      \/ ValueIn(h, c, L, k) \in Value /\ \A v : <<k, v>> \in ItemsIn(c, L) <=> v = ValueIn(h, c, L, k)
  BY ValueTold
<1> QED
  BY <1>1, HashAssumption

LEMMA SameItems ==
    ASSUME NEW h, NEW c, NEW L, HashTable(h, c, L), NEW d, NEW M, HashTable(h, d, M),
           ItemsIn(d, M) = ItemsIn(c, L), NEW k \in Key
    PROVE  ValueIn(h, d, M, k) = ValueIn(h, c, L, k)
<1>1. /\ ValueIn(h, c, L, k) # Nothing => <<k, ValueIn(h, c, L, k)>> \in ItemsIn(c, L)
      /\ \A v : <<k, v>> \in ItemsIn(c, L) => v = ValueIn(h, c, L, k) /\ v # Nothing
  BY ValueFound
<1>2. /\ ValueIn(h, d, M, k) # Nothing => <<k, ValueIn(h, d, M, k)>> \in ItemsIn(d, M)
      /\ \A v : <<k, v>> \in ItemsIn(d, M) => v = ValueIn(h, d, M, k) /\ v # Nothing
  BY ValueFound
<1>3. CASE ValueIn(h, c, L, k) # Nothing
  BY <1>1, <1>2, <1>3
<1>4. CASE ValueIn(h, d, M, k) # Nothing
  BY <1>1, <1>2, <1>4
<1> QED
  BY <1>3, <1>4

(* The entry of a key, if it has one.                                       *)
EntryOf(h, c, L, k) == {<<k, ValueIn(h, c, L, k)>>} \cap ItemsIn(c, L)

LEMMA EntryTold ==
    ASSUME NEW h, NEW c, NEW L, HashTable(h, c, L), NEW k \in Key
    PROVE  EntryOf(h, c, L, k) = {p \in ItemsIn(c, L) : p[1] = k}
<1>1. \/ ValueIn(h, c, L, k) = Nothing /\ \A v : <<k, v>> \notin ItemsIn(c, L)
      \/ ValueIn(h, c, L, k) \in Value /\ \A v : <<k, v>> \in ItemsIn(c, L) <=> v = ValueIn(h, c, L, k)
  BY ValueTold
<1>2. \A p \in ItemsIn(c, L) : p = <<p[1], p[2]>>
  BY DEF ItemsIn, Pair
<1> QED
  BY <1>1, <1>2 DEF EntryOf

(* After a call for k, the other keys are where they were.                  *)
LEMMA OtherKeys ==
    ASSUME NEW h, NEW c, NEW L, HashTable(h, c, L), NEW d, NEW M, HashTable(h, d, M), NEW k \in Key,
           {p \in ItemsIn(d, M) : p[1] # k} = {p \in ItemsIn(c, L) : p[1] # k},
           NEW j \in Key, j # k
    PROVE  ValueIn(h, d, M, j) = ValueIn(h, c, L, j)
<1>1. /\ ValueIn(h, c, L, j) # Nothing => <<j, ValueIn(h, c, L, j)>> \in ItemsIn(c, L)
      /\ \A v : <<j, v>> \in ItemsIn(c, L) => v = ValueIn(h, c, L, j) /\ v # Nothing
  BY ValueFound
<1>2. /\ ValueIn(h, d, M, j) # Nothing => <<j, ValueIn(h, d, M, j)>> \in ItemsIn(d, M)
      /\ \A v : <<j, v>> \in ItemsIn(d, M) => v = ValueIn(h, d, M, j) /\ v # Nothing
  BY ValueFound
<1>3. ASSUME NEW v PROVE <<j, v>> \in ItemsIn(d, M) <=> <<j, v>> \in ItemsIn(c, L)
  <2>1. <<j, v>>[1] # k
    OBVIOUS
  <2> QED
    BY <2>1
<1>4. CASE ValueIn(h, c, L, j) # Nothing
  <2>1. <<j, ValueIn(h, c, L, j)>> \in ItemsIn(d, M)
    BY <1>1, <1>3, <1>4
  <2> QED
    BY <1>2, <2>1
<1>5. CASE ValueIn(h, d, M, j) # Nothing
  <2>1. <<j, ValueIn(h, d, M, j)>> \in ItemsIn(c, L)
    BY <1>2, <1>3, <1>5
  <2> QED
    BY <1>1, <2>1
<1> QED
  BY <1>4, <1>5

(* set                                                                      *)
SetLine(L, i, n, k, v) ==
    [L EXCEPT ![i] = IF n = 0 THEN Append(@, <<k, v>>) ELSE [@ EXCEPT ![n][2] = v]]

SetDone(h, c, L, k, v, i, n, M) ==
    /\ HashTable(h, c, M) /\ Bits(c, M) = Bits(c, L) \cup {i}
    /\ ItemsIn(c, M) = (ItemsIn(c, L) \ EntryOf(h, c, L, k)) \cup {<<k, v>>}
    /\ n = 0 <=> ValueIn(h, c, L, k) = Nothing
    /\ n = 0 <=> EntryOf(h, c, L, k) = {}

LEMMA SetTold ==
    ASSUME NEW h, NEW c, NEW L, HashTable(h, c, L), NEW k \in Key, NEW v \in Value,
           NEW i, i = Addr(h, k, c), NEW n, n = IndexIn(L[i], k),
           NEW M, M = SetLine(L, i, n, k, v)
    PROVE  SetDone(h, c, L, k, v, i, n, M)
<1> DEFINE s == L[i]
           r == IF n = 0 THEN Append(s, <<k, v>>) ELSE [s EXCEPT ![n][2] = v]
<1>1. i \in Line(c)
  BY AddrIsLine DEF HashTable
<1>2. s \in Seq(Pair) /\ Spread(s) /\ \A m \in 1 .. Len(s) : Addr(h, s[m][1], c) = i
  BY <1>1 DEF HashTable, AtHome, Spread
<1>3. Elements(s) = {p \in ItemsIn(c, L) : Addr(h, p[1], c) = i}
  BY <1>1, LineItems
<1>4. EntryOf(h, c, L, k) = {p \in ItemsIn(c, L) : p[1] = k}
  BY EntryTold
<1>5. \/ n = 0 /\ \A m \in 1 .. Len(s) : s[m][1] # k
      \/ n # 0 /\ n \in 1 .. Len(s) /\ s[n][1] = k
  BY <1>2, IndexTold
<1>6. <<k, v>> \in Pair /\ <<k, v>>[1] = k
  BY DEF Pair
<1>7. M = With(L, i, r)
  BY DEF SetLine, With
<1> HIDE DEF s
<1>8. /\ r \in Seq(Pair) /\ Spread(r) /\ Len(r) # 0
      /\ Elements(r) = {p \in Elements(s) : p[1] # k} \cup {<<k, v>>}
  <2>1. CASE n = 0
    <3> DEFINE q == Append(s, <<k, v>>)
    <3>1. r = q
      BY <2>1
    <3>2. \A m \in 1 .. Len(s) : s[m][1] # <<k, v>>[1]
      BY <1>5, <1>6, <2>1
    <3>3. q \in Seq(Pair) /\ Spread(q) /\ Len(q) = Len(s) + 1 /\ Elements(q) = Elements(s) \cup {<<k, v>>}
      BY <1>2, <1>6, <3>2, Lengthened
    <3>4. Elements(s) = {p \in Elements(s) : p[1] # k}
      BY <1>5, <2>1 DEF Elements
    <3> HIDE DEF q, r
    <3>5. Len(s) \in Nat
      BY <1>2
    <3> QED
      BY <3>1, <3>3, <3>4, <3>5
  <2>2. CASE n # 0
    <3> DEFINE q == Over(s, n, v)
    <3>1. r = q
      BY <2>2 DEF Over
    <3>2. n \in 1 .. Len(s) /\ s[n][1] = k
      BY <1>5, <2>2
    <3>3. /\ q \in Seq(Pair) /\ Spread(q) /\ Len(q) = Len(s)
          /\ Elements(q) = (Elements(s) \ {s[n]}) \cup {<<s[n][1], v>>}
      BY <1>2, <3>2, Overwritten
    <3>4. Elements(s) \ {s[n]} = {p \in Elements(s) : p[1] # k}
      BY <1>2, <3>2 DEF Elements, Spread
    <3> HIDE DEF q, r
    <3>5. Len(s) # 0
      BY <1>2, <3>2
    <3> QED
      BY <3>1, <3>2, <3>3, <3>4, <3>5
  <2> QED
    BY <2>1, <2>2
<1> HIDE DEF r
<1>9. \A m \in 1 .. Len(r) : Addr(h, r[m][1], c) = i
  <2> SUFFICES ASSUME NEW m \in 1 .. Len(r) PROVE Addr(h, r[m][1], c) = i
    OBVIOUS
  <2>1. r[m] \in Elements(r)
    BY DEF Elements
  <2>2. CASE r[m] = <<k, v>>
    BY <2>2
  <2>3. CASE r[m] # <<k, v>>
    BY <2>1, <2>3, <1>8, <1>3
  <2> QED
    BY <2>2, <2>3
<1>10. Fits(h, c, i, r)
  BY <1>8, <1>9 DEF Fits
<1>11. HashTable(h, c, M) /\ ItemsIn(c, M) = Besides(h, c, L, i) \cup Elements(r)
  BY <1>1, <1>7, <1>10, LineReplaced
<1>12. ItemsIn(c, M) = (ItemsIn(c, L) \ EntryOf(h, c, L, k)) \cup {<<k, v>>}
  <2>1. \A p \in ItemsIn(c, L) : p[1] = k => Addr(h, p[1], c) = i
    OBVIOUS
  <2>2. ItemsIn(c, L) \ EntryOf(h, c, L, k) = {p \in ItemsIn(c, L) : p[1] # k}
    BY <1>4
  <2>3. {p \in ItemsIn(c, L) : p[1] # k} = Besides(h, c, L, i) \cup {p \in Elements(s) : p[1] # k}
    BY <2>1, <1>3 DEF Besides
  <2> QED
    BY <2>2, <2>3, <1>8, <1>11
<1>13. Bits(c, M) = Bits(c, L) \cup {i}
  <2>1. L \in [Line(c) -> Seq(Pair)]
    BY DEF HashTable
  <2>2. M[i] = r /\ \A j \in Line(c) : j # i => M[j] = L[j]
    BY <1>1, <1>7, <2>1 DEF With
  <2>3. r # <<>>
    BY <1>8
  <2> QED
    BY <1>1, <2>2, <2>3 DEF Bits
<1>14. n = 0 <=> EntryOf(h, c, L, k) = {}
  <2>1. CASE n = 0
    <3>1. ASSUME NEW p \in ItemsIn(c, L), p[1] = k PROVE FALSE
      <4>1. p \in Elements(s)
        BY <3>1, <1>3
      <4> QED
        BY <4>1, <3>1, <2>1, <1>5 DEF Elements
    <3> QED
      BY <2>1, <3>1, <1>4
  <2>2. CASE n # 0
    <3>1. s[n] \in Elements(s) /\ s[n][1] = k
      BY <1>5, <2>2 DEF Elements
    <3> QED
      BY <2>2, <3>1, <1>3, <1>4
  <2> QED
    BY <2>1, <2>2
<1>15. EntryOf(h, c, L, k) = {} <=> ValueIn(h, c, L, k) = Nothing
  <2>1. \/ ValueIn(h, c, L, k) = Nothing /\ \A w : <<k, w>> \notin ItemsIn(c, L)
        \/ ValueIn(h, c, L, k) \in Value /\ \A w : <<k, w>> \in ItemsIn(c, L) <=> w = ValueIn(h, c, L, k)
    BY ValueTold
  <2> QED
    BY <2>1, HashAssumption DEF EntryOf
<1> QED
  BY <1>11, <1>12, <1>13, <1>14, <1>15 DEF SetDone

(* take_out                                                                 *)
TakeDone(h, c, L, k, i, r, M) ==
    /\ HashTable(h, c, M)
    /\ Bits(c, M) = IF r = <<>> THEN Bits(c, L) \ {i} ELSE Bits(c, L)
    /\ ItemsIn(c, M) = ItemsIn(c, L) \ EntryOf(h, c, L, k)
    /\ EntryOf(h, c, L, k) # {}

LEMMA TakeTold ==
    ASSUME NEW h, NEW c, NEW L, HashTable(h, c, L), NEW k \in Key,
           NEW i, i = Addr(h, k, c), NEW n, n = IndexIn(L[i], k), n # 0,
           NEW r, r = Without(L[i], n), NEW M, M = With(L, i, r)
    PROVE  TakeDone(h, c, L, k, i, r, M)
<1> DEFINE s == L[i]
<1>1. i \in Line(c)
  BY AddrIsLine DEF HashTable
<1>2. s \in Seq(Pair) /\ Spread(s) /\ \A m \in 1 .. Len(s) : Addr(h, s[m][1], c) = i
  BY <1>1 DEF HashTable, AtHome, Spread
<1>3. Elements(s) = {p \in ItemsIn(c, L) : Addr(h, p[1], c) = i}
  BY <1>1, LineItems
<1>4. EntryOf(h, c, L, k) = {p \in ItemsIn(c, L) : p[1] = k}
  BY EntryTold
<1>5. n \in 1 .. Len(s) /\ s[n][1] = k
  BY <1>2, IndexTold
<1> HIDE DEF s
<1>6. r = Without(s, n)
  BY DEF s
<1>7. r \in Seq(Pair) /\ Spread(r) /\ Elements(r) = Elements(s) \ {s[n]}
  BY <1>2, <1>5, <1>6, Shortened
<1>8. Elements(r) = {p \in Elements(s) : p[1] # k}
  <2>1. Elements(s) \ {s[n]} = {p \in Elements(s) : p[1] # k}
    BY <1>2, <1>5 DEF Elements, Spread
  <2> QED
    BY <2>1, <1>7
<1>9. Fits(h, c, i, r)
  <2>1. \A m \in 1 .. Len(r) : r[m] \in Elements(s)
    BY <1>7 DEF Elements
  <2> QED
    BY <2>1, <1>3, <1>7 DEF Fits
<1>10. HashTable(h, c, M) /\ ItemsIn(c, M) = Besides(h, c, L, i) \cup Elements(r)
  BY <1>1, <1>9, LineReplaced
<1>11. ItemsIn(c, M) = ItemsIn(c, L) \ EntryOf(h, c, L, k)
  <2>1. \A p \in ItemsIn(c, L) : p[1] = k => Addr(h, p[1], c) = i
    OBVIOUS
  <2>2. ItemsIn(c, L) \ EntryOf(h, c, L, k) = {p \in ItemsIn(c, L) : p[1] # k}
    BY <1>4
  <2>3. {p \in ItemsIn(c, L) : p[1] # k} = Besides(h, c, L, i) \cup {p \in Elements(s) : p[1] # k}
    BY <2>1, <1>3 DEF Besides
  <2> QED
    BY <2>2, <2>3, <1>8, <1>10
<1>12. Bits(c, M) = IF r = <<>> THEN Bits(c, L) \ {i} ELSE Bits(c, L)
  <2>1. L \in [Line(c) -> Seq(Pair)]
    BY DEF HashTable
  <2>2. M[i] = r /\ \A j \in Line(c) : j # i => M[j] = L[j]
    BY <1>1, <2>1 DEF With
  <2>3. L[i] # <<>>
    BY <1>5 DEF s
  <2> QED
    BY <1>1, <2>2, <2>3 DEF Bits
<1>13. EntryOf(h, c, L, k) # {}
  <2>1. s[n] \in Elements(s) /\ s[n][1] = k
    BY <1>5 DEF Elements
  <2> QED
    BY <2>1, <1>3, <1>4
<1> QED
  BY <1>10, <1>11, <1>12, <1>13 DEF TakeDone

(* The model's operators, told with the table as an argument.               *)
ContentOf(h, c, L) == [k \in Key |-> ValueIn(h, c, L, k)]

MapShown == [k \in Key |-> GetKey(k)]

LEMMA MapShownIs ==
    /\ MapShown = ContentOf(hash, m_lines, nodes)
    /\ MapShown' = ContentOf(hash', m_lines', nodes')
    /\ \A k \in Key : GetKey(k) = ValueIn(hash, m_lines, nodes, k)
BY DEF MapShown, ContentOf, ValueIn, GetKey, Addressing, Addr

LEMMA Taken ==
    ASSUME NEW lines, NEW bits, NEW d, TakeOver(lines, bits, d)
    PROVE  /\ m_lines' = d /\ nodes' = Moved(hash, Collected(m_lines, lines, bits), d)
           /\ line_bits' = Bits(d, nodes')
BY DEF TakeOver, Resized, NodesOf, Moved, Collected, Moves, NodeLists, Addressing, Addr, Bits

LEMMA SoundFacts ==
    ASSUME NEW h, NEW c, NEW n, NEW B, NEW L, Sound(h, c, n, B, L)
    PROVE  h \in [Key -> Nat] /\ c \in Nat \ {0} /\ n \in Nat
BY GrownFacts, FS_CardinalityType DEF Sound, HashTable

LEMMA EntryShape ==
    ASSUME NEW h, NEW c, NEW L, NEW k
    PROVE  \/ EntryOf(h, c, L, k) = {}
           \/ \E e \in ItemsIn(c, L) : EntryOf(h, c, L, k) = {e}
BY DEF EntryOf

LEMMA SameContent ==
    ASSUME NEW h, NEW c, NEW L, HashTable(h, c, L), NEW d, NEW M, HashTable(h, d, M),
           ItemsIn(d, M) = ItemsIn(c, L)
    PROVE  ContentOf(h, d, M) = ContentOf(h, c, L)
BY SameItems DEF ContentOf

LEMMA SetContent ==
    ASSUME NEW h, NEW c, NEW L, HashTable(h, c, L), NEW d, NEW M, HashTable(h, d, M),
           NEW k \in Key, NEW v \in Value,
           ItemsIn(d, M) = (ItemsIn(c, L) \ EntryOf(h, c, L, k)) \cup {<<k, v>>}
    PROVE  ContentOf(h, d, M) = [ContentOf(h, c, L) EXCEPT ![k] = v]
<1>1. EntryOf(h, c, L, k) = {p \in ItemsIn(c, L) : p[1] = k}
  BY EntryTold
<1>2. ValueIn(h, d, M, k) = v
  <2>1. <<k, v>> \in ItemsIn(d, M)
    OBVIOUS
  <2> QED
    BY <2>1, ValueFound
<1>3. {p \in ItemsIn(d, M) : p[1] # k} = {p \in ItemsIn(c, L) : p[1] # k}
  <2>1. <<k, v>>[1] = k
    OBVIOUS
  <2> QED
    BY <1>1, <2>1
<1>4. ASSUME NEW j \in Key, j # k PROVE ValueIn(h, d, M, j) = ValueIn(h, c, L, j)
  BY <1>3, <1>4, OtherKeys
<1> QED
  BY <1>2, <1>4 DEF ContentOf

LEMMA TakeContent ==
    ASSUME NEW h, NEW c, NEW L, HashTable(h, c, L), NEW d, NEW M, HashTable(h, d, M), NEW k \in Key,
           ItemsIn(d, M) = ItemsIn(c, L) \ EntryOf(h, c, L, k)
    PROVE  ContentOf(h, d, M) = [ContentOf(h, c, L) EXCEPT ![k] = Nothing]
<1>1. EntryOf(h, c, L, k) = {p \in ItemsIn(c, L) : p[1] = k}
  BY EntryTold
<1>2. ValueIn(h, d, M, k) = Nothing
  <2> SUFFICES ASSUME ValueIn(h, d, M, k) # Nothing PROVE FALSE
    OBVIOUS
  <2>1. <<k, ValueIn(h, d, M, k)>> \in ItemsIn(d, M)
    BY ValueFound
  <2>2. <<k, ValueIn(h, d, M, k)>>[1] = k
    OBVIOUS
  <2> QED
    BY <2>1, <2>2, <1>1
<1>3. {p \in ItemsIn(d, M) : p[1] # k} = {p \in ItemsIn(c, L) : p[1] # k}
  BY <1>1
<1>4. ASSUME NEW j \in Key, j # k PROVE ValueIn(h, d, M, j) = ValueIn(h, c, L, j)
  BY <1>3, <1>4, OtherKeys
<1> QED
  BY <1>2, <1>4 DEF ContentOf

LEMMA SetCount ==
    ASSUME NEW I, IsFiniteSet(I), NEW E, E = {} \/ \E e \in I : E = {e}, NEW x, x \notin I \ E
    PROVE  /\ IsFiniteSet((I \ E) \cup {x})
           /\ Cardinality((I \ E) \cup {x}) = IF E = {} THEN Cardinality(I) + 1 ELSE Cardinality(I)
<1>5. IsFiniteSet(I) /\ Cardinality(I) \in Nat
  BY FS_CardinalityType
<1>6. CASE E = {}
  <2>1. x \notin I /\ I \ E = I
    BY <1>6
  <2>2. IsFiniteSet(I \cup {x}) /\ Cardinality(I \cup {x}) = Cardinality(I) + 1
    BY <2>1, <1>5, FS_AddElement
  <2> QED
    BY <2>1, <2>2, <1>6
<1>7. CASE E # {}
  <2>1. PICK e \in I : E = {e}
    BY <1>7
  <2>2. IsFiniteSet(I \ {e}) /\ Cardinality(I \ {e}) = Cardinality(I) - 1
    BY <1>5, FS_RemoveElement
  <2>3. x \notin I \ {e}
    BY <2>1
  <2>4. IsFiniteSet((I \ {e}) \cup {x}) /\ Cardinality((I \ {e}) \cup {x}) = Cardinality(I \ {e}) + 1
    BY <2>2, <2>3, FS_AddElement
  <2>5. Cardinality((I \ {e}) \cup {x}) = Cardinality(I)
    BY <2>2, <2>4, <1>5
  <2> QED
    BY <2>1, <2>4, <2>5, <1>7
<1> QED
  BY <1>6, <1>7

(* The calls                                                                *)
LEMMA SetStep ==
    ASSUME HashInv, NEW k \in Key, NEW v \in Value, SetKey(k, v)
    PROVE  HashInv' /\ MapAbove!Set(k, v)
<1> DEFINE i     == Addressing(k, m_lines)
           n     == IndexIn(nodes[i], k)
           lines == [nodes EXCEPT ![i] = IF n = 0 THEN Append(@, <<k, v>>) ELSE [@ EXCEPT ![n][2] = v]]
           bits  == line_bits \cup {i}
           count == IF n = 0 THEN m_count + 1 ELSE m_count
           Entry == EntryOf(hash, m_lines, nodes, k)
           Items == ItemsIn(m_lines, nodes)
<1>0. /\ Sound(hash, m_lines, m_count, line_bits, nodes) /\ HashTable(hash, m_lines, nodes)
      /\ hash \in [Key -> Nat] /\ m_lines \in Nat \ {0} /\ m_count \in Nat
      /\ line_bits = Bits(m_lines, nodes) /\ m_count < m_lines
      /\ IsFiniteSet(Items) /\ m_count = Cardinality(Items)
      /\ m_lines \in Grown /\ hash \in HashOf /\ m_lines <= MaxLines
  BY SoundFacts DEF HashInv, Sound
<1>1. i = Addr(hash, k, m_lines) /\ lines = SetLine(nodes, i, n, k, v)
  BY DEF Addressing, Addr, SetLine
<1>2. /\ m_count' = count /\ said' = IF n = 0 THEN "success" ELSE "override"
      /\ hash' = hash
      /\ \/ /\ m_lines = count /\ m_lines * Multi <= MaxLines
            /\ TakeOver(lines, bits, m_lines * Multi)
         \/ m_lines # count /\ nodes' = lines /\ line_bits' = bits /\ m_lines' = m_lines
  BY DEF SetKey
<1> HIDE DEF i, n, lines
<1>3. /\ HashTable(hash, m_lines, lines) /\ Bits(m_lines, lines) = bits
      /\ ItemsIn(m_lines, lines) = (Items \ Entry) \cup {<<k, v>>}
      /\ n = 0 <=> ValueIn(hash, m_lines, nodes, k) = Nothing
      /\ n = 0 <=> Entry = {}
  <2>1. n = IndexIn(nodes[i], k)
    BY DEF n
  <2>2. SetDone(hash, m_lines, nodes, k, v, i, n, lines)
    BY <2>1, <1>0, <1>1, SetTold
  <2> QED
    BY <2>2, <1>0 DEF SetDone
<1>4. IsFiniteSet(ItemsIn(m_lines, lines)) /\ Cardinality(ItemsIn(m_lines, lines)) = count
  <2>1. /\ IsFiniteSet((Items \ Entry) \cup {<<k, v>>})
        /\ Cardinality((Items \ Entry) \cup {<<k, v>>}) =
               IF Entry = {} THEN Cardinality(Items) + 1 ELSE Cardinality(Items)
    <3>1. Entry = {p \in Items : p[1] = k} /\ <<k, v>>[1] = k
      BY <1>0, EntryTold
    <3>2. <<k, v>> \notin Items \ Entry
      BY <3>1
    <3>3. Entry = {} \/ \E e \in Items : Entry = {e}
      BY EntryShape
    <3> HIDE DEF Items, Entry
    <3> QED
      BY <1>0, <3>2, <3>3, SetCount
  <2> HIDE DEF Items, Entry
  <2> QED
    BY <2>1, <1>0, <1>3
<1>5. count \in Nat /\ count <= m_lines
  BY <1>0
<1> HIDE DEF bits, count
<1>6. /\ HashTable(hash, m_lines', nodes') /\ ItemsIn(m_lines', nodes') = ItemsIn(m_lines, lines)
      /\ line_bits' = Bits(m_lines', nodes') /\ m_lines' \in Grown
      /\ m_lines' <= MaxLines /\ count < m_lines'
  <2>1. CASE m_lines # count
    BY <2>1, <1>0, <1>2, <1>3, <1>5
  <2>2. CASE m_lines = count
    <3>1. TakeOver(lines, bits, m_lines * Multi) /\ m_lines * Multi <= MaxLines
      BY <2>2, <1>2
    <3>2. /\ m_lines' = m_lines * Multi
          /\ nodes' = Moved(hash, Collected(m_lines, lines, bits), m_lines * Multi)
          /\ line_bits' = Bits(m_lines * Multi, nodes')
      BY <3>1, Taken
    <3>3. m_lines * Multi \in Nat \ {0} /\ m_lines * Multi > m_lines /\ m_lines * Multi \in Grown
      BY <1>0, Times, GrownFacts, HashAssumption
    <3>4. PICK d : d = m_lines * Multi
      OBVIOUS
    <3>5. PICK M : M = nodes'
      OBVIOUS
    <3>6. M = Moved(hash, Collected(m_lines, lines, Bits(m_lines, lines)), d) /\ d \in Nat \ {0}
      BY <3>2, <3>3, <3>4, <3>5, <1>3
    <3>7. HashTable(hash, d, M) /\ ItemsIn(d, M) = ItemsIn(m_lines, lines)
      BY <3>6, <1>3, ResizeKeeps
    <3> QED
      BY <3>1, <3>2, <3>3, <3>4, <3>5, <3>7, <2>2
  <2> QED
    BY <2>1, <2>2
<1>7. HashInv'
  BY <1>0, <1>2, <1>4, <1>6 DEF HashInv, Sound
<1>8. ContentOf(hash', m_lines', nodes') = [ContentOf(hash, m_lines, nodes) EXCEPT ![k] = v]
  <2>1. PICK d, M : d = m_lines' /\ M = nodes'
    OBVIOUS
  <2>2. HashTable(hash, d, M) /\ ItemsIn(d, M) = (Items \ Entry) \cup {<<k, v>>}
    BY <2>1, <1>3, <1>6
  <2>3. ContentOf(hash, d, M) = [ContentOf(hash, m_lines, nodes) EXCEPT ![k] = v]
    BY <2>2, <1>0, SetContent
  <2> QED
    BY <2>1, <2>3, <1>2
<1>9. MapShown' = [MapShown EXCEPT ![k] = v] /\ MapShown[k] = ValueIn(hash, m_lines, nodes, k)
  BY <1>8, MapShownIs DEF ContentOf
<1> QED
  BY <1>2, <1>3, <1>7, <1>9 DEF MapAbove!Set, MapShown

LEMMA TakeStep ==
    ASSUME HashInv, NEW k \in Key, TakeKey(k)
    PROVE  HashInv' /\ MapAbove!TakeOut(k)
<1> DEFINE i     == Addressing(k, m_lines)
           n     == IndexIn(nodes[i], k)
           Entry == EntryOf(hash, m_lines, nodes, k)
           Items == ItemsIn(m_lines, nodes)
<1>0. /\ Sound(hash, m_lines, m_count, line_bits, nodes) /\ HashTable(hash, m_lines, nodes)
      /\ hash \in [Key -> Nat] /\ m_lines \in Nat \ {0} /\ m_count \in Nat
      /\ line_bits = Bits(m_lines, nodes) /\ m_count < m_lines
      /\ IsFiniteSet(Items) /\ m_count = Cardinality(Items)
      /\ m_lines \in Grown /\ hash \in HashOf /\ m_lines <= MaxLines
  BY SoundFacts DEF HashInv, Sound
<1>1. i = Addr(hash, k, m_lines)
  BY DEF Addressing, Addr
<1>2. hash' = hash /\ m_lines' = m_lines
  BY DEF TakeKey
<1>3. GetKey(k) = IF n = 0 THEN Nothing ELSE nodes[i][n][2]
  BY DEF GetKey
<1>4. CASE n = 0
  <2>1. said' = Nothing /\ m_count' = m_count /\ nodes' = nodes /\ line_bits' = line_bits
    BY <1>4 DEF TakeKey
  <2>2. HashInv'
    BY <1>0, <1>2, <2>1 DEF HashInv, Sound
  <2>3. MapShown[k] = Nothing /\ MapShown' = MapShown
    <3>1. MapShown' = ContentOf(hash', m_lines', nodes') /\ MapShown = ContentOf(hash, m_lines, nodes)
      BY MapShownIs
    <3>2. MapShown[k] = Nothing
      BY <1>3, <1>4 DEF MapShown
    <3> QED
      BY <3>1, <3>2, <1>2, <2>1
  <2>4. MapShown' = [MapShown EXCEPT ![k] = Nothing]
    BY <2>3 DEF MapShown
  <2> QED
    BY <2>1, <2>2, <2>3, <2>4 DEF MapAbove!TakeOut, MapShown
<1>5. CASE n # 0
  <2> DEFINE r == Without(nodes[i], n)
             M == With(nodes, i, r)
  <2>1. /\ said' = nodes[i][n][2] /\ m_count' = m_count - 1
        /\ nodes' = M /\ line_bits' = IF r = <<>> THEN line_bits \ {i} ELSE line_bits
    BY <1>5 DEF TakeKey, BitsWithout, With
  <2> HIDE DEF i, n, r, M
  <2>2. /\ HashTable(hash, m_lines, M)
        /\ Bits(m_lines, M) = IF r = <<>> THEN Bits(m_lines, nodes) \ {i} ELSE Bits(m_lines, nodes)
        /\ ItemsIn(m_lines, M) = Items \ Entry
        /\ Entry # {}
    <3>1. n = IndexIn(nodes[i], k) /\ r = Without(nodes[i], n) /\ M = With(nodes, i, r)
      BY DEF n, r, M
    <3>2. TakeDone(hash, m_lines, nodes, k, i, r, M)
      BY <3>1, <1>0, <1>1, <1>5, TakeTold
    <3> QED
      BY <3>2 DEF TakeDone
  <2>3. PICK e \in Items : Entry = {e}
    BY <2>2, EntryShape
  <2>4. IsFiniteSet(Items \ {e}) /\ Cardinality(Items \ {e}) = Cardinality(Items) - 1
    <3> HIDE DEF Items
    <3> QED
      BY <1>0, FS_RemoveElement
  <2>5. m_count' < m_lines
    BY <1>0, <2>1
  <2>6. HashInv'
    BY <1>0, <1>2, <2>1, <2>2, <2>3, <2>4, <2>5 DEF HashInv, Sound
  <2>7. ContentOf(hash, m_lines, M) = [ContentOf(hash, m_lines, nodes) EXCEPT ![k] = Nothing]
    BY <1>0, <2>2, TakeContent
  <2>8. MapShown' = [MapShown EXCEPT ![k] = Nothing] /\ MapShown[k] = GetKey(k)
    <3>1. MapShown' = ContentOf(hash', m_lines', nodes') /\ MapShown = ContentOf(hash, m_lines, nodes)
      BY MapShownIs
    <3>2. MapShown[k] = GetKey(k)
      BY DEF MapShown
    <3> QED
      BY <3>1, <3>2, <1>2, <2>1, <2>7
  <2>9. said' = MapShown[k]
    BY <2>1, <2>8, <1>3, <1>5
  <2> QED
    BY <2>6, <2>8, <2>9 DEF MapAbove!TakeOut, MapShown
<1> QED
  BY <1>4, <1>5

LEMMA ClearStep ==
    ASSUME HashInv, ClearMap
    PROVE  HashInv' /\ MapAbove!Clear
<1>0. /\ HashTable(hash, m_lines, nodes) /\ hash \in [Key -> Nat] /\ m_lines \in Nat \ {0}
      /\ line_bits = Bits(m_lines, nodes) /\ m_lines \in Grown /\ hash \in HashOf
      /\ m_lines <= MaxLines
  BY SoundFacts DEF HashInv, Sound
<1>1. /\ nodes' = EmptyLines(m_lines) /\ line_bits' = {} /\ m_count' = 0
      /\ hash' = hash /\ m_lines' = m_lines /\ said' = said
  BY <1>0 DEF ClearMap, Freed, EmptyLines, Bits
<1>2. HashTable(hash, m_lines, EmptyLines(m_lines)) /\ ItemsIn(m_lines, EmptyLines(m_lines)) = {}
  BY <1>0, NoItems
<1>3. Bits(m_lines, EmptyLines(m_lines)) = {}
  BY DEF Bits, EmptyLines
<1>4. HashInv'
  BY <1>0, <1>1, <1>2, <1>3, FS_EmptySet DEF HashInv, Sound
<1>5. ContentOf(hash, m_lines, EmptyLines(m_lines)) = [k \in Key |-> Nothing]
  <2>1. ASSUME NEW k \in Key PROVE ValueIn(hash, m_lines, EmptyLines(m_lines), k) = Nothing
    BY <1>2, ValueFound
  <2> QED
    BY <2>1 DEF ContentOf
<1>6. MapShown' = [k \in Key |-> Nothing]
  BY <1>1, <1>5, MapShownIs
<1> QED
  BY <1>1, <1>4, <1>6 DEF MapAbove!Clear, MapShown

LEMMA ShrinkStep ==
    ASSUME HashInv, Shrink
    PROVE  HashInv' /\ MapShown' = MapShown /\ said' = said
<1>0. /\ HashTable(hash, m_lines, nodes) /\ hash \in [Key -> Nat] /\ m_lines \in Nat \ {0}
      /\ m_count \in Nat /\ line_bits = Bits(m_lines, nodes)
      /\ IsFiniteSet(ItemsIn(m_lines, nodes)) /\ m_count = Cardinality(ItemsIn(m_lines, nodes))
      /\ m_lines \in Grown /\ hash \in HashOf /\ m_lines <= MaxLines
  BY SoundFacts DEF HashInv, Sound
<1>1. /\ m_lines >= m_count * Multi * 2 /\ m_lines # StartCapacity
      /\ TakeOver(nodes, line_bits, m_lines \div Multi)
      /\ hash' = hash /\ m_count' = m_count /\ said' = said
  BY HashAssumption, <1>0 DEF Shrink
<1>2. PICK d \in Grown : m_lines = d * Multi
  BY <1>0, <1>1, GrownFacts
<1>3. d \in Nat \ {0} /\ Multi \in Nat \ {0, 1}
  BY GrownFacts, HashAssumption
<1>4. m_lines \div Multi = d /\ d < m_lines /\ d >= m_count * 2
  <2>1. d * Multi > d /\ (d * Multi) \div Multi = d
    BY <1>3, Times
  <2>2. d * Multi >= m_count * Multi * 2 => d >= m_count * 2
    BY <1>0, <1>3, Times
  <2> QED
    BY <1>1, <1>2, <2>1, <2>2
<1>5. m_count < d /\ d <= MaxLines
  BY <1>0, <1>3, <1>4, HashAssumption
<1>6. /\ m_lines' = d /\ nodes' = Moved(hash, Collected(m_lines, nodes, line_bits), d)
      /\ line_bits' = Bits(d, nodes')
  BY <1>1, <1>4, Taken
<1>7. PICK M : M = nodes'
  OBVIOUS
<1>8. HashTable(hash, d, M) /\ ItemsIn(d, M) = ItemsIn(m_lines, nodes)
  <2>1. M = Moved(hash, Collected(m_lines, nodes, Bits(m_lines, nodes)), d)
    BY <1>0, <1>6, <1>7
  <2> QED
    BY <2>1, <1>0, <1>3, ResizeKeeps
<1>9. HashInv'
  BY <1>0, <1>1, <1>5, <1>6, <1>7, <1>8 DEF HashInv, Sound
<1>10. ContentOf(hash, d, M) = ContentOf(hash, m_lines, nodes)
  BY <1>0, <1>8, SameContent
<1> QED
  BY <1>1, <1>6, <1>7, <1>9, <1>10, MapShownIs

LEMMA HashStep == HashInv /\ [HashNext]_hashVars => HashInv' /\ [MapAbove!Next]_<<MapShown, said>>
<1> SUFFICES ASSUME HashInv, [HashNext]_hashVars
             PROVE  HashInv' /\ [MapAbove!Next]_<<MapShown, said>>
  OBVIOUS
<1>1. ASSUME NEW k \in Key, NEW v \in Value, SetKey(k, v)
      PROVE  HashInv' /\ [MapAbove!Next]_<<MapShown, said>>
  BY <1>1, SetStep DEF MapAbove!Next
<1>2. ASSUME NEW k \in Key, TakeKey(k)
      PROVE  HashInv' /\ [MapAbove!Next]_<<MapShown, said>>
  BY <1>2, TakeStep DEF MapAbove!Next
<1>3. CASE ClearMap
  BY <1>3, ClearStep DEF MapAbove!Next
<1>4. CASE Shrink
  BY <1>4, ShrinkStep
<1>5. CASE UNCHANGED hashVars
  <2>1. hash' = hash /\ m_lines' = m_lines /\ m_count' = m_count /\ line_bits' = line_bits /\ nodes' = nodes
        /\ said' = said
    BY <1>5 DEF hashVars
  <2>2. HashInv'
    BY <2>1 DEF HashInv
  <2>3. MapShown' = MapShown
    BY <2>1, MapShownIs
  <2> QED
    BY <2>1, <2>2, <2>3
<1> QED
  BY <1>1, <1>2, <1>3, <1>4, <1>5 DEF HashNext

LEMMA InitHash == HashInit => HashInv /\ MapAbove!Init
<1> SUFFICES ASSUME HashInit PROVE HashInv /\ MapAbove!Init
  OBVIOUS
<1>1. /\ hash \in [Key -> Nat] /\ hash \in HashOf /\ m_lines = StartCapacity /\ m_count = 0
      /\ line_bits = {} /\ nodes = EmptyLines(StartCapacity) /\ said = "none"
      /\ StartCapacity \in Nat \ {0} /\ StartCapacity <= MaxLines
  BY HashAssumption DEF HashInit
<1>2. HashTable(hash, StartCapacity, nodes) /\ ItemsIn(StartCapacity, nodes) = {}
  BY <1>1, NoItems
<1>3. Bits(StartCapacity, nodes) = {}
  BY <1>1 DEF Bits, EmptyLines
<1>4. HashInv
  BY <1>1, <1>2, <1>3, GrownFacts, FS_EmptySet DEF HashInv, Sound
<1>5. ASSUME NEW k \in Key PROVE ValueIn(hash, StartCapacity, nodes, k) = Nothing
  BY <1>2, ValueFound
<1>6. MapShown = [k \in Key |-> Nothing]
  BY <1>1, <1>5, MapShownIs DEF ContentOf
<1> QED
  BY <1>1, <1>4, <1>6 DEF MapAbove!Init, MapShown

LEMMA HashAlways == HashSpec => []HashInv
<1>1. HashInit => HashInv
  BY InitHash
<1>2. HashInv /\ [HashNext]_hashVars => HashInv'
  BY HashStep
<1> QED
  BY <1>1, <1>2, PTL DEF HashSpec

(* The table, its bits and its counters keep their types: the count of items *)
(* never reaches the number of lines (set grows the table in time), and a   *)
(* bit is only set for a line of the table (alloc, set, take_out).          *)
THEOREM HashTypeCorrect == HashSpec => []HashTypeOK
<1>1. HashInv => HashTypeOK
  <2> SUFFICES ASSUME HashInv PROVE HashTypeOK
    OBVIOUS
  <2>1. m_lines \in Nat \ {0} /\ m_count \in Nat /\ MaxLines \in Nat
    BY SoundFacts, HashAssumption DEF HashInv
  <2> QED
    BY <2>1 DEF HashInv, Sound, HashTable, HashTypeOK, Bits, Pair
<1> QED
  BY <1>1, HashAlways, PTL

(* set, take_out, clear and both resizes of the hash map do to what get     *)
(* finds what the map of MapPromise says, and answer what it says: whatever *)
(* the hash function, the sizes and the collisions, a relinked chain has    *)
(* lost nothing and gained nothing.                                         *)
THEOREM HashRefinement == HashSpec => HashIsMap
<1>1. HashInit => MapAbove!Init
  BY InitHash
<1>2. HashInv /\ [HashNext]_hashVars => [MapAbove!Next]_<<MapShown, said>>
  BY HashStep
<1>3. HashInv /\ [HashNext]_hashVars => [MapAbove!Next]_<<[k \in Key |-> GetKey(k)], said>>
  BY <1>2 DEF MapShown
<1> QED
  BY <1>1, <1>3, HashAlways, PTL DEF HashSpec, HashIsMap, MapAbove!Spec

(* foreach, clear and the next resize, who go by the bits of the lines,     *)
(* visit each item that get finds exactly once, and m_count is their number.*)
THEOREM HashVisits == HashSpec => []HashVisitsAll
<1>1. HashInv => HashVisitsAll
  <2> SUFFICES ASSUME HashInv PROVE HashVisitsAll
    OBVIOUS
  <2> DEFINE all == Collected(m_lines, nodes, line_bits)
             Items == ItemsIn(m_lines, nodes)
  <2>0. /\ HashTable(hash, m_lines, nodes) /\ line_bits = Bits(m_lines, nodes)
        /\ IsFiniteSet(Items) /\ m_count = Cardinality(Items) /\ m_count < m_lines
    BY DEF HashInv, Sound
  <2>1. all \in Seq(Pair) /\ Elements(all) = Items /\ Spread(all)
    BY <2>0, CollectedTold
  <2>2. NodesOf(nodes, line_bits) = all
    BY DEF NodesOf, Collected, NodeLists
  <2> HIDE DEF all
  <2>3. Len(all) = Cardinality(Items)
    <3> DEFINE f == [a \in 1 .. Len(all) |-> all[a]]
    <3>1. f \in Bijection(1 .. Len(all), Items)
      <4>1. f \in [1 .. Len(all) -> Items]
        BY <2>1 DEF Elements
      <4>2. IsInjective(f)
        BY <2>1 DEF IsInjective, Spread
      <4>3. \A p \in Items : \E a \in 1 .. Len(all) : f[a] = p
        BY <2>1 DEF Elements
      <4> HIDE DEF f, Items
      <4> QED
        BY <4>1, <4>2, <4>3 DEF Bijection, Injection, Surjection
    <3>2. PICK N : N = Len(all) /\ N \in Nat
      BY <2>1
    <3>3. IsFiniteSet(1 .. N) /\ Cardinality(1 .. N) = N
      <4>1. 1 \in Int /\ N \in Int /\ (N < 1 => N = 0)
        BY <3>2
      <4>2. IsFiniteSet(1 .. N) /\ Cardinality(1 .. N) = IF 1 > N THEN 0 ELSE N - 1 + 1
        BY <4>1, FS_Interval
      <4> QED
        BY <3>2, <4>1, <4>2
    <3>4. f \in Bijection(1 .. N, Items)
      BY <3>1, <3>2
    <3> HIDE DEF f, Items
    <3>5. Cardinality(Items) = Cardinality(1 .. N)
      BY <3>3, <3>4, FS_Bijection DEF ExistsBijection
    <3> QED
      BY <3>2, <3>3, <3>5
  <2>4. {all[n] : n \in DOMAIN all} = Items
    <3>1. DOMAIN all = 1 .. Len(all)
      BY <2>1
    <3> QED
      BY <2>1, <3>1 DEF Elements
  <2>5. Items = {<<k, GetKey(k)>> : k \in {c \in Key : GetKey(c) # Nothing}}
    <3>1. ASSUME NEW p \in Items
          PROVE  p[1] \in Key /\ p = <<p[1], GetKey(p[1])>> /\ GetKey(p[1]) # Nothing
      <4>1. p \in Pair
        BY DEF ItemsIn
      <4>2. p[1] \in Key /\ p = <<p[1], p[2]>>
        BY <4>1 DEF Pair
      <4>3. p[2] = ValueIn(hash, m_lines, nodes, p[1]) /\ p[2] # Nothing
        BY <2>0, <4>2, ValueFound
      <4> QED
        BY <4>2, <4>3, MapShownIs
    <3>2. ASSUME NEW k \in Key, GetKey(k) # Nothing PROVE <<k, GetKey(k)>> \in Items
      BY <2>0, <3>2, ValueFound, MapShownIs
    <3> HIDE DEF Items
    <3> QED
      BY <3>1, <3>2
  <2> QED
    BY <2>0, <2>2, <2>3, <2>4, <2>5 DEF HashVisitsAll
<1> QED
  BY <1>1, HashAlways, PTL

==============================================================================
