------------------------- MODULE GroupBarrierProofs -------------------------
(****************************************************************************)
(* GroupBarrier for every finite set of threads and every set of groups:    *)
(* the counters are exact, one group is inside at a time, and the group is  *)
(* replaced only while nobody uses the barrier.                             *)
(****************************************************************************)
EXTENDS GroupBarrier, FiniteSetTheorems, TLAPS

(* The inductive invariant.  The counters are needed because the guards of  *)
(* the code look at numbers: that m_active = 0 means nobody is counted, and *)
(* m_owner # 0 that somebody holds the lock, is what they are counted for.  *)
IInv == GroupTypeOK /\ CountersExact /\ GroupAgreed

LEMMA CountedFinite ==
    /\ IsFiniteSet(Counted) /\ Cardinality(Counted) \in Nat
    /\ IsFiniteSet(Inside) /\ Cardinality(Inside) \in Nat
    /\ Cardinality(Counted) = 0 <=> Counted = {}
    /\ Cardinality(Inside) = 0 <=> Inside = {}
<1>1. Counted \in SUBSET Contender /\ Inside \in SUBSET Contender
  BY DEF Counted, Inside
<1>2. IsFiniteSet(Counted) /\ IsFiniteSet(Inside)
  BY <1>1, FS_Subset, GroupAssumption
<1> QED
  BY <1>2, FS_CardinalityType, FS_EmptySet

LEMMA OneMore ==
    ASSUME NEW S, NEW x, IsFiniteSet(S), x \notin S
    PROVE  Cardinality(S \cup {x}) = Cardinality(S) + 1
BY FS_AddElement

LEMMA OneLess ==
    ASSUME NEW S, NEW x, IsFiniteSet(S), x \in S
    PROVE  Cardinality(S \ {x}) = Cardinality(S) - 1
BY FS_RemoveElement

LEMMA InitIInv == GroupInit => IInv
<1> SUFFICES ASSUME GroupInit PROVE IInv
  OBVIOUS
<1>1. GroupTypeOK
  BY GroupAssumption DEF GroupInit, GroupTypeOK
<1>2. Counted = {} /\ Inside = {}
  BY DEF GroupInit, Counted, Inside
<1>3. CountersExact
  BY <1>2, FS_EmptySet DEF GroupInit, CountersExact
<1>4. GroupAgreed
  BY DEF GroupInit, GroupAgreed
<1> QED
  BY <1>1, <1>3, <1>4 DEF IInv

(* Steps outside the word: nobody is counted or uncounted.                  *)
LEMMA OutsideStep ==
    ASSUME IInv, NEW t \in Contender,
           TryAgain(t) \/ TurnAway(t) \/ \E g \in Group : AskFor(t, g)
    PROVE  IInv'
<1>1. GroupTypeOK'
  BY DEF IInv, GroupTypeOK, TryAgain, TurnAway, AskFor, Goto, word
<1>2. Counted' = Counted /\ Inside' = Inside
  BY DEF IInv, GroupTypeOK, TryAgain, TurnAway, AskFor, Goto, Counted, Inside
<1>3. CountersExact'
  BY <1>2 DEF IInv, CountersExact, TryAgain, TurnAway, AskFor, word
<1>4. GroupAgreed'
  BY DEF IInv, GroupTypeOK, GroupAgreed, TryAgain, TurnAway, AskFor, Goto, word
<1> QED
  BY <1>1, <1>3, <1>4 DEF IInv

(* fetch_add(try_enter), whatever it finds: one more thread is counted.     *)
LEMMA EnterStep ==
    ASSUME IInv, NEW t \in Contender,
           EnterFirst(t) \/ EnterMember(t) \/ EnterOther(t)
    PROVE  IInv'
<1>1. GroupTypeOK'
  BY DEF IInv, GroupTypeOK, EnterFirst, EnterMember, EnterOther, Goto
<1>2. /\ t \notin Counted /\ Counted' = Counted \cup {t}
      /\ Inside' = Inside
  BY DEF IInv, GroupTypeOK, EnterFirst, EnterMember, EnterOther, Goto, Counted, Inside
<1>3. m_active' = m_active + 1 /\ m_owner' = m_owner
  BY DEF EnterFirst, EnterMember, EnterOther
<1>4. CountersExact'
  BY <1>2, <1>3, CountedFinite, OneMore DEF IInv, CountersExact
<1>5. GroupAgreed'
  <2>1. CASE EnterFirst(t)
    <3>1. Counted = {}
      BY <2>1, CountedFinite DEF EnterFirst, IInv, CountersExact
    <3>2. \A u \in Contender : stage[u] \notin {"change", "join", "held"}
      BY <3>1 DEF Counted
    <3> QED
      BY <2>1, <3>2 DEF EnterFirst, Goto, IInv, GroupTypeOK, GroupAgreed
  <2>2. CASE EnterMember(t)
    <3>1. Inside # {}
      BY <2>2, CountedFinite DEF EnterMember, IInv, CountersExact
    <3>2. \A u \in Contender : stage[u] # "change"
      BY <3>1 DEF Inside, IInv, GroupAgreed
    <3> QED
      BY <2>2, <3>2 DEF EnterMember, Goto, IInv, GroupTypeOK, GroupAgreed
  <2>3. CASE EnterOther(t)
    BY <2>3 DEF EnterOther, Goto, IInv, GroupTypeOK, GroupAgreed
  <2> QED
    BY <2>1, <2>2, <2>3
<1> QED
  BY <1>1, <1>4, <1>5 DEF IInv

(* fetch_add of change_group or new_member: one more holder.                *)
LEMMA HoldStep ==
    ASSUME IInv, NEW t \in Contender, Change(t) \/ Join(t)
    PROVE  IInv'
<1>1. GroupTypeOK'
  BY DEF IInv, GroupTypeOK, Change, Join, Goto
<1>2. /\ t \notin Inside /\ Inside' = Inside \cup {t}
      /\ Counted' = Counted
  BY DEF IInv, GroupTypeOK, Change, Join, Goto, Counted, Inside
<1>3. m_active' = m_active /\ m_owner' = m_owner + 1
  BY DEF Change, Join
<1>4. CountersExact'
  BY <1>2, <1>3, CountedFinite, OneMore DEF IInv, CountersExact
<1>5. GroupAgreed'
  BY DEF IInv, GroupTypeOK, GroupAgreed, Change, Join, Goto
<1> QED
  BY <1>1, <1>4, <1>5 DEF IInv

LEMMA RetreatStep ==
    ASSUME IInv, NEW t \in Contender, Retreat(t)
    PROVE  IInv'
<1>1. /\ t \in Counted /\ Counted' = Counted \ {t}
      /\ Inside' = Inside
  BY DEF IInv, GroupTypeOK, Retreat, Goto, Counted, Inside
<1>2. m_active' = m_active - 1 /\ m_owner' = m_owner
  BY DEF Retreat
<1>3. CountersExact'
  BY <1>1, <1>2, CountedFinite, OneLess DEF IInv, CountersExact
<1>4. m_active' \in Nat
  BY <1>1, <1>2, CountedFinite DEF IInv, GroupTypeOK, CountersExact
<1>5. GroupTypeOK'
  BY <1>4 DEF IInv, GroupTypeOK, Retreat, Goto
<1>6. GroupAgreed'
  BY DEF IInv, GroupTypeOK, GroupAgreed, Retreat, Goto
<1> QED
  BY <1>3, <1>5, <1>6 DEF IInv

LEMMA UnlockStep ==
    ASSUME IInv, NEW t \in Contender, GroupUnlock(t)
    PROVE  IInv'
<1>1. /\ t \in Counted /\ Counted' = Counted \ {t}
      /\ t \in Inside /\ Inside' = Inside \ {t}
  BY DEF IInv, GroupTypeOK, GroupUnlock, Goto, Counted, Inside
<1>2. m_active' = m_active - 1 /\ m_owner' = m_owner - 1
  BY DEF GroupUnlock
<1>3. CountersExact'
  BY <1>1, <1>2, CountedFinite, OneLess DEF IInv, CountersExact
<1>4. m_active' \in Nat /\ m_owner' \in Nat
  BY <1>1, <1>2, CountedFinite DEF IInv, GroupTypeOK, CountersExact
<1>5. GroupTypeOK'
  BY <1>4 DEF IInv, GroupTypeOK, GroupUnlock, Goto
<1>6. GroupAgreed'
  BY DEF IInv, GroupTypeOK, GroupAgreed, GroupUnlock, Goto
<1> QED
  BY <1>3, <1>5, <1>6 DEF IInv

LEMMA NextIInv == IInv /\ [GroupNext]_groupVars => IInv'
<1> SUFFICES ASSUME IInv, [GroupNext]_groupVars PROVE IInv'
  OBVIOUS
<1>1. CASE UNCHANGED groupVars
  BY <1>1 DEF groupVars, word, IInv, GroupTypeOK, CountersExact, GroupAgreed, Counted, Inside
<1>2. ASSUME NEW t \in Contender, GroupStep(t) \/ \E g \in Group : AskFor(t, g)
      PROVE  IInv'
  BY <1>2, OutsideStep, EnterStep, HoldStep, RetreatStep, UnlockStep DEF GroupStep
<1> QED
  BY <1>1, <1>2 DEF GroupNext

(* The invariant the other theorems rest on, of which GroupTypeOK,          *)
(* CountersExact and GroupAgreed are parts.                                 *)
THEOREM Invariance == GroupSpec => []IInv
BY InitIInv, NextIInv, PTL DEF GroupSpec

(* m_owner and m_active always count exactly the holders and the threads    *)
(* between their two atomic additions: no attempt leaves a trace.           *)
THEOREM Counters == GroupSpec => []CountersExact
<1>1. IInv => CountersExact
  BY DEF IInv
<1> QED
  BY <1>1, Invariance, PTL

(* Two threads inside the barrier belong to one group.                      *)
THEOREM OneGroupInside == GroupSpec => []OneGroup
<1>1. IInv => OneGroup
  BY DEF IInv, GroupAgreed, OneGroup, Inside
<1> QED
  BY <1>1, Invariance, PTL

(* A step that replaces the owning group is taken while nobody holds a lock.*)
THEOREM ChangeWhenUnused == GroupSpec => GroupChangesWhenUnused
<1>1. IInv /\ [GroupNext]_groupVars => [m_group' # m_group => m_owner = 0 /\ Inside = {}]_groupVars
  <2> SUFFICES ASSUME IInv, [GroupNext]_groupVars, m_group' # m_group
               PROVE  m_owner = 0 /\ Inside = {}
    OBVIOUS
  <2>1. PICK t \in Contender : Change(t)
    BY DEF GroupNext, GroupStep, EnterFirst, EnterMember, EnterOther, Join, Retreat, TryAgain, TurnAway,
           GroupUnlock, AskFor, groupVars, word
  <2>2. Inside = {}
    BY <2>1 DEF Change, IInv, GroupAgreed, Inside
  <2> QED
    BY <2>2, CountedFinite DEF IInv, CountersExact
<1> QED
  BY <1>1, Invariance, PTL DEF GroupSpec, GroupChangesWhenUnused
==============================================================================
