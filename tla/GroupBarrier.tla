---------------------------- MODULE GroupBarrier ----------------------------
(****************************************************************************)
(* concurrency/lock/group_barrier.hpp: threads of one group may be inside   *)
(* together, threads of different groups may not.  The barrier is one       *)
(* machine word with three fields; here the fields are three variables, in  *)
(* GroupWord they are the bits of one number.  Every atomic instruction is  *)
(* one action, applied to all three fields at once.                         *)
(****************************************************************************)
EXTENDS Naturals, FiniteSets

CONSTANTS
    Contender,
    Persistent,        \* the threads that call lock(); the others call try_lock()
    Group           \* the group ids, 1 .. total_group_v

ASSUME GroupAssumption ==
    /\ IsFiniteSet(Contender)
    /\ Persistent \subseteq Contender
    /\ Group \subseteq Nat \ {0}

VARIABLES
    m_group,        \* the group that owns the barrier, 0 before the first use
    m_owner,        \* how many locks that group holds
    m_active,       \* m_owner + threads that are trying
    stage,
    group,          \* the group a thread asks for or belongs to
    index           \* what try_lock returned: the thread's number in the group

word == <<m_group, m_owner, m_active>>
groupVars == <<word, stage, group, index>>

GroupInit ==
    /\ m_group = 0 /\ m_owner = 0 /\ m_active = 0
    /\ stage = [t \in Contender |-> "idle"]
    /\ group = [t \in Contender |-> 0]
    /\ index = [t \in Contender |-> 0]

Goto(t, label) == stage' = [stage EXCEPT ![t] = label]

AskFor(t, g) ==
    /\ stage[t] = "idle"
    /\ group' = [group EXCEPT ![t] = g]
    /\ Goto(t, "enter")
    /\ UNCHANGED <<word, index>>

(* Plausible mistakes in the code below.  None is part of the model: each   *)
(* stands for the definition it is named after and must break a property.   *)

EnterFirst_OwnerFree(t) ==
    /\ stage[t] = "enter"
    /\ m_owner = 0
    /\ m_active' = m_active + 1
    /\ index' = [index EXCEPT ![t] = m_owner]
    /\ Goto(t, "change")
    /\ UNCHANGED <<m_group, m_owner, group>>

EnterMember_OwnerLeft(t) ==
    /\ stage[t] = "enter"
    /\ m_active # 0 /\ m_group = group[t]
    /\ m_active' = m_active + 1
    /\ Goto(t, "join")
    /\ UNCHANGED <<m_group, m_owner, group, index>>

Retreat_AsLeave(t) ==
    /\ stage[t] = "retreat"
    /\ m_owner' = m_owner - 1
    /\ m_active' = m_active - 1
    /\ Goto(t, "refused")
    /\ UNCHANGED <<m_group, group, index>>

Retreat_Forgotten(t) ==
    /\ stage[t] = "retreat"
    /\ Goto(t, "refused")
    /\ UNCHANGED <<word, group, index>>

GroupUnlock_OwnerOnly(t) ==
    /\ stage[t] = "held"
    /\ m_owner' = m_owner - 1
    /\ group' = [group EXCEPT ![t] = 0]
    /\ index' = [index EXCEPT ![t] = 0]
    /\ Goto(t, "idle")
    /\ UNCHANGED <<m_group, m_active>>

------------------------------------------------------------------------------
(* fetch_add(try_enter).  The first one in has to make the group its own;   *)
(* a member of the owning group joins, unless the group is on its way out   *)
(* (m_owner = 0); everybody else takes the increment back.                  *)
EnterFirst(t) ==
    /\ stage[t] = "enter"
    /\ m_active = 0
    /\ m_active' = m_active + 1
    /\ index' = [index EXCEPT ![t] = m_owner]
    /\ Goto(t, "change")
    /\ UNCHANGED <<m_group, m_owner, group>>

EnterMember(t) ==
    /\ stage[t] = "enter"
    /\ m_active # 0 /\ m_group = group[t] /\ m_owner # 0
    /\ m_active' = m_active + 1
    /\ Goto(t, "join")
    /\ UNCHANGED <<m_group, m_owner, group, index>>

EnterOther(t) ==
    /\ stage[t] = "enter"
    /\ m_active # 0 /\ (m_group # group[t] \/ m_owner = 0)
    /\ m_active' = m_active + 1
    /\ Goto(t, "retreat")
    /\ UNCHANGED <<m_group, m_owner, group, index>>

(* fetch_add(change_group): the group is replaced and m_owner incremented   *)
Change(t) ==
    /\ stage[t] = "change"
    /\ m_group' = group[t]
    /\ m_owner' = m_owner + 1
    /\ Goto(t, "held")
    /\ UNCHANGED <<m_active, group, index>>

(* fetch_add(new_member)                                                    *)
Join(t) ==
    /\ stage[t] = "join"
    /\ m_owner' = m_owner + 1
    /\ index' = [index EXCEPT ![t] = m_owner]
    /\ Goto(t, "held")
    /\ UNCHANGED <<m_group, m_active, group>>

(* fetch_sub(try_enter)                                                     *)
Retreat(t) ==
    /\ stage[t] = "retreat"
    /\ m_active' = m_active - 1
    /\ Goto(t, "refused")
    /\ UNCHANGED <<m_group, m_owner, group, index>>

(* lock() yields and tries again, a caller of try_lock() goes away          *)
TryAgain(t) ==
    /\ stage[t] = "refused"
    /\ t \in Persistent
    /\ Goto(t, "enter")
    /\ UNCHANGED <<word, group, index>>

TurnAway(t) ==
    /\ stage[t] = "refused"
    /\ t \notin Persistent
    /\ group' = [group EXCEPT ![t] = 0]
    /\ Goto(t, "idle")
    /\ UNCHANGED <<word, index>>

GroupUnlock(t) ==
    /\ stage[t] = "held"
    /\ m_owner' = m_owner - 1
    /\ m_active' = m_active - 1
    /\ group' = [group EXCEPT ![t] = 0]
    /\ index' = [index EXCEPT ![t] = 0]
    /\ Goto(t, "idle")
    /\ UNCHANGED m_group

GroupStep(t) ==
    \/ EnterFirst(t) \/ EnterMember(t) \/ EnterOther(t)
    \/ Change(t) \/ Join(t) \/ Retreat(t) \/ TryAgain(t) \/ TurnAway(t) \/ GroupUnlock(t)

GroupNext == \E t \in Contender : GroupStep(t) \/ \E g \in Group : AskFor(t, g)

GroupSpec == GroupInit /\ [][GroupNext]_groupVars

(* Threads inside the barrier keep running, and holders unlock.             *)
GroupFairSpec == GroupSpec /\ \A t \in Contender : WF_groupVars(GroupStep(t))

------------------------------------------------------------------------------
Counted == {t \in Contender : stage[t] \in {"change", "join", "retreat", "held"}}
Inside == {t \in Contender : stage[t] = "held"}

(* Values of the variables; whoever passed AskFor has a group.              *)
GroupTypeOK ==
    /\ m_group \in Group \cup {0} /\ m_owner \in Nat /\ m_active \in Nat
    /\ stage \in [Contender -> {"idle", "enter", "change", "join", "retreat", "refused", "held"}]
    /\ group \in [Contender -> Group \cup {0}]
    /\ index \in [Contender -> Nat]
    /\ \A t \in Contender : stage[t] # "idle" => group[t] \in Group

(* Comment of the fields (lines 45 to 54): m_owner counts the locks held,   *)
(* m_active those and every other thread that is trying.  The word is empty *)
(* again when everybody left, whatever the attempts in between.             *)
CountersExact ==
    /\ m_active = Cardinality(Counted)
    /\ m_owner = Cardinality(Inside)

(* A thread that is changing the group is alone with threads about to       *)
(* retreat; holders and threads about to join belong to the owning group.   *)
GroupAgreed ==
    /\ \A t, u \in Contender :
        stage[t] = "change" /\ stage[u] \in {"change", "join", "held"} => t = u
    /\ \A t \in Contender : stage[t] \in {"join", "held"} => group[t] = m_group

(* Only one group is inside (comment of the class, line 34).                *)
OneGroup == \A t, u \in Inside : group[t] = group[u]

(* Comment of unlock (lines 142, 143): the group is replaced only when      *)
(* releases have balanced acquisitions and nobody uses the lock.            *)
GroupChangesWhenUnused ==
    [][m_group' # m_group => m_owner = 0 /\ Inside = {}]_groupVars

(* A thread in lock() gets in once the others are outside: attempts that    *)
(* were refused leave nothing behind in m_active that would keep it out.    *)
EntryWhenAlone ==
    \A t \in Persistent :
        <>[](\A u \in Contender \ {t} : stage[u] = "idle")
        => ((stage[t] # "idle") ~> (stage[t] = "held"))
==============================================================================
