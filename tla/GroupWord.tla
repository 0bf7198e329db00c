------------------------------ MODULE GroupWord ------------------------------
(****************************************************************************)
(* group_barrier.hpp bit by bit: m_group, m_owner and m_active are bit      *)
(* fields of one machine word, low bits first, and every operation is one   *)
(* fetch_add or fetch_sub on the whole word, whose carries run from one     *)
(* field into the next.  In particular a change of group adds a difference  *)
(* that may wrap around in the field m_group, and then its carry is what    *)
(* increments m_owner (lines 105 to 120).                                   *)
(****************************************************************************)
EXTENDS Naturals, FiniteSets

CONSTANTS
    Caller, Waiter, GroupId,
    GroupSize,      \* 2 ^ (index_of_last_set(total_group_v) + 1)
    OwnerSize, ActiveSize   \* the values of the other fields: 2 ^ bits

ASSUME WidthAssumption ==
    /\ IsFiniteSet(Caller) /\ Waiter \subseteq Caller
    /\ GroupSize \in Nat \ {0} /\ OwnerSize \in Nat \ {0} /\ ActiveSize \in Nat \ {0}
    /\ GroupId \subseteq 1 .. GroupSize - 1
    /\ Cardinality(Caller) < OwnerSize /\ Cardinality(Caller) < ActiveSize

Size == GroupSize * (OwnerSize * ActiveSize)

(* group_barrier(group, owner, active): a bit field keeps the low bits      *)
Pack(g, o, a) ==
    (g % GroupSize) + GroupSize * ((o % OwnerSize) + OwnerSize * (a % ActiveSize))

GroupOf(w)  == w % GroupSize
OwnerOf(w)  == (w \div GroupSize) % OwnerSize
ActiveOf(w) == (w \div GroupSize) \div OwnerSize

TryEnter   == Pack(0, 0, 1)
NewMember  == Pack(0, 1, 0)
LeaveValue == Pack(0, 1, 1)

(* A mistake: the owner is added although the carry brings it already.      *)
ChangeGroup_AddsOwner(g, old) == Pack(g + GroupSize - GroupOf(old), 1, 0)

(* offset = group - old.m_group, in uxx, cut to the width of the field      *)
ChangeGroup(g, old) ==
    Pack(g + GroupSize - GroupOf(old), IF g >= GroupOf(old) THEN 1 ELSE 0, 0)

Plus(w, value)  == (w + value) % Size
Minus(w, value) == (w + Size - value) % Size

VARIABLES
    bits,
    at, wants, number,
    change_group          \* change_group, computed from the old word

wordVars == <<bits, at, wants, number, change_group>>

WordInit ==
    /\ bits = 0
    /\ at = [t \in Caller |-> "idle"]
    /\ wants = [t \in Caller |-> 0]
    /\ number = [t \in Caller |-> 0]
    /\ change_group = [t \in Caller |-> 0]

Move(t, label) == at' = [at EXCEPT ![t] = label]

WordCall(t, g) ==
    /\ at[t] = "idle"
    /\ wants' = [wants EXCEPT ![t] = g]
    /\ Move(t, "enter")
    /\ UNCHANGED <<bits, number, change_group>>

(* fetch_add(try_enter) and the decision on the old value                   *)
WordEnter(t) ==
    /\ at[t] = "enter"
    /\ bits' = Plus(bits, TryEnter)
    /\ \/ /\ ActiveOf(bits) = 0
          /\ change_group' = [change_group EXCEPT ![t] = ChangeGroup(wants[t], bits)]
          /\ number' = [number EXCEPT ![t] = OwnerOf(bits)]
          /\ Move(t, "change")
       \/ /\ ActiveOf(bits) # 0
          /\ Move(t, IF GroupOf(bits) # wants[t] \/ OwnerOf(bits) = 0 THEN "retreat" ELSE "join")
          /\ UNCHANGED <<change_group, number>>
    /\ UNCHANGED wants

WordChange(t) ==
    /\ at[t] = "change"
    /\ bits' = Plus(bits, change_group[t])
    /\ change_group' = [change_group EXCEPT ![t] = 0]
    /\ Move(t, "held")
    /\ UNCHANGED <<wants, number>>

WordJoin(t) ==
    /\ at[t] = "join"
    /\ bits' = Plus(bits, NewMember)
    /\ number' = [number EXCEPT ![t] = OwnerOf(bits)]
    /\ Move(t, "held")
    /\ UNCHANGED <<wants, change_group>>

WordRetreat(t) ==
    /\ at[t] = "retreat"
    /\ bits' = Minus(bits, TryEnter)
    /\ Move(t, "refused")
    /\ UNCHANGED <<wants, number, change_group>>

WordRetry(t) ==
    /\ at[t] = "refused"
    /\ t \in Waiter
    /\ Move(t, "enter")
    /\ UNCHANGED <<bits, wants, number, change_group>>

WordGiveUp(t) ==
    /\ at[t] = "refused"
    /\ t \notin Waiter
    /\ wants' = [wants EXCEPT ![t] = 0]
    /\ Move(t, "idle")
    /\ UNCHANGED <<bits, number, change_group>>

WordUnlock(t) ==
    /\ at[t] = "held"
    /\ bits' = Minus(bits, LeaveValue)
    /\ wants' = [wants EXCEPT ![t] = 0]
    /\ number' = [number EXCEPT ![t] = 0]
    /\ Move(t, "idle")
    /\ UNCHANGED change_group

WordNext ==
    \E t \in Caller :
        \/ WordEnter(t) \/ WordChange(t) \/ WordJoin(t) \/ WordRetreat(t)
        \/ WordRetry(t) \/ WordGiveUp(t) \/ WordUnlock(t)
        \/ \E g \in GroupId : WordCall(t, g)

WordSpec == WordInit /\ [][WordNext]_wordVars

------------------------------------------------------------------------------
(* The packed word behaves as the three separate counters of GroupBarrier:  *)
(* no carry or borrow leaks into a neighbouring field, also when the group  *)
(* number decreases and the carry out of m_group counts the new owner.      *)
Fields == INSTANCE GroupBarrier WITH
    m_group  <- GroupOf(bits),
    m_owner  <- OwnerOf(bits),
    m_active <- ActiveOf(bits),
    stage <- at, group <- wants, index <- number,
    Contender <- Caller, Persistent <- Waiter, Group <- GroupId

RefinesFields == Fields!GroupSpec
==============================================================================
