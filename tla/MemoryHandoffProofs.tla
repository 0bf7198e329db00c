------------------------- MODULE MemoryHandoffProofs -------------------------
(****************************************************************************)
(* Proofs about MemoryHandoff, for any number of threads, objects and       *)
(* tokens: what HandoffSafe and AllAccounted say holds in every reachable   *)
(* state.                                                                   *)
(*                                                                          *)
(* The argument.  A list is a chain: the least set of objects that has the  *)
(* first node and is closed under Succession, the successor every node has  *)
(* once the links under way are made.  Pushes race with pops, but each step *)
(* changes Succession at one node at most (a swap of the tail appends a     *)
(* node, the splice of a hand-over a whole chain), so that the chain of a   *)
(* list stays the set of the objects returned to it (Listing) and no node   *)
(* follows two others (OneWay).  What a push is about to link to is the end *)
(* of what is linked (Links), and a walk never frees that end (Walks).  The *)
(* two counters of a token keep the hand-over from overtaking a push        *)
(* (Pushes), and async_returned counts a list but for the pushes that have  *)
(* not counted yet (Accounts): a thread that counts all as returned has all *)
(* of its objects on its list.                                              *)
(****************************************************************************)
EXTENDS MemoryHandoff, FiniteSetTheorems, TLAPS

------------------------------------------------------------------------------
(* Chains                                                                   *)

Node == Object \cup AnyToken

(* The objects of a chain that begins with x (Null: it is empty) *)
Chain(x, f) ==
    {o \in Object : \A S \in SUBSET Object :
        (x \in S \cup {Null} /\ \A m \in S : f[m] \in S \cup {Null}) => o \in S}

Successors == [Node -> Object \cup {Null}]

LEMMA NullApart == Null \notin Object /\ Null \notin AnyToken /\ Object \cap AnyToken = {}
  BY HandoffAssumption DEF AnyToken

LEMMA ChainClosed ==
    ASSUME NEW f \in Successors, NEW x \in Object \cup {Null}
    PROVE  /\ Chain(x, f) \subseteq Object
           /\ x \in Chain(x, f) \cup {Null}
           /\ \A m \in Chain(x, f) : f[m] \in Chain(x, f) \cup {Null}
  <1>1. x \in Chain(x, f) \cup {Null}
    BY DEF Chain
  <1>2. ASSUME NEW m \in Chain(x, f) PROVE f[m] \in Chain(x, f) \cup {Null}
    <2>1. m \in Object /\ f[m] \in Object \cup {Null}
      BY DEF Chain, Successors, Node
    <2>2. ASSUME f[m] # Null,
                 NEW S \in SUBSET Object, x \in S \cup {Null},
                 \A k \in S : f[k] \in S \cup {Null}
          PROVE  f[m] \in S
      <3>1. m \in S
        BY <1>2, <2>2 DEF Chain
      <3> QED
        BY <3>1, <2>2
    <2> QED
      BY <2>1, <2>2 DEF Chain
  <1> QED
    BY <1>1, <1>2 DEF Chain

LEMMA ChainLeast ==
    ASSUME NEW f, NEW x, NEW S \in SUBSET Object, x \in S \cup {Null},
           \A m \in S : f[m] \in S \cup {Null}
    PROVE  Chain(x, f) \subseteq S
  BY DEF Chain

LEMMA ChainNull ==
    ASSUME NEW f PROVE Chain(Null, f) = {}
  <1>1. Null \in {} \cup {Null} /\ {} \in SUBSET Object /\ \A m \in {} : f[m] \in {} \cup {Null}
    OBVIOUS
  <1>2. Chain(Null, f) \subseteq {}
    BY <1>1 DEF Chain
  <1> QED
    BY <1>2

(* A chain is as it was when its nodes keep their successors *)
LEMMA ChainSame ==
    ASSUME NEW f \in Successors, NEW g \in Successors, NEW x \in Object \cup {Null},
           \A m \in Chain(x, f) : g[m] = f[m]
    PROVE  Chain(x, g) = Chain(x, f)
  <1>1. Chain(x, g) \subseteq Chain(x, f)
    <2>1. Chain(x, f) \in SUBSET Object /\ x \in Chain(x, f) \cup {Null}
      BY ChainClosed
    <2>2. \A m \in Chain(x, f) : g[m] \in Chain(x, f) \cup {Null}
      BY ChainClosed
    <2> QED
      BY <2>1, <2>2, ChainLeast
  <1>2. Chain(x, f) \subseteq Chain(x, g)
    <2>1. Chain(x, g) \in SUBSET Object /\ x \in Chain(x, g) \cup {Null}
      BY ChainClosed
    <2>2. \A m \in Chain(x, g) : f[m] \in Chain(x, g) \cup {Null}
      BY ChainClosed, <1>1
    <2> QED
      BY <2>1, <2>2, ChainLeast
  <1> QED
    BY <1>1, <1>2

(* The rest of a chain: its first node is not found again in it *)
LEMMA ChainRest ==
    ASSUME NEW f \in Successors, NEW x \in Object,
           \A m \in Chain(x, f) : f[m] # x
    PROVE  Chain(f[x], f) = Chain(x, f) \ {x}
  <1>0. f[x] \in Object \cup {Null} /\ Null \notin Object
    BY NullApart DEF Successors, Node
  <1>1. x \in Chain(x, f) /\ f[x] # x
    BY ChainClosed, <1>0
  <1>2. Chain(f[x], f) \subseteq Chain(x, f) \ {x}
    <2>1. (Chain(x, f) \ {x}) \in SUBSET Object
      BY ChainClosed
    <2>2. f[x] \in (Chain(x, f) \ {x}) \cup {Null}
      BY <1>1, ChainClosed
    <2>3. \A m \in Chain(x, f) \ {x} : f[m] \in (Chain(x, f) \ {x}) \cup {Null}
      BY ChainClosed
    <2> QED
      BY <2>1, <2>2, <2>3, ChainLeast
  <1>3. Chain(x, f) \subseteq {x} \cup Chain(f[x], f)
    <2> DEFINE S == {x} \cup Chain(f[x], f)
    <2>1. S \in SUBSET Object /\ x \in S
      BY ChainClosed, <1>0
    <2>2. \A m \in S : f[m] \in S \cup {Null}
      BY ChainClosed, <1>0
    <2> QED
      BY <2>1, <2>2, ChainLeast
  <1> QED
    BY <1>1, <1>2, <1>3

(* Two chains put together: the last node z of the first gets y as its *)
(* successor                                                           *)
LEMMA ChainJoin ==
    ASSUME NEW f \in Successors, NEW g \in Successors, NEW x \in Object, NEW y \in Object,
           NEW z \in Chain(x, f), f[z] = Null, g[z] = y,
           \A m \in (Chain(x, f) \cup Chain(y, f)) \ {z} : g[m] = f[m],
           z \notin Chain(y, f)
    PROVE  Chain(x, g) = Chain(x, f) \cup Chain(y, f)
  <1> DEFINE S == Chain(x, f) \cup Chain(y, f)
  <1>0. /\ Chain(x, f) \subseteq Object /\ Chain(y, f) \subseteq Object /\ Chain(x, g) \subseteq Object
        /\ x \in Chain(x, f) /\ y \in Chain(y, f) /\ x \in Chain(x, g)
        /\ Null \notin Object
    BY ChainClosed, NullApart
  <1>1. \A m \in Chain(x, f) : f[m] \in Chain(x, f) \cup {Null}
    BY ChainClosed
  <1>2. \A m \in Chain(y, f) : f[m] \in Chain(y, f) \cup {Null}
    BY ChainClosed
  <1>3. \A m \in Chain(x, g) : g[m] \in Chain(x, g) \cup {Null}
    BY ChainClosed
  <1>4. Chain(x, g) \subseteq S
    <2>1. \A m \in S : g[m] \in S \cup {Null}
      BY <1>0, <1>1, <1>2
    <2>2. S \in SUBSET Object /\ x \in S \cup {Null}
      BY <1>0
    <2> HIDE DEF S
    <2> QED
      BY <2>1, <2>2, ChainLeast
  <1>5. Chain(x, f) \subseteq Chain(x, g)
    <2> DEFINE R == Chain(x, g) \cap Chain(x, f)
    <2>1. \A m \in R : f[m] \in R \cup {Null}
      BY <1>0, <1>1, <1>3
    <2>2. R \in SUBSET Object /\ x \in R
      BY <1>0
    <2>3. Chain(x, f) \subseteq R
      BY <2>1, <2>2, ChainLeast
    <2> QED
      BY <2>3
  <1>6. y \in Chain(x, g)
    <2>1. z \in Chain(x, g)
      BY <1>5
    <2> QED
      BY <2>1, <1>3, <1>0
  <1>7. Chain(y, f) \subseteq Chain(x, g)
    <2> DEFINE R == Chain(x, g) \cap Chain(y, f)
    <2>1. \A m \in R : f[m] \in R \cup {Null}
      BY <1>0, <1>2, <1>3
    <2>2. R \in SUBSET Object /\ y \in R
      BY <1>0, <1>6
    <2>3. Chain(y, f) \subseteq R
      BY <2>1, <2>2, ChainLeast
    <2> QED
      BY <2>3
  <1> QED
    BY <1>4, <1>5, <1>7

(* A node o appended behind the last node z *)
LEMMA ChainAppend ==
    ASSUME NEW f \in Successors, NEW g \in Successors, NEW x \in Object, NEW o \in Object,
           NEW z \in Chain(x, f), f[z] = Null, g[z] = o, g[o] = Null,
           o \notin Chain(x, f),
           \A m \in Chain(x, f) \ {z} : g[m] = f[m]
    PROVE  Chain(x, g) = Chain(x, f) \cup {o}
  <1> DEFINE S == Chain(x, f) \cup {o}
  <1>0. /\ Chain(x, f) \subseteq Object /\ Chain(x, g) \subseteq Object
        /\ x \in Chain(x, f) /\ x \in Chain(x, g) /\ Null \notin Object
    BY ChainClosed, NullApart
  <1>1. \A m \in Chain(x, f) : f[m] \in Chain(x, f) \cup {Null}
    BY ChainClosed
  <1>3. \A m \in Chain(x, g) : g[m] \in Chain(x, g) \cup {Null}
    BY ChainClosed
  <1>4. Chain(x, g) \subseteq S
    <2>1. \A m \in S : g[m] \in S \cup {Null}
      BY <1>0, <1>1
    <2>2. S \in SUBSET Object /\ x \in S \cup {Null}
      BY <1>0
    <2> HIDE DEF S
    <2> QED
      BY <2>1, <2>2, ChainLeast
  <1>5. Chain(x, f) \subseteq Chain(x, g)
    <2> DEFINE R == Chain(x, g) \cap Chain(x, f)
    <2>1. \A m \in R : f[m] \in R \cup {Null}
      BY <1>0, <1>1, <1>3
    <2>2. R \in SUBSET Object /\ x \in R
      BY <1>0
    <2>3. Chain(x, f) \subseteq R
      BY <2>1, <2>2, ChainLeast
    <2> QED
      BY <2>3
  <1>6. o \in Chain(x, g)
    BY <1>5, <1>3, <1>0
  <1> QED
    BY <1>4, <1>5, <1>6

LEMMA ChainOne ==
    ASSUME NEW g \in Successors, NEW o \in Object, g[o] = Null
    PROVE  Chain(o, g) = {o}
  <1>0. o \in {o} \cup {Null} /\ {o} \in SUBSET Object /\ \A m \in {o} : g[m] \in {o} \cup {Null}
    OBVIOUS
  <1>1. Chain(o, g) \subseteq {o}
    BY <1>0 DEF Chain
  <1>2. o \in Chain(o, g)
    BY ChainClosed, NullApart
  <1> QED
    BY <1>1, <1>2

(* The model's nodes that follow n, in these terms *)
LEMMA FollowingChain ==
    ASSUME NEW f \in Successors, NEW n \in Node
    PROVE  /\ Following(n, f) = Chain(f[n], f)
           /\ n \in Object => {n} \cup Following(n, f) = Chain(n, f)
  <1>1. Following(n, f) = Chain(f[n], f)
    <2>1. \A S \in SUBSET Object :
            (\A m \in S \cup {n} : f[m] \in S \cup {Null})
              <=> (f[n] \in S \cup {Null} /\ \A m \in S : f[m] \in S \cup {Null})
      OBVIOUS
    <2> QED
      BY <2>1 DEF Following, Chain
  <1>2. ASSUME n \in Object PROVE {n} \cup Following(n, f) = Chain(n, f)
    <2>0. f[n] \in Object \cup {Null}
      BY DEF Successors
    <2>1. Chain(n, f) \subseteq {n} \cup Chain(f[n], f)
      <3> DEFINE S == {n} \cup Chain(f[n], f)
      <3>1. S \in SUBSET Object /\ n \in S \cup {Null}
        BY ChainClosed, <1>2, <2>0
      <3>2. \A m \in S : f[m] \in S \cup {Null}
        BY ChainClosed, <2>0
      <3> QED
        BY <3>1, <3>2, ChainLeast
    <2>2. n \in Chain(n, f) /\ f[n] \in Chain(n, f) \cup {Null}
      BY ChainClosed, <1>2, NullApart
    <2>3. Chain(f[n], f) \subseteq Chain(n, f)
      <3>1. Chain(n, f) \in SUBSET Object /\ \A m \in Chain(n, f) : f[m] \in Chain(n, f) \cup {Null}
        BY ChainClosed, <1>2
      <3> QED
        BY <3>1, <2>2, ChainLeast
    <2> QED
      BY <1>1, <2>1, <2>2, <2>3
  <1> QED
    BY <1>1, <1>2

------------------------------------------------------------------------------
(* A thread handing the token t over has not spliced t's list yet.          *)
Splicing(t) == \E th \in Thread : pc[th] = "splice" /\ target[th] = t

(* A hand-over of t is under way.                                           *)
Raising(t) ==
    \E th \in Thread : target[th] = t /\ pc[th] \in {"raise", "splice", "relink", "clear"}

(* The list a returned object is on, and the objects of a list              *)
ListOf(o) == IF owner[home[o]] = home[o] \/ Splicing(home[o]) THEN home[o] ELSE Back
Queue(t)  == {o \in Object : state[o] = "queued" /\ ListOf(o) = t}
Queued    == {o \in Object : state[o] = "queued"}

(* The lists somebody still pops or splices, and the one of a token nobody  *)
(* has yet                                                                  *)
Lists == {Back} \cup {t \in Token \ released : owner[t] = t \/ Splicing(t)}

Linking(th)  == pc[th] \in {"link", "relink"}
IntoList(th) == IF pc[th] = "relink" THEN Back ELSE into[th]
Walking(w)   == pc[w] \in {"walk", "drain"}
Holding(th)  == pc[th] \in {"resume", "pop", "walk", "wait", "load", "swap"}

(* The first object of a list that was not freed yet                        *)
First(t) == IF Walker(t) = {} THEN Succession[t]
            ELSE curr[CHOOSE w \in Walker(t) : TRUE]

(* Pushes that began and did not finish, without those that wait, and those *)
(* that the list has and the counter has not                                *)
Busy(t)     == {th \in Thread : /\ target[th] = t
                                /\ pc[th] \in {"load", "swap", "link", "count", "leave"}}
Counting(t) == {th \in Thread : into[th] = t /\ pc[th] \in {"link", "count"}}

(* What a thread works on                                                   *)
RoleOf(th) ==
    /\ pc[th] \in {"resume", "pop", "walk"} =>
          /\ token[th] # Null /\ obj[th] # Null
          /\ home[obj[th]] = token[th] /\ state[obj[th]] \in {"new", "freeing"}
    /\ pc[th] = "drain" => token[th] # Null
    /\ pc[th] \in {"wait", "load", "swap"} => state[obj[th]] = "freeing"
    /\ pc[th] = "link" => state[obj[th]] = "queued"
    /\ pc[th] \in {"wait", "load", "swap", "link"} =>
          obj[th] # Null /\ target[th] # Null /\ home[obj[th]] = target[th]
    /\ pc[th] \in {"count", "leave"} => target[th] # Null
    /\ pc[th] \in {"raise", "splice", "relink", "clear"} =>
          target[th] # Null /\ target[th] = token[th]
    /\ pc[th] \in {"swap", "link", "count"} => into[th] = owner[target[th]]

Roles ==
    /\ pc[Mem] \in {"idle", "pop", "walk"}
    /\ \A th \in Thread : RoleOf(th)
    /\ \A x, y \in Thread : Holding(x) /\ Holding(y) /\ obj[x] = obj[y] => x = y

(* Whose a token is, and when it was given back                             *)
Tokens ==
    /\ \A o \in Object : home[o] = Null <=> state[o] = "unborn"
    /\ \A o \in Object : home[o] \in used \cup {Null}
    /\ \A th \in Thread : token[th] \in used \cup {Null}
    /\ \A x, y \in Thread : token[x] = token[y] /\ token[x] # Null => x = y
    /\ \A t \in Token : owner[t] \in {t, Back} /\ (t \notin used => owner[t] = t)
    /\ \A t \in released : Active(t) = {}
    /\ \A th \in Thread :
        /\ token[th] # Null /\ pc[th] \notin {"splice", "relink", "clear", "exited"} =>
              token[th] \notin released /\ owner[token[th]] = token[th]
        /\ pc[th] \in {"splice", "relink", "clear"} => owner[target[th]] = Back
        /\ pc[th] = "splice" => target[th] \notin released

(* What i_enter and i_exit count                                            *)
PushesOf(t) ==
    /\ owner[t] = t /\ ~Raising(t) =>
          /\ i_enter[t] = i_exit[t] + 2 * Cardinality(Busy(t))
          /\ \A th \in Thread : ~(pc[th] = "wait" /\ target[th] = t)
    /\ i_exit[t] % 2 = 0
    /\ \A th \in Thread : target[th] = t =>
        /\ pc[th] = "raise" => current[th] = i_exit[t] + 2 * Cardinality(Busy(t))
        /\ pc[th] \in {"raise", "splice", "relink", "clear"} => i_enter[t] % 2 = 1
        /\ pc[th] \in {"splice", "relink", "clear"} => Busy(t) = {}

Pushes == \A t \in Token : PushesOf(t)

(* A list has the objects it should have, in a chain that its tail ends.    *)
Listing ==
    \A t \in Lists :
        /\ Chain(First(t), Succession) = Queue(t)
        /\ tail[t] \in {t} \cup Queue(t)
        /\ Succession[tail[t]] = Null

(* No node follows two nodes, and none is before the first.                 *)
OneWay ==
    /\ \A a, b \in Queued : Succession[a] = Succession[b] /\ Succession[a] # Null => a = b
    /\ \A t \in Lists, a \in Queued : Succession[a] = First(t) => First(t) = Null

(* The links under way                                                      *)
Links ==
    /\ \A th \in Thread : Linking(th) =>
        /\ IntoList(th) \in Lists
        /\ prev[th] \in {IntoList(th)} \cup Queue(IntoList(th))
        /\ next[prev[th]] = Null
        /\ tail[IntoList(th)] # prev[th] /\ tail[IntoList(th)] # IntoList(th)
    /\ \A th \in Thread : pc[th] = "relink" =>
        next[target[th]] \in Queue(Back) /\ home[next[target[th]]] = target[th]
    /\ \A x, y \in Thread : Linking(x) /\ Linking(y) /\ prev[x] = prev[y] => x = y
    /\ \A th \in Thread : pc[th] = "count" /\ into[th] \in Token =>
        into[th] \notin released /\ tail[into[th]] # into[th]

(* The walks under way                                                      *)
Walks ==
    \A w \in Worker : Walking(w) =>
        /\ curr[w] # Null
        /\ tail[List(w)] # List(w)
        /\ \A th \in Thread : Linking(th) => prev[th] # List(w)

(* What async_returned counts: the objects on the list and those the walk   *)
(* has freed, without those that are not counted yet                        *)
Balanced(t) ==
    /\ Walker(t) = {} => async_returned[t] = Cardinality(Queue(t)) - Cardinality(Counting(t))
    /\ \A w \in Walker(t) :
          async_returned[t] = Cardinality(Queue(t)) + count[w] - Cardinality(Counting(t))

(* A thread that drains its list has all of its token's objects there.      *)
Drained(th) ==
    pc[th] = "drain" => Counting(token[th]) = {} /\ Active(token[th]) = Queue(token[th])

Accounts ==
    /\ \A w \in Worker : ~Walking(w) => count[w] = 0
    /\ \A t \in Token \ released : owner[t] = t => Balanced(t)
    /\ \A th \in Thread : Drained(th)

HandoffInv ==
    /\ TypeOK /\ Roles /\ Tokens /\ Pushes
    /\ Listing /\ OneWay /\ Links /\ Walks /\ Accounts

------------------------------------------------------------------------------
(* What the invariant says of a single state                                *)

LEMMA SuccessionTyped ==
    ASSUME TypeOK, Roles
    PROVE  Succession \in Successors
  <1>1. ASSUME NEW n \in Node PROVE Successor(n) \in Object \cup {Null}
    <2> DEFINE linking == {th \in Thread : pc[th] \in {"link", "relink"} /\ prev[th] = n}
    <2>1. CASE linking = {}
      BY <2>1 DEF Successor, TypeOK, Node
    <2>2. CASE linking # {}
      <3> DEFINE x == CHOOSE th \in linking : TRUE
      <3>1. x \in linking
        BY <2>2
      <3>2. obj[x] \in Object \cup {Null} /\ (pc[x] = "relink" => next[target[x]] \in Object \cup {Null})
        BY <3>1 DEF TypeOK, Roles, RoleOf, AnyToken
      <3>3. Successor(n) = IF pc[x] = "link" THEN obj[x] ELSE next[target[x]]
        BY <2>2 DEF Successor
      <3>4. pc[x] = "link" \/ pc[x] = "relink"
        BY <3>1
      <3> QED
        BY <3>2, <3>3, <3>4
    <2> QED
      BY <2>1, <2>2
  <1> QED
    BY <1>1 DEF Succession, Successors, Node

LEMMA SuccessionLink ==
    ASSUME TypeOK, Links, NEW x \in Thread, Linking(x)
    PROVE  Succession[prev[x]] = IF pc[x] = "link" THEN obj[x] ELSE next[target[x]]
  <1> DEFINE linking == {th \in Thread : pc[th] \in {"link", "relink"} /\ prev[th] = prev[x]}
  <1>1. linking = {x}
    BY DEF Links, Linking
  <1>2. (CHOOSE th \in linking : TRUE) = x
    BY <1>1
  <1>3. prev[x] \in Object \cup AnyToken
    BY DEF Links, Queue, Lists, AnyToken
  <1>4. Successor(prev[x]) = IF pc[x] = "link" THEN obj[x] ELSE next[target[x]]
    BY <1>1, <1>2 DEF Successor
  <1> QED
    BY <1>3, <1>4 DEF Succession

LEMMA SuccessionPlain ==
    ASSUME NEW n \in Node, \A x \in Thread : Linking(x) => prev[x] # n
    PROVE  Succession[n] = next[n]
  BY DEF Succession, Successor, Node, Linking

(* A node that has a successor already gets no other one *)
LEMMA SuccessionNext ==
    ASSUME Links, NEW n \in Node, next[n] # Null
    PROVE  Succession[n] = next[n]
  BY SuccessionPlain DEF Links

LEMMA WalkerOnly ==
    ASSUME TypeOK, Roles, Tokens, NEW w \in Worker, Walking(w)
    PROVE  Walker(List(w)) = {w} /\ List(w) \in Lists /\ List(w) \in AnyToken
  <1>1. Mem \notin Thread /\ Worker = Thread \cup {Mem} /\ Back \notin Token /\ Null \notin Token
    BY HandoffAssumption DEF Worker
  <1>2. ASSUME NEW v \in Worker, Walking(v), List(v) = List(w) PROVE v = w
    <2>1. v \in Thread => token[v] \in Token
      BY <1>2 DEF Walking, Roles, RoleOf, TypeOK
    <2>2. w \in Thread => token[w] \in Token
      BY DEF Walking, Roles, RoleOf, TypeOK
    <2>3. v = Mem \/ v \in Thread
      BY <1>1
    <2>4. w = Mem \/ w \in Thread
      BY <1>1
    <2>5. CASE v \in Thread /\ w \in Thread
      <3>1. token[v] = token[w] /\ token[w] # Null
        BY <1>1, <1>2, <2>1, <2>2, <2>5 DEF List
      <3> QED
        BY <3>1, <2>5 DEF Tokens
    <2> QED
      BY <1>1, <1>2, <2>1, <2>2, <2>3, <2>4, <2>5 DEF List
  <1>3. w \in Thread => token[w] \in Token \ released /\ owner[token[w]] = token[w]
    BY <1>1 DEF Walking, Roles, RoleOf, TypeOK, Tokens
  <1>4. List(w) \in Lists
    BY <1>1, <1>3 DEF List, Lists
  <1>5. List(w) \in AnyToken
    BY <1>4 DEF Lists, AnyToken
  <1> QED
    BY <1>2, <1>4, <1>5 DEF Walker, Walking

LEMMA FirstWalked ==
    ASSUME TypeOK, Roles, Tokens, NEW w \in Worker, Walking(w)
    PROVE  First(List(w)) = curr[w]
  <1>1. Walker(List(w)) = {w}
    BY WalkerOnly
  <1>2. (CHOOSE v \in Walker(List(w)) : TRUE) = w
    BY <1>1
  <1> QED
    BY <1>1, <1>2 DEF First

LEMMA FirstTyped ==
    ASSUME TypeOK, Roles, NEW t \in Lists
    PROVE  First(t) \in Object \cup {Null} /\ t \in Node
  <1>1. t \in Node
    BY DEF Lists, Node, AnyToken
  <1>2. CASE Walker(t) = {}
    BY <1>1, <1>2, SuccessionTyped DEF First, Successors
  <1>3. CASE Walker(t) # {}
    <2> DEFINE w == CHOOSE v \in Walker(t) : TRUE
    <2>1. w \in Worker
      BY <1>3 DEF Walker
    <2>2. First(t) = curr[w]
      BY <1>3 DEF First
    <2> HIDE DEF w
    <2> QED
      BY <1>1, <2>1, <2>2 DEF TypeOK
  <1> QED
    BY <1>1, <1>2, <1>3

(* What a walk stands on *)
LEMMA WalkedQueued ==
    ASSUME HandoffInv, NEW w \in Worker, Walking(w)
    PROVE  /\ curr[w] \in Queue(List(w)) /\ curr[w] \in Object /\ curr[w] \in Node
           /\ state[curr[w]] = "queued" /\ ListOf(curr[w]) = List(w)
           /\ home[curr[w]] \in Token /\ home[curr[w]] \in used
  <1>0. TypeOK /\ Roles /\ Tokens /\ Listing /\ Walks
    BY DEF HandoffInv
  <1>1. First(List(w)) = curr[w] /\ List(w) \in Lists
    BY <1>0, FirstWalked, WalkerOnly
  <1>2. curr[w] \in Object
    BY <1>0 DEF TypeOK, Walks
  <1>3. curr[w] \in Chain(curr[w], Succession)
    BY <1>0, <1>2, SuccessionTyped, ChainClosed, NullApart
  <1>4. curr[w] \in Queue(List(w))
    BY <1>0, <1>1, <1>3 DEF Listing
  <1>5. state[curr[w]] = "queued" /\ ListOf(curr[w]) = List(w)
    BY <1>4 DEF Queue
  <1>6. home[curr[w]] # Null
    BY <1>0, <1>2, <1>5 DEF Tokens
  <1> QED
    BY <1>0, <1>2, <1>4, <1>5, <1>6 DEF TypeOK, Node, Tokens

(* The list of a returned object is one of Lists *)
LEMMA ListOfIn ==
    ASSUME TypeOK, Tokens, NEW o \in Queued
    PROVE  /\ ListOf(o) \in Lists /\ o \in Queue(ListOf(o)) /\ home[o] \in Token \ released
           /\ home[o] \in used /\ o \in Active(home[o])
           /\ ListOf(o) # Back => ListOf(o) = home[o]
           /\ ListOf(o) = Back => owner[home[o]] = Back /\ ~Splicing(home[o])
  <1>0. Back \notin Token /\ Null \notin Token
    BY HandoffAssumption
  <1>1. o \in Object /\ state[o] = "queued"
    BY DEF Queued
  <1>2. home[o] \in Token /\ o \in Active(home[o]) /\ home[o] \in used
    BY <1>1 DEF Tokens, TypeOK, Active
  <1>3. home[o] \notin released
    BY <1>2 DEF Tokens
  <1>4. owner[home[o]] \in {home[o], Back}
    BY <1>2 DEF Tokens
  <1> QED
    BY <1>0, <1>1, <1>2, <1>3, <1>4 DEF ListOf, Lists, Queue

LEMMA QueueNext ==
    ASSUME HandoffInv, NEW t \in Lists, NEW o \in Queue(t)
    PROVE  Succession[o] \in Queue(t) \cup {Null} /\ o \in Object /\ o \in Node /\ o \in Queued
  <1>0. TypeOK /\ Roles /\ Tokens /\ Listing
    BY DEF HandoffInv
  <1>1. o \in Object /\ o \in Node /\ o \in Queued
    BY DEF Queue, Node, Queued
  <1>2. First(t) \in Object \cup {Null} /\ Chain(First(t), Succession) = Queue(t)
    BY <1>0, FirstTyped DEF Listing
  <1>3. Succession[o] \in Chain(First(t), Succession) \cup {Null}
    BY <1>0, <1>2, SuccessionTyped, ChainClosed
  <1> QED
    BY <1>1, <1>2, <1>3

LEMMA FirstQueued ==
    ASSUME HandoffInv, NEW t \in Lists
    PROVE  First(t) \in Queue(t) \cup {Null}
  <1>0. TypeOK /\ Roles /\ Listing
    BY DEF HandoffInv
  <1>2. First(t) \in Object \cup {Null} /\ Chain(First(t), Succession) = Queue(t)
    BY <1>0, FirstTyped DEF Listing
  <1> QED
    BY <1>0, <1>2, SuccessionTyped, ChainClosed

(* What the properties call listed *)
LEMMA ListedQueue ==
    ASSUME HandoffInv, NEW t \in Lists
    PROVE  Listed(t) = Queue(t)
  <1>0. TypeOK /\ Roles /\ Tokens /\ Listing
    BY DEF HandoffInv
  <1>1. Succession \in Successors /\ t \in Node
    BY <1>0, SuccessionTyped, FirstTyped
  <1>2. CASE Walker(t) = {}
    BY <1>0, <1>1, <1>2, FollowingChain DEF Listed, First, Listing
  <1>3. CASE Walker(t) # {}
    <2> DEFINE w == CHOOSE v \in Walker(t) : TRUE
    <2>1. w \in Worker /\ Walking(w) /\ List(w) = t
      BY <1>3 DEF Walker, Walking
    <2>2. First(t) = curr[w] /\ curr[w] \in Object /\ curr[w] \in Node
      BY <1>0, <2>1, FirstWalked, WalkedQueued
    <2>3. Listed(t) = {curr[w]} \cup Following(curr[w], Succession)
      BY <1>3 DEF Listed
    <2> HIDE DEF w
    <2>4. Listed(t) = Chain(curr[w], Succession)
      BY <1>1, <2>2, <2>3, FollowingChain
    <2> QED
      BY <1>0, <2>2, <2>4 DEF Listing
  <1> QED
    BY <1>2, <1>3

------------------------------------------------------------------------------
(* The invariant implies the properties.                                    *)

LEMMA InvTouched == ASSUME HandoffInv PROVE NoFreedNodeTouched
  <1>0. TypeOK /\ Roles /\ Tokens /\ Links
    BY DEF HandoffInv
  <1>1. ASSUME NEW th \in Thread, Linking(th)
        PROVE  IF prev[th] \in Object THEN state[prev[th]] = "queued" ELSE prev[th] \notin released
    <2>1. IntoList(th) \in Lists /\ prev[th] \in {IntoList(th)} \cup Queue(IntoList(th))
      BY <1>0, <1>1 DEF Links
    <2>2. IntoList(th) \notin Object
      BY <2>1, HandoffAssumption DEF Lists
    <2>3. IntoList(th) \notin released
      BY <1>0, <2>1, HandoffAssumption DEF Lists, TypeOK
    <2> QED
      BY <2>1, <2>2, <2>3 DEF Queue
  <1>2. ASSUME NEW w \in Worker, Walking(w) PROVE state[curr[w]] = "queued"
    BY <1>2, WalkedQueued
  <1> QED
    BY <1>1, <1>2 DEF NoFreedNodeTouched, Linking, Walking

LEMMA InvOneFreer == ASSUME HandoffInv PROVE OneFreer
  <1>0. TypeOK /\ Roles /\ Tokens
    BY DEF HandoffInv
  <1>1. ASSUME NEW o \in Listed(Back) PROVE owner[home[o]] = Back
    <2>1. o \in Queue(Back)
      BY <1>1, ListedQueue DEF Lists
    <2>2. o \in Queued /\ ListOf(o) = Back
      BY <2>1 DEF Queue, Queued
    <2> QED
      BY <1>0, <2>2, ListOfIn
  <1> QED
    BY <1>0, <1>1 DEF OneFreer, Roles, RoleOf, Tokens

LEMMA InvOutlives == ASSUME HandoffInv PROVE TokenOutlivesList
  <1>0. TypeOK /\ Roles /\ Tokens /\ Links
    BY DEF HandoffInv
  <1>1. ASSUME NEW o \in Object, state[o] \in {"new", "live", "freeing", "queued"}
        PROVE  home[o] \in Token \ released
    <2>1. home[o] \in Token /\ o \in Active(home[o])
      BY <1>0, <1>1 DEF Tokens, TypeOK, Active
    <2> QED
      BY <1>0, <2>1 DEF Tokens
  <1>2. ASSUME NEW th \in Thread, pc[th] \in {"wait", "load", "swap", "link"}
        PROVE  target[th] \in Token \ released
    <2>1. obj[th] \in Object /\ state[obj[th]] \in {"freeing", "queued"} /\ home[obj[th]] = target[th]
      BY <1>0, <1>2 DEF Roles, RoleOf, TypeOK
    <2> QED
      BY <1>1, <2>1
  <1>3. ASSUME NEW th \in Thread, pc[th] \in {"raise", "splice", "relink"}
        PROVE  target[th] \notin released
    <2>1. CASE pc[th] = "relink"
      <3>1. next[target[th]] \in Object /\ state[next[target[th]]] = "queued"
        BY <1>0, <2>1 DEF Links, Queue
      <3> QED
        BY <1>0, <1>1, <2>1, <3>1 DEF Links
    <2>2. CASE pc[th] # "relink"
      BY <1>0, <1>3, <2>2 DEF Roles, RoleOf, Tokens
    <2> QED
      BY <2>1, <2>2
  <1>4. ASSUME NEW th \in Thread, pc[th] \in {"swap", "link", "count"}
        PROVE  into[th] \notin released
    <2>0. Back \notin released
      BY <1>0, HandoffAssumption DEF TypeOK
    <2>1. target[th] \in Token /\ into[th] \in {target[th], Back}
      BY <1>0, <1>4 DEF Roles, RoleOf, TypeOK, Tokens
    <2>2. CASE pc[th] = "count"
      BY <1>0, <2>0, <2>1, <2>2 DEF Links
    <2>3. CASE pc[th] \in {"swap", "link"}
      BY <1>2, <2>0, <2>1, <2>3
    <2> QED
      BY <1>4, <2>2, <2>3
  <1> QED
    BY <1>2, <1>3, <1>4 DEF TokenOutlivesList

LEMMA InvNothingLost == ASSUME HandoffInv PROVE NothingLost
  <1>0. TypeOK /\ Roles /\ Tokens
    BY DEF HandoffInv
  <1>1. OpenLists \subseteq Lists
    BY <1>0 DEF OpenLists, Lists, Splicing, TypeOK
  <1>2. \A t \in OpenLists : Listed(t) = Queue(t)
    BY <1>1, ListedQueue
  <1>3. ASSUME NEW o \in Queued PROVE o \in UNION {Listed(t) : t \in OpenLists}
    <2>1. ListOf(o) \in Lists /\ o \in Queue(ListOf(o)) /\ home[o] \in used
          /\ (ListOf(o) # Back => ListOf(o) = home[o])
      BY <1>0, ListOfIn
    <2>2. ListOf(o) \in OpenLists
      BY <2>1 DEF OpenLists, Lists, Splicing
    <2> QED
      BY <1>2, <2>1, <2>2
  <1>4. \A t \in OpenLists : Listed(t) \subseteq Queued
    BY <1>2 DEF Queue, Queued
  <1>5. \A s, t \in OpenLists : s # t => Listed(s) \cap Listed(t) = {}
    BY <1>2 DEF Queue
  <1>6. Queued = UNION {Listed(t) : t \in OpenLists}
    BY <1>3, <1>4
  <1> QED
    BY <1>5, <1>6 DEF NothingLost, Queued

LEMMA InvAllReturned == ASSUME HandoffInv PROVE AllReturnedIsAll
  <1>0. TypeOK /\ Roles /\ Tokens /\ Links /\ Listing /\ Accounts
    BY DEF HandoffInv
  <1>1. SUFFICES ASSUME NEW th \in Thread, pc[th] = "drain"
                 PROVE  Active(token[th]) = {curr[th]} \cup Following(curr[th], next)
    BY DEF AllReturnedIsAll
  <1>2. th \in Worker /\ Walking(th) /\ List(th) = token[th] /\ token[th] \in Token
    BY <1>0, <1>1, HandoffAssumption DEF Worker, Walking, List, Roles, RoleOf, TypeOK
  <1>3. /\ token[th] \in Lists /\ First(token[th]) = curr[th]
        /\ curr[th] \in Object /\ curr[th] \in Node
    BY <1>0, <1>2, WalkerOnly, FirstWalked, WalkedQueued
  <1>4. Active(token[th]) = Chain(curr[th], Succession)
    BY <1>0, <1>1, <1>3 DEF Listing, Accounts, Drained
  <1>5. Succession \in Successors /\ next \in Successors
    BY <1>0, SuccessionTyped DEF TypeOK, Successors, Node
  <1>6. ASSUME NEW m \in Chain(curr[th], Succession) PROVE next[m] = Succession[m]
    <2>1. m \in Node /\ m \in Queue(token[th])
      BY <1>0, <1>3, <1>6 DEF Listing, Queue, Node
    <2>2. ASSUME NEW x \in Thread, Linking(x), prev[x] = m PROVE FALSE
      <3>1. IntoList(x) \in Lists /\ m \in {IntoList(x)} \cup Queue(IntoList(x))
        BY <1>0, <2>2 DEF Links
      <3>2. m \in Object /\ ListOf(m) = token[th]
        BY <2>1 DEF Queue
      <3>3. IntoList(x) \notin Object
        BY <3>1, HandoffAssumption DEF Lists
      <3>4. IntoList(x) = token[th]
        BY <3>1, <3>2, <3>3 DEF Queue
      <3>5. pc[x] = "link" /\ into[x] = token[th]
        BY <1>2, <2>2, <3>4, HandoffAssumption DEF IntoList, Linking
      <3>6. x \in Counting(token[th])
        BY <3>5 DEF Counting
      <3> QED
        BY <1>0, <1>1, <3>6 DEF Accounts, Drained
    <2> QED
      BY <2>1, <2>2, SuccessionPlain
  <1>7. Chain(curr[th], next) = Chain(curr[th], Succession)
    BY <1>3, <1>5, <1>6, ChainSame
  <1> QED
    BY <1>3, <1>4, <1>5, <1>7, FollowingChain

LEMMA InvSafe == HandoffInv => HandoffSafe /\ AllAccounted
  BY InvTouched, InvOneFreer, InvOutlives, InvNothingLost, InvAllReturned
     DEF HandoffSafe, AllAccounted

------------------------------------------------------------------------------
(* What the actions that free an object do                                  *)

LEMMA WalkedHome ==
    ASSUME HandoffInv, NEW w \in Worker, Walking(w), NEW o \in Queue(List(w))
    PROVE  /\ o \in Object /\ state[o] = "queued" /\ home[o] \in Token \ released
           /\ o \in Active(home[o])
           /\ w \in Thread => home[o] = token[w] /\ token[w] \in Token
           /\ w = Mem => owner[home[o]] = Back /\ ~Splicing(home[o])
  <1>0. TypeOK /\ Roles /\ Tokens /\ Back \notin Token /\ Null \notin Token /\ Mem \notin Thread
    BY HandoffAssumption DEF HandoffInv
  <1>1. o \in Object /\ state[o] = "queued" /\ o \in Queued /\ ListOf(o) = List(w)
    BY DEF Queue, Queued
  <1>2. w \in Thread => token[w] \in Token
    BY <1>0 DEF Walking, Roles, RoleOf, TypeOK
  <1> QED
    BY <1>0, <1>1, <1>2, ListOfIn DEF List

(* A node that has a successor is not the last object of the thread's token *)
LEMMA PopNodeFacts ==
    ASSUME HandoffInv, NEW w \in Worker, PopNode(w)
    PROVE  /\ Walking(w)
           /\ next[curr[w]] \in Queue(List(w)) /\ next[curr[w]] # curr[w]
           /\ next[curr[w]] = Succession[curr[w]]
           /\ token' = token
           /\ w \in Thread => released' = released
           /\ w = Mem => released' \subseteq released \cup {home[curr[w]]}
           /\ released \subseteq released'
           /\ state' = [state EXCEPT ![curr[w]] = "freed"]
  <1>0. TypeOK /\ Roles /\ Tokens /\ OneWay /\ Links
    BY DEF HandoffInv
  <1>1. Walking(w) /\ next[curr[w]] # Null
    BY DEF PopNode, Walking
  <1>2. /\ curr[w] \in Queue(List(w)) /\ curr[w] \in Object /\ curr[w] \in Node
        /\ state[curr[w]] = "queued"
    BY <1>1, WalkedQueued
  <1>3. List(w) \in Lists /\ First(List(w)) = curr[w]
    BY <1>0, <1>1, WalkerOnly, FirstWalked
  <1>4. next[curr[w]] = Succession[curr[w]]
    BY <1>0, <1>1, <1>2, SuccessionNext
  <1>5. next[curr[w]] \in Queue(List(w))
    BY <1>1, <1>2, <1>3, <1>4, QueueNext
  <1>6. curr[w] # Null /\ curr[w] \in Queued
    BY <1>2, NullApart DEF Queued
  <1>7. next[curr[w]] # curr[w]
    BY <1>0, <1>3, <1>4, <1>6 DEF OneWay
  <1>8. w \in Thread => Active(home[curr[w]]) # {curr[w]}
    <2>1. w \in Thread => home[next[curr[w]]] = home[curr[w]] /\ next[curr[w]] \in Active(home[next[curr[w]]])
      BY <1>1, <1>2, <1>5, WalkedHome
    <2> QED
      BY <1>7, <2>1
  <1>9. FreeCore(w, curr[w])
    BY DEF PopNode
  <1>10. w \in Thread => released' = released /\ token' = token
    BY <1>8, <1>9 DEF FreeCore
  <1>11. w = Mem => token' = token /\ released' \subseteq released \cup {home[curr[w]]}
    BY <1>9, HandoffAssumption DEF FreeCore
  <1>12. released \subseteq released' /\ state' = [state EXCEPT ![curr[w]] = "freed"]
    BY <1>9 DEF FreeCore
  <1> QED
    BY <1>1, <1>4, <1>5, <1>7, <1>10, <1>11, <1>12 DEF Worker

(* A list that is drained ends with its token's last object                 *)
LEMMA DrainLastFacts ==
    ASSUME HandoffInv, NEW w \in Thread, DrainLast(w)
    PROVE  /\ Walking(w) /\ List(w) = token[w] /\ token[w] \in Token
           /\ Active(token[w]) = {curr[w]} /\ Queue(token[w]) = {curr[w]}
           /\ Counting(token[w]) = {}
           /\ home[curr[w]] = token[w]
           /\ released' = released \cup {token[w]}
           /\ token' = [token EXCEPT ![w] = Null]
           /\ state' = [state EXCEPT ![curr[w]] = "freed"]
  <1>0. TypeOK /\ Roles /\ Tokens /\ Listing /\ OneWay /\ Links /\ Accounts
    BY DEF HandoffInv
  <1>1. w \in Worker /\ Walking(w) /\ pc[w] = "drain" /\ next[curr[w]] = Null
    BY DEF DrainLast, Walking, Worker
  <1>2. /\ curr[w] \in Queue(List(w)) /\ curr[w] \in Object /\ curr[w] \in Node
        /\ state[curr[w]] = "queued"
    BY <1>1, WalkedQueued
  <1>3. List(w) = token[w] /\ token[w] \in Token /\ home[curr[w]] = token[w]
    BY <1>1, <1>2, WalkedHome, HandoffAssumption DEF List
  <1>4. List(w) \in Lists /\ First(List(w)) = curr[w]
    BY <1>0, <1>1, WalkerOnly, FirstWalked
  <1>5. Active(token[w]) = Queue(token[w]) /\ Counting(token[w]) = {}
    BY <1>0, <1>1 DEF Accounts, Drained
  <1>6. Following(curr[w], next) = {}
    <2>1. next \in Successors
      BY <1>0 DEF TypeOK, Successors, Node
    <2> QED
      BY <1>1, <1>2, <2>1, FollowingChain, ChainNull
  <1>7. Active(token[w]) = {curr[w]}
    BY <1>1, <1>6, InvAllReturned DEF AllReturnedIsAll
  <1>8. FreeCore(w, curr[w])
    BY DEF DrainLast
  <1> QED
    BY <1>1, <1>3, <1>5, <1>7, <1>8 DEF FreeCore

LEMMA ResumeFacts ==
    ASSUME HandoffInv, NEW th \in Thread, Resume(th)
    PROVE  /\ obj[th] \in Object /\ home[obj[th]] = token[th] /\ token[th] \in Token
           /\ token[th] \in used
           /\ state[obj[th]] \in {"new", "freeing"}
           /\ state' = [state EXCEPT ![obj[th]] = IF state[obj[th]] = "new" THEN "live" ELSE "freed"]
           /\ \/ released' = released /\ token' = token
              \/ /\ released' = released \cup {token[th]}
                 /\ token' = [token EXCEPT ![th] = Null]
                 /\ Active(token[th]) = {obj[th]} /\ state[obj[th]] = "freeing"
  <1>1. /\ obj[th] \in Object /\ home[obj[th]] = token[th] /\ token[th] \in Token
        /\ state[obj[th]] \in {"new", "freeing"} /\ token[th] \in used
    BY DEF Resume, HandoffInv, Roles, RoleOf, TypeOK, Tokens
  <1> QED
    BY <1>1 DEF Resume, FreeCore

------------------------------------------------------------------------------
(* Values of the variables                                                  *)

LEMMA InitInv == Init => HandoffInv
  <1> SUFFICES ASSUME Init PROVE HandoffInv
    OBVIOUS
  <1>0. /\ Back \notin Token /\ Null \notin Token /\ Null # Back /\ Null \notin Object
        /\ Mem \in Worker /\ Thread \subseteq Worker /\ MaxSkipTimes \in Nat \ {0}
    BY HandoffAssumption DEF Worker
  <1>1. TypeOK
    BY <1>0 DEF Init, TypeOK, AnyToken
  <1>2. Roles
    BY <1>0 DEF Init, Roles, RoleOf, Holding
  <1>3. Tokens
    BY <1>0 DEF Init, Tokens, Active
  <1>4. Pushes
    <2>1. \A t \in Token : Busy(t) = {}
      BY <1>0 DEF Init, Busy
    <2>2. Cardinality({}) = 0
      BY FS_EmptySet
    <2>3. \A t \in Token : i_enter[t] = 0 /\ i_exit[t] = 0 /\ Cardinality(Busy(t)) = 0
      BY <2>1, <2>2 DEF Init
    <2>4. \A th \in Thread : pc[th] = "idle"
      BY <1>0 DEF Init
    <2> QED
      BY <2>3, <2>4 DEF Pushes, PushesOf
  <1>5. \A t : Walker(t) = {}
    BY DEF Init, Walker
  <1>6. Succession = next /\ \A n \in Node : next[n] = Null
    <2>1. \A n \in Node : Succession[n] = next[n] /\ next[n] = Null
      BY <1>0, SuccessionPlain DEF Init, Linking, Node
    <2> QED
      BY <2>1 DEF Succession, Init, Node
  <1>7. \A t \in Lists : t \in AnyToken /\ First(t) = Null /\ tail[t] = t
    BY <1>5, <1>6 DEF Lists, First, AnyToken, Node, Init
  <1>8. \A t : Queue(t) = {}
    BY DEF Queue, Init
  <1>9. Listing
    BY <1>6, <1>7, <1>8, ChainNull DEF Listing, Node
  <1>10. OneWay
    BY <1>7 DEF OneWay, Queued, Init
  <1>11. Links
    BY <1>0 DEF Links, Linking, Init
  <1>12. Walks
    BY DEF Walks, Walking, Init
  <1>13. Accounts
    <2>1. \A t : Counting(t) = {}
      BY <1>0 DEF Counting, Init
    <2>2. Cardinality({}) = 0
      BY FS_EmptySet
    <2>3. \A t \in Token : async_returned[t] = 0
      BY DEF Init, AnyToken
    <2>4. \A t \in Token : async_returned[t] = Cardinality(Queue(t)) - Cardinality(Counting(t))
      BY <1>8, <2>1, <2>2, <2>3
    <2>5. \A w \in Worker : count[w] = 0 /\ pc[w] = "idle"
      BY DEF Init
    <2> QED
      BY <1>0, <1>5, <2>4, <2>5 DEF Accounts, Balanced, Drained
  <1> QED
    BY <1>1, <1>2, <1>3, <1>4, <1>9, <1>10, <1>11, <1>12, <1>13 DEF HandoffInv

Labels == {"idle", "resume", "pop", "walk", "drain", "wait", "load", "swap", "link", "count", "leave",
           "raise", "splice", "relink", "clear", "exited"}

LEMMA LazyTyped ==
    ASSUME TypeOK, NEW th \in Thread, NEW t \in Token, PopLazily(th, t)
    PROVE  /\ skip_count' \in [Token -> 0 .. MaxSkipTimes - 1]
           /\ pc' \in [Worker -> Labels]
           /\ \/ pc' = [pc EXCEPT ![th] = "pop"]
              \/ pc' = [pc EXCEPT ![th] = "resume"]
  <1>0. MaxSkipTimes \in Nat \ {0}
    BY HandoffAssumption
  <1>1. skip_count[t] \in 0 .. MaxSkipTimes - 1 /\ th \in Worker
    BY DEF TypeOK, Worker
  <1>2. (skip_count[t] + 1) % MaxSkipTimes \in 0 .. MaxSkipTimes - 1
    BY <1>0, <1>1
  <1>3. skip_count' = [skip_count EXCEPT ![t] = (skip_count[t] + 1) % MaxSkipTimes]
    BY DEF PopLazily
  <1>4. skip_count' \in [Token -> 0 .. MaxSkipTimes - 1]
    BY <1>2, <1>3 DEF TypeOK
  <1>5. pc' = [pc EXCEPT ![th] = "pop"] \/ pc' = [pc EXCEPT ![th] = "resume"]
    BY DEF PopLazily, Goto
  <1>6. pc' \in [Worker -> Labels]
    BY <1>1, <1>5 DEF TypeOK, Labels
  <1> QED
    BY <1>4, <1>5, <1>6

LEMMA StepTyped ==
    ASSUME HandoffInv, Next
    PROVE  TypeOK'
  <1>0. /\ TypeOK /\ Roles /\ Tokens /\ Pushes
        /\ \A th \in Thread : th \in Worker
        /\ Mem \in Worker
    BY DEF HandoffInv, Worker
  <1>1. ASSUME NEW th \in Thread, NEW o \in Object, NEW t \in Token, Alloc(th, o, t)
        PROVE  TypeOK'
    <2>1. skip_count' \in [Token -> 0 .. MaxSkipTimes - 1] /\ pc' \in [Worker -> Labels]
      BY <1>0, <1>1, LazyTyped DEF Alloc
    <2> QED
      BY <1>0, <1>1, <2>1 DEF Alloc, TypeOK, Labels, listVars, popVars
  <1>2. ASSUME NEW th \in Thread, NEW o \in Object, FreeOwn(th, o)
        PROVE  TypeOK'
    <2>0. token[th] \in Token
      BY <1>0, <1>2 DEF FreeOwn, Tokens, TypeOK
    <2>1. skip_count' \in [Token -> 0 .. MaxSkipTimes - 1] /\ pc' \in [Worker -> Labels]
      BY <1>0, <1>2, <2>0, LazyTyped DEF FreeOwn
    <2> QED
      BY <1>0, <1>2, <2>0, <2>1 DEF FreeOwn, TypeOK, Labels, tokenVars, listVars, popVars
  <1>3. ASSUME NEW th \in Thread, Resume(th)
        PROVE  TypeOK'
    <2>1. /\ obj[th] \in Object /\ token[th] \in used
          /\ state' = [state EXCEPT ![obj[th]] = IF state[obj[th]] = "new" THEN "live" ELSE "freed"]
          /\ \/ released' = released /\ token' = token
             \/ /\ released' = released \cup {token[th]}
                /\ token' = [token EXCEPT ![th] = Null]
      BY <1>3, ResumeFacts <2> QED BY <1>0, <1>3, <2>1 DEF Resume, TypeOK, listVars, popVars,
         Goto
  <1>4. ASSUME NEW w \in Worker, PopBegin(w)
        PROVE  TypeOK'
    <2>1. w \in Thread => token[w] \in Token
      BY <1>0, <1>4 DEF PopBegin, Roles, RoleOf, TypeOK
    <2>2. List(w) \in AnyToken
      BY <2>1 DEF List, AnyToken, Worker
    <2> QED
      BY <1>0, <1>4, <2>2 DEF PopBegin, TypeOK, tokenVars, listVars, localVars, Goto, AfterPop
  <1>5. ASSUME NEW w \in Worker, PopNode(w)
        PROVE  TypeOK'
    <2>1. curr[w] \in Object /\ curr[w] \in Node /\ home[curr[w]] \in used /\ next[curr[w]] \in Object
      BY <1>0, <1>5, PopNodeFacts, WalkedQueued DEF Queue
    <2>2. released' \subseteq used /\ token' = token /\ state' = [state EXCEPT ![curr[w]] = "freed"]
      BY <1>0, <1>5, <2>1, PopNodeFacts DEF TypeOK, Worker
    <2> QED
      BY <1>0, <1>5, <2>1, <2>2 DEF PopNode, TypeOK, listVars, localVars
  <1>6. ASSUME NEW w \in Worker, PopLast(w)
        PROVE  TypeOK'
    <2>1. w \in Thread => token[w] \in Token
      BY <1>0, <1>6 DEF PopLast, Roles, RoleOf, TypeOK
    <2>2. List(w) \in AnyToken
      BY <2>1 DEF List, AnyToken, Worker
    <2> QED
      BY <1>0, <1>6, <2>2 DEF PopLast, TypeOK, tokenVars, localVars, Goto, AfterPop
  <1>7. ASSUME NEW th \in Thread, DrainLast(th)
        PROVE  TypeOK'
    <2>0. th \in Worker
      BY DEF Worker
    <2>1. curr[th] \in Object /\ token[th] \in Token /\ token[th] \in used /\ List(th) = token[th]
      BY <1>0, <1>7, <2>0, DrainLastFacts, WalkedQueued DEF Tokens
    <2>2. /\ released' = released \cup {token[th]}
          /\ token' = [token EXCEPT ![th] = Null] /\ state' = [state EXCEPT ![curr[th]] = "freed"]
      BY <1>7, DrainLastFacts <2> QED BY <1>0, <1>7, <2>1, <2>2 DEF DrainLast, TypeOK,
         localVars, Goto, AnyToken
  <1>8. ASSUME MemWake
        PROVE  TypeOK'
    BY <1>0, <1>8 DEF MemWake, TypeOK, tokenVars, listVars, localVars, popVars, Goto
  <1>9. ASSUME NEW th \in Thread, NEW o \in Object, PushEnter(th, o)
        PROVE  TypeOK'
    <2>0. home[o] \in Token
      BY <1>0, <1>9 DEF PushEnter, Tokens, TypeOK
    <2> QED
      BY <1>0, <1>9, <2>0 DEF PushEnter, TypeOK, listVars, popVars, Goto
  <1>10. ASSUME NEW th \in Thread, PushWait(th)
        PROVE  TypeOK'
    BY <1>0, <1>10 DEF PushWait, TypeOK, tokenVars, listVars, localVars, popVars, Goto
  <1>11. ASSUME NEW th \in Thread, PushLoad(th)
        PROVE  TypeOK'
    <2>0. target[th] \in Token
      BY <1>0, <1>11 DEF PushLoad, Roles, RoleOf, TypeOK
    <2> QED
      BY <1>0, <1>11, <2>0 DEF PushLoad, TypeOK, tokenVars, listVars, popVars, Goto, AnyToken
  <1>12. ASSUME NEW th \in Thread, PushSwap(th)
        PROVE  TypeOK'
    <2>0. target[th] \in Token /\ into[th] \in AnyToken /\ (pc[th] # "count" => obj[th] \in Object)
      BY <1>0, <1>12 DEF PushSwap, Roles, RoleOf, TypeOK
    <2> QED
      BY <1>0, <1>12, <2>0 DEF PushSwap, TypeOK, tokenVars, popVars, Goto, AnyToken
  <1>13. ASSUME NEW th \in Thread, PushLink(th)
        PROVE  TypeOK'
    <2>0. target[th] \in Token /\ into[th] \in AnyToken /\ (pc[th] # "count" => obj[th] \in Object)
      BY <1>0, <1>13 DEF PushLink, Roles, RoleOf, TypeOK
    <2> QED
      BY <1>0, <1>13, <2>0 DEF PushLink, TypeOK, tokenVars, localVars, popVars, Goto, AnyToken
  <1>14. ASSUME NEW th \in Thread, PushCount(th)
        PROVE  TypeOK'
    <2>0. target[th] \in Token /\ into[th] \in AnyToken /\ (pc[th] # "count" => obj[th] \in Object)
      BY <1>0, <1>14 DEF PushCount, Roles, RoleOf, TypeOK
    <2> QED
      BY <1>0, <1>14, <2>0 DEF PushCount, TypeOK, tokenVars, localVars, popVars, Goto, AnyToken
  <1>15. ASSUME NEW th \in Thread, PushExit(th)
        PROVE  TypeOK'
    <2>0. target[th] \in Token
      BY <1>0, <1>15 DEF PushExit, Roles, RoleOf, TypeOK
    <2> QED
      BY <1>0, <1>15, <2>0 DEF PushExit, TypeOK, listVars, popVars, Goto, AnyToken
  <1>16. ASSUME NEW th \in Thread, ExitPlain(th)
        PROVE  TypeOK'
    BY <1>0, <1>16 DEF ExitPlain, TypeOK, tokenVars, listVars, localVars, popVars, Goto
  <1>17. ASSUME NEW th \in Thread, ExitDrain(th)
        PROVE  TypeOK'
    <2>0. token[th] \in Token
      BY <1>0, <1>17 DEF ExitDrain, TypeOK
    <2> QED
      BY <1>0, <1>17, <2>0 DEF ExitDrain, TypeOK, tokenVars, listVars, localVars, Goto, AnyToken
  <1>18. ASSUME NEW th \in Thread, RaiseBegin(th)
        PROVE  TypeOK'
    <2>0. token[th] \in Token
      BY <1>0, <1>18 DEF RaiseBegin, TypeOK
    <2> QED
      BY <1>0, <1>18, <2>0 DEF RaiseBegin, TypeOK, listVars, popVars, Goto
  <1>19. ASSUME NEW th \in Thread, RaiseOwner(th)
        PROVE  TypeOK'
    <2>0. target[th] \in Token
      BY <1>0, <1>19 DEF RaiseOwner, Roles, RoleOf, TypeOK
    <2> QED
      BY <1>0, <1>19, <2>0 DEF RaiseOwner, TypeOK, listVars, localVars, popVars, Goto, AnyToken
  <1>20. ASSUME NEW th \in Thread, RaiseSplice(th)
        PROVE  TypeOK'
    <2>0. target[th] \in Token
      BY <1>0, <1>20 DEF RaiseSplice, Roles, RoleOf, TypeOK
    <2> QED
      BY <1>0, <1>20, <2>0 DEF RaiseSplice, TypeOK, tokenVars, popVars, Goto, AnyToken
  <1>21. ASSUME NEW th \in Thread, RaiseLink(th)
        PROVE  TypeOK'
    <2>0. target[th] \in Token
      BY <1>0, <1>21 DEF RaiseLink, Roles, RoleOf, TypeOK
    <2> QED
      BY <1>0, <1>21, <2>0 DEF RaiseLink, TypeOK, tokenVars, localVars, popVars, Goto, AnyToken
  <1>22. ASSUME NEW th \in Thread, RaiseEnd(th)
        PROVE  TypeOK'
    <2>0. target[th] \in Token
      BY <1>0, <1>22 DEF RaiseEnd, Roles, RoleOf, TypeOK
    <2>1. i_enter[target[th]] \in Nat /\ i_enter[target[th]] % 2 = 1
      BY <1>0, <1>22, <2>0 DEF RaiseEnd, Pushes, PushesOf, TypeOK
    <2>2. i_enter' = [i_enter EXCEPT ![target[th]] = i_enter[target[th]] - 1]
      BY <1>22, <2>1 DEF RaiseEnd
    <2>3. i_enter[target[th]] - 1 \in Nat
      BY <2>1
    <2>4. i_enter' \in [Token -> Nat]
      BY <1>0, <2>0, <2>2, <2>3 DEF TypeOK
    <2> QED
      BY <1>0, <1>22, <2>4 DEF RaiseEnd, TypeOK, listVars, popVars, Goto
  <1> QED
    BY <1>1, <1>2, <1>3, <1>4, <1>5, <1>6, <1>7, <1>8, <1>9, <1>10, <1>11, <1>12,
       <1>13, <1>14, <1>15, <1>16, <1>17, <1>18, <1>19, <1>20, <1>21, <1>22 DEF Next, Step,
       Call, Pop, Worker

------------------------------------------------------------------------------
(* What the threads work on                                                 *)

LEMMA RoleKept ==
    ASSUME HandoffInv, NEW y \in Thread,
           pc'[y] = pc[y], obj'[y] = obj[y], target'[y] = target[y], into'[y] = into[y],
           token'[y] = token[y],
           Holding(y) \/ pc[y] = "link" =>
               home'[obj[y]] = home[obj[y]] /\ state'[obj[y]] = state[obj[y]],
           pc[y] \in {"swap", "link", "count"} => owner'[target[y]] = owner[target[y]]
    PROVE  RoleOf(y)'
  BY DEF HandoffInv, Roles, RoleOf, Holding

(* A thread holds an object of its own that is being allocated or freed *)
LEMMA HeldState ==
    ASSUME HandoffInv, NEW y \in Thread, Holding(y)
    PROVE  obj[y] \in Object /\ state[obj[y]] \in {"new", "freeing"}
  BY DEF HandoffInv, Roles, RoleOf, Holding, TypeOK

LEMMA HoldingKept ==
    ASSUME HandoffInv, NEW th \in Thread,
           \A y \in Thread : y # th => pc'[y] = pc[y] /\ obj'[y] = obj[y],
           Holding(th)' => \/ Holding(th) /\ obj'[th] = obj[th]
                           \/ state[obj'[th]] \notin {"new", "freeing"}
    PROVE  \A x, y \in Thread : Holding(x)' /\ Holding(y)' /\ obj'[x] = obj'[y] => x = y
  <1>1. \A x \in Thread : x # th => (Holding(x)' <=> Holding(x))
    BY DEF Holding
  <1>2. \A x, y \in Thread : Holding(x) /\ Holding(y) /\ obj[x] = obj[y] => x = y
    BY DEF HandoffInv, Roles
  <1>3. \A x \in Thread : Holding(x) => state[obj[x]] \in {"new", "freeing"}
    BY HeldState
  <1> QED
    BY <1>1, <1>2, <1>3

(* An object that is being linked is not the first of a list that is walked *)
LEMMA SuccessorNotFirst ==
    ASSUME HandoffInv, NEW x \in Thread, Linking(x), NEW w \in Worker, Walking(w),
           Succession[prev[x]] # Null
    PROVE  Succession[prev[x]] # curr[w]
  <1>0. TypeOK /\ Roles /\ Tokens /\ OneWay /\ Links /\ Walks
    BY DEF HandoffInv
  <1>1. IntoList(x) \in Lists /\ prev[x] \in {IntoList(x)} \cup Queue(IntoList(x))
    BY <1>0 DEF Links
  <1>2. List(w) \in Lists /\ First(List(w)) = curr[w] /\ curr[w] \in Queue(List(w)) /\ curr[w] # Null
    BY <1>0, WalkerOnly, FirstWalked, WalkedQueued DEF Walks
  <1>3. CASE prev[x] \in Queue(IntoList(x))
    <2>1. prev[x] \in Queued
      BY <1>3 DEF Queue, Queued
    <2> QED
      BY <1>0, <1>2, <2>1 DEF OneWay
  <1>4. CASE prev[x] = IntoList(x)
    <2>1. Walker(IntoList(x)) = {}
      BY <1>0, <1>4 DEF Walker, Walks, Walking
    <2>2. First(IntoList(x)) = Succession[prev[x]]
      BY <1>4, <2>1 DEF First
    <2>3. Succession[prev[x]] \in Queue(IntoList(x))
      BY <1>1, <2>2, FirstQueued
    <2>4. SUFFICES ASSUME Succession[prev[x]] = curr[w] PROVE FALSE
      OBVIOUS
    <2>5. IntoList(x) = List(w)
      BY <1>2, <2>3, <2>4 DEF Queue
    <2>6. w \in Walker(List(w))
      BY DEF Walker, Walking
    <2> QED
      BY <2>1, <2>5, <2>6
  <1> QED
    BY <1>1, <1>3, <1>4

LEMMA LinkedNotFirst ==
    ASSUME HandoffInv, NEW x \in Thread, NEW w \in Worker, Walking(w)
    PROVE  /\ pc[x] = "link" => obj[x] # curr[w]
           /\ pc[x] = "relink" => next[target[x]] # curr[w]
  <1>0. TypeOK /\ Roles /\ Links
    BY DEF HandoffInv
  <1>1. CASE pc[x] = "link"
    <2>1. Linking(x) /\ Succession[prev[x]] = obj[x] /\ obj[x] # Null
      BY <1>0, <1>1, SuccessionLink DEF Linking, Roles, RoleOf
    <2> QED
      BY <1>1, <2>1, SuccessorNotFirst
  <1>2. CASE pc[x] = "relink"
    <2>1. Linking(x) /\ Succession[prev[x]] = next[target[x]] /\ next[target[x]] # Null
      BY <1>0, <1>2, SuccessionLink, NullApart DEF Linking, Links, Queue
    <2> QED
      BY <1>2, <2>1, SuccessorNotFirst
  <1> QED
    BY <1>1, <1>2

LEMMA BusyFinite ==
    ASSUME NEW t
    PROVE  /\ IsFiniteSet(Busy(t)) /\ Cardinality(Busy(t)) \in Nat
           /\ IsFiniteSet(Counting(t)) /\ Cardinality(Counting(t)) \in Nat
           /\ IsFiniteSet(Queue(t)) /\ Cardinality(Queue(t)) \in Nat
           /\ IsFiniteSet(Active(t)) /\ Cardinality(Active(t)) \in Nat
  <1>1. IsFiniteSet(Thread) /\ IsFiniteSet(Object)
    BY HandoffAssumption
  <1>2. /\ Busy(t) \subseteq Thread /\ Counting(t) \subseteq Thread
        /\ Queue(t) \subseteq Object /\ Active(t) \subseteq Object
    BY DEF Busy, Counting, Queue, Active
  <1>3. /\ IsFiniteSet(Busy(t)) /\ IsFiniteSet(Counting(t))
        /\ IsFiniteSet(Queue(t)) /\ IsFiniteSet(Active(t))
    BY <1>1, <1>2, FS_Subset
  <1> QED
    BY <1>3, FS_CardinalityType

(* The owner changes when no push is under way. *)
LEMMA RaiseOwnerFacts ==
    ASSUME HandoffInv, NEW th \in Thread, RaiseOwner(th)
    PROVE  target[th] \in Token /\ target[th] = token[th] /\ Busy(target[th]) = {}
  <1>1. target[th] \in Token /\ target[th] = token[th]
    BY DEF HandoffInv, Roles, RoleOf, TypeOK, RaiseOwner
  <1>2. i_exit[target[th]] = i_exit[target[th]] + 2 * Cardinality(Busy(target[th]))
    BY <1>1 DEF HandoffInv, Pushes, PushesOf, RaiseOwner
  <1>3. Cardinality(Busy(target[th])) \in Nat /\ i_exit[target[th]] \in Nat
    BY <1>1, BusyFinite DEF HandoffInv, TypeOK
  <1>4. Cardinality(Busy(target[th])) = 0
    BY <1>2, <1>3
  <1> QED
    BY <1>1, <1>4, BusyFinite, FS_EmptySet

LEMMA StepRoles ==
    ASSUME HandoffInv, Next
    PROVE  Roles'
  <1>0. /\ HandoffInv /\ TypeOK /\ Roles /\ Tokens /\ Links
        /\ \A th \in Thread : th \in Worker /\ th # Mem
        /\ Mem \in Worker
    BY HandoffAssumption DEF HandoffInv, Worker
  <1>1. ASSUME NEW th \in Thread, NEW o \in Object, NEW t \in Token, Alloc(th, o, t)
        PROVE  Roles'
    <2>0. Null \notin Token /\ state[o] = "unborn"
      BY <1>1, HandoffAssumption DEF Alloc
    <2>1. RoleOf(th)'
      <3>1. pc'[th] \in {"pop", "resume"}
        BY <1>0, <1>1, LazyTyped DEF Alloc, TypeOK
      <3>2. /\ obj'[th] = o /\ token'[th] = t /\ home'[o] = t /\ state'[o] = "new"
            /\ t # Null /\ o # Null
        BY <1>0, <1>1, <2>0, NullApart DEF Alloc, TypeOK
      <3> QED
        BY <3>1, <3>2 DEF RoleOf
    <2>2. ASSUME NEW y \in Thread, y # th PROVE RoleOf(y)'
      <3>1. /\ pc'[y] = pc[y] /\ obj'[y] = obj[y] /\ target'[y] = target[y] /\ into'[y] = into[y]
            /\ token'[y] = token[y]
        BY <1>0, <1>1, <2>0, <2>2 DEF Alloc, Goto, TypeOK, listVars, popVars, PopLazily
      <3>2. Holding(y) \/ pc[y] = "link" =>
               home'[obj[y]] = home[obj[y]] /\ state'[obj[y]] = state[obj[y]]
        BY <1>0, <1>1, <2>0, <2>2, HeldState DEF Alloc, Holding, Roles, RoleOf, TypeOK
      <3>3. pc[y] \in {"swap", "link", "count"} => owner'[target[y]] = owner[target[y]]
        BY <1>0, <1>1 DEF Alloc
      <3> QED
        BY <1>0, <3>1, <3>2, <3>3, RoleKept
    <2>3. \A x, y \in Thread : Holding(x)' /\ Holding(y)' /\ obj'[x] = obj'[y] => x = y
      <3>1. \A y \in Thread : y # th => pc'[y] = pc[y] /\ obj'[y] = obj[y]
        BY <1>0, <1>1, <2>0 DEF Alloc, Goto, TypeOK, listVars, popVars, PopLazily
      <3>2. Holding(th)' => \/ Holding(th) /\ obj'[th] = obj[th]
                            \/ state[obj'[th]] \notin {"new", "freeing"}
        BY <1>0, <1>1, <2>0 DEF Alloc, Holding, Goto, TypeOK, listVars, popVars, PopLazily
      <3> QED
        BY <1>0, <3>1, <3>2, HoldingKept
    <2>4. pc'[Mem] = pc[Mem]
      BY <1>0, <1>1, <2>0 DEF Alloc, Goto, TypeOK, PopLazily
    <2> QED
      BY <1>0, <2>1, <2>2, <2>3, <2>4 DEF Roles
  <1>2. ASSUME NEW th \in Thread, NEW o \in Object, FreeOwn(th, o)
        PROVE  Roles'
    <2>0. Null \notin Object /\ state[o] = "live" /\ token[th] # Null
      BY <1>0, <1>2, HandoffAssumption DEF FreeOwn, Tokens
    <2>1. RoleOf(th)'
      BY <1>0, <1>2, <2>0 DEF FreeOwn, PopLazily, RoleOf, Roles, Goto, TypeOK, tokenVars,
         listVars, popVars
    <2>2. ASSUME NEW y \in Thread, y # th PROVE RoleOf(y)'
      <3>1. /\ pc'[y] = pc[y] /\ obj'[y] = obj[y] /\ target'[y] = target[y] /\ into'[y] = into[y]
            /\ token'[y] = token[y]
        BY <1>0, <1>2, <2>0, <2>2 DEF FreeOwn, Goto, TypeOK, tokenVars, listVars, popVars,
           PopLazily
      <3>2. Holding(y) \/ pc[y] = "link" =>
               home'[obj[y]] = home[obj[y]] /\ state'[obj[y]] = state[obj[y]]
        BY <1>0, <1>2, <2>0, <2>2, HeldState DEF FreeOwn, Holding, RoleOf, Roles, TypeOK,
           tokenVars
      <3>3. pc[y] \in {"swap", "link", "count"} => owner'[target[y]] = owner[target[y]]
        BY <1>0, <1>2 DEF FreeOwn, tokenVars
      <3> QED
        BY <1>0, <3>1, <3>2, <3>3, RoleKept
    <2>3. \A x, y \in Thread : Holding(x)' /\ Holding(y)' /\ obj'[x] = obj'[y] => x = y
      <3>1. \A y \in Thread : y # th => pc'[y] = pc[y] /\ obj'[y] = obj[y]
        BY <1>0, <1>2, <2>0 DEF FreeOwn, Goto, TypeOK, tokenVars, listVars, popVars, PopLazily
      <3>2. Holding(th)' => \/ Holding(th) /\ obj'[th] = obj[th]
                            \/ state[obj'[th]] \notin {"new", "freeing"}
        BY <1>0, <1>2, <2>0 DEF FreeOwn, Holding, Goto, TypeOK, tokenVars, listVars, popVars,
           PopLazily
      <3> QED
        BY <1>0, <3>1, <3>2, HoldingKept
    <2>4. pc'[Mem] = pc[Mem]
      BY <1>0, <1>2, <2>0 DEF FreeOwn, Goto, TypeOK, PopLazily
    <2> QED
      BY <1>0, <2>1, <2>2, <2>3, <2>4 DEF Roles
  <1>3. ASSUME NEW th \in Thread, Resume(th)
        PROVE  Roles'
    <2>0. /\ obj[th] \in Object /\ state[obj[th]] \in {"new", "freeing"} /\ Holding(th)
          /\ state' = [state EXCEPT ![obj[th]] = IF state[obj[th]] = "new" THEN "live" ELSE "freed"]
          /\ token' = token \/ token' = [token EXCEPT ![th] = Null]
      BY <1>0, <1>3, ResumeFacts DEF Resume, Holding
    <2>1. RoleOf(th)'
      BY <1>0, <1>3, <2>0 DEF Resume, RoleOf, Roles, Goto, TypeOK, listVars, popVars
    <2>2. ASSUME NEW y \in Thread, y # th PROVE RoleOf(y)'
      <3>1. /\ pc'[y] = pc[y] /\ obj'[y] = obj[y] /\ target'[y] = target[y] /\ into'[y] = into[y]
            /\ token'[y] = token[y]
        BY <1>0, <1>3, <2>0, <2>2 DEF Resume, Goto, TypeOK, listVars, popVars
      <3>2. Holding(y) \/ pc[y] = "link" =>
               home'[obj[y]] = home[obj[y]] /\ state'[obj[y]] = state[obj[y]]
        BY <1>0, <1>3, <2>0, <2>2, HeldState DEF Resume, Holding, Roles, RoleOf, TypeOK
      <3>3. pc[y] \in {"swap", "link", "count"} => owner'[target[y]] = owner[target[y]]
        BY <1>0, <1>3 DEF Resume
      <3> QED
        BY <1>0, <3>1, <3>2, <3>3, RoleKept
    <2>3. \A x, y \in Thread : Holding(x)' /\ Holding(y)' /\ obj'[x] = obj'[y] => x = y
      <3>1. \A y \in Thread : y # th => pc'[y] = pc[y] /\ obj'[y] = obj[y]
        BY <1>0, <1>3, <2>0 DEF Resume, Goto, TypeOK, listVars, popVars
      <3>2. Holding(th)' => \/ Holding(th) /\ obj'[th] = obj[th]
                            \/ state[obj'[th]] \notin {"new", "freeing"}
        BY <1>0, <1>3, <2>0 DEF Resume, Holding, Goto, TypeOK, listVars, popVars
      <3> QED
        BY <1>0, <3>1, <3>2, HoldingKept
    <2>4. pc'[Mem] = pc[Mem]
      BY <1>0, <1>3, <2>0 DEF Resume, Goto, TypeOK
    <2> QED
      BY <1>0, <2>1, <2>2, <2>3, <2>4 DEF Roles
  <1>4. ASSUME NEW w \in Worker, PopBegin(w)
        PROVE  Roles'
    <2>1. ASSUME NEW y \in Thread PROVE RoleOf(y)'
      <3>1. /\ obj'[y] = obj[y] /\ target'[y] = target[y] /\ into'[y] = into[y]
            /\ token'[y] = token[y] /\ home' = home /\ owner' = owner
        BY <1>0, <1>4 DEF PopBegin, tokenVars, localVars
      <3>2. Holding(y) \/ pc[y] = "link" => state'[obj[y]] = state[obj[y]]
        BY <1>0, <1>4, HeldState DEF PopBegin
      <3>3. y # w => pc'[y] = pc[y]
        BY <1>0, <1>4 DEF PopBegin, Goto, TypeOK
      <3>4. y = w => RoleOf(y)'
        BY <1>0, <1>4, <3>1, <3>2, HandoffAssumption DEF PopBegin, Goto, AfterPop, TypeOK,
           Roles, RoleOf, Holding
      <3> QED
        BY <1>0, <3>3, <3>4, <3>1, <3>2, RoleKept
    <2>2. \A y \in Thread : obj'[y] = obj[y] /\ (Holding(y)' => Holding(y))
      BY <1>0, <1>4 DEF PopBegin, Goto, AfterPop, Holding, localVars, TypeOK
    <2>3. pc'[Mem] \in {"idle", "pop", "walk"}
      BY <1>0, <1>4, HandoffAssumption DEF PopBegin, Goto, AfterPop, TypeOK, Roles
    <2> QED
      BY <1>0, <2>1, <2>2, <2>3 DEF Roles
  <1>5. ASSUME NEW w \in Worker, PopNode(w)
        PROVE  Roles'
    <2>0. state' = [state EXCEPT ![curr[w]] = "freed"] /\ state[curr[w]] = "queued" /\ Walking(w)
      BY <1>0, <1>5, PopNodeFacts, WalkedQueued
    <2>00. \A y \in Thread : pc[y] = "link" => obj[y] # curr[w]
      BY <1>0, <2>0, LinkedNotFirst
    <2>1. ASSUME NEW y \in Thread PROVE RoleOf(y)'
      <3>1. /\ obj'[y] = obj[y] /\ target'[y] = target[y] /\ into'[y] = into[y]
            /\ token'[y] = token[y] /\ home' = home /\ owner' = owner
        BY <1>0, <1>5, PopNodeFacts DEF PopNode, localVars
      <3>2. Holding(y) \/ pc[y] = "link" => state'[obj[y]] = state[obj[y]]
        BY <1>0, <1>5, HeldState, <2>0, <2>00 DEF Holding, TypeOK
      <3>3. pc'[y] = pc[y]
        BY <1>5 DEF PopNode
      <3> QED
        BY <1>0, <3>3, <3>1, <3>2, RoleKept
    <2>2. \A y \in Thread : obj'[y] = obj[y] /\ (Holding(y)' => Holding(y))
      BY <1>0, <1>5 DEF PopNode, Holding, localVars, TypeOK
    <2>3. pc'[Mem] \in {"idle", "pop", "walk"}
      BY <1>0, <1>5, HandoffAssumption DEF PopNode, TypeOK, Roles
    <2> QED
      BY <1>0, <2>1, <2>2, <2>3 DEF Roles
  <1>6. ASSUME NEW w \in Worker, PopLast(w)
        PROVE  Roles'
    <2>1. ASSUME NEW y \in Thread PROVE RoleOf(y)'
      <3>1. /\ obj'[y] = obj[y] /\ target'[y] = target[y] /\ into'[y] = into[y]
            /\ token'[y] = token[y] /\ home' = home /\ owner' = owner
        BY <1>0, <1>6 DEF PopLast, tokenVars, localVars
      <3>2. Holding(y) \/ pc[y] = "link" => state'[obj[y]] = state[obj[y]]
        BY <1>0, <1>6, HeldState DEF PopLast
      <3>3. y # w => pc'[y] = pc[y]
        BY <1>0, <1>6 DEF PopLast, Goto, TypeOK
      <3>4. y = w => RoleOf(y)'
        BY <1>0, <1>6, <3>1, <3>2, HandoffAssumption DEF PopLast, Goto, AfterPop, TypeOK,
           Roles, RoleOf, Holding
      <3> QED
        BY <1>0, <3>3, <3>4, <3>1, <3>2, RoleKept
    <2>2. \A y \in Thread : obj'[y] = obj[y] /\ (Holding(y)' => Holding(y))
      BY <1>0, <1>6 DEF PopLast, Goto, AfterPop, Holding, localVars, TypeOK
    <2>3. pc'[Mem] \in {"idle", "pop", "walk"}
      BY <1>0, <1>6, HandoffAssumption DEF PopLast, Goto, AfterPop, TypeOK, Roles
    <2> QED
      BY <1>0, <2>1, <2>2, <2>3 DEF Roles
  <1>7. ASSUME NEW th \in Thread, DrainLast(th)
        PROVE  Roles'
    <2>0. /\ token' = [token EXCEPT ![th] = Null] /\ state' = [state EXCEPT ![curr[th]] = "freed"]
          /\ state[curr[th]] = "queued" /\ Walking(th)
      BY <1>0, <1>7, DrainLastFacts, WalkedQueued
    <2>00. \A y \in Thread : pc[y] = "link" => obj[y] # curr[th]
      BY <1>0, <2>0, LinkedNotFirst
    <2>1. RoleOf(th)'
      BY <1>0, <1>7, <2>0, <2>00 DEF DrainLast, RoleOf, Roles, Goto, TypeOK, localVars
    <2>2. ASSUME NEW y \in Thread, y # th PROVE RoleOf(y)'
      <3>1. /\ pc'[y] = pc[y] /\ obj'[y] = obj[y] /\ target'[y] = target[y] /\ into'[y] = into[y]
            /\ token'[y] = token[y]
        BY <1>0, <1>7, <2>0, <2>00, <2>2 DEF DrainLast, Goto, TypeOK, localVars
      <3>2. Holding(y) \/ pc[y] = "link" =>
               home'[obj[y]] = home[obj[y]] /\ state'[obj[y]] = state[obj[y]]
        BY <1>0, <1>7, <2>0, <2>00, <2>2, HeldState DEF DrainLast, Holding, TypeOK
      <3>3. pc[y] \in {"swap", "link", "count"} => owner'[target[y]] = owner[target[y]]
        BY <1>0, <1>7 DEF DrainLast
      <3> QED
        BY <1>0, <3>1, <3>2, <3>3, RoleKept
    <2>3. \A x, y \in Thread : Holding(x)' /\ Holding(y)' /\ obj'[x] = obj'[y] => x = y
      <3>1. \A y \in Thread : y # th => pc'[y] = pc[y] /\ obj'[y] = obj[y]
        BY <1>0, <1>7, <2>0, <2>00 DEF DrainLast, Goto, TypeOK, localVars
      <3>2. Holding(th)' => \/ Holding(th) /\ obj'[th] = obj[th]
                            \/ state[obj'[th]] \notin {"new", "freeing"}
        BY <1>0, <1>7, <2>0, <2>00 DEF DrainLast, Holding, Goto, TypeOK, localVars
      <3> QED
        BY <1>0, <3>1, <3>2, HoldingKept
    <2>4. pc'[Mem] = pc[Mem]
      BY <1>0, <1>7, <2>0, <2>00 DEF DrainLast, Goto, TypeOK
    <2> QED
      BY <1>0, <2>1, <2>2, <2>3, <2>4 DEF Roles
  <1>8. ASSUME MemWake
        PROVE  Roles'
    <2>1. \A y \in Thread : pc'[y] = pc[y]
      BY <1>0, <1>8, HandoffAssumption DEF MemWake, Goto, TypeOK
    <2>2. \A y \in Thread : RoleOf(y)'
      BY <1>0, <1>8, <2>1, RoleKept DEF MemWake, tokenVars, localVars
    <2>3. pc'[Mem] = "pop"
      BY <1>0, <1>8 DEF MemWake, Goto, TypeOK
    <2> QED
      BY <1>0, <1>8, <2>1, <2>2, <2>3 DEF Roles, Holding, MemWake, localVars
  <1>9. ASSUME NEW th \in Thread, NEW o \in Object, PushEnter(th, o)
        PROVE  Roles'
    <2>0. Null \notin Object /\ state[o] = "live" /\ home[o] # Null
      BY <1>0, <1>9, HandoffAssumption DEF PushEnter, Tokens
    <2>1. RoleOf(th)'
      BY <1>0, <1>9, <2>0 DEF PushEnter, RoleOf, Roles, Goto, TypeOK, listVars, popVars
    <2>2. ASSUME NEW y \in Thread, y # th PROVE RoleOf(y)'
      <3>1. /\ pc'[y] = pc[y] /\ obj'[y] = obj[y] /\ target'[y] = target[y] /\ into'[y] = into[y]
            /\ token'[y] = token[y]
        BY <1>0, <1>9, <2>0, <2>2 DEF PushEnter, Goto, TypeOK, listVars, popVars
      <3>2. Holding(y) \/ pc[y] = "link" =>
               home'[obj[y]] = home[obj[y]] /\ state'[obj[y]] = state[obj[y]]
        BY <1>0, <1>9, <2>0, <2>2, HeldState DEF PushEnter, Holding, RoleOf, Roles, TypeOK
      <3>3. pc[y] \in {"swap", "link", "count"} => owner'[target[y]] = owner[target[y]]
        BY <1>0, <1>9 DEF PushEnter
      <3> QED
        BY <1>0, <3>1, <3>2, <3>3, RoleKept
    <2>3. \A x, y \in Thread : Holding(x)' /\ Holding(y)' /\ obj'[x] = obj'[y] => x = y
      <3>1. \A y \in Thread : y # th => pc'[y] = pc[y] /\ obj'[y] = obj[y]
        BY <1>0, <1>9, <2>0 DEF PushEnter, Goto, TypeOK, listVars, popVars
      <3>2. Holding(th)' => \/ Holding(th) /\ obj'[th] = obj[th]
                            \/ state[obj'[th]] \notin {"new", "freeing"}
        BY <1>0, <1>9, <2>0 DEF PushEnter, Holding, Goto, TypeOK, listVars, popVars
      <3> QED
        BY <1>0, <3>1, <3>2, HoldingKept
    <2>4. pc'[Mem] = pc[Mem]
      BY <1>0, <1>9, <2>0 DEF PushEnter, Goto, TypeOK
    <2> QED
      BY <1>0, <2>1, <2>2, <2>3, <2>4 DEF Roles
  <1>10. ASSUME NEW th \in Thread, PushWait(th)
        PROVE  Roles'
    <2>1. RoleOf(th)'
      BY <1>0, <1>10 DEF PushWait, RoleOf, Roles, Goto, TypeOK, tokenVars, listVars, localVars,
         popVars
    <2>2. ASSUME NEW y \in Thread, y # th PROVE RoleOf(y)'
      <3>1. /\ pc'[y] = pc[y] /\ obj'[y] = obj[y] /\ target'[y] = target[y] /\ into'[y] = into[y]
            /\ token'[y] = token[y]
        BY <1>0, <1>10, <2>2 DEF PushWait, Goto, TypeOK, tokenVars, listVars, localVars, popVars
      <3>2. Holding(y) \/ pc[y] = "link" =>
               home'[obj[y]] = home[obj[y]] /\ state'[obj[y]] = state[obj[y]]
        BY <1>0, <1>10, <2>2, HeldState DEF PushWait, tokenVars, listVars
      <3>3. pc[y] \in {"swap", "link", "count"} => owner'[target[y]] = owner[target[y]]
        BY <1>0, <1>10 DEF PushWait, tokenVars
      <3> QED
        BY <1>0, <3>1, <3>2, <3>3, RoleKept
    <2>3. \A x, y \in Thread : Holding(x)' /\ Holding(y)' /\ obj'[x] = obj'[y] => x = y
      <3>1. \A y \in Thread : y # th => pc'[y] = pc[y] /\ obj'[y] = obj[y]
        BY <1>0, <1>10 DEF PushWait, Goto, TypeOK, tokenVars, listVars, localVars, popVars
      <3>2. Holding(th)' => \/ Holding(th) /\ obj'[th] = obj[th]
                            \/ state[obj'[th]] \notin {"new", "freeing"}
        BY <1>0, <1>10 DEF PushWait, Holding, Goto, TypeOK, tokenVars, listVars, localVars,
           popVars
      <3> QED
        BY <1>0, <3>1, <3>2, HoldingKept
    <2>4. pc'[Mem] = pc[Mem]
      BY <1>0, <1>10 DEF PushWait, Goto, TypeOK
    <2> QED
      BY <1>0, <2>1, <2>2, <2>3, <2>4 DEF Roles
  <1>11. ASSUME NEW th \in Thread, PushLoad(th)
        PROVE  Roles'
    <2>1. RoleOf(th)'
      BY <1>0, <1>11 DEF PushLoad, RoleOf, Roles, Goto, TypeOK, tokenVars, listVars, popVars
    <2>2. ASSUME NEW y \in Thread, y # th PROVE RoleOf(y)'
      <3>1. /\ pc'[y] = pc[y] /\ obj'[y] = obj[y] /\ target'[y] = target[y] /\ into'[y] = into[y]
            /\ token'[y] = token[y]
        BY <1>0, <1>11, <2>2 DEF PushLoad, Goto, TypeOK, tokenVars, listVars, popVars
      <3>2. Holding(y) \/ pc[y] = "link" =>
               home'[obj[y]] = home[obj[y]] /\ state'[obj[y]] = state[obj[y]]
        BY <1>0, <1>11, <2>2, HeldState DEF PushLoad, tokenVars, listVars
      <3>3. pc[y] \in {"swap", "link", "count"} => owner'[target[y]] = owner[target[y]]
        BY <1>0, <1>11 DEF PushLoad, tokenVars
      <3> QED
        BY <1>0, <3>1, <3>2, <3>3, RoleKept
    <2>3. \A x, y \in Thread : Holding(x)' /\ Holding(y)' /\ obj'[x] = obj'[y] => x = y
      <3>1. \A y \in Thread : y # th => pc'[y] = pc[y] /\ obj'[y] = obj[y]
        BY <1>0, <1>11 DEF PushLoad, Goto, TypeOK, tokenVars, listVars, popVars
      <3>2. Holding(th)' => \/ Holding(th) /\ obj'[th] = obj[th]
                            \/ state[obj'[th]] \notin {"new", "freeing"}
        BY <1>0, <1>11 DEF PushLoad, Holding, Goto, TypeOK, tokenVars, listVars, popVars
      <3> QED
        BY <1>0, <3>1, <3>2, HoldingKept
    <2>4. pc'[Mem] = pc[Mem]
      BY <1>0, <1>11 DEF PushLoad, Goto, TypeOK
    <2> QED
      BY <1>0, <2>1, <2>2, <2>3, <2>4 DEF Roles
  <1>12. ASSUME NEW th \in Thread, PushSwap(th)
        PROVE  Roles'
    <2>1. RoleOf(th)'
      BY <1>0, <1>12 DEF PushSwap, RoleOf, Roles, Goto, TypeOK, tokenVars, popVars
    <2>2. ASSUME NEW y \in Thread, y # th PROVE RoleOf(y)'
      <3>1. /\ pc'[y] = pc[y] /\ obj'[y] = obj[y] /\ target'[y] = target[y] /\ into'[y] = into[y]
            /\ token'[y] = token[y]
        BY <1>0, <1>12, <2>2 DEF PushSwap, Goto, TypeOK, tokenVars, popVars
      <3>2. Holding(y) \/ pc[y] = "link" =>
               home'[obj[y]] = home[obj[y]] /\ state'[obj[y]] = state[obj[y]]
        BY <1>0, <1>12, <2>2, HeldState DEF PushSwap, Holding, RoleOf, Roles, TypeOK, tokenVars
      <3>3. pc[y] \in {"swap", "link", "count"} => owner'[target[y]] = owner[target[y]]
        BY <1>0, <1>12 DEF PushSwap, tokenVars
      <3> QED
        BY <1>0, <3>1, <3>2, <3>3, RoleKept
    <2>3. \A x, y \in Thread : Holding(x)' /\ Holding(y)' /\ obj'[x] = obj'[y] => x = y
      <3>1. \A y \in Thread : y # th => pc'[y] = pc[y] /\ obj'[y] = obj[y]
        BY <1>0, <1>12 DEF PushSwap, Goto, TypeOK, tokenVars, popVars
      <3>2. Holding(th)' => \/ Holding(th) /\ obj'[th] = obj[th]
                            \/ state[obj'[th]] \notin {"new", "freeing"}
        BY <1>0, <1>12 DEF PushSwap, Holding, Goto, TypeOK, tokenVars, popVars
      <3> QED
        BY <1>0, <3>1, <3>2, HoldingKept
    <2>4. pc'[Mem] = pc[Mem]
      BY <1>0, <1>12 DEF PushSwap, Goto, TypeOK
    <2> QED
      BY <1>0, <2>1, <2>2, <2>3, <2>4 DEF Roles
  <1>13. ASSUME NEW th \in Thread, PushLink(th)
        PROVE  Roles'
    <2>1. RoleOf(th)'
      BY <1>0, <1>13 DEF PushLink, RoleOf, Roles, Goto, TypeOK, tokenVars, localVars, popVars
    <2>2. ASSUME NEW y \in Thread, y # th PROVE RoleOf(y)'
      <3>1. /\ pc'[y] = pc[y] /\ obj'[y] = obj[y] /\ target'[y] = target[y] /\ into'[y] = into[y]
            /\ token'[y] = token[y]
        BY <1>0, <1>13, <2>2 DEF PushLink, Goto, TypeOK, tokenVars, localVars, popVars
      <3>2. Holding(y) \/ pc[y] = "link" =>
               home'[obj[y]] = home[obj[y]] /\ state'[obj[y]] = state[obj[y]]
        BY <1>0, <1>13, <2>2, HeldState DEF PushLink, tokenVars
      <3>3. pc[y] \in {"swap", "link", "count"} => owner'[target[y]] = owner[target[y]]
        BY <1>0, <1>13 DEF PushLink, tokenVars
      <3> QED
        BY <1>0, <3>1, <3>2, <3>3, RoleKept
    <2>3. \A x, y \in Thread : Holding(x)' /\ Holding(y)' /\ obj'[x] = obj'[y] => x = y
      <3>1. \A y \in Thread : y # th => pc'[y] = pc[y] /\ obj'[y] = obj[y]
        BY <1>0, <1>13 DEF PushLink, Goto, TypeOK, tokenVars, localVars, popVars
      <3>2. Holding(th)' => \/ Holding(th) /\ obj'[th] = obj[th]
                            \/ state[obj'[th]] \notin {"new", "freeing"}
        BY <1>0, <1>13 DEF PushLink, Holding, Goto, TypeOK, tokenVars, localVars, popVars
      <3> QED
        BY <1>0, <3>1, <3>2, HoldingKept
    <2>4. pc'[Mem] = pc[Mem]
      BY <1>0, <1>13 DEF PushLink, Goto, TypeOK
    <2> QED
      BY <1>0, <2>1, <2>2, <2>3, <2>4 DEF Roles
  <1>14. ASSUME NEW th \in Thread, PushCount(th)
        PROVE  Roles'
    <2>1. RoleOf(th)'
      BY <1>0, <1>14 DEF PushCount, RoleOf, Roles, Goto, TypeOK, tokenVars, localVars, popVars
    <2>2. ASSUME NEW y \in Thread, y # th PROVE RoleOf(y)'
      <3>1. /\ pc'[y] = pc[y] /\ obj'[y] = obj[y] /\ target'[y] = target[y] /\ into'[y] = into[y]
            /\ token'[y] = token[y]
        BY <1>0, <1>14, <2>2 DEF PushCount, Goto, TypeOK, tokenVars, localVars, popVars
      <3>2. Holding(y) \/ pc[y] = "link" =>
               home'[obj[y]] = home[obj[y]] /\ state'[obj[y]] = state[obj[y]]
        BY <1>0, <1>14, <2>2, HeldState DEF PushCount, tokenVars
      <3>3. pc[y] \in {"swap", "link", "count"} => owner'[target[y]] = owner[target[y]]
        BY <1>0, <1>14 DEF PushCount, tokenVars
      <3> QED
        BY <1>0, <3>1, <3>2, <3>3, RoleKept
    <2>3. \A x, y \in Thread : Holding(x)' /\ Holding(y)' /\ obj'[x] = obj'[y] => x = y
      <3>1. \A y \in Thread : y # th => pc'[y] = pc[y] /\ obj'[y] = obj[y]
        BY <1>0, <1>14 DEF PushCount, Goto, TypeOK, tokenVars, localVars, popVars
      <3>2. Holding(th)' => \/ Holding(th) /\ obj'[th] = obj[th]
                            \/ state[obj'[th]] \notin {"new", "freeing"}
        BY <1>0, <1>14 DEF PushCount, Holding, Goto, TypeOK, tokenVars, localVars, popVars
      <3> QED
        BY <1>0, <3>1, <3>2, HoldingKept
    <2>4. pc'[Mem] = pc[Mem]
      BY <1>0, <1>14 DEF PushCount, Goto, TypeOK
    <2> QED
      BY <1>0, <2>1, <2>2, <2>3, <2>4 DEF Roles
  <1>15. ASSUME NEW th \in Thread, PushExit(th)
        PROVE  Roles'
    <2>1. RoleOf(th)'
      BY <1>0, <1>15 DEF PushExit, RoleOf, Roles, Goto, TypeOK, listVars, popVars
    <2>2. ASSUME NEW y \in Thread, y # th PROVE RoleOf(y)'
      <3>1. /\ pc'[y] = pc[y] /\ obj'[y] = obj[y] /\ target'[y] = target[y] /\ into'[y] = into[y]
            /\ token'[y] = token[y]
        BY <1>0, <1>15, <2>2 DEF PushExit, Goto, TypeOK, listVars, popVars
      <3>2. Holding(y) \/ pc[y] = "link" =>
               home'[obj[y]] = home[obj[y]] /\ state'[obj[y]] = state[obj[y]]
        BY <1>0, <1>15, <2>2, HeldState DEF PushExit, listVars
      <3>3. pc[y] \in {"swap", "link", "count"} => owner'[target[y]] = owner[target[y]]
        BY <1>0, <1>15 DEF PushExit
      <3> QED
        BY <1>0, <3>1, <3>2, <3>3, RoleKept
    <2>3. \A x, y \in Thread : Holding(x)' /\ Holding(y)' /\ obj'[x] = obj'[y] => x = y
      <3>1. \A y \in Thread : y # th => pc'[y] = pc[y] /\ obj'[y] = obj[y]
        BY <1>0, <1>15 DEF PushExit, Goto, TypeOK, listVars, popVars
      <3>2. Holding(th)' => \/ Holding(th) /\ obj'[th] = obj[th]
                            \/ state[obj'[th]] \notin {"new", "freeing"}
        BY <1>0, <1>15 DEF PushExit, Holding, Goto, TypeOK, listVars, popVars
      <3> QED
        BY <1>0, <3>1, <3>2, HoldingKept
    <2>4. pc'[Mem] = pc[Mem]
      BY <1>0, <1>15 DEF PushExit, Goto, TypeOK
    <2> QED
      BY <1>0, <2>1, <2>2, <2>3, <2>4 DEF Roles
  <1>16. ASSUME NEW th \in Thread, ExitPlain(th)
        PROVE  Roles'
    <2>1. RoleOf(th)'
      BY <1>0, <1>16 DEF ExitPlain, RoleOf, Roles, Goto, TypeOK, tokenVars, listVars,
         localVars, popVars
    <2>2. ASSUME NEW y \in Thread, y # th PROVE RoleOf(y)'
      <3>1. /\ pc'[y] = pc[y] /\ obj'[y] = obj[y] /\ target'[y] = target[y] /\ into'[y] = into[y]
            /\ token'[y] = token[y]
        BY <1>0, <1>16, <2>2 DEF ExitPlain, Goto, TypeOK, tokenVars, listVars, localVars,
           popVars
      <3>2. Holding(y) \/ pc[y] = "link" =>
               home'[obj[y]] = home[obj[y]] /\ state'[obj[y]] = state[obj[y]]
        BY <1>0, <1>16, <2>2, HeldState DEF ExitPlain, tokenVars, listVars
      <3>3. pc[y] \in {"swap", "link", "count"} => owner'[target[y]] = owner[target[y]]
        BY <1>0, <1>16 DEF ExitPlain, tokenVars
      <3> QED
        BY <1>0, <3>1, <3>2, <3>3, RoleKept
    <2>3. \A x, y \in Thread : Holding(x)' /\ Holding(y)' /\ obj'[x] = obj'[y] => x = y
      <3>1. \A y \in Thread : y # th => pc'[y] = pc[y] /\ obj'[y] = obj[y]
        BY <1>0, <1>16 DEF ExitPlain, Goto, TypeOK, tokenVars, listVars, localVars, popVars
      <3>2. Holding(th)' => \/ Holding(th) /\ obj'[th] = obj[th]
                            \/ state[obj'[th]] \notin {"new", "freeing"}
        BY <1>0, <1>16 DEF ExitPlain, Holding, Goto, TypeOK, tokenVars, listVars, localVars,
           popVars
      <3> QED
        BY <1>0, <3>1, <3>2, HoldingKept
    <2>4. pc'[Mem] = pc[Mem]
      BY <1>0, <1>16 DEF ExitPlain, Goto, TypeOK
    <2> QED
      BY <1>0, <2>1, <2>2, <2>3, <2>4 DEF Roles
  <1>17. ASSUME NEW th \in Thread, ExitDrain(th)
        PROVE  Roles'
    <2>1. RoleOf(th)'
      BY <1>0, <1>17 DEF ExitDrain, RoleOf, Roles, Goto, TypeOK, tokenVars, listVars, localVars
    <2>2. ASSUME NEW y \in Thread, y # th PROVE RoleOf(y)'
      <3>1. /\ pc'[y] = pc[y] /\ obj'[y] = obj[y] /\ target'[y] = target[y] /\ into'[y] = into[y]
            /\ token'[y] = token[y]
        BY <1>0, <1>17, <2>2 DEF ExitDrain, Goto, TypeOK, tokenVars, listVars, localVars
      <3>2. Holding(y) \/ pc[y] = "link" =>
               home'[obj[y]] = home[obj[y]] /\ state'[obj[y]] = state[obj[y]]
        BY <1>0, <1>17, <2>2, HeldState DEF ExitDrain, tokenVars, listVars
      <3>3. pc[y] \in {"swap", "link", "count"} => owner'[target[y]] = owner[target[y]]
        BY <1>0, <1>17 DEF ExitDrain, tokenVars
      <3> QED
        BY <1>0, <3>1, <3>2, <3>3, RoleKept
    <2>3. \A x, y \in Thread : Holding(x)' /\ Holding(y)' /\ obj'[x] = obj'[y] => x = y
      <3>1. \A y \in Thread : y # th => pc'[y] = pc[y] /\ obj'[y] = obj[y]
        BY <1>0, <1>17 DEF ExitDrain, Goto, TypeOK, tokenVars, listVars, localVars
      <3>2. Holding(th)' => \/ Holding(th) /\ obj'[th] = obj[th]
                            \/ state[obj'[th]] \notin {"new", "freeing"}
        BY <1>0, <1>17 DEF ExitDrain, Holding, Goto, TypeOK, tokenVars, listVars, localVars
      <3> QED
        BY <1>0, <3>1, <3>2, HoldingKept
    <2>4. pc'[Mem] = pc[Mem]
      BY <1>0, <1>17 DEF ExitDrain, Goto, TypeOK
    <2> QED
      BY <1>0, <2>1, <2>2, <2>3, <2>4 DEF Roles
  <1>18. ASSUME NEW th \in Thread, RaiseBegin(th)
        PROVE  Roles'
    <2>1. RoleOf(th)'
      BY <1>0, <1>18 DEF RaiseBegin, RoleOf, Roles, Goto, TypeOK, listVars, popVars
    <2>2. ASSUME NEW y \in Thread, y # th PROVE RoleOf(y)'
      <3>1. /\ pc'[y] = pc[y] /\ obj'[y] = obj[y] /\ target'[y] = target[y] /\ into'[y] = into[y]
            /\ token'[y] = token[y]
        BY <1>0, <1>18, <2>2 DEF RaiseBegin, Goto, TypeOK, listVars, popVars
      <3>2. Holding(y) \/ pc[y] = "link" =>
               home'[obj[y]] = home[obj[y]] /\ state'[obj[y]] = state[obj[y]]
        BY <1>0, <1>18, <2>2, HeldState DEF RaiseBegin, listVars
      <3>3. pc[y] \in {"swap", "link", "count"} => owner'[target[y]] = owner[target[y]]
        BY <1>0, <1>18 DEF RaiseBegin
      <3> QED
        BY <1>0, <3>1, <3>2, <3>3, RoleKept
    <2>3. \A x, y \in Thread : Holding(x)' /\ Holding(y)' /\ obj'[x] = obj'[y] => x = y
      <3>1. \A y \in Thread : y # th => pc'[y] = pc[y] /\ obj'[y] = obj[y]
        BY <1>0, <1>18 DEF RaiseBegin, Goto, TypeOK, listVars, popVars
      <3>2. Holding(th)' => \/ Holding(th) /\ obj'[th] = obj[th]
                            \/ state[obj'[th]] \notin {"new", "freeing"}
        BY <1>0, <1>18 DEF RaiseBegin, Holding, Goto, TypeOK, listVars, popVars
      <3> QED
        BY <1>0, <3>1, <3>2, HoldingKept
    <2>4. pc'[Mem] = pc[Mem]
      BY <1>0, <1>18 DEF RaiseBegin, Goto, TypeOK
    <2> QED
      BY <1>0, <2>1, <2>2, <2>3, <2>4 DEF Roles
  <1>19. ASSUME NEW th \in Thread, RaiseOwner(th)
        PROVE  Roles'
    <2>0. target[th] \in Token /\ target[th] = token[th] /\ Busy(target[th]) = {}
      BY <1>0, <1>19, RaiseOwnerFacts
    <2>1. RoleOf(th)'
      BY <1>0, <1>19, <2>0 DEF RaiseOwner, RoleOf, Roles, Goto, TypeOK, listVars, localVars,
         popVars
    <2>2. ASSUME NEW y \in Thread, y # th PROVE RoleOf(y)'
      <3>1. /\ pc'[y] = pc[y] /\ obj'[y] = obj[y] /\ target'[y] = target[y] /\ into'[y] = into[y]
            /\ token'[y] = token[y]
        BY <1>0, <1>19, <2>0, <2>2 DEF RaiseOwner, Goto, TypeOK, listVars, localVars, popVars
      <3>2. Holding(y) \/ pc[y] = "link" =>
               home'[obj[y]] = home[obj[y]] /\ state'[obj[y]] = state[obj[y]]
        BY <1>0, <1>19, <2>0, <2>2, HeldState DEF RaiseOwner, listVars
      <3>3. pc[y] \in {"swap", "link", "count"} => owner'[target[y]] = owner[target[y]]
        BY <1>0, <1>19, <2>0 DEF RaiseOwner, Busy, TypeOK
      <3> QED
        BY <1>0, <3>1, <3>2, <3>3, RoleKept
    <2>3. \A x, y \in Thread : Holding(x)' /\ Holding(y)' /\ obj'[x] = obj'[y] => x = y
      <3>1. \A y \in Thread : y # th => pc'[y] = pc[y] /\ obj'[y] = obj[y]
        BY <1>0, <1>19, <2>0 DEF RaiseOwner, Goto, TypeOK, listVars, localVars, popVars
      <3>2. Holding(th)' => \/ Holding(th) /\ obj'[th] = obj[th]
                            \/ state[obj'[th]] \notin {"new", "freeing"}
        BY <1>0, <1>19, <2>0 DEF RaiseOwner, Holding, Goto, TypeOK, listVars, localVars, popVars
      <3> QED
        BY <1>0, <3>1, <3>2, HoldingKept
    <2>4. pc'[Mem] = pc[Mem]
      BY <1>0, <1>19, <2>0 DEF RaiseOwner, Goto, TypeOK
    <2> QED
      BY <1>0, <2>1, <2>2, <2>3, <2>4 DEF Roles
  <1>20. ASSUME NEW th \in Thread, RaiseSplice(th)
        PROVE  Roles'
    <2>1. RoleOf(th)'
      BY <1>0, <1>20 DEF RaiseSplice, RoleOf, Roles, Goto, TypeOK, tokenVars, popVars
    <2>2. ASSUME NEW y \in Thread, y # th PROVE RoleOf(y)'
      <3>1. /\ pc'[y] = pc[y] /\ obj'[y] = obj[y] /\ target'[y] = target[y] /\ into'[y] = into[y]
            /\ token'[y] = token[y]
        BY <1>0, <1>20, <2>2 DEF RaiseSplice, Goto, TypeOK, tokenVars, popVars
      <3>2. Holding(y) \/ pc[y] = "link" =>
               home'[obj[y]] = home[obj[y]] /\ state'[obj[y]] = state[obj[y]]
        BY <1>0, <1>20, <2>2, HeldState DEF RaiseSplice, tokenVars
      <3>3. pc[y] \in {"swap", "link", "count"} => owner'[target[y]] = owner[target[y]]
        BY <1>0, <1>20 DEF RaiseSplice, tokenVars
      <3> QED
        BY <1>0, <3>1, <3>2, <3>3, RoleKept
    <2>3. \A x, y \in Thread : Holding(x)' /\ Holding(y)' /\ obj'[x] = obj'[y] => x = y
      <3>1. \A y \in Thread : y # th => pc'[y] = pc[y] /\ obj'[y] = obj[y]
        BY <1>0, <1>20 DEF RaiseSplice, Goto, TypeOK, tokenVars, popVars
      <3>2. Holding(th)' => \/ Holding(th) /\ obj'[th] = obj[th]
                            \/ state[obj'[th]] \notin {"new", "freeing"}
        BY <1>0, <1>20 DEF RaiseSplice, Holding, Goto, TypeOK, tokenVars, popVars
      <3> QED
        BY <1>0, <3>1, <3>2, HoldingKept
    <2>4. pc'[Mem] = pc[Mem]
      BY <1>0, <1>20 DEF RaiseSplice, Goto, TypeOK
    <2> QED
      BY <1>0, <2>1, <2>2, <2>3, <2>4 DEF Roles
  <1>21. ASSUME NEW th \in Thread, RaiseLink(th)
        PROVE  Roles'
    <2>1. RoleOf(th)'
      BY <1>0, <1>21 DEF RaiseLink, RoleOf, Roles, Goto, TypeOK, tokenVars, localVars, popVars
    <2>2. ASSUME NEW y \in Thread, y # th PROVE RoleOf(y)'
      <3>1. /\ pc'[y] = pc[y] /\ obj'[y] = obj[y] /\ target'[y] = target[y] /\ into'[y] = into[y]
            /\ token'[y] = token[y]
        BY <1>0, <1>21, <2>2 DEF RaiseLink, Goto, TypeOK, tokenVars, localVars, popVars
      <3>2. Holding(y) \/ pc[y] = "link" =>
               home'[obj[y]] = home[obj[y]] /\ state'[obj[y]] = state[obj[y]]
        BY <1>0, <1>21, <2>2, HeldState DEF RaiseLink, tokenVars
      <3>3. pc[y] \in {"swap", "link", "count"} => owner'[target[y]] = owner[target[y]]
        BY <1>0, <1>21 DEF RaiseLink, tokenVars
      <3> QED
        BY <1>0, <3>1, <3>2, <3>3, RoleKept
    <2>3. \A x, y \in Thread : Holding(x)' /\ Holding(y)' /\ obj'[x] = obj'[y] => x = y
      <3>1. \A y \in Thread : y # th => pc'[y] = pc[y] /\ obj'[y] = obj[y]
        BY <1>0, <1>21 DEF RaiseLink, Goto, TypeOK, tokenVars, localVars, popVars
      <3>2. Holding(th)' => \/ Holding(th) /\ obj'[th] = obj[th]
                            \/ state[obj'[th]] \notin {"new", "freeing"}
        BY <1>0, <1>21 DEF RaiseLink, Holding, Goto, TypeOK, tokenVars, localVars, popVars
      <3> QED
        BY <1>0, <3>1, <3>2, HoldingKept
    <2>4. pc'[Mem] = pc[Mem]
      BY <1>0, <1>21 DEF RaiseLink, Goto, TypeOK
    <2> QED
      BY <1>0, <2>1, <2>2, <2>3, <2>4 DEF Roles
  <1>22. ASSUME NEW th \in Thread, RaiseEnd(th)
        PROVE  Roles'
    <2>1. RoleOf(th)'
      BY <1>0, <1>22 DEF RaiseEnd, RoleOf, Roles, Goto, TypeOK, listVars, popVars
    <2>2. ASSUME NEW y \in Thread, y # th PROVE RoleOf(y)'
      <3>1. /\ pc'[y] = pc[y] /\ obj'[y] = obj[y] /\ target'[y] = target[y] /\ into'[y] = into[y]
            /\ token'[y] = token[y]
        BY <1>0, <1>22, <2>2 DEF RaiseEnd, Goto, TypeOK, listVars, popVars
      <3>2. Holding(y) \/ pc[y] = "link" =>
               home'[obj[y]] = home[obj[y]] /\ state'[obj[y]] = state[obj[y]]
        BY <1>0, <1>22, <2>2, HeldState DEF RaiseEnd, listVars
      <3>3. pc[y] \in {"swap", "link", "count"} => owner'[target[y]] = owner[target[y]]
        BY <1>0, <1>22 DEF RaiseEnd
      <3> QED
        BY <1>0, <3>1, <3>2, <3>3, RoleKept
    <2>3. \A x, y \in Thread : Holding(x)' /\ Holding(y)' /\ obj'[x] = obj'[y] => x = y
      <3>1. \A y \in Thread : y # th => pc'[y] = pc[y] /\ obj'[y] = obj[y]
        BY <1>0, <1>22 DEF RaiseEnd, Goto, TypeOK, listVars, popVars
      <3>2. Holding(th)' => \/ Holding(th) /\ obj'[th] = obj[th]
                            \/ state[obj'[th]] \notin {"new", "freeing"}
        BY <1>0, <1>22 DEF RaiseEnd, Holding, Goto, TypeOK, listVars, popVars
      <3> QED
        BY <1>0, <3>1, <3>2, HoldingKept
    <2>4. pc'[Mem] = pc[Mem]
      BY <1>0, <1>22 DEF RaiseEnd, Goto, TypeOK
    <2> QED
      BY <1>0, <2>1, <2>2, <2>3, <2>4 DEF Roles
  <1> QED
    BY <1>1, <1>2, <1>3, <1>4, <1>5, <1>6, <1>7, <1>8, <1>9, <1>10, <1>11, <1>12,
       <1>13, <1>14, <1>15, <1>16, <1>17, <1>18, <1>19, <1>20, <1>21, <1>22 DEF Next, Step,
       Call, Pop, Worker

------------------------------------------------------------------------------
(* Tokens                                                                   *)

(* A token that is not created is nobody's. *)
LEMMA ActiveKept ==
    ASSUME HandoffInv, NEW t, home' = home,
           \A o \in Object : state[o] \in {"unborn", "freed"} => state'[o] = state[o]
    PROVE  Active(t)' \subseteq Active(t)
  <1>1. \A o \in Object : state[o] \notin {"unborn", "freed"} =>
            state[o] \in {"new", "live", "freeing", "queued"}
    BY DEF HandoffInv, TypeOK
  <1>2. ASSUME NEW o \in Active(t)' PROVE o \in Active(t)
    <2>1. o \in Object /\ home[o] = t /\ state'[o] \in {"new", "live", "freeing", "queued"}
      BY <1>2 DEF Active
    <2>2. state[o] \notin {"unborn", "freed"}
      BY <2>1
    <2> QED
      BY <1>1, <2>1, <2>2 DEF Active
  <1> QED
    BY <1>2

(* Steps that leave the states of the objects and the tokens alone *)
LEMMA TokensKept ==
    ASSUME HandoffInv, state' = state, home' = home,
           token' = token, released' = released, used' = used, owner' = owner,
           \A th \in Thread : pc'[th] \in {"splice", "relink", "clear"} =>
               pc[th] \in {"splice", "relink", "clear"} /\ target'[th] = target[th],
           \A th \in Thread : pc'[th] = "splice" => pc[th] = "splice",
           \A th \in Thread : pc[th] \in {"splice", "relink", "clear", "exited"} =>
               pc'[th] \in {"splice", "relink", "clear", "exited"}
    PROVE  Tokens'
  <1>0. Tokens
    BY DEF HandoffInv
  <1>1. \A t : Active(t)' = Active(t)
    BY DEF Active
  <1> QED
    BY <1>0, <1>1 DEF Tokens

(* Steps that move an object on in its life *)
LEMMA TokensMoved ==
    ASSUME HandoffInv, NEW o \in Object, state[o] \notin {"unborn", "freed"},
           NEW s \in {"live", "freeing", "queued", "freed"},
           state' = [state EXCEPT ![o] = s], home' = home, used' = used, owner' = owner,
           token' = token, released' = released,
           \A th \in Thread : pc'[th] \in {"splice", "relink", "clear"} =>
               pc[th] \in {"splice", "relink", "clear"} /\ target'[th] = target[th],
           \A th \in Thread : pc'[th] = "splice" => pc[th] = "splice",
           \A th \in Thread : pc[th] \in {"splice", "relink", "clear", "exited"} =>
               pc'[th] \in {"splice", "relink", "clear", "exited"}
    PROVE  Tokens'
  <1>0. Tokens /\ TypeOK
    BY DEF HandoffInv
  <1>1. \A t : Active(t)' \subseteq Active(t)
    <2>1. \A p \in Object : state[p] \in {"unborn", "freed"} => state'[p] = state[p]
      BY <1>0 DEF TypeOK
    <2> QED
      BY <2>1, ActiveKept
  <1>2. \A p \in Object : state'[p] = "unborn" <=> state[p] = "unborn"
    BY <1>0 DEF TypeOK
  <1> QED
    BY <1>0, <1>1, <1>2 DEF Tokens

(* ... and give its token back with it: a thread's own, ... *)
LEMMA TokensReleased ==
    ASSUME HandoffInv, NEW th \in Thread, NEW o \in Object,
           token[th] \in Token, Active(token[th]) = {o},
           state' = [state EXCEPT ![o] = "freed"], home' = home, used' = used, owner' = owner,
           token' = [token EXCEPT ![th] = Null], released' = released \cup {token[th]},
           \A x \in Thread : pc'[x] \in {"splice", "relink", "clear"} =>
               pc[x] \in {"splice", "relink", "clear"} /\ target'[x] = target[x],
           \A x \in Thread : pc'[x] = "splice" => pc[x] = "splice",
           \A x \in Thread : pc[x] \in {"splice", "relink", "clear", "exited"} =>
               pc'[x] \in {"splice", "relink", "clear", "exited"},
           pc[th] \notin {"splice", "relink", "clear", "exited"}
    PROVE  Tokens'
  <1>0. Tokens /\ TypeOK /\ Roles /\ Null \notin Token
    BY HandoffAssumption DEF HandoffInv
  <1>1. o \in Object /\ state[o] \notin {"unborn", "freed"}
    BY DEF Active
  <1>2. \A t : Active(t)' \subseteq Active(t)
    <2>1. \A p \in Object : state[p] \in {"unborn", "freed"} => state'[p] = state[p]
      BY <1>0, <1>1 DEF TypeOK
    <2> QED
      BY <2>1, ActiveKept
  <1>3. \A t : o \notin Active(t)'
    BY <1>0, <1>1 DEF Active, TypeOK
  <1>4. \A t \in released' : Active(t)' = {}
    <2>1. \A t \in released : Active(t)' = {}
      BY <1>0, <1>2 DEF Tokens
    <2>2. \A t : t = token[th] => Active(t)' = {}
      BY <1>2, <1>3
    <2> QED
      BY <2>1, <2>2
  <1>5. \A p \in Object : state'[p] = "unborn" <=> state[p] = "unborn"
    BY <1>0, <1>1 DEF TypeOK
  <1>6. \A x \in Thread : x # th => token'[x] = token[x] /\ (token[x] # Null => token[x] # token[th])
    BY <1>0 DEF Tokens, TypeOK
  <1>7. token'[th] = Null
    BY <1>0 DEF TypeOK
  <1>8. ASSUME NEW x \in Thread
        PROVE  /\ token'[x] # Null /\ pc'[x] \notin {"splice", "relink", "clear", "exited"} =>
                     token'[x] \notin released' /\ owner'[token'[x]] = token'[x]
               /\ pc'[x] \in {"splice", "relink", "clear"} => owner'[target'[x]] = Back
               /\ pc'[x] = "splice" => target'[x] \notin released'
    <2>1. CASE x = th
      BY <1>7, <2>1
    <2>2. CASE x # th
      <3>1. token'[x] = token[x] /\ (token[x] # Null => token[x] # token[th])
        BY <1>6, <2>2
      <3>2. pc'[x] = "splice" => target[x] = token[x] /\ target[x] # Null /\ target'[x] = target[x]
        BY <1>0 DEF Roles, RoleOf
      <3> QED
        BY <1>0, <3>1, <3>2 DEF Tokens
    <2> QED
      BY <2>1, <2>2
  <1> QED
    BY <1>0, <1>4, <1>5, <1>6, <1>7, <1>8 DEF Tokens

(* ... or one that the memory thread has taken over *)
LEMMA TokensReleasedBack ==
    ASSUME HandoffInv, NEW o \in Object, state[o] \notin {"unborn", "freed"},
           state' = [state EXCEPT ![o] = "freed"], home' = home, used' = used, owner' = owner,
           token' = token, owner[home[o]] = Back, ~Splicing(home[o]), home[o] \in Token,
           released' = IF Active(home[o]) = {o} THEN released \cup {home[o]} ELSE released,
           \A th \in Thread : pc'[th] = pc[th] /\ target'[th] = target[th]
    PROVE  Tokens'
  <1>0. Tokens /\ TypeOK /\ Roles /\ Null \notin Token /\ Back \notin Token
    BY HandoffAssumption DEF HandoffInv
  <1>2. \A t : Active(t)' \subseteq Active(t)
    <2>1. \A p \in Object : state[p] \in {"unborn", "freed"} => state'[p] = state[p]
      BY <1>0 DEF TypeOK
    <2> QED
      BY <2>1, ActiveKept
  <1>3. o \notin Active(home[o])'
    BY <1>0 DEF Active, TypeOK
  <1>4. \A t \in released' : Active(t)' = {}
    BY <1>0, <1>2, <1>3 DEF Tokens
  <1>5. \A p \in Object : state'[p] = "unborn" <=> state[p] = "unborn"
    BY <1>0 DEF TypeOK
  <1>6. ASSUME NEW th \in Thread, token[th] # Null,
               pc[th] \notin {"splice", "relink", "clear", "exited"}
        PROVE  token[th] \notin released'
    <2>1. owner[token[th]] = token[th] /\ token[th] \in Token /\ token[th] \notin released
      BY <1>0, <1>6 DEF Tokens, TypeOK
    <2> QED
      BY <1>0, <2>1
  <1>7. \A th \in Thread : pc[th] = "splice" => target[th] \notin released'
    BY <1>0 DEF Splicing, Tokens
  <1> QED
    BY <1>0, <1>4, <1>5, <1>6, <1>7 DEF Tokens

LEMMA StepTokens ==
    ASSUME HandoffInv, Next
    PROVE  Tokens'
  <1>0. /\ HandoffInv /\ TypeOK /\ Roles /\ Tokens
        /\ \A th \in Thread : th \in Worker /\ th # Mem
        /\ Mem \in Worker /\ Null \notin Token
    BY HandoffAssumption DEF HandoffInv, Worker
  <1>1. ASSUME NEW th \in Thread, NEW o \in Object, NEW t \in Token, Alloc(th, o, t)
        PROVE  Tokens'
    <2>0. /\ t \in Token /\ t # Null /\ t \notin released /\ owner[t] = t
          /\ \A x \in Thread : x # th => token[x] # t
      <3>1. CASE token[th] = Null
        BY <1>0, <1>1, <3>1 DEF Alloc, Tokens, TypeOK
      <3>2. CASE token[th] # Null
        BY <1>0, <1>1, <3>2 DEF Alloc, Tokens, TypeOK
      <3> QED
        BY <3>1, <3>2
    <2>1. /\ \A x \in Thread : x # th => pc'[x] = pc[x] /\ token'[x] = token[x]
          /\ pc'[th] \in {"pop", "resume"} /\ token'[th] = t
          /\ used' = used \cup {t} /\ released' = released /\ owner' = owner /\ target' = target
      BY <1>0, <1>1, LazyTyped DEF Alloc, PopLazily, Goto, TypeOK
    <2>2. /\ \A p \in Object : p # o => state'[p] = state[p] /\ home'[p] = home[p]
          /\ state'[o] = "new" /\ home'[o] = t
      BY <1>0, <1>1 DEF Alloc, TypeOK
    <2>3. \A s \in released : Active(s)' = {}
      <3>1. \A s \in released : Active(s)' \subseteq Active(s)
        BY <2>0, <2>2 DEF Active
      <3> QED
        BY <1>0, <3>1 DEF Tokens
    <2>4. \A p \in Object : /\ home'[p] = Null <=> state'[p] = "unborn"
                            /\ home'[p] \in used' \cup {Null}
      BY <1>0, <2>0, <2>1, <2>2 DEF Tokens
    <2>5. /\ \A x \in Thread : token'[x] \in used' \cup {Null}
          /\ \A x, y \in Thread : token'[x] = token'[y] /\ token'[x] # Null => x = y
      BY <1>0, <2>0, <2>1 DEF Tokens
    <2>6. \A s \in Token : owner'[s] \in {s, Back} /\ (s \notin used' => owner'[s] = s)
      BY <1>0, <2>1 DEF Tokens
    <2>7. \A x \in Thread :
              /\ token'[x] # Null /\ pc'[x] \notin {"splice", "relink", "clear", "exited"} =>
                    token'[x] \notin released' /\ owner'[token'[x]] = token'[x]
              /\ pc'[x] \in {"splice", "relink", "clear"} => owner'[target'[x]] = Back
              /\ pc'[x] = "splice" => target'[x] \notin released'
      BY <1>0, <2>0, <2>1 DEF Tokens
    <2> QED
      BY <2>1, <2>3, <2>4, <2>5, <2>6, <2>7 DEF Tokens
  <1>2. ASSUME NEW th \in Thread, NEW o \in Object, FreeOwn(th, o)
        PROVE  Tokens'
    <2>1. /\ \A x \in Thread : pc'[x] \in {"splice", "relink", "clear"} =>
               pc[x] \in {"splice", "relink", "clear"} /\ target'[x] = target[x]
          /\ \A x \in Thread : pc'[x] = "splice" => pc[x] = "splice"
          /\ \A x \in Thread : pc[x] \in {"splice", "relink", "clear", "exited"} =>
               pc'[x] \in {"splice", "relink", "clear", "exited"}
      BY <1>0, <1>2 DEF FreeOwn, PopLazily, Goto, TypeOK, Roles
    <2>2. o \in Object /\ state[o] \notin {"unborn", "freed"}
      BY <1>0, <1>2 DEF FreeOwn, Roles, RoleOf, TypeOK
    <2>3. state' = [state EXCEPT ![o] = "freeing"]
      BY <1>2 DEF FreeOwn
    <2> QED
      BY <1>0, <1>2, <2>1, <2>2, <2>3, TokensMoved DEF FreeOwn, tokenVars
  <1>3. ASSUME NEW th \in Thread, Resume(th)
        PROVE  Tokens'
    <2>1. /\ \A x \in Thread : pc'[x] \in {"splice", "relink", "clear"} =>
               pc[x] \in {"splice", "relink", "clear"} /\ target'[x] = target[x]
          /\ \A x \in Thread : pc'[x] = "splice" => pc[x] = "splice"
          /\ \A x \in Thread : pc[x] \in {"splice", "relink", "clear", "exited"} =>
               pc'[x] \in {"splice", "relink", "clear", "exited"}
      BY <1>0, <1>3 DEF Resume, Goto, TypeOK, Roles
    <2>2. /\ obj[th] \in Object /\ token[th] \in Token
          /\ state[obj[th]] \in {"new", "freeing"}
          /\ state' = [state EXCEPT ![obj[th]] = IF state[obj[th]] = "new" THEN "live" ELSE "freed"]
      BY <1>0, <1>3, ResumeFacts
    <2>3. home' = home /\ used' = used /\ owner' = owner /\ pc[th] = "resume"
      BY <1>3 DEF Resume
    <2>4. CASE released' = released /\ token' = token
      <3>1. CASE state[obj[th]] = "new"
        BY <1>0, <2>1, <2>2, <2>3, <2>4, <3>1, TokensMoved
      <3>2. CASE state[obj[th]] = "freeing"
        BY <1>0, <2>1, <2>2, <2>3, <2>4, <3>2, TokensMoved
      <3> QED
        BY <2>2, <3>1, <3>2
    <2>5. CASE /\ released' = released \cup {token[th]}
               /\ token' = [token EXCEPT ![th] = Null]
               /\ Active(token[th]) = {obj[th]} /\ state[obj[th]] = "freeing"
      <3>1. state' = [state EXCEPT ![obj[th]] = "freed"]
        BY <2>2, <2>5
      <3> QED
        BY <1>0, <2>1, <2>2, <2>3, <2>5, <3>1, TokensReleased
    <2> QED
      BY <1>0, <1>3, <2>4, <2>5, ResumeFacts
  <1>4. ASSUME NEW w \in Worker, PopBegin(w)
        PROVE  Tokens'
    <2>1. /\ \A x \in Thread : pc'[x] \in {"splice", "relink", "clear"} =>
               pc[x] \in {"splice", "relink", "clear"} /\ target'[x] = target[x]
          /\ \A x \in Thread : pc'[x] = "splice" => pc[x] = "splice"
          /\ \A x \in Thread : pc[x] \in {"splice", "relink", "clear", "exited"} =>
               pc'[x] \in {"splice", "relink", "clear", "exited"}
      BY <1>0, <1>4 DEF PopBegin, Goto, AfterPop, TypeOK, localVars, Roles
    <2> QED
      BY <1>0, <1>4, <2>1, TokensKept DEF PopBegin, tokenVars
  <1>5. ASSUME NEW w \in Worker, PopNode(w)
        PROVE  Tokens'
    <2>1. /\ Walking(w) /\ token' = token
          /\ w \in Thread => released' = released
          /\ state' = [state EXCEPT ![curr[w]] = "freed"]
      BY <1>0, <1>5, PopNodeFacts
    <2>2. /\ curr[w] \in Queue(List(w)) /\ curr[w] \in Object
          /\ state[curr[w]] = "queued"
      BY <1>0, <2>1, WalkedQueued
    <2>3. home' = home /\ used' = used /\ owner' = owner /\ pc' = pc /\ target' = target
      BY <1>5 DEF PopNode, localVars
    <2>4. CASE w \in Thread
      BY <1>0, <2>1, <2>2, <2>3, <2>4, TokensMoved
    <2>5. CASE w = Mem
      <3>1. owner[home[curr[w]]] = Back /\ ~Splicing(home[curr[w]]) /\ home[curr[w]] \in Token
        BY <1>0, <2>1, <2>2, <2>5, WalkedHome
      <3>2. released' = IF Active(home[curr[w]]) = {curr[w]} THEN released \cup {home[curr[w]]} ELSE released
        BY <1>5 DEF PopNode, FreeCore
      <3> QED
        BY <1>0, <2>1, <2>2, <2>3, <3>1, <3>2, TokensReleasedBack
    <2> QED
      BY <2>4, <2>5 DEF Worker
  <1>6. ASSUME NEW w \in Worker, PopLast(w)
        PROVE  Tokens'
    <2>1. /\ \A x \in Thread : pc'[x] \in {"splice", "relink", "clear"} =>
               pc[x] \in {"splice", "relink", "clear"} /\ target'[x] = target[x]
          /\ \A x \in Thread : pc'[x] = "splice" => pc[x] = "splice"
          /\ \A x \in Thread : pc[x] \in {"splice", "relink", "clear", "exited"} =>
               pc'[x] \in {"splice", "relink", "clear", "exited"}
      BY <1>0, <1>6 DEF PopLast, Goto, AfterPop, TypeOK, localVars, Roles
    <2> QED
      BY <1>0, <1>6, <2>1, TokensKept DEF PopLast, tokenVars
  <1>7. ASSUME NEW th \in Thread, DrainLast(th)
        PROVE  Tokens'
    <2>1. /\ \A x \in Thread : pc'[x] \in {"splice", "relink", "clear"} =>
               pc[x] \in {"splice", "relink", "clear"} /\ target'[x] = target[x]
          /\ \A x \in Thread : pc'[x] = "splice" => pc[x] = "splice"
          /\ \A x \in Thread : pc[x] \in {"splice", "relink", "clear", "exited"} =>
               pc'[x] \in {"splice", "relink", "clear", "exited"}
      BY <1>0, <1>7 DEF DrainLast, Goto, TypeOK, localVars, Roles
    <2>2. /\ curr[th] \in Object /\ token[th] \in Token /\ Active(token[th]) = {curr[th]}
          /\ released' = released \cup {token[th]}
          /\ token' = [token EXCEPT ![th] = Null]
          /\ state' = [state EXCEPT ![curr[th]] = "freed"]
      BY <1>0, <1>7, DrainLastFacts, WalkedQueued
    <2>3. home' = home /\ used' = used /\ owner' = owner /\ pc[th] = "drain"
      BY <1>7 DEF DrainLast
    <2> QED
      BY <1>0, <2>1, <2>2, <2>3, TokensReleased
  <1>8. ASSUME MemWake
        PROVE  Tokens'
    <2>1. /\ \A x \in Thread : pc'[x] \in {"splice", "relink", "clear"} =>
               pc[x] \in {"splice", "relink", "clear"} /\ target'[x] = target[x]
          /\ \A x \in Thread : pc'[x] = "splice" => pc[x] = "splice"
          /\ \A x \in Thread : pc[x] \in {"splice", "relink", "clear", "exited"} =>
               pc'[x] \in {"splice", "relink", "clear", "exited"}
      BY <1>0, <1>8 DEF MemWake, Goto, TypeOK, localVars, Roles
    <2> QED
      BY <1>0, <1>8, <2>1, TokensKept DEF MemWake, tokenVars
  <1>9. ASSUME NEW th \in Thread, NEW o \in Object, PushEnter(th, o)
        PROVE  Tokens'
    <2>1. /\ \A x \in Thread : pc'[x] \in {"splice", "relink", "clear"} =>
               pc[x] \in {"splice", "relink", "clear"} /\ target'[x] = target[x]
          /\ \A x \in Thread : pc'[x] = "splice" => pc[x] = "splice"
          /\ \A x \in Thread : pc[x] \in {"splice", "relink", "clear", "exited"} =>
               pc'[x] \in {"splice", "relink", "clear", "exited"}
      BY <1>0, <1>9 DEF PushEnter, Goto, TypeOK, Roles
    <2>2. o \in Object /\ state[o] \notin {"unborn", "freed"}
      BY <1>0, <1>9 DEF PushEnter, Roles, RoleOf, TypeOK
    <2>3. state' = [state EXCEPT ![o] = "freeing"]
      BY <1>9 DEF PushEnter
    <2> QED
      BY <1>0, <1>9, <2>1, <2>2, <2>3, TokensMoved DEF PushEnter
  <1>10. ASSUME NEW th \in Thread, PushWait(th)
        PROVE  Tokens'
    <2>1. /\ \A x \in Thread : pc'[x] \in {"splice", "relink", "clear"} =>
               pc[x] \in {"splice", "relink", "clear"} /\ target'[x] = target[x]
          /\ \A x \in Thread : pc'[x] = "splice" => pc[x] = "splice"
          /\ \A x \in Thread : pc[x] \in {"splice", "relink", "clear", "exited"} =>
               pc'[x] \in {"splice", "relink", "clear", "exited"}
      BY <1>0, <1>10 DEF PushWait, Goto, TypeOK, localVars, Roles
    <2> QED
      BY <1>0, <1>10, <2>1, TokensKept DEF PushWait, tokenVars
  <1>11. ASSUME NEW th \in Thread, PushLoad(th)
        PROVE  Tokens'
    <2>1. /\ \A x \in Thread : pc'[x] \in {"splice", "relink", "clear"} =>
               pc[x] \in {"splice", "relink", "clear"} /\ target'[x] = target[x]
          /\ \A x \in Thread : pc'[x] = "splice" => pc[x] = "splice"
          /\ \A x \in Thread : pc[x] \in {"splice", "relink", "clear", "exited"} =>
               pc'[x] \in {"splice", "relink", "clear", "exited"}
      BY <1>0, <1>11 DEF PushLoad, Goto, TypeOK, Roles
    <2> QED
      BY <1>0, <1>11, <2>1, TokensKept DEF PushLoad, tokenVars
  <1>12. ASSUME NEW th \in Thread, PushSwap(th)
        PROVE  Tokens'
    <2>1. /\ \A x \in Thread : pc'[x] \in {"splice", "relink", "clear"} =>
               pc[x] \in {"splice", "relink", "clear"} /\ target'[x] = target[x]
          /\ \A x \in Thread : pc'[x] = "splice" => pc[x] = "splice"
          /\ \A x \in Thread : pc[x] \in {"splice", "relink", "clear", "exited"} =>
               pc'[x] \in {"splice", "relink", "clear", "exited"}
      BY <1>0, <1>12 DEF PushSwap, Goto, TypeOK, Roles
    <2>2. obj[th] \in Object /\ state[obj[th]] \notin {"unborn", "freed"}
      BY <1>0, <1>12 DEF PushSwap, Roles, RoleOf, TypeOK
    <2>3. state' = [state EXCEPT ![obj[th]] = "queued"]
      BY <1>12 DEF PushSwap
    <2> QED
      BY <1>0, <1>12, <2>1, <2>2, <2>3, TokensMoved DEF PushSwap, tokenVars
  <1>13. ASSUME NEW th \in Thread, PushLink(th)
        PROVE  Tokens'
    <2>1. /\ \A x \in Thread : pc'[x] \in {"splice", "relink", "clear"} =>
               pc[x] \in {"splice", "relink", "clear"} /\ target'[x] = target[x]
          /\ \A x \in Thread : pc'[x] = "splice" => pc[x] = "splice"
          /\ \A x \in Thread : pc[x] \in {"splice", "relink", "clear", "exited"} =>
               pc'[x] \in {"splice", "relink", "clear", "exited"}
      BY <1>0, <1>13 DEF PushLink, Goto, TypeOK, localVars, Roles
    <2> QED
      BY <1>0, <1>13, <2>1, TokensKept DEF PushLink, tokenVars
  <1>14. ASSUME NEW th \in Thread, PushCount(th)
        PROVE  Tokens'
    <2>1. /\ \A x \in Thread : pc'[x] \in {"splice", "relink", "clear"} =>
               pc[x] \in {"splice", "relink", "clear"} /\ target'[x] = target[x]
          /\ \A x \in Thread : pc'[x] = "splice" => pc[x] = "splice"
          /\ \A x \in Thread : pc[x] \in {"splice", "relink", "clear", "exited"} =>
               pc'[x] \in {"splice", "relink", "clear", "exited"}
      BY <1>0, <1>14 DEF PushCount, Goto, TypeOK, localVars, Roles
    <2> QED
      BY <1>0, <1>14, <2>1, TokensKept DEF PushCount, tokenVars
  <1>15. ASSUME NEW th \in Thread, PushExit(th)
        PROVE  Tokens'
    <2>1. /\ \A x \in Thread : pc'[x] \in {"splice", "relink", "clear"} =>
               pc[x] \in {"splice", "relink", "clear"} /\ target'[x] = target[x]
          /\ \A x \in Thread : pc'[x] = "splice" => pc[x] = "splice"
          /\ \A x \in Thread : pc[x] \in {"splice", "relink", "clear", "exited"} =>
               pc'[x] \in {"splice", "relink", "clear", "exited"}
      BY <1>0, <1>15 DEF PushExit, Goto, TypeOK, Roles
    <2> QED
      BY <1>0, <1>15, <2>1, TokensKept DEF PushExit
  <1>16. ASSUME NEW th \in Thread, ExitPlain(th)
        PROVE  Tokens'
    <2>1. /\ \A x \in Thread : pc'[x] \in {"splice", "relink", "clear"} =>
               pc[x] \in {"splice", "relink", "clear"} /\ target'[x] = target[x]
          /\ \A x \in Thread : pc'[x] = "splice" => pc[x] = "splice"
          /\ \A x \in Thread : pc[x] \in {"splice", "relink", "clear", "exited"} =>
               pc'[x] \in {"splice", "relink", "clear", "exited"}
      BY <1>0, <1>16 DEF ExitPlain, Goto, TypeOK, localVars, Roles
    <2> QED
      BY <1>0, <1>16, <2>1, TokensKept DEF ExitPlain, tokenVars
  <1>17. ASSUME NEW th \in Thread, ExitDrain(th)
        PROVE  Tokens'
    <2>1. /\ \A x \in Thread : pc'[x] \in {"splice", "relink", "clear"} =>
               pc[x] \in {"splice", "relink", "clear"} /\ target'[x] = target[x]
          /\ \A x \in Thread : pc'[x] = "splice" => pc[x] = "splice"
          /\ \A x \in Thread : pc[x] \in {"splice", "relink", "clear", "exited"} =>
               pc'[x] \in {"splice", "relink", "clear", "exited"}
      BY <1>0, <1>17 DEF ExitDrain, Goto, TypeOK, localVars, Roles
    <2> QED
      BY <1>0, <1>17, <2>1, TokensKept DEF ExitDrain, tokenVars
  <1>18. ASSUME NEW th \in Thread, RaiseBegin(th)
        PROVE  Tokens'
    <2>1. /\ \A x \in Thread : pc'[x] \in {"splice", "relink", "clear"} =>
               pc[x] \in {"splice", "relink", "clear"} /\ target'[x] = target[x]
          /\ \A x \in Thread : pc'[x] = "splice" => pc[x] = "splice"
          /\ \A x \in Thread : pc[x] \in {"splice", "relink", "clear", "exited"} =>
               pc'[x] \in {"splice", "relink", "clear", "exited"}
      BY <1>0, <1>18 DEF RaiseBegin, Goto, TypeOK, Roles
    <2> QED
      BY <1>0, <1>18, <2>1, TokensKept DEF RaiseBegin
  <1>19. ASSUME NEW th \in Thread, RaiseOwner(th)
        PROVE  Tokens'
    <2>0. target[th] \in Token /\ target[th] = token[th] /\ pc[th] = "raise"
          /\ target[th] \notin released /\ target[th] \in used /\ target[th] # Null
      <3>1. target[th] \in Token /\ target[th] = token[th] /\ pc[th] = "raise" /\ target[th] # Null
        BY <1>0, <1>19, RaiseOwnerFacts DEF RaiseOwner
      <3> QED
        BY <1>0, <3>1 DEF Tokens
    <2>1. \A x \in Thread : x # th => pc'[x] = pc[x] /\ (token[x] # Null => token[x] # target[th])
      BY <1>0, <1>19, <2>0 DEF RaiseOwner, Goto, TypeOK, Tokens
    <2>2. /\ \A t \in Token : t # target[th] => owner'[t] = owner[t]
          /\ owner'[target[th]] = Back /\ pc'[th] = "splice"
      BY <1>0, <1>19, <2>0 DEF RaiseOwner, TypeOK, Goto
    <2>3. /\ state' = state /\ home' = home /\ token' = token /\ released' = released
          /\ used' = used /\ target' = target /\ \A t : Active(t)' = Active(t)
      BY <1>19 DEF RaiseOwner, localVars, Active
    <2>4. \A t \in Token : owner'[t] \in {t, Back} /\ (t \notin used => owner'[t] = t)
      BY <1>0, <2>0, <2>2 DEF Tokens
    <2>5. ASSUME NEW x \in Thread
          PROVE  /\ token[x] # Null /\ pc'[x] \notin {"splice", "relink", "clear", "exited"} =>
                       token[x] \notin released /\ owner'[token[x]] = token[x]
                 /\ pc'[x] \in {"splice", "relink", "clear"} => owner'[target[x]] = Back
                 /\ pc'[x] = "splice" => target[x] \notin released
      <3>1. CASE x = th
        BY <2>0, <2>2, <3>1
      <3>2. CASE x # th
        <4>1. token[x] # Null => token[x] \in Token
          BY <1>0 DEF TypeOK
        <4>2. pc[x] \in {"splice", "relink", "clear"} => target[x] = token[x] /\ target[x] # Null
          BY <1>0 DEF Roles, RoleOf
        <4> QED
          BY <1>0, <2>1, <2>2, <3>2, <4>1, <4>2 DEF Tokens
      <3> QED
        BY <3>1, <3>2
    <2> QED
      BY <1>0, <2>3, <2>4, <2>5 DEF Tokens
  <1>20. ASSUME NEW th \in Thread, RaiseSplice(th)
        PROVE  Tokens'
    <2>1. /\ \A x \in Thread : pc'[x] \in {"splice", "relink", "clear"} =>
               pc[x] \in {"splice", "relink", "clear"} /\ target'[x] = target[x]
          /\ \A x \in Thread : pc'[x] = "splice" => pc[x] = "splice"
          /\ \A x \in Thread : pc[x] \in {"splice", "relink", "clear", "exited"} =>
               pc'[x] \in {"splice", "relink", "clear", "exited"}
      BY <1>0, <1>20 DEF RaiseSplice, Goto, TypeOK, Roles
    <2> QED
      BY <1>0, <1>20, <2>1, TokensKept DEF RaiseSplice, tokenVars
  <1>21. ASSUME NEW th \in Thread, RaiseLink(th)
        PROVE  Tokens'
    <2>1. /\ \A x \in Thread : pc'[x] \in {"splice", "relink", "clear"} =>
               pc[x] \in {"splice", "relink", "clear"} /\ target'[x] = target[x]
          /\ \A x \in Thread : pc'[x] = "splice" => pc[x] = "splice"
          /\ \A x \in Thread : pc[x] \in {"splice", "relink", "clear", "exited"} =>
               pc'[x] \in {"splice", "relink", "clear", "exited"}
      BY <1>0, <1>21 DEF RaiseLink, Goto, TypeOK, localVars, Roles
    <2> QED
      BY <1>0, <1>21, <2>1, TokensKept DEF RaiseLink, tokenVars
  <1>22. ASSUME NEW th \in Thread, RaiseEnd(th)
        PROVE  Tokens'
    <2>1. /\ \A x \in Thread : pc'[x] \in {"splice", "relink", "clear"} =>
               pc[x] \in {"splice", "relink", "clear"} /\ target'[x] = target[x]
          /\ \A x \in Thread : pc'[x] = "splice" => pc[x] = "splice"
          /\ \A x \in Thread : pc[x] \in {"splice", "relink", "clear", "exited"} =>
               pc'[x] \in {"splice", "relink", "clear", "exited"}
      BY <1>0, <1>22 DEF RaiseEnd, Goto, TypeOK, Roles
    <2> QED
      BY <1>0, <1>22, <2>1, TokensKept DEF RaiseEnd
  <1> QED
    BY <1>1, <1>2, <1>3, <1>4, <1>5, <1>6, <1>7, <1>8, <1>9, <1>10, <1>11, <1>12,
       <1>13, <1>14, <1>15, <1>16, <1>17, <1>18, <1>19, <1>20, <1>21, <1>22 DEF Next, Step,
       Call, Pop, Worker

------------------------------------------------------------------------------
(* Pushes and hand-overs                                                    *)

LEMMA RaiserOnly ==
    ASSUME HandoffInv, NEW x \in Thread, NEW y \in Thread, target[x] = target[y],
           pc[x] \in {"raise", "splice", "relink", "clear"},
           pc[y] \in {"raise", "splice", "relink", "clear"}
    PROVE  x = y
  BY DEF HandoffInv, Roles, RoleOf, Tokens

(* A step that is no business of t's pushes *)
LEMMA PushesKept ==
    ASSUME NEW t \in Token, PushesOf(t), TypeOK,
           i_enter'[t] = i_enter[t], i_exit'[t] = i_exit[t], owner'[t] = owner[t],
           \A x \in Thread :
              \/ pc'[x] = pc[x] /\ target'[x] = target[x] /\ current'[x] = current[x]
              \/ /\ target[x] # t \/ pc[x] \notin {"wait", "load", "swap", "link", "count", "leave",
                                               "raise", "splice", "relink", "clear"}
                 /\ target'[x] # t \/ pc'[x] \notin {"wait", "load", "swap", "link", "count", "leave",
                                                 "raise", "splice", "relink", "clear"}
    PROVE  PushesOf(t)'
  <1>1. Busy(t)' = Busy(t)
    BY DEF Busy
  <1>2. Raising(t)' <=> Raising(t)
    BY DEF Raising
  <1>3. \A x \in Thread : (pc'[x] = "wait" /\ target'[x] = t) <=> (pc[x] = "wait" /\ target[x] = t)
    OBVIOUS
  <1>4. \A x \in Thread : target'[x] = t /\ pc'[x] \in {"raise", "splice", "relink", "clear"} =>
            target[x] = t /\ pc'[x] = pc[x] /\ current'[x] = current[x]
    OBVIOUS
  <1>5. /\ owner'[t] = t /\ ~Raising(t)' =>
              /\ i_enter'[t] = i_exit'[t] + 2 * Cardinality(Busy(t)')
              /\ \A th \in Thread : ~(pc'[th] = "wait" /\ target'[th] = t)
        /\ i_exit'[t] % 2 = 0
    BY <1>1, <1>2, <1>3 DEF PushesOf
  <1>6. \A th \in Thread : target'[th] = t =>
        /\ pc'[th] = "raise" => current'[th] = i_exit'[t] + 2 * Cardinality(Busy(t)')
        /\ pc'[th] \in {"raise", "splice", "relink", "clear"} => i_enter'[t] % 2 = 1
        /\ pc'[th] \in {"splice", "relink", "clear"} => Busy(t)' = {}
    BY <1>1, <1>4 DEF PushesOf
  <1> QED
    BY <1>5, <1>6 DEF PushesOf

(* A step from one place of a push to the next *)
LEMMA PushGoesOn ==
    ASSUME HandoffInv, NEW th \in Thread,
           pc[th] \in {"load", "swap", "link", "count"}, pc'[th] \in {"swap", "link", "count", "leave"},
           \A x \in Thread : x # th => pc'[x] = pc[x],
           target' = target, current' = current,
           i_enter' = i_enter, i_exit' = i_exit, owner' = owner
    PROVE  Pushes'
  <1>1. \A t \in Token : Busy(t)' = Busy(t) /\ (Raising(t)' <=> Raising(t))
    BY DEF Busy, Raising
  <1>2. \A t \in Token : PushesOf(t)
    BY DEF HandoffInv, Pushes
  <1>3. ASSUME NEW t \in Token PROVE PushesOf(t)'
    BY <1>1, <1>2 DEF PushesOf
  <1> QED
    BY <1>3 DEF Pushes

LEMMA OddEven ==
    ASSUME NEW n \in Nat
    PROVE  /\ n % 2 \in {0, 1} /\ (n + 2) % 2 = n % 2 /\ (2 * n) % 2 = 0
           /\ n % 2 = 0 => (n + 1) % 2 = 1
           /\ \A m \in Nat : n % 2 = 0 => (n + 2 * m) % 2 = 0
  OBVIOUS

LEMMA StepPushes ==
    ASSUME HandoffInv, Next
    PROVE  Pushes'
  <1>0. /\ HandoffInv /\ TypeOK /\ Roles /\ Tokens /\ Pushes
        /\ \A th \in Thread : th \in Worker /\ th # Mem
        /\ Mem \in Worker /\ Null \notin Token
    BY HandoffAssumption DEF HandoffInv, Worker
  <1>1. ASSUME NEW th \in Thread, NEW o \in Object, NEW t \in Token, Alloc(th, o, t)
        PROVE  Pushes'
    <2>1. ASSUME NEW s \in Token PROVE PushesOf(s)'
      <3>1. i_enter' = i_enter /\ i_exit' = i_exit /\ owner' = owner /\ PushesOf(s)
        BY <1>0, <1>1 DEF Alloc, Pushes
      <3>2. \A x \in Thread :
              \/ pc'[x] = pc[x] /\ target'[x] = target[x] /\ current'[x] = current[x]
              \/ /\ pc[x] \notin {"wait", "load", "swap", "link", "count", "leave",
                                  "raise", "splice", "relink", "clear"}
                 /\ pc'[x] \notin {"wait", "load", "swap", "link", "count", "leave",
                                   "raise", "splice", "relink", "clear"}
        BY <1>0, <1>1 DEF Alloc, Goto, TypeOK, PopLazily
      <3> QED
        BY <1>0, <3>1, <3>2, PushesKept
    <2> QED
      BY <2>1 DEF Pushes
  <1>2. ASSUME NEW th \in Thread, NEW o \in Object, FreeOwn(th, o)
        PROVE  Pushes'
    <2>1. ASSUME NEW t \in Token PROVE PushesOf(t)'
      <3>1. i_enter' = i_enter /\ i_exit' = i_exit /\ owner' = owner /\ PushesOf(t)
        BY <1>0, <1>2 DEF FreeOwn, tokenVars, Pushes
      <3>2. \A x \in Thread :
              \/ pc'[x] = pc[x] /\ target'[x] = target[x] /\ current'[x] = current[x]
              \/ /\ pc[x] \notin {"wait", "load", "swap", "link", "count", "leave",
                                  "raise", "splice", "relink", "clear"}
                 /\ pc'[x] \notin {"wait", "load", "swap", "link", "count", "leave",
                                   "raise", "splice", "relink", "clear"}
        BY <1>0, <1>2 DEF FreeOwn, Goto, TypeOK, PopLazily
      <3> QED
        BY <1>0, <3>1, <3>2, PushesKept
    <2> QED
      BY <2>1 DEF Pushes
  <1>3. ASSUME NEW th \in Thread, Resume(th)
        PROVE  Pushes'
    <2>1. ASSUME NEW t \in Token PROVE PushesOf(t)'
      <3>1. i_enter' = i_enter /\ i_exit' = i_exit /\ owner' = owner /\ PushesOf(t)
        BY <1>0, <1>3 DEF Resume, Pushes
      <3>2. \A x \in Thread :
              \/ pc'[x] = pc[x] /\ target'[x] = target[x] /\ current'[x] = current[x]
              \/ /\ pc[x] \notin {"wait", "load", "swap", "link", "count", "leave",
                                  "raise", "splice", "relink", "clear"}
                 /\ pc'[x] \notin {"wait", "load", "swap", "link", "count", "leave",
                                   "raise", "splice", "relink", "clear"}
        BY <1>0, <1>3 DEF Resume, Goto, TypeOK
      <3> QED
        BY <1>0, <3>1, <3>2, PushesKept
    <2> QED
      BY <2>1 DEF Pushes
  <1>4. ASSUME NEW w \in Worker, PopBegin(w)
        PROVE  Pushes'
    <2>1. ASSUME NEW t \in Token PROVE PushesOf(t)'
      <3>1. i_enter' = i_enter /\ i_exit' = i_exit /\ owner' = owner /\ PushesOf(t)
        BY <1>0, <1>4 DEF PopBegin, tokenVars, Pushes
      <3>2. \A x \in Thread :
              \/ pc'[x] = pc[x] /\ target'[x] = target[x] /\ current'[x] = current[x]
              \/ /\ pc[x] \notin {"wait", "load", "swap", "link", "count", "leave",
                                  "raise", "splice", "relink", "clear"}
                 /\ pc'[x] \notin {"wait", "load", "swap", "link", "count", "leave",
                                   "raise", "splice", "relink", "clear"}
        BY <1>0, <1>4 DEF PopBegin, Goto, AfterPop, TypeOK, localVars
      <3> QED
        BY <1>0, <3>1, <3>2, PushesKept
    <2> QED
      BY <2>1 DEF Pushes
  <1>5. ASSUME NEW w \in Worker, PopNode(w)
        PROVE  Pushes'
    <2>1. ASSUME NEW t \in Token PROVE PushesOf(t)'
      <3>1. i_enter' = i_enter /\ i_exit' = i_exit /\ owner' = owner /\ PushesOf(t)
        BY <1>0, <1>5 DEF PopNode, Pushes
      <3>2. \A x \in Thread :
              \/ pc'[x] = pc[x] /\ target'[x] = target[x] /\ current'[x] = current[x]
              \/ /\ pc[x] \notin {"wait", "load", "swap", "link", "count", "leave",
                                  "raise", "splice", "relink", "clear"}
                 /\ pc'[x] \notin {"wait", "load", "swap", "link", "count", "leave",
                                   "raise", "splice", "relink", "clear"}
        BY <1>0, <1>5 DEF PopNode, TypeOK, localVars
      <3> QED
        BY <1>0, <3>1, <3>2, PushesKept
    <2> QED
      BY <2>1 DEF Pushes
  <1>6. ASSUME NEW w \in Worker, PopLast(w)
        PROVE  Pushes'
    <2>1. ASSUME NEW t \in Token PROVE PushesOf(t)'
      <3>1. i_enter' = i_enter /\ i_exit' = i_exit /\ owner' = owner /\ PushesOf(t)
        BY <1>0, <1>6 DEF PopLast, tokenVars, Pushes
      <3>2. \A x \in Thread :
              \/ pc'[x] = pc[x] /\ target'[x] = target[x] /\ current'[x] = current[x]
              \/ /\ pc[x] \notin {"wait", "load", "swap", "link", "count", "leave",
                                  "raise", "splice", "relink", "clear"}
                 /\ pc'[x] \notin {"wait", "load", "swap", "link", "count", "leave",
                                   "raise", "splice", "relink", "clear"}
        BY <1>0, <1>6 DEF PopLast, Goto, AfterPop, TypeOK, localVars
      <3> QED
        BY <1>0, <3>1, <3>2, PushesKept
    <2> QED
      BY <2>1 DEF Pushes
  <1>7. ASSUME NEW th \in Thread, DrainLast(th)
        PROVE  Pushes'
    <2>1. ASSUME NEW t \in Token PROVE PushesOf(t)'
      <3>1. i_enter' = i_enter /\ i_exit' = i_exit /\ owner' = owner /\ PushesOf(t)
        BY <1>0, <1>7 DEF DrainLast, Pushes
      <3>2. \A x \in Thread :
              \/ pc'[x] = pc[x] /\ target'[x] = target[x] /\ current'[x] = current[x]
              \/ /\ pc[x] \notin {"wait", "load", "swap", "link", "count", "leave",
                                  "raise", "splice", "relink", "clear"}
                 /\ pc'[x] \notin {"wait", "load", "swap", "link", "count", "leave",
                                   "raise", "splice", "relink", "clear"}
        BY <1>0, <1>7 DEF DrainLast, Goto, TypeOK, localVars
      <3> QED
        BY <1>0, <3>1, <3>2, PushesKept
    <2> QED
      BY <2>1 DEF Pushes
  <1>8. ASSUME MemWake
        PROVE  Pushes'
    <2>1. ASSUME NEW t \in Token PROVE PushesOf(t)'
      <3>1. i_enter' = i_enter /\ i_exit' = i_exit /\ owner' = owner /\ PushesOf(t)
        BY <1>0, <1>8 DEF MemWake, tokenVars, Pushes
      <3>2. \A x \in Thread :
              \/ pc'[x] = pc[x] /\ target'[x] = target[x] /\ current'[x] = current[x]
              \/ /\ pc[x] \notin {"wait", "load", "swap", "link", "count", "leave",
                                  "raise", "splice", "relink", "clear"}
                 /\ pc'[x] \notin {"wait", "load", "swap", "link", "count", "leave",
                                   "raise", "splice", "relink", "clear"}
        BY <1>0, <1>8 DEF MemWake, Goto, TypeOK, localVars
      <3> QED
        BY <1>0, <3>1, <3>2, PushesKept
    <2> QED
      BY <2>1 DEF Pushes
  <1>9. ASSUME NEW th \in Thread, NEW o \in Object, PushEnter(th, o)
        PROVE  Pushes'
    <2>0. /\ home[o] \in Token
          /\ \A x \in Thread : x # th => pc'[x] = pc[x]
      BY <1>0, <1>9 DEF PushEnter, Tokens, TypeOK, Goto
    <2>1. ASSUME NEW t \in Token, t # home[o] PROVE PushesOf(t)'
      <3>1. i_enter'[t] = i_enter[t] /\ i_exit'[t] = i_exit[t] /\ owner'[t] = owner[t] /\ PushesOf(t)
        BY <1>0, <1>9, <2>0, <2>1 DEF PushEnter, TypeOK, Pushes
      <3>2. \A x \in Thread :
              \/ pc'[x] = pc[x] /\ target'[x] = target[x] /\ current'[x] = current[x]
              \/ /\ target[x] # t \/ pc[x] \notin {"wait", "load", "swap", "link", "count", "leave",
                                               "raise", "splice", "relink", "clear"}
                 /\ target'[x] # t \/ pc'[x] \notin {"wait", "load", "swap", "link", "count", "leave",
                                                 "raise", "splice", "relink", "clear"}
        BY <1>0, <1>9, <2>0, <2>1 DEF PushEnter, Goto, TypeOK
      <3> QED
        BY <1>0, <3>1, <3>2, PushesKept
    <2>2. ASSUME NEW t \in Token, t = home[o] PROVE PushesOf(t)'
      <3>0. /\ PushesOf(t) /\ i_enter[t] \in Nat /\ i_exit[t] \in Nat
            /\ Cardinality(Busy(t)) \in Nat
        BY <1>0, BusyFinite DEF Pushes, TypeOK
      <3>1. /\ i_enter'[t] = i_enter[t] + 2 /\ i_exit' = i_exit /\ owner' = owner /\ current' = current
            /\ \A x \in Thread : x # th => target'[x] = target[x]
            /\ target'[th] = t /\ pc[th] = "idle"
            /\ pc'[th] = IF i_enter[t] % 2 = 1 THEN "wait" ELSE "load"
        BY <1>0, <1>9, <2>0, <2>2 DEF PushEnter, TypeOK, Goto
      <3>2. Raising(t)' <=> Raising(t)
        BY <1>0, <2>0, <3>1 DEF Raising
      <3>3. i_enter'[t] % 2 = i_enter[t] % 2 /\ i_enter[t] % 2 \in {0, 1}
        BY <3>0, <3>1, OddEven
      <3>4. CASE i_enter[t] % 2 = 1
        <4>1. Busy(t)' = Busy(t)
          BY <1>0, <2>0, <3>1, <3>4 DEF Busy
        <4>2. owner[t] = t => Raising(t)
          BY <3>0, <3>4, OddEven DEF PushesOf
        <4>3. \A x \in Thread : target'[x] = t /\ pc'[x] \in {"raise", "splice", "relink", "clear"} =>
                 target[x] = t /\ pc'[x] = pc[x]
          BY <2>0, <3>1
        <4>4. i_enter'[t] % 2 = 1 /\ i_exit'[t] = i_exit[t]
          BY <3>1, <3>3, <3>4
        <4>5. owner'[t] = t => Raising(t)'
          BY <3>1, <3>2, <4>2
        <4>6. ASSUME NEW x \in Thread, target'[x] = t
              PROVE  /\ pc'[x] = "raise" => current'[x] = i_exit'[t] + 2 * Cardinality(Busy(t)')
                     /\ pc'[x] \in {"splice", "relink", "clear"} => Busy(t)' = {}
          BY <3>0, <3>1, <4>1, <4>3, <4>4, <4>6 DEF PushesOf
        <4> QED
          BY <3>0, <4>4, <4>5, <4>6 DEF PushesOf
      <3>5. CASE i_enter[t] % 2 = 0
        <4>1. th \notin Busy(t) /\ Busy(t)' = Busy(t) \cup {th}
          BY <1>0, <2>0, <3>1, <3>5 DEF Busy
        <4>2. Cardinality(Busy(t)') = Cardinality(Busy(t)) + 1
          BY <4>1, BusyFinite, FS_AddElement
        <4>3. ~Raising(t)
          BY <3>0, <3>5 DEF PushesOf, Raising
        <4>4. \A x \in Thread : target'[x] = t => pc'[x] \notin {"raise", "splice", "relink", "clear"}
          BY <3>2, <4>3 DEF Raising
        <4>5. owner[t] = t => i_enter'[t] = i_exit'[t] + 2 * Cardinality(Busy(t)')
          BY <3>0, <3>1, <4>2, <4>3 DEF PushesOf
        <4>6. \A x \in Thread : pc'[x] = "wait" /\ target'[x] = t => pc[x] = "wait" /\ target[x] = t
          BY <2>0, <3>1, <3>5
        <4>7. owner'[t] = t => \A x \in Thread : ~(pc'[x] = "wait" /\ target'[x] = t)
          BY <3>0, <3>1, <4>3, <4>6 DEF PushesOf
        <4>8. i_exit'[t] % 2 = 0
          BY <3>0, <3>1 DEF PushesOf
        <4>9. owner'[t] = t => i_enter'[t] = i_exit'[t] + 2 * Cardinality(Busy(t)')
          BY <3>1, <4>5
        <4> QED
          BY <4>4, <4>7, <4>8, <4>9 DEF PushesOf
      <3> QED
        BY <3>3, <3>4, <3>5
    <2> QED
      BY <2>1, <2>2 DEF Pushes
  <1>10. ASSUME NEW th \in Thread, PushWait(th)
        PROVE  Pushes'
    <2>0. /\ target[th] \in Token
          /\ pc'[th] = "load" /\ \A x \in Thread : x # th => pc'[x] = pc[x]
      BY <1>0, <1>10 DEF PushWait, Roles, RoleOf, TypeOK, Goto, tokenVars, localVars
    <2>1. ASSUME NEW t \in Token, t # target[th] PROVE PushesOf(t)'
      <3>1. i_enter'[t] = i_enter[t] /\ i_exit'[t] = i_exit[t] /\ owner'[t] = owner[t] /\ PushesOf(t)
        BY <1>0, <1>10, <2>0, <2>1 DEF PushWait, tokenVars, TypeOK, Pushes
      <3>2. \A x \in Thread :
              \/ pc'[x] = pc[x] /\ target'[x] = target[x] /\ current'[x] = current[x]
              \/ /\ target[x] # t \/ pc[x] \notin {"wait", "load", "swap", "link", "count", "leave",
                                               "raise", "splice", "relink", "clear"}
                 /\ target'[x] # t \/ pc'[x] \notin {"wait", "load", "swap", "link", "count", "leave",
                                                 "raise", "splice", "relink", "clear"}
        BY <1>0, <1>10, <2>0, <2>1 DEF PushWait, Goto, TypeOK, localVars
      <3> QED
        BY <1>0, <3>1, <3>2, PushesKept
    <2>2. ASSUME NEW t \in Token, t = target[th] PROVE PushesOf(t)'
      <3>0. /\ PushesOf(t) /\ i_enter[t] \in Nat /\ i_exit[t] \in Nat
            /\ Cardinality(Busy(t)) \in Nat
        BY <1>0, BusyFinite DEF Pushes, TypeOK
      <3>1. i_enter[t] % 2 = 0 /\ i_enter' = i_enter /\ i_exit' = i_exit /\ owner' = owner
            /\ target' = target /\ pc[th] = "wait"
        BY <1>10, <2>2 DEF PushWait, tokenVars, localVars
      <3>2. ~Raising(t)
        BY <3>0, <3>1 DEF PushesOf, Raising
      <3>3. owner[t] # t
        BY <3>0, <3>1, <3>2, <2>2 DEF PushesOf
      <3>4. \A x \in Thread : target[x] = t => pc'[x] \notin {"raise", "splice", "relink", "clear"}
        BY <2>0, <2>2, <3>2 DEF Raising
      <3> QED
        BY <3>0, <3>1, <3>3, <3>4 DEF PushesOf
    <2> QED
      BY <2>1, <2>2 DEF Pushes
  <1>11. ASSUME NEW th \in Thread, PushLoad(th)
        PROVE  Pushes'
    <2>1. /\ pc[th] \in {"load", "swap", "link", "count"} /\ pc'[th] \in {"swap", "link", "count", "leave"}
          /\ \A x \in Thread : x # th => pc'[x] = pc[x]
          /\ target' = target /\ current' = current
          /\ i_enter' = i_enter /\ i_exit' = i_exit /\ owner' = owner
      BY <1>0, <1>11 DEF PushLoad, Goto, TypeOK, tokenVars
    <2> QED
      BY <1>0, <2>1, PushGoesOn
  <1>12. ASSUME NEW th \in Thread, PushSwap(th)
        PROVE  Pushes'
    <2>1. /\ pc[th] \in {"load", "swap", "link", "count"} /\ pc'[th] \in {"swap", "link", "count", "leave"}
          /\ \A x \in Thread : x # th => pc'[x] = pc[x]
          /\ target' = target /\ current' = current
          /\ i_enter' = i_enter /\ i_exit' = i_exit /\ owner' = owner
      BY <1>0, <1>12 DEF PushSwap, Goto, TypeOK, tokenVars
    <2> QED
      BY <1>0, <2>1, PushGoesOn
  <1>13. ASSUME NEW th \in Thread, PushLink(th)
        PROVE  Pushes'
    <2>1. /\ pc[th] \in {"load", "swap", "link", "count"} /\ pc'[th] \in {"swap", "link", "count", "leave"}
          /\ \A x \in Thread : x # th => pc'[x] = pc[x]
          /\ target' = target /\ current' = current
          /\ i_enter' = i_enter /\ i_exit' = i_exit /\ owner' = owner
      BY <1>0, <1>13 DEF PushLink, Goto, TypeOK, tokenVars, localVars
    <2> QED
      BY <1>0, <2>1, PushGoesOn
  <1>14. ASSUME NEW th \in Thread, PushCount(th)
        PROVE  Pushes'
    <2>1. /\ pc[th] \in {"load", "swap", "link", "count"} /\ pc'[th] \in {"swap", "link", "count", "leave"}
          /\ \A x \in Thread : x # th => pc'[x] = pc[x]
          /\ target' = target /\ current' = current
          /\ i_enter' = i_enter /\ i_exit' = i_exit /\ owner' = owner
      BY <1>0, <1>14 DEF PushCount, Goto, TypeOK, tokenVars, localVars
    <2> QED
      BY <1>0, <2>1, PushGoesOn
  <1>15. ASSUME NEW th \in Thread, PushExit(th)
        PROVE  Pushes'
    <2>0. /\ target[th] \in Token
          /\ pc'[th] = "idle" /\ \A x \in Thread : x # th => pc'[x] = pc[x]
      BY <1>0, <1>15 DEF PushExit, Roles, RoleOf, TypeOK, Goto
    <2>1. ASSUME NEW t \in Token, t # target[th] PROVE PushesOf(t)'
      <3>1. i_enter'[t] = i_enter[t] /\ i_exit'[t] = i_exit[t] /\ owner'[t] = owner[t] /\ PushesOf(t)
        BY <1>0, <1>15, <2>0, <2>1 DEF PushExit, TypeOK, Pushes
      <3>2. \A x \in Thread :
              \/ pc'[x] = pc[x] /\ target'[x] = target[x] /\ current'[x] = current[x]
              \/ /\ target[x] # t \/ pc[x] \notin {"wait", "load", "swap", "link", "count", "leave",
                                               "raise", "splice", "relink", "clear"}
                 /\ target'[x] # t \/ pc'[x] \notin {"wait", "load", "swap", "link", "count", "leave",
                                                 "raise", "splice", "relink", "clear"}
        BY <1>0, <1>15, <2>0, <2>1 DEF PushExit, Goto, TypeOK
      <3> QED
        BY <1>0, <3>1, <3>2, PushesKept
    <2>2. ASSUME NEW t \in Token, t = target[th] PROVE PushesOf(t)'
      <3>0. /\ PushesOf(t) /\ i_enter[t] \in Nat /\ i_exit[t] \in Nat
            /\ Cardinality(Busy(t)) \in Nat
        BY <1>0, BusyFinite DEF Pushes, TypeOK
      <3>1. /\ i_enter' = i_enter /\ i_exit'[t] = i_exit[t] + 2 /\ owner' = owner /\ current' = current
            /\ \A x \in Thread : x # th => target'[x] = target[x]
            /\ target'[th] = Null /\ pc[th] = "leave"
        BY <1>0, <1>15, <2>0, <2>2 DEF PushExit, TypeOK
      <3>2. th \in Busy(t) /\ Busy(t)' = Busy(t) \ {th}
        BY <2>0, <2>2, <3>1 DEF Busy
      <3>3. Cardinality(Busy(t)') = Cardinality(Busy(t)) - 1
        BY <3>2, BusyFinite, FS_RemoveElement
      <3>4. Raising(t)' <=> Raising(t)
        BY <1>0, <2>0, <2>2, <3>1 DEF Raising
      <3>5. i_exit'[t] % 2 = 0
        BY <3>0, <3>1, OddEven DEF PushesOf
      <3>6. i_exit'[t] + 2 * Cardinality(Busy(t)') = i_exit[t] + 2 * Cardinality(Busy(t))
        BY <3>0, <3>1, <3>3
      <3>7. owner'[t] = t /\ ~Raising(t)' =>
              /\ i_enter'[t] = i_exit'[t] + 2 * Cardinality(Busy(t)')
              /\ \A x \in Thread : ~(pc'[x] = "wait" /\ target'[x] = t)
        BY <2>0, <3>0, <3>1, <3>4, <3>6 DEF PushesOf
      <3>8. ASSUME NEW x \in Thread, target'[x] = t
            PROVE  /\ pc'[x] = "raise" => current'[x] = i_exit'[t] + 2 * Cardinality(Busy(t)')
                   /\ pc'[x] \in {"raise", "splice", "relink", "clear"} => i_enter'[t] % 2 = 1
                   /\ pc'[x] \in {"splice", "relink", "clear"} => Busy(t)' = {}
        <4>1. x # th /\ target[x] = t /\ pc'[x] = pc[x]
          BY <1>0, <2>0, <3>1, <3>8
        <4> QED
          BY <3>0, <3>1, <3>2, <3>6, <4>1 DEF PushesOf
      <3> QED
        BY <3>5, <3>7, <3>8 DEF PushesOf
    <2> QED
      BY <2>1, <2>2 DEF Pushes
  <1>16. ASSUME NEW th \in Thread, ExitPlain(th)
        PROVE  Pushes'
    <2>1. ASSUME NEW t \in Token PROVE PushesOf(t)'
      <3>1. i_enter' = i_enter /\ i_exit' = i_exit /\ owner' = owner /\ PushesOf(t)
        BY <1>0, <1>16 DEF ExitPlain, tokenVars, Pushes
      <3>2. \A x \in Thread :
              \/ pc'[x] = pc[x] /\ target'[x] = target[x] /\ current'[x] = current[x]
              \/ /\ pc[x] \notin {"wait", "load", "swap", "link", "count", "leave",
                                  "raise", "splice", "relink", "clear"}
                 /\ pc'[x] \notin {"wait", "load", "swap", "link", "count", "leave",
                                   "raise", "splice", "relink", "clear"}
        BY <1>0, <1>16 DEF ExitPlain, Goto, TypeOK, localVars
      <3> QED
        BY <1>0, <3>1, <3>2, PushesKept
    <2> QED
      BY <2>1 DEF Pushes
  <1>17. ASSUME NEW th \in Thread, ExitDrain(th)
        PROVE  Pushes'
    <2>1. ASSUME NEW t \in Token PROVE PushesOf(t)'
      <3>1. i_enter' = i_enter /\ i_exit' = i_exit /\ owner' = owner /\ PushesOf(t)
        BY <1>0, <1>17 DEF ExitDrain, tokenVars, Pushes
      <3>2. \A x \in Thread :
              \/ pc'[x] = pc[x] /\ target'[x] = target[x] /\ current'[x] = current[x]
              \/ /\ pc[x] \notin {"wait", "load", "swap", "link", "count", "leave",
                                  "raise", "splice", "relink", "clear"}
                 /\ pc'[x] \notin {"wait", "load", "swap", "link", "count", "leave",
                                   "raise", "splice", "relink", "clear"}
        BY <1>0, <1>17 DEF ExitDrain, Goto, TypeOK, localVars
      <3> QED
        BY <1>0, <3>1, <3>2, PushesKept
    <2> QED
      BY <2>1 DEF Pushes
  <1>18. ASSUME NEW th \in Thread, RaiseBegin(th)
        PROVE  Pushes'
    <2>0. /\ token[th] \in Token
          /\ pc'[th] = "raise" /\ pc[th] = "idle" /\ \A x \in Thread : x # th => pc'[x] = pc[x]
          /\ owner[token[th]] = token[th]
          /\ target[th] = token[th] => pc[th] \notin {"wait", "load", "swap", "link", "count", "leave"}
      BY <1>0, <1>18 DEF RaiseBegin, Tokens, TypeOK, Goto
    <2>1. ASSUME NEW t \in Token, t # token[th] PROVE PushesOf(t)'
      <3>1. i_enter'[t] = i_enter[t] /\ i_exit'[t] = i_exit[t] /\ owner'[t] = owner[t] /\ PushesOf(t)
        BY <1>0, <1>18, <2>0, <2>1 DEF RaiseBegin, TypeOK, Pushes
      <3>2. \A x \in Thread :
              \/ pc'[x] = pc[x] /\ target'[x] = target[x] /\ current'[x] = current[x]
              \/ /\ target[x] # t \/ pc[x] \notin {"wait", "load", "swap", "link", "count", "leave",
                                               "raise", "splice", "relink", "clear"}
                 /\ target'[x] # t \/ pc'[x] \notin {"wait", "load", "swap", "link", "count", "leave",
                                                 "raise", "splice", "relink", "clear"}
        BY <1>0, <1>18, <2>0, <2>1 DEF RaiseBegin, Goto, TypeOK
      <3> QED
        BY <1>0, <3>1, <3>2, PushesKept
    <2>2. ASSUME NEW t \in Token, t = token[th] PROVE PushesOf(t)'
      <3>0. /\ PushesOf(t) /\ i_enter[t] \in Nat /\ i_exit[t] \in Nat
            /\ Cardinality(Busy(t)) \in Nat
        BY <1>0, BusyFinite DEF Pushes, TypeOK
      <3>1. /\ i_enter'[t] = i_enter[t] + 1 /\ i_exit' = i_exit /\ owner' = owner
            /\ current'[th] = i_enter[t] /\ target'[th] = t
            /\ \A x \in Thread : x # th => target'[x] = target[x] /\ current'[x] = current[x]
        BY <1>0, <1>18, <2>0, <2>2 DEF RaiseBegin, TypeOK
      <3>2. ~Raising(t)
        <4>1. ASSUME NEW x \in Thread, target[x] = t, pc[x] \in {"raise", "splice", "relink", "clear"}
              PROVE  FALSE
          <5>1. token[x] = token[th] /\ token[x] # Null
            BY <1>0, <2>0, <2>2, <4>1 DEF Roles, RoleOf
          <5> QED
            BY <1>0, <2>0, <4>1, <5>1 DEF Tokens
        <4> QED
          BY <4>1 DEF Raising
      <3>3. i_enter[t] = i_exit[t] + 2 * Cardinality(Busy(t)) /\ i_exit[t] % 2 = 0
        BY <2>0, <2>2, <3>0, <3>2 DEF PushesOf
      <3>4. i_enter'[t] % 2 = 1
        BY <3>0, <3>1, <3>3, OddEven
      <3>5. Busy(t)' = Busy(t)
        BY <1>0, <2>0, <3>1 DEF Busy
      <3>6. Raising(t)'
        BY <2>0, <3>1 DEF Raising
      <3>7. \A x \in Thread : target'[x] = t /\ pc'[x] \in {"raise", "splice", "relink", "clear"} => x = th
        BY <2>0, <3>1, <3>2 DEF Raising
      <3>8. current'[th] = i_exit'[t] + 2 * Cardinality(Busy(t)') /\ i_exit'[t] % 2 = 0
        BY <3>1, <3>3, <3>5
      <3> QED
        BY <2>0, <3>4, <3>6, <3>7, <3>8 DEF PushesOf
    <2> QED
      BY <2>1, <2>2 DEF Pushes
  <1>19. ASSUME NEW th \in Thread, RaiseOwner(th)
        PROVE  Pushes'
    <2>0. /\ target[th] \in Token
          /\ pc'[th] = "splice" /\ pc[th] = "raise" /\ \A x \in Thread : x # th => pc'[x] = pc[x]
          /\ Busy(target[th]) = {}
      BY <1>0, <1>19, RaiseOwnerFacts DEF RaiseOwner, TypeOK, Goto
    <2>1. ASSUME NEW t \in Token, t # target[th] PROVE PushesOf(t)'
      <3>1. i_enter'[t] = i_enter[t] /\ i_exit'[t] = i_exit[t] /\ owner'[t] = owner[t] /\ PushesOf(t)
        BY <1>0, <1>19, <2>0, <2>1 DEF RaiseOwner, TypeOK, Pushes
      <3>2. \A x \in Thread :
              \/ pc'[x] = pc[x] /\ target'[x] = target[x] /\ current'[x] = current[x]
              \/ /\ target[x] # t \/ pc[x] \notin {"wait", "load", "swap", "link", "count", "leave",
                                               "raise", "splice", "relink", "clear"}
                 /\ target'[x] # t \/ pc'[x] \notin {"wait", "load", "swap", "link", "count", "leave",
                                                 "raise", "splice", "relink", "clear"}
        BY <1>0, <1>19, <2>0, <2>1 DEF RaiseOwner, Goto, TypeOK, localVars
      <3> QED
        BY <1>0, <3>1, <3>2, PushesKept
    <2>2. ASSUME NEW t \in Token, t = target[th] PROVE PushesOf(t)'
      <3>0. /\ PushesOf(t) /\ i_enter[t] \in Nat /\ i_exit[t] \in Nat
            /\ Cardinality(Busy(t)) \in Nat
        BY <1>0, BusyFinite DEF Pushes, TypeOK
      <3>1. /\ i_enter' = i_enter /\ i_exit' = i_exit /\ owner'[t] # t
            /\ current' = current /\ target' = target
        BY <1>0, <1>19, <2>0, <2>2, HandoffAssumption DEF RaiseOwner, TypeOK, localVars
      <3>2. Busy(t)' = Busy(t) /\ Busy(t) = {}
        BY <2>0, <2>2, <3>1 DEF Busy
      <3>3. \A x \in Thread : target'[x] = t /\ pc'[x] \in {"raise", "splice", "relink", "clear"} =>
                target[x] = t /\ pc[x] \in {"raise", "splice", "relink", "clear"} /\ (x = th \/ pc'[x] = pc[x])
        BY <2>0, <3>1
      <3>4. \A x \in Thread : target'[x] = t /\ pc'[x] \in {"raise", "splice", "relink", "clear"} =>
                i_enter'[t] % 2 = 1 /\ pc'[x] # "raise"
        BY <1>0, <2>0, <2>2, <3>0, <3>1, <3>3, RaiserOnly DEF PushesOf
      <3>5. i_exit'[t] % 2 = 0
        BY <3>0, <3>1 DEF PushesOf
      <3> QED
        BY <3>1, <3>2, <3>4, <3>5 DEF PushesOf
    <2> QED
      BY <2>1, <2>2 DEF Pushes
  <1>20. ASSUME NEW th \in Thread, RaiseSplice(th)
        PROVE  Pushes'
    <2>0. /\ target[th] \in Token
          /\ pc'[th] \in {"relink", "clear"} /\ pc[th] \in {"splice", "relink"}
          /\ \A x \in Thread : x # th => pc'[x] = pc[x]
      BY <1>0, <1>20 DEF RaiseSplice, TypeOK, Goto, Roles, RoleOf
    <2>1. ASSUME NEW t \in Token, t # target[th] PROVE PushesOf(t)'
      <3>1. i_enter'[t] = i_enter[t] /\ i_exit'[t] = i_exit[t] /\ owner'[t] = owner[t] /\ PushesOf(t)
        BY <1>0, <1>20, <2>0, <2>1 DEF RaiseSplice, tokenVars, TypeOK, Pushes
      <3>2. \A x \in Thread :
              \/ pc'[x] = pc[x] /\ target'[x] = target[x] /\ current'[x] = current[x]
              \/ /\ target[x] # t \/ pc[x] \notin {"wait", "load", "swap", "link", "count", "leave",
                                               "raise", "splice", "relink", "clear"}
                 /\ target'[x] # t \/ pc'[x] \notin {"wait", "load", "swap", "link", "count", "leave",
                                                 "raise", "splice", "relink", "clear"}
        BY <1>0, <1>20, <2>0, <2>1 DEF RaiseSplice, Goto, TypeOK
      <3> QED
        BY <1>0, <3>1, <3>2, PushesKept
    <2>2. ASSUME NEW t \in Token, t = target[th] PROVE PushesOf(t)'
      <3>0. /\ PushesOf(t) /\ i_enter[t] \in Nat /\ i_exit[t] \in Nat
            /\ Cardinality(Busy(t)) \in Nat
        BY <1>0, BusyFinite DEF Pushes, TypeOK
      <3>1. /\ i_enter' = i_enter /\ i_exit' = i_exit /\ owner' = owner
            /\ current' = current /\ target' = target
        BY <1>20 DEF RaiseSplice, tokenVars
      <3>2. Busy(t)' = Busy(t)
        BY <2>0, <3>1 DEF Busy
      <3>3. Raising(t)' <=> Raising(t)
        BY <2>0, <3>1 DEF Raising
      <3> QED
        BY <2>0, <3>0, <3>1, <3>2, <3>3 DEF PushesOf
    <2> QED
      BY <2>1, <2>2 DEF Pushes
  <1>21. ASSUME NEW th \in Thread, RaiseLink(th)
        PROVE  Pushes'
    <2>0. /\ target[th] \in Token
          /\ pc'[th] \in {"relink", "clear"} /\ pc[th] \in {"splice", "relink"}
          /\ \A x \in Thread : x # th => pc'[x] = pc[x]
      BY <1>0, <1>21 DEF RaiseLink, TypeOK, Goto, Roles, RoleOf
    <2>1. ASSUME NEW t \in Token, t # target[th] PROVE PushesOf(t)'
      <3>1. i_enter'[t] = i_enter[t] /\ i_exit'[t] = i_exit[t] /\ owner'[t] = owner[t] /\ PushesOf(t)
        BY <1>0, <1>21, <2>0, <2>1 DEF RaiseLink, tokenVars, TypeOK, Pushes
      <3>2. \A x \in Thread :
              \/ pc'[x] = pc[x] /\ target'[x] = target[x] /\ current'[x] = current[x]
              \/ /\ target[x] # t \/ pc[x] \notin {"wait", "load", "swap", "link", "count", "leave",
                                               "raise", "splice", "relink", "clear"}
                 /\ target'[x] # t \/ pc'[x] \notin {"wait", "load", "swap", "link", "count", "leave",
                                                 "raise", "splice", "relink", "clear"}
        BY <1>0, <1>21, <2>0, <2>1 DEF RaiseLink, Goto, TypeOK, localVars
      <3> QED
        BY <1>0, <3>1, <3>2, PushesKept
    <2>2. ASSUME NEW t \in Token, t = target[th] PROVE PushesOf(t)'
      <3>0. /\ PushesOf(t) /\ i_enter[t] \in Nat /\ i_exit[t] \in Nat
            /\ Cardinality(Busy(t)) \in Nat
        BY <1>0, BusyFinite DEF Pushes, TypeOK
      <3>1. /\ i_enter' = i_enter /\ i_exit' = i_exit /\ owner' = owner
            /\ current' = current /\ target' = target
        BY <1>21 DEF RaiseLink, tokenVars, localVars
      <3>2. Busy(t)' = Busy(t)
        BY <2>0, <3>1 DEF Busy
      <3>3. Raising(t)' <=> Raising(t)
        BY <2>0, <3>1 DEF Raising
      <3> QED
        BY <2>0, <3>0, <3>1, <3>2, <3>3 DEF PushesOf
    <2> QED
      BY <2>1, <2>2 DEF Pushes
  <1>22. ASSUME NEW th \in Thread, RaiseEnd(th)
        PROVE  Pushes'
    <2>0. /\ target[th] \in Token
          /\ pc'[th] = "exited" /\ pc[th] = "clear" /\ \A x \in Thread : x # th => pc'[x] = pc[x]
          /\ owner[target[th]] = Back
      BY <1>0, <1>22 DEF RaiseEnd, TypeOK, Goto, Roles, RoleOf, Tokens
    <2>1. ASSUME NEW t \in Token, t # target[th] PROVE PushesOf(t)'
      <3>1. i_enter'[t] = i_enter[t] /\ i_exit'[t] = i_exit[t] /\ owner'[t] = owner[t] /\ PushesOf(t)
        BY <1>0, <1>22, <2>0, <2>1 DEF RaiseEnd, TypeOK, Pushes
      <3>2. \A x \in Thread :
              \/ pc'[x] = pc[x] /\ target'[x] = target[x] /\ current'[x] = current[x]
              \/ /\ target[x] # t \/ pc[x] \notin {"wait", "load", "swap", "link", "count", "leave",
                                               "raise", "splice", "relink", "clear"}
                 /\ target'[x] # t \/ pc'[x] \notin {"wait", "load", "swap", "link", "count", "leave",
                                                 "raise", "splice", "relink", "clear"}
        BY <1>0, <1>22, <2>0, <2>1 DEF RaiseEnd, Goto, TypeOK
      <3> QED
        BY <1>0, <3>1, <3>2, PushesKept
    <2>2. ASSUME NEW t \in Token, t = target[th] PROVE PushesOf(t)'
      <3>0. /\ PushesOf(t) /\ i_enter[t] \in Nat /\ i_exit[t] \in Nat
            /\ Cardinality(Busy(t)) \in Nat
        BY <1>0, BusyFinite DEF Pushes, TypeOK
      <3>1. /\ i_exit' = i_exit /\ owner' = owner /\ target' = target /\ owner'[t] # t
        BY <1>22, <2>0, <2>2, HandoffAssumption DEF RaiseEnd
      <3>2. \A x \in Thread : target'[x] = t => pc'[x] \notin {"raise", "splice", "relink", "clear"}
        BY <1>0, <2>0, <2>2, <3>1, RaiserOnly
      <3> QED
        BY <3>0, <3>1, <3>2 DEF PushesOf
    <2> QED
      BY <2>1, <2>2 DEF Pushes
  <1> QED
    BY <1>1, <1>2, <1>3, <1>4, <1>5, <1>6, <1>7, <1>8, <1>9, <1>10, <1>11, <1>12,
       <1>13, <1>14, <1>15, <1>16, <1>17, <1>18, <1>19, <1>20, <1>21, <1>22 DEF Next, Step,
       Call, Pop, Worker

------------------------------------------------------------------------------
(* What a step does to the successors                                       *)

LEMMA SuccessorKept ==
    ASSUME NEW n \in Node, next'[n] = next[n],
           \A x \in Thread : (Linking(x)' /\ prev'[x] = n) <=> (Linking(x) /\ prev[x] = n),
           \A x \in Thread : Linking(x) /\ prev[x] = n =>
              /\ pc'[x] = pc[x] /\ obj'[x] = obj[x]
              /\ pc[x] = "relink" => next'[target'[x]] = next[target[x]]
    PROVE  Succession'[n] = Succession[n]
  <1> DEFINE linking == {th \in Thread : pc[th] \in {"link", "relink"} /\ prev[th] = n}
             later   == {th \in Thread : pc'[th] \in {"link", "relink"} /\ prev'[th] = n}
  <1>1. linking = {th \in Thread : Linking(th) /\ prev[th] = n}
    BY DEF Linking
  <1>2. later = {th \in Thread : Linking(th)' /\ prev'[th] = n}
    BY DEF Linking
  <1>3. later = linking
    BY <1>1, <1>2
  <1>4. Succession[n] = Successor(n) /\ Succession'[n] = Successor(n)'
    BY DEF Succession, Node
  <1>5. CASE linking = {}
    <2>1. Successor(n) = next[n]
      BY <1>5 DEF Successor
    <2>2. later = {}
      BY <1>3, <1>5
    <2>3. Successor(n)' = next'[n]
      BY <2>2 DEF Successor
    <2> QED
      BY <1>4, <2>1, <2>3
  <1>6. CASE linking # {}
    <2> DEFINE x == CHOOSE th \in linking : TRUE
               y == CHOOSE th \in later : TRUE
    <2>1. x \in Thread /\ Linking(x) /\ prev[x] = n
      BY <1>1, <1>6
    <2>2. Successor(n) = IF pc[x] = "link" THEN obj[x] ELSE next[target[x]]
      BY <1>6 DEF Successor
    <2>3. later # {}
      BY <1>3, <1>6
    <2>4. Successor(n)' = IF pc'[y] = "link" THEN obj'[y] ELSE next'[target'[y]]
      BY <2>3 DEF Successor
    <2>5. y = x
      BY <1>3
    <2>6. pc[x] \in {"link", "relink"}
      BY <2>1 DEF Linking
    <2> HIDE DEF x, y
    <2> QED
      BY <1>4, <2>1, <2>2, <2>4, <2>5, <2>6
  <1> QED
    BY <1>5, <1>6

LEMMA SuccessorPlainNext ==
    ASSUME NEW n \in Node, \A x \in Thread : Linking(x)' => prev'[x] # n
    PROVE  Succession'[n] = next'[n]
  BY DEF Succession, Successor, Node, Linking

LEMMA SuccessorLinkNext ==
    ASSUME NEW n \in Node, NEW th \in Thread, Linking(th)', prev'[th] = n,
           \A x \in Thread : Linking(x)' /\ prev'[x] = n => x = th
    PROVE  Succession'[n] = IF pc'[th] = "link" THEN obj'[th] ELSE next'[target'[th]]
  <1> DEFINE linking == {x \in Thread : pc'[x] \in {"link", "relink"} /\ prev'[x] = n}
  <1>1. linking = {th}
    BY DEF Linking
  <1>2. (CHOOSE x \in linking : TRUE) = th
    BY <1>1
  <1>3. Successor(n)' = IF pc'[th] = "link" THEN obj'[th] ELSE next'[target'[th]]
    BY <1>1, <1>2 DEF Successor
  <1> QED
    BY <1>3 DEF Succession, Node

LEMMA SuccessionSame ==
    ASSUME \A n \in Node : Succession'[n] = Succession[n]
    PROVE  Succession' = Succession
  BY DEF Succession, Node

LEMMA SuccessionQuiet ==
    ASSUME next' = next,
           \A x \in Thread :
              /\ Linking(x)' <=> Linking(x)
              /\ Linking(x) => /\ pc'[x] = pc[x] /\ prev'[x] = prev[x] /\ obj'[x] = obj[x]
                               /\ target'[x] = target[x]
    PROVE  Succession' = Succession
  <1>1. ASSUME NEW n \in Node PROVE Succession'[n] = Succession[n]
    BY SuccessorKept
  <1> QED
    BY <1>1, SuccessionSame

(* What the links under way are about *)
LEMMA LinkFacts ==
    ASSUME HandoffInv, NEW x \in Thread, Linking(x)
    PROVE  /\ IntoList(x) \in Lists /\ prev[x] \in {IntoList(x)} \cup Queue(IntoList(x))
           /\ prev[x] \in Node /\ next[prev[x]] = Null
           /\ tail[IntoList(x)] \in Queue(IntoList(x)) /\ tail[IntoList(x)] # prev[x]
           /\ IntoList(x) \in AnyToken
           /\ target[x] \in Token
           /\ pc[x] = "relink" => /\ next[target[x]] \in Queue(Back) /\ owner[target[x]] = Back
                                  /\ target[x] = token[x] /\ target[x] \notin Lists
                                  /\ target[x] \notin Object
           /\ pc[x] = "link" => obj[x] \in Queued /\ into[x] = owner[target[x]]
  <1>0. TypeOK /\ Roles /\ Tokens /\ Links /\ Listing /\ Null \notin Object
        /\ Object \cap AnyToken = {} /\ Back \notin Token
    BY NullApart, HandoffAssumption DEF HandoffInv
  <1>1. IntoList(x) \in Lists /\ prev[x] \in {IntoList(x)} \cup Queue(IntoList(x))
        /\ next[prev[x]] = Null /\ tail[IntoList(x)] # prev[x] /\ tail[IntoList(x)] # IntoList(x)
    BY <1>0 DEF Links
  <1>2. tail[IntoList(x)] \in Queue(IntoList(x))
    BY <1>0, <1>1 DEF Listing
  <1>3. target[x] \in Token
    BY <1>0 DEF Linking, Roles, RoleOf, TypeOK
  <1>4. IntoList(x) \in AnyToken
    BY <1>1 DEF Lists, AnyToken
  <1>5. prev[x] \in Node
    BY <1>1, <1>4 DEF Queue, Node
  <1>6. pc[x] = "relink" => /\ next[target[x]] \in Queue(Back) /\ owner[target[x]] = Back
                            /\ target[x] = token[x]
    BY <1>0 DEF Links, Roles, RoleOf, Tokens
  <1>7. pc[x] = "relink" => target[x] \notin Lists /\ target[x] \notin Object
    <2>1. pc[x] = "relink" => ~Splicing(target[x])
      <3>1. ASSUME NEW y \in Thread, pc[y] = "splice", target[y] = target[x], pc[x] = "relink"
            PROVE  FALSE
        <4>1. x = y
          BY <3>1, RaiserOnly
        <4> QED
          BY <3>1, <4>1
      <3> QED
        BY <3>1 DEF Splicing
    <2>2. target[x] \notin Object /\ target[x] # Back
      BY <1>0, <1>3 DEF AnyToken
    <2> QED
      BY <1>6, <2>1, <2>2 DEF Lists
  <1>8. pc[x] = "link" => obj[x] \in Queued /\ into[x] = owner[target[x]]
    BY <1>0 DEF Roles, RoleOf, Queued, TypeOK
  <1> QED
    BY <1>1, <1>2, <1>3, <1>4, <1>5, <1>6, <1>7, <1>8

LEMMA PushLinkSuccession ==
    ASSUME HandoffInv, NEW th \in Thread, PushLink(th)
    PROVE  Succession' = Succession
  <1>0. TypeOK /\ Roles /\ Links /\ th \in Worker
    BY DEF HandoffInv, Worker
  <1>1. /\ Linking(th) /\ pc[th] = "link" /\ pc'[th] = "count"
        /\ \A x \in Thread : x # th => pc'[x] = pc[x]
        /\ prev' = prev /\ obj' = obj /\ target' = target
        /\ next' = [next EXCEPT ![prev[th]] = obj[th]]
    BY <1>0 DEF PushLink, Linking, Goto, localVars, TypeOK
  <1>2. prev[th] \in Node /\ \A x \in Thread : Linking(x) /\ prev[x] = prev[th] => x = th
    BY <1>0, <1>1, LinkFacts DEF Links
  <1>3. \A x \in Thread : Linking(x)' <=> Linking(x) /\ x # th
    BY <1>1 DEF Linking
  <1>4. ASSUME NEW n \in Node, n # prev[th] PROVE Succession'[n] = Succession[n]
    <2>1. next'[n] = next[n]
      BY <1>0, <1>1, <1>4 DEF TypeOK, Node
    <2>2. \A x \in Thread : (Linking(x)' /\ prev'[x] = n) <=> (Linking(x) /\ prev[x] = n)
      BY <1>1, <1>3, <1>4
    <2>3. ASSUME NEW x \in Thread, Linking(x), prev[x] = n
          PROVE  /\ pc'[x] = pc[x] /\ obj'[x] = obj[x]
                 /\ pc[x] = "relink" => next'[target'[x]] = next[target[x]]
      <3>1. x # th /\ target[x] \in Token
        BY <1>4, <2>3, LinkFacts
      <3>2. pc[x] = "relink" => target[x] # prev[th]
        BY <1>1, <2>3, LinkFacts DEF Queue
      <3> QED
        BY <1>0, <1>1, <3>1, <3>2 DEF TypeOK, AnyToken
    <2> QED
      BY <2>1, <2>2, <2>3, SuccessorKept
  <1>5. Succession'[prev[th]] = Succession[prev[th]]
    <2>1. Succession[prev[th]] = obj[th]
      BY <1>0, <1>1, SuccessionLink
    <2>2. next'[prev[th]] = obj[th]
      BY <1>0, <1>1, <1>2 DEF TypeOK, Node
    <2>3. Succession'[prev[th]] = next'[prev[th]]
      BY <1>1, <1>2, <1>3, SuccessorPlainNext
    <2> QED
      BY <2>1, <2>2, <2>3
  <1> QED
    BY <1>4, <1>5, SuccessionSame

LEMMA RaiseLinkSuccession ==
    ASSUME HandoffInv, NEW th \in Thread, RaiseLink(th)
    PROVE  Succession' = Succession
  <1>0. TypeOK /\ Roles /\ Links /\ th \in Worker
    BY DEF HandoffInv, Worker
  <1>1. /\ Linking(th) /\ pc[th] = "relink" /\ pc'[th] = "clear"
        /\ \A x \in Thread : x # th => pc'[x] = pc[x]
        /\ prev' = prev /\ obj' = obj /\ target' = target
        /\ next' = [next EXCEPT ![prev[th]] = next[target[th]]]
    BY <1>0 DEF RaiseLink, Linking, Goto, localVars, TypeOK
  <1>2. prev[th] \in Node /\ \A x \in Thread : Linking(x) /\ prev[x] = prev[th] => x = th
    BY <1>0, <1>1, LinkFacts DEF Links
  <1>3. \A x \in Thread : Linking(x)' <=> Linking(x) /\ x # th
    BY <1>1 DEF Linking
  <1>4. ASSUME NEW n \in Node, n # prev[th] PROVE Succession'[n] = Succession[n]
    <2>1. next'[n] = next[n]
      BY <1>0, <1>1, <1>4 DEF TypeOK, Node
    <2>2. \A x \in Thread : (Linking(x)' /\ prev'[x] = n) <=> (Linking(x) /\ prev[x] = n)
      BY <1>1, <1>3, <1>4
    <2>3. ASSUME NEW x \in Thread, Linking(x), prev[x] = n
          PROVE  /\ pc'[x] = pc[x] /\ obj'[x] = obj[x]
                 /\ pc[x] = "relink" => next'[target'[x]] = next[target[x]]
      <3>1. x # th /\ target[x] \in Token
        BY <1>4, <2>3, LinkFacts
      <3>2. pc[x] = "relink" => target[x] # prev[th]
        BY <1>1, <2>3, LinkFacts DEF Queue
      <3> QED
        BY <1>0, <1>1, <3>1, <3>2 DEF TypeOK, AnyToken
    <2> QED
      BY <2>1, <2>2, <2>3, SuccessorKept
  <1>5. Succession'[prev[th]] = Succession[prev[th]]
    <2>1. Succession[prev[th]] = next[target[th]]
      BY <1>0, <1>1, SuccessionLink
    <2>2. next'[prev[th]] = next[target[th]]
      BY <1>0, <1>1, <1>2 DEF TypeOK, Node
    <2>3. Succession'[prev[th]] = next'[prev[th]]
      BY <1>1, <1>2, <1>3, SuccessorPlainNext
    <2> QED
      BY <2>1, <2>2, <2>3
  <1> QED
    BY <1>4, <1>5, SuccessionSame

(* A popped list begins with the node that stays on it. *)
LEMMA HeadSuccession ==
    ASSUME HandoffInv, NEW w \in Worker, Walking(w),
           next' = [next EXCEPT ![List(w)] = curr[w]],
           \A x \in Thread : Linking(x)' <=> Linking(x),
           \A x \in Thread : Linking(x) => pc'[x] = pc[x],
           prev' = prev, obj' = obj, target' = target
    PROVE  Succession' = [Succession EXCEPT ![List(w)] = curr[w]]
  <1>0. TypeOK /\ Roles /\ Links /\ Walks /\ Tokens
    BY DEF HandoffInv
  <1>1. List(w) \in Lists /\ List(w) \in Node /\ \A x \in Thread : Linking(x) => prev[x] # List(w)
    BY <1>0, WalkerOnly DEF Walks, Node
  <1>2. ASSUME NEW n \in Node, n # List(w) PROVE Succession'[n] = Succession[n]
    <2>1. next'[n] = next[n]
      BY <1>0, <1>2 DEF TypeOK, Node
    <2>2. ASSUME NEW x \in Thread, Linking(x), prev[x] = n
          PROVE  /\ pc'[x] = pc[x] /\ obj'[x] = obj[x]
                 /\ pc[x] = "relink" => next'[target'[x]] = next[target[x]]
      <3>1. target[x] \in Token /\ (pc[x] = "relink" => target[x] # List(w))
        BY <1>1, <2>2, LinkFacts
      <3> QED
        BY <1>0, <2>2, <3>1 DEF TypeOK, AnyToken
    <2> QED
      BY <2>1, <2>2, SuccessorKept
  <1>3. Succession'[List(w)] = curr[w]
    <2>1. next'[List(w)] = curr[w]
      BY <1>0, <1>1 DEF TypeOK, Node
    <2> QED
      BY <1>1, <2>1, SuccessorPlainNext
  <1> QED
    BY <1>1, <1>2, <1>3 DEF Succession, Node

LEMMA PushSwapSuccession ==
    ASSUME HandoffInv, NEW th \in Thread, PushSwap(th)
    PROVE  /\ into[th] \in Lists /\ obj[th] \in Object
           /\ tail[into[th]] \in Node /\ tail[into[th]] # obj[th]
           /\ Succession' = [Succession EXCEPT ![tail[into[th]]] = obj[th], ![obj[th]] = Null]
  <1>0. TypeOK /\ Roles /\ Links /\ Tokens /\ Listing /\ th \in Worker
    BY DEF HandoffInv, Worker
  <1>1. /\ pc[th] = "swap" /\ pc'[th] = "link"
        /\ \A x \in Thread : x # th => pc'[x] = pc[x] /\ prev'[x] = prev[x]
        /\ prev'[th] = tail[into[th]] /\ obj' = obj /\ target' = target
        /\ next' = [next EXCEPT ![obj[th]] = Null]
    BY <1>0 DEF PushSwap, Goto, TypeOK
  <1>2. /\ obj[th] \in Object /\ state[obj[th]] = "freeing" /\ home[obj[th]] = target[th]
        /\ target[th] \in Token /\ into[th] = owner[target[th]] /\ into[th] \in {target[th], Back}
    BY <1>0, <1>1 DEF Roles, RoleOf, TypeOK, Tokens
  <1>3. target[th] \notin released
    <2>1. obj[th] \in Active(target[th])
      BY <1>2 DEF Active
    <2> QED
      BY <1>0, <2>1 DEF Tokens
  <1>4. into[th] \in Lists
    BY <1>2, <1>3 DEF Lists
  <1>5. tail[into[th]] \in {into[th]} \cup Queue(into[th]) /\ into[th] \in AnyToken
    BY <1>0, <1>4 DEF Listing, Lists, AnyToken
  <1>6. tail[into[th]] \in Node /\ tail[into[th]] # obj[th]
    BY <1>2, <1>5, NullApart DEF Node, Queue
  <1>7. \A x \in Thread : Linking(x)' <=> Linking(x) \/ x = th
    BY <1>1 DEF Linking
  <1>8. ASSUME NEW x \in Thread, Linking(x) PROVE prev[x] # tail[into[th]] /\ prev[x] # obj[th]
    <2>1. /\ IntoList(x) \in Lists /\ prev[x] \in {IntoList(x)} \cup Queue(IntoList(x))
          /\ tail[IntoList(x)] # prev[x] /\ IntoList(x) \in AnyToken
      BY <1>8, LinkFacts
    <2>2. prev[x] # obj[th]
      BY <1>2, <2>1, NullApart DEF Queue
    <2>3. ASSUME prev[x] = tail[into[th]] PROVE FALSE
      <3>1. IntoList(x) = into[th]
        BY <1>5, <2>1, <2>3, NullApart DEF Queue
      <3> QED
        BY <2>1, <2>3, <3>1
    <2> QED
      BY <2>2, <2>3
  <1>9. ASSUME NEW n \in Node, n # tail[into[th]], n # obj[th] PROVE Succession'[n] = Succession[n]
    <2>1. next'[n] = next[n]
      BY <1>0, <1>1, <1>9 DEF TypeOK, Node
    <2>2. \A x \in Thread : (Linking(x)' /\ prev'[x] = n) <=> (Linking(x) /\ prev[x] = n)
      BY <1>1, <1>7, <1>9 DEF Linking
    <2>3. ASSUME NEW x \in Thread, Linking(x), prev[x] = n
          PROVE  /\ pc'[x] = pc[x] /\ obj'[x] = obj[x]
                 /\ pc[x] = "relink" => next'[target'[x]] = next[target[x]]
      <3>1. x # th
        BY <1>1, <2>3 DEF Linking
      <3>2. target[x] \in Token /\ target[x] # obj[th]
        BY <1>2, <2>3, LinkFacts, NullApart DEF AnyToken
      <3> QED
        BY <1>0, <1>1, <3>1, <3>2 DEF TypeOK, AnyToken
    <2> QED
      BY <2>1, <2>2, <2>3, SuccessorKept
  <1>10. Succession'[tail[into[th]]] = obj[th]
    <2>1. \A x \in Thread : Linking(x)' /\ prev'[x] = tail[into[th]] => x = th
      BY <1>1, <1>7, <1>8
    <2>2. Linking(th)' /\ pc'[th] = "link" /\ obj'[th] = obj[th]
      BY <1>1, <1>7
    <2> QED
      BY <1>1, <1>6, <2>1, <2>2, SuccessorLinkNext
  <1>11. Succession'[obj[th]] = Null
    <2>1. \A x \in Thread : Linking(x)' => prev'[x] # obj[th]
      BY <1>1, <1>6, <1>7, <1>8
    <2>2. next'[obj[th]] = Null /\ obj[th] \in Node
      BY <1>0, <1>1, <1>2 DEF TypeOK, Node
    <2> QED
      BY <2>1, <2>2, SuccessorPlainNext
  <1>12. Succession' = [Succession EXCEPT ![tail[into[th]]] = obj[th], ![obj[th]] = Null]
    BY <1>2, <1>6, <1>9, <1>10, <1>11 DEF Succession, Node
  <1> QED
    BY <1>2, <1>4, <1>6, <1>12

LEMMA RaiseSpliceSuccession ==
    ASSUME HandoffInv, NEW th \in Thread, RaiseSplice(th)
    PROVE  /\ target[th] \in Token /\ target[th] \in Lists /\ target[th] = token[th]
           /\ owner[target[th]] = Back /\ Walker(target[th]) = {}
           /\ \A x \in Thread : Linking(x) => IntoList(x) # target[th]
           /\ Succession[target[th]] = next[target[th]]
           /\ IF tail[target[th]] = target[th]
              THEN Succession' = Succession
              ELSE /\ tail[Back] \in Node
                   /\ Succession' = [Succession EXCEPT ![tail[Back]] = next[target[th]]]
  <1>0. /\ TypeOK /\ Roles /\ Links /\ Tokens /\ Listing /\ Pushes /\ th \in Worker
        /\ Back \notin Token /\ Null \notin Token /\ Mem \notin Thread
    BY HandoffAssumption DEF HandoffInv, Worker
  <1>1. /\ pc[th] = "splice" /\ target[th] \in Token /\ target[th] = token[th]
        /\ owner[target[th]] = Back /\ target[th] \notin released /\ Busy(target[th]) = {}
    BY <1>0 DEF RaiseSplice, Roles, RoleOf, Tokens, TypeOK, Pushes, PushesOf
  <1>2. target[th] \in Lists /\ target[th] \in Node /\ Back \in Lists
    BY <1>1 DEF Lists, Splicing, Node, AnyToken
  <1>3. Walker(target[th]) = {}
    <2>1. ASSUME NEW w \in Worker, Walking(w), List(w) = target[th] PROVE FALSE
      <3>1. w \in Thread
        BY <1>0, <1>1, <2>1 DEF List, Worker
      <3>2. token[w] = token[th] /\ token[w] # Null
        BY <1>0, <1>1, <2>1, <3>1 DEF List
      <3>3. w = th
        BY <1>0, <3>1, <3>2 DEF Tokens
      <3> QED
        BY <1>1, <2>1, <3>3 DEF Walking
    <2> QED
      BY <2>1 DEF Walker, Walking
  <1>4. ASSUME NEW x \in Thread, Linking(x) PROVE IntoList(x) # target[th]
    <2>1. SUFFICES ASSUME IntoList(x) = target[th] PROVE FALSE
      OBVIOUS
    <2>2. pc[x] = "link" /\ into[x] = target[th]
      BY <1>0, <1>1, <1>4, <2>1 DEF IntoList, Linking
    <2>3. target[x] \in Token /\ into[x] = owner[target[x]]
      BY <1>4, <2>2, LinkFacts
    <2>4. target[x] = target[th]
      BY <1>0, <1>1, <2>2, <2>3 DEF Tokens
    <2> QED
      BY <1>1, <2>2, <2>4 DEF Busy
  <1>5. \A x \in Thread : Linking(x) => prev[x] # target[th]
    <2>1. \A x \in Thread : Linking(x) => prev[x] \in {IntoList(x)} \cup Queue(IntoList(x))
      BY LinkFacts
    <2>2. target[th] \notin Object
      BY <1>1, NullApart DEF AnyToken
    <2> QED
      BY <1>4, <2>1, <2>2 DEF Queue
  <1>6. Succession[target[th]] = next[target[th]]
    BY <1>2, <1>5, SuccessionPlain
  <1>7. CASE tail[target[th]] = target[th]
    <2>1. pc' = [pc EXCEPT ![th] = "clear"]
      BY <1>7 DEF RaiseSplice, Goto
    <2>2. prev' = prev /\ obj' = obj /\ target' = target /\ next' = next
      BY <1>7 DEF RaiseSplice
    <2>21. ASSUME NEW x \in Thread PROVE (Linking(x)' <=> Linking(x)) /\ (Linking(x) => pc'[x] = pc[x])
      BY <1>0, <1>1, <2>1 DEF Linking, TypeOK
    <2>22. \A x \in Thread :
              /\ Linking(x)' <=> Linking(x)
              /\ Linking(x) => /\ pc'[x] = pc[x] /\ prev'[x] = prev[x] /\ obj'[x] = obj[x]
                               /\ target'[x] = target[x]
      BY <2>2, <2>21
    <2>3. Succession' = Succession
      BY <2>2, <2>22, SuccessionQuiet
    <2> QED
      BY <1>1, <1>2, <1>3, <1>4, <1>6, <1>7, <2>3
  <1>8. CASE tail[target[th]] # target[th]
    <2>0. /\ pc' = [pc EXCEPT ![th] = "relink"] /\ prev' = [prev EXCEPT ![th] = tail[Back]]
          /\ obj' = obj /\ target' = target /\ next' = next
      BY <1>8 DEF RaiseSplice, Goto
    <2>1. /\ \A x \in Thread : x # th => pc'[x] = pc[x] /\ prev'[x] = prev[x]
          /\ pc'[th] = "relink" /\ prev'[th] = tail[Back]
          /\ obj' = obj /\ target' = target /\ next' = next
      BY <1>0, <2>0 DEF TypeOK
    <2>2. \A x \in Thread : Linking(x)' <=> Linking(x) \/ x = th
      BY <2>1 DEF Linking
    <2>3. tail[Back] \in {Back} \cup Queue(Back)
      BY <1>0, <1>2 DEF Listing
    <2>4. tail[Back] \in Node
      BY <2>3 DEF Node, AnyToken, Queue
    <2>5. ASSUME NEW x \in Thread, Linking(x) PROVE prev[x] # tail[Back]
      <3>1. /\ IntoList(x) \in Lists /\ prev[x] \in {IntoList(x)} \cup Queue(IntoList(x))
            /\ tail[IntoList(x)] # prev[x] /\ IntoList(x) \in AnyToken
        BY <2>5, LinkFacts
      <3>2. SUFFICES ASSUME prev[x] = tail[Back] PROVE FALSE
        OBVIOUS
      <3>3. IntoList(x) = Back
        BY <2>3, <3>1, <3>2, NullApart DEF Queue, AnyToken
      <3> QED
        BY <3>1, <3>2, <3>3
    <2>6. ASSUME NEW n \in Node, n # tail[Back] PROVE Succession'[n] = Succession[n]
      <3>1. \A x \in Thread : (Linking(x)' /\ prev'[x] = n) <=> (Linking(x) /\ prev[x] = n)
        BY <1>1, <2>1, <2>2, <2>6 DEF Linking
      <3>2. \A x \in Thread : Linking(x) => x # th
        BY <1>1 DEF Linking
      <3> QED
        BY <2>1, <3>1, <3>2, SuccessorKept
    <2>7. Succession'[tail[Back]] = next[target[th]]
      <3>1. Linking(th)' /\ \A x \in Thread : Linking(x)' /\ prev'[x] = tail[Back] => x = th
        BY <2>1, <2>2, <2>5
      <3> QED
        BY <2>1, <2>4, <3>1, SuccessorLinkNext
    <2>8. Succession' = [Succession EXCEPT ![tail[Back]] = next[target[th]]]
      BY <2>4, <2>6, <2>7 DEF Succession, Node
    <2> QED
      BY <1>1, <1>2, <1>3, <1>4, <1>6, <1>8, <2>4, <2>8
  <1> QED
    BY <1>7, <1>8

------------------------------------------------------------------------------
(* Steps that change neither a list nor a walk                              *)

CalmStep ==
    /\ Succession' = Succession /\ tail' = tail /\ owner' = owner /\ released \subseteq released'
    /\ \A x \in Thread : /\ pc'[x] = "splice" <=> pc[x] = "splice"
                         /\ pc[x] = "splice" => target'[x] = target[x]
    /\ \A o \in Object : /\ state'[o] = "queued" <=> state[o] = "queued"
                         /\ state[o] = "queued" => home'[o] = home[o]
    /\ \A w \in Worker : /\ Walking(w)' <=> Walking(w)
                         /\ Walking(w) => curr'[w] = curr[w] /\ List(w)' = List(w)

LEMMA WalkerKept ==
    ASSUME NEW t,
           \A w \in Worker : /\ Walking(w)' <=> Walking(w)
                             /\ Walking(w) => List(w)' = List(w)
    PROVE  Walker(t)' = Walker(t)
  <1>1. Walker(t) = {w \in Worker : Walking(w) /\ List(w) = t}
    BY DEF Walker, Walking
  <1>2. Walker(t)' = {w \in Worker : Walking(w)' /\ List(w)' = t}
    BY DEF Walker, Walking
  <1> QED
    BY <1>1, <1>2

LEMMA FirstKept ==
    ASSUME NEW t, Walker(t)' = Walker(t), Succession'[t] = Succession[t],
           \A w \in Walker(t) : curr'[w] = curr[w]
    PROVE  First(t)' = First(t)
  <1>1. CASE Walker(t) = {}
    BY <1>1 DEF First
  <1>2. CASE Walker(t) # {}
    <2> DEFINE w == CHOOSE v \in Walker(t) : TRUE
    <2>1. w \in Walker(t)
      BY <1>2
    <2>2. First(t) = curr[w] /\ First(t)' = curr'[w]
      BY <1>2 DEF First
    <2> HIDE DEF w
    <2> QED
      BY <2>1, <2>2
  <1> QED
    BY <1>1, <1>2

LEMMA ListOfKept ==
    ASSUME NEW o, NEW h, h = home[o], home'[o] = h, owner'[h] = owner[h],
           Splicing(h)' <=> Splicing(h)
    PROVE  ListOf(o)' = ListOf(o)
  BY DEF ListOf

(* Lists that are what they were *)
LEMMA ListsKept ==
    ASSUME HandoffInv, Succession' = Succession, tail' = tail, Lists' \subseteq Lists,
           Queued' = Queued,
           \A t \in Lists' : Queue(t)' = Queue(t) /\ First(t)' = First(t)
    PROVE  Listing' /\ OneWay'
  <1>1. \A t \in Lists : /\ Chain(First(t), Succession) = Queue(t)
                         /\ tail[t] \in {t} \cup Queue(t)
                         /\ Succession[tail[t]] = Null
    BY DEF HandoffInv, Listing
  <1>2. Listing'
    <2>1. ASSUME NEW t \in Lists'
          PROVE  /\ Chain(First(t)', Succession') = Queue(t)'
                 /\ tail'[t] \in {t} \cup Queue(t)'
                 /\ Succession'[tail'[t]] = Null
      BY <1>1, <2>1
    <2>2. \A x, f : Chain(x, f)' = Chain(x, f)
      BY DEF Chain
    <2> QED
      BY <2>1 DEF Listing, Chain
  <1>3. OneWay'
    BY DEF OneWay, HandoffInv
  <1> QED
    BY <1>2, <1>3

LEMMA CalmLists ==
    ASSUME HandoffInv, CalmStep
    PROVE  /\ Listing' /\ OneWay'
           /\ Lists' \subseteq Lists /\ \A t \in Lists : t \notin released' => t \in Lists'
           /\ Queued' = Queued
           /\ \A t : /\ Queue(t)' = Queue(t) /\ Walker(t)' = Walker(t)
                     /\ Splicing(t)' <=> Splicing(t)
           /\ \A o \in Queued : ListOf(o)' = ListOf(o)
  <1>0. /\ owner' = owner /\ released \subseteq released'
        /\ \A x \in Thread : /\ pc'[x] = "splice" <=> pc[x] = "splice"
                             /\ pc[x] = "splice" => target'[x] = target[x]
        /\ \A o \in Object : /\ state'[o] = "queued" <=> state[o] = "queued"
                             /\ state[o] = "queued" => home'[o] = home[o]
        /\ \A w \in Worker : Walking(w) => curr'[w] = curr[w]
    BY DEF CalmStep
  <1>1. \A t : Splicing(t)' <=> Splicing(t)
    BY <1>0 DEF Splicing
  <1>2. Lists' \subseteq Lists /\ \A t \in Lists : t \notin released' => t \in Lists'
    BY <1>0, <1>1 DEF Lists
  <1>3. ASSUME NEW o \in Queued PROVE ListOf(o)' = ListOf(o)
    <2>1. o \in Object /\ home'[o] = home[o]
      BY <1>0, <1>3 DEF Queued
    <2> QED
      BY <1>0, <1>1, <2>1, ListOfKept
  <1>4. Queued' = Queued
    BY <1>0 DEF Queued
  <1>5. \A t : Queue(t)' = Queue(t)
    <2>1. \A t : /\ Queue(t) = {o \in Queued : ListOf(o) = t}
                 /\ Queue(t)' = {o \in Queued' : ListOf(o)' = t}
      BY DEF Queue, Queued
    <2> QED
      BY <1>3, <1>4, <2>1
  <1>6. \A t : Walker(t)' = Walker(t)
    BY WalkerKept DEF CalmStep
  <1>7. ASSUME NEW t PROVE First(t)' = First(t)
    <2>1. \A w \in Walker(t) : curr'[w] = curr[w]
      BY <1>0 DEF Walker, Walking
    <2> QED
      BY <1>6, <2>1, FirstKept DEF CalmStep
  <1>8. Listing' /\ OneWay'
    BY <1>2, <1>4, <1>5, <1>7, ListsKept DEF CalmStep
  <1> QED
    BY <1>1, <1>2, <1>3, <1>4, <1>5, <1>6, <1>8

LEMMA AllocCalm ==
    ASSUME HandoffInv, NEW th \in Thread, NEW o \in Object, NEW t \in Token, Alloc(th, o, t)
    PROVE  CalmStep
  <1>0. /\ TypeOK /\ Roles /\ Tokens /\ Worker = Thread \cup {Mem} /\ Mem \notin Thread
    BY HandoffAssumption DEF HandoffInv, Worker
  <1>b. /\ next' = next
        /\ \A x \in Thread :
              /\ Linking(x)' <=> Linking(x)
              /\ Linking(x) => /\ pc'[x] = pc[x] /\ prev'[x] = prev[x] /\ obj'[x] = obj[x]
                               /\ target'[x] = target[x]
    BY <1>0 DEF Alloc, Goto, Linking, TypeOK, listVars, PopLazily
  <1>1. Succession' = Succession
    BY <1>b, SuccessionQuiet
  <1>2. tail' = tail /\ owner' = owner /\ released \subseteq released'
    BY DEF Alloc, listVars
  <1>3. \A x \in Thread : /\ pc'[x] = "splice" <=> pc[x] = "splice"
                          /\ pc[x] = "splice" => target'[x] = target[x]
    BY <1>0 DEF Alloc, Goto, TypeOK, PopLazily
  <1>4. \A p \in Object : /\ state'[p] = "queued" <=> state[p] = "queued"
                          /\ state[p] = "queued" => home'[p] = home[p]
    BY <1>0 DEF Alloc, TypeOK, Tokens
  <1>5. \A w \in Worker : /\ Walking(w)' <=> Walking(w)
                          /\ Walking(w) => curr'[w] = curr[w] /\ List(w)' = List(w)
    BY <1>0 DEF Alloc, Walking, List, Goto, TypeOK, popVars, PopLazily
  <1> QED
    BY <1>1, <1>2, <1>3, <1>4, <1>5 DEF CalmStep

LEMMA FreeOwnCalm ==
    ASSUME HandoffInv, NEW th \in Thread, NEW o \in Object, FreeOwn(th, o)
    PROVE  CalmStep
  <1>0. /\ TypeOK /\ Roles /\ Tokens /\ Worker = Thread \cup {Mem} /\ Mem \notin Thread
    BY HandoffAssumption DEF HandoffInv, Worker
  <1>b. /\ next' = next
        /\ \A x \in Thread :
              /\ Linking(x)' <=> Linking(x)
              /\ Linking(x) => /\ pc'[x] = pc[x] /\ prev'[x] = prev[x] /\ obj'[x] = obj[x]
                               /\ target'[x] = target[x]
    BY <1>0 DEF FreeOwn, Goto, Linking, TypeOK, listVars, PopLazily
  <1>1. Succession' = Succession
    BY <1>b, SuccessionQuiet
  <1>2. tail' = tail /\ owner' = owner /\ released \subseteq released'
    BY DEF FreeOwn, listVars, tokenVars
  <1>3. \A x \in Thread : /\ pc'[x] = "splice" <=> pc[x] = "splice"
                          /\ pc[x] = "splice" => target'[x] = target[x]
    BY <1>0 DEF FreeOwn, Goto, TypeOK, PopLazily
  <1>4. \A p \in Object : /\ state'[p] = "queued" <=> state[p] = "queued"
                          /\ state[p] = "queued" => home'[p] = home[p]
    BY <1>0 DEF FreeOwn, TypeOK, Tokens
  <1>5. \A w \in Worker : /\ Walking(w)' <=> Walking(w)
                          /\ Walking(w) => curr'[w] = curr[w] /\ List(w)' = List(w)
    BY <1>0 DEF FreeOwn, Walking, List, Goto, TypeOK, popVars, tokenVars, PopLazily
  <1> QED
    BY <1>1, <1>2, <1>3, <1>4, <1>5 DEF CalmStep

LEMMA ResumeCalm == ASSUME HandoffInv, NEW th \in Thread, Resume(th) PROVE CalmStep
  <1>0. /\ TypeOK /\ Roles /\ Tokens /\ Worker = Thread \cup {Mem} /\ Mem \notin Thread
    BY HandoffAssumption DEF HandoffInv, Worker
  <1>a. /\ obj[th] \in Object /\ state[obj[th]] \in {"new", "freeing"}
        /\ state' = [state EXCEPT ![obj[th]] = IF state[obj[th]] = "new" THEN "live" ELSE "freed"]
        /\ token' = token \/ token' = [token EXCEPT ![th] = Null]
        /\ released \subseteq released' /\ pc[th] = "resume"
        /\ home' = home
    BY ResumeFacts DEF Resume
  <1>b. /\ next' = next
        /\ \A x \in Thread :
              /\ Linking(x)' <=> Linking(x)
              /\ Linking(x) => /\ pc'[x] = pc[x] /\ prev'[x] = prev[x] /\ obj'[x] = obj[x]
                               /\ target'[x] = target[x]
    BY <1>0 DEF Resume, Goto, Linking, TypeOK, listVars
  <1>1. Succession' = Succession
    BY <1>b, SuccessionQuiet
  <1>2. tail' = tail /\ owner' = owner /\ released \subseteq released'
    BY <1>a DEF Resume, listVars
  <1>3. \A x \in Thread : /\ pc'[x] = "splice" <=> pc[x] = "splice"
                          /\ pc[x] = "splice" => target'[x] = target[x]
    BY <1>0 DEF Resume, Goto, TypeOK
  <1>4. \A p \in Object : /\ state'[p] = "queued" <=> state[p] = "queued"
                          /\ state[p] = "queued" => home'[p] = home[p]
    BY <1>0, <1>a DEF Resume, TypeOK, Tokens
  <1>5. \A w \in Worker : /\ Walking(w)' <=> Walking(w)
                          /\ Walking(w) => curr'[w] = curr[w] /\ List(w)' = List(w)
    BY <1>0, <1>a DEF Resume, Walking, List, Goto, TypeOK, popVars
  <1> QED
    BY <1>1, <1>2, <1>3, <1>4, <1>5 DEF CalmStep

LEMMA MemWakeCalm == ASSUME HandoffInv, MemWake PROVE CalmStep
  <1>0. /\ TypeOK /\ Roles /\ Tokens /\ Worker = Thread \cup {Mem} /\ Mem \notin Thread
    BY HandoffAssumption DEF HandoffInv, Worker
  <1>b. /\ next' = next
        /\ \A x \in Thread :
              /\ Linking(x)' <=> Linking(x)
              /\ Linking(x) => /\ pc'[x] = pc[x] /\ prev'[x] = prev[x] /\ obj'[x] = obj[x]
                               /\ target'[x] = target[x]
    BY <1>0 DEF MemWake, Goto, Linking, TypeOK, listVars, localVars
  <1>1. Succession' = Succession
    BY <1>b, SuccessionQuiet
  <1>2. tail' = tail /\ owner' = owner /\ released \subseteq released'
    BY DEF MemWake, listVars, tokenVars
  <1>3. \A x \in Thread : /\ pc'[x] = "splice" <=> pc[x] = "splice"
                          /\ pc[x] = "splice" => target'[x] = target[x]
    BY <1>0 DEF MemWake, Goto, TypeOK, localVars
  <1>4. \A p \in Object : /\ state'[p] = "queued" <=> state[p] = "queued"
                          /\ state[p] = "queued" => home'[p] = home[p]
    BY <1>0 DEF MemWake, TypeOK, Tokens
  <1>5. \A w \in Worker : /\ Walking(w)' <=> Walking(w)
                          /\ Walking(w) => curr'[w] = curr[w] /\ List(w)' = List(w)
    BY <1>0 DEF MemWake, Walking, List, Goto, TypeOK, popVars, tokenVars
  <1> QED
    BY <1>1, <1>2, <1>3, <1>4, <1>5 DEF CalmStep

LEMMA PushEnterCalm ==
    ASSUME HandoffInv, NEW th \in Thread, NEW o \in Object, PushEnter(th, o)
    PROVE  CalmStep
  <1>0. /\ TypeOK /\ Roles /\ Tokens /\ Worker = Thread \cup {Mem} /\ Mem \notin Thread
    BY HandoffAssumption DEF HandoffInv, Worker
  <1>b. /\ next' = next
        /\ \A x \in Thread :
              /\ Linking(x)' <=> Linking(x)
              /\ Linking(x) => /\ pc'[x] = pc[x] /\ prev'[x] = prev[x] /\ obj'[x] = obj[x]
                               /\ target'[x] = target[x]
    BY <1>0 DEF PushEnter, Goto, Linking, TypeOK, listVars
  <1>1. Succession' = Succession
    BY <1>b, SuccessionQuiet
  <1>2. tail' = tail /\ owner' = owner /\ released \subseteq released'
    BY DEF PushEnter, listVars
  <1>3. \A x \in Thread : /\ pc'[x] = "splice" <=> pc[x] = "splice"
                          /\ pc[x] = "splice" => target'[x] = target[x]
    BY <1>0 DEF PushEnter, Goto, TypeOK
  <1>4. \A p \in Object : /\ state'[p] = "queued" <=> state[p] = "queued"
                          /\ state[p] = "queued" => home'[p] = home[p]
    BY <1>0 DEF PushEnter, TypeOK, Tokens
  <1>5. \A w \in Worker : /\ Walking(w)' <=> Walking(w)
                          /\ Walking(w) => curr'[w] = curr[w] /\ List(w)' = List(w)
    BY <1>0 DEF PushEnter, Walking, List, Goto, TypeOK, popVars
  <1> QED
    BY <1>1, <1>2, <1>3, <1>4, <1>5 DEF CalmStep

LEMMA PushWaitCalm == ASSUME HandoffInv, NEW th \in Thread, PushWait(th) PROVE CalmStep
  <1>0. /\ TypeOK /\ Roles /\ Tokens /\ Worker = Thread \cup {Mem} /\ Mem \notin Thread
    BY HandoffAssumption DEF HandoffInv, Worker
  <1>b. /\ next' = next
        /\ \A x \in Thread :
              /\ Linking(x)' <=> Linking(x)
              /\ Linking(x) => /\ pc'[x] = pc[x] /\ prev'[x] = prev[x] /\ obj'[x] = obj[x]
                               /\ target'[x] = target[x]
    BY <1>0 DEF PushWait, Goto, Linking, TypeOK, listVars, localVars
  <1>1. Succession' = Succession
    BY <1>b, SuccessionQuiet
  <1>2. tail' = tail /\ owner' = owner /\ released \subseteq released'
    BY DEF PushWait, listVars, tokenVars
  <1>3. \A x \in Thread : /\ pc'[x] = "splice" <=> pc[x] = "splice"
                          /\ pc[x] = "splice" => target'[x] = target[x]
    BY <1>0 DEF PushWait, Goto, TypeOK, localVars
  <1>4. \A p \in Object : /\ state'[p] = "queued" <=> state[p] = "queued"
                          /\ state[p] = "queued" => home'[p] = home[p]
    BY <1>0 DEF PushWait, TypeOK, Tokens
  <1>5. \A w \in Worker : /\ Walking(w)' <=> Walking(w)
                          /\ Walking(w) => curr'[w] = curr[w] /\ List(w)' = List(w)
    BY <1>0 DEF PushWait, Walking, List, Goto, TypeOK, popVars, tokenVars
  <1> QED
    BY <1>1, <1>2, <1>3, <1>4, <1>5 DEF CalmStep

LEMMA PushLoadCalm == ASSUME HandoffInv, NEW th \in Thread, PushLoad(th) PROVE CalmStep
  <1>0. /\ TypeOK /\ Roles /\ Tokens /\ Worker = Thread \cup {Mem} /\ Mem \notin Thread
    BY HandoffAssumption DEF HandoffInv, Worker
  <1>b. /\ next' = next
        /\ \A x \in Thread :
              /\ Linking(x)' <=> Linking(x)
              /\ Linking(x) => /\ pc'[x] = pc[x] /\ prev'[x] = prev[x] /\ obj'[x] = obj[x]
                               /\ target'[x] = target[x]
    BY <1>0 DEF PushLoad, Goto, Linking, TypeOK, listVars
  <1>1. Succession' = Succession
    BY <1>b, SuccessionQuiet
  <1>2. tail' = tail /\ owner' = owner /\ released \subseteq released'
    BY DEF PushLoad, listVars, tokenVars
  <1>3. \A x \in Thread : /\ pc'[x] = "splice" <=> pc[x] = "splice"
                          /\ pc[x] = "splice" => target'[x] = target[x]
    BY <1>0 DEF PushLoad, Goto, TypeOK
  <1>4. \A p \in Object : /\ state'[p] = "queued" <=> state[p] = "queued"
                          /\ state[p] = "queued" => home'[p] = home[p]
    BY <1>0 DEF PushLoad, TypeOK, Tokens
  <1>5. \A w \in Worker : /\ Walking(w)' <=> Walking(w)
                          /\ Walking(w) => curr'[w] = curr[w] /\ List(w)' = List(w)
    BY <1>0 DEF PushLoad, Walking, List, Goto, TypeOK, popVars, tokenVars
  <1> QED
    BY <1>1, <1>2, <1>3, <1>4, <1>5 DEF CalmStep

LEMMA PushLinkCalm == ASSUME HandoffInv, NEW th \in Thread, PushLink(th) PROVE CalmStep
  <1>0. /\ TypeOK /\ Roles /\ Tokens /\ Worker = Thread \cup {Mem} /\ Mem \notin Thread
    BY HandoffAssumption DEF HandoffInv, Worker
  <1>1. Succession' = Succession
    BY PushLinkSuccession
  <1>2. tail' = tail /\ owner' = owner /\ released \subseteq released'
    BY DEF PushLink, tokenVars
  <1>3. \A x \in Thread : /\ pc'[x] = "splice" <=> pc[x] = "splice"
                          /\ pc[x] = "splice" => target'[x] = target[x]
    BY <1>0 DEF PushLink, Goto, TypeOK, localVars
  <1>4. \A p \in Object : /\ state'[p] = "queued" <=> state[p] = "queued"
                          /\ state[p] = "queued" => home'[p] = home[p]
    BY <1>0 DEF PushLink, TypeOK, Tokens
  <1>5. \A w \in Worker : /\ Walking(w)' <=> Walking(w)
                          /\ Walking(w) => curr'[w] = curr[w] /\ List(w)' = List(w)
    BY <1>0 DEF PushLink, Walking, List, Goto, TypeOK, popVars, tokenVars
  <1> QED
    BY <1>1, <1>2, <1>3, <1>4, <1>5 DEF CalmStep

LEMMA PushCountCalm == ASSUME HandoffInv, NEW th \in Thread, PushCount(th) PROVE CalmStep
  <1>0. /\ TypeOK /\ Roles /\ Tokens /\ Worker = Thread \cup {Mem} /\ Mem \notin Thread
    BY HandoffAssumption DEF HandoffInv, Worker
  <1>b. /\ next' = next
        /\ \A x \in Thread :
              /\ Linking(x)' <=> Linking(x)
              /\ Linking(x) => /\ pc'[x] = pc[x] /\ prev'[x] = prev[x] /\ obj'[x] = obj[x]
                               /\ target'[x] = target[x]
    BY <1>0 DEF PushCount, Goto, Linking, TypeOK, localVars
  <1>1. Succession' = Succession
    BY <1>b, SuccessionQuiet
  <1>2. tail' = tail /\ owner' = owner /\ released \subseteq released'
    BY DEF PushCount, tokenVars
  <1>3. \A x \in Thread : /\ pc'[x] = "splice" <=> pc[x] = "splice"
                          /\ pc[x] = "splice" => target'[x] = target[x]
    BY <1>0 DEF PushCount, Goto, TypeOK, localVars
  <1>4. \A p \in Object : /\ state'[p] = "queued" <=> state[p] = "queued"
                          /\ state[p] = "queued" => home'[p] = home[p]
    BY <1>0 DEF PushCount, TypeOK, Tokens
  <1>5. \A w \in Worker : /\ Walking(w)' <=> Walking(w)
                          /\ Walking(w) => curr'[w] = curr[w] /\ List(w)' = List(w)
    BY <1>0 DEF PushCount, Walking, List, Goto, TypeOK, popVars, tokenVars
  <1> QED
    BY <1>1, <1>2, <1>3, <1>4, <1>5 DEF CalmStep

LEMMA PushExitCalm == ASSUME HandoffInv, NEW th \in Thread, PushExit(th) PROVE CalmStep
  <1>0. /\ TypeOK /\ Roles /\ Tokens /\ Worker = Thread \cup {Mem} /\ Mem \notin Thread
    BY HandoffAssumption DEF HandoffInv, Worker
  <1>b. /\ next' = next
        /\ \A x \in Thread :
              /\ Linking(x)' <=> Linking(x)
              /\ Linking(x) => /\ pc'[x] = pc[x] /\ prev'[x] = prev[x] /\ obj'[x] = obj[x]
                               /\ target'[x] = target[x]
    BY <1>0 DEF PushExit, Goto, Linking, TypeOK, listVars
  <1>1. Succession' = Succession
    BY <1>b, SuccessionQuiet
  <1>2. tail' = tail /\ owner' = owner /\ released \subseteq released'
    BY DEF PushExit, listVars
  <1>3. \A x \in Thread : /\ pc'[x] = "splice" <=> pc[x] = "splice"
                          /\ pc[x] = "splice" => target'[x] = target[x]
    BY <1>0 DEF PushExit, Goto, TypeOK
  <1>4. \A p \in Object : /\ state'[p] = "queued" <=> state[p] = "queued"
                          /\ state[p] = "queued" => home'[p] = home[p]
    BY <1>0 DEF PushExit, TypeOK, Tokens
  <1>5. \A w \in Worker : /\ Walking(w)' <=> Walking(w)
                          /\ Walking(w) => curr'[w] = curr[w] /\ List(w)' = List(w)
    BY <1>0 DEF PushExit, Walking, List, Goto, TypeOK, popVars
  <1> QED
    BY <1>1, <1>2, <1>3, <1>4, <1>5 DEF CalmStep

LEMMA ExitPlainCalm == ASSUME HandoffInv, NEW th \in Thread, ExitPlain(th) PROVE CalmStep
  <1>0. /\ TypeOK /\ Roles /\ Tokens /\ Worker = Thread \cup {Mem} /\ Mem \notin Thread
    BY HandoffAssumption DEF HandoffInv, Worker
  <1>b. /\ next' = next
        /\ \A x \in Thread :
              /\ Linking(x)' <=> Linking(x)
              /\ Linking(x) => /\ pc'[x] = pc[x] /\ prev'[x] = prev[x] /\ obj'[x] = obj[x]
                               /\ target'[x] = target[x]
    BY <1>0 DEF ExitPlain, Goto, Linking, TypeOK, listVars, localVars
  <1>1. Succession' = Succession
    BY <1>b, SuccessionQuiet
  <1>2. tail' = tail /\ owner' = owner /\ released \subseteq released'
    BY DEF ExitPlain, listVars, tokenVars
  <1>3. \A x \in Thread : /\ pc'[x] = "splice" <=> pc[x] = "splice"
                          /\ pc[x] = "splice" => target'[x] = target[x]
    BY <1>0 DEF ExitPlain, Goto, TypeOK, localVars
  <1>4. \A p \in Object : /\ state'[p] = "queued" <=> state[p] = "queued"
                          /\ state[p] = "queued" => home'[p] = home[p]
    BY <1>0 DEF ExitPlain, TypeOK, Tokens
  <1>5. \A w \in Worker : /\ Walking(w)' <=> Walking(w)
                          /\ Walking(w) => curr'[w] = curr[w] /\ List(w)' = List(w)
    BY <1>0 DEF ExitPlain, Walking, List, Goto, TypeOK, popVars, tokenVars
  <1> QED
    BY <1>1, <1>2, <1>3, <1>4, <1>5 DEF CalmStep

LEMMA RaiseBeginCalm == ASSUME HandoffInv, NEW th \in Thread, RaiseBegin(th) PROVE CalmStep
  <1>0. /\ TypeOK /\ Roles /\ Tokens /\ Worker = Thread \cup {Mem} /\ Mem \notin Thread
    BY HandoffAssumption DEF HandoffInv, Worker
  <1>b. /\ next' = next
        /\ \A x \in Thread :
              /\ Linking(x)' <=> Linking(x)
              /\ Linking(x) => /\ pc'[x] = pc[x] /\ prev'[x] = prev[x] /\ obj'[x] = obj[x]
                               /\ target'[x] = target[x]
    BY <1>0 DEF RaiseBegin, Goto, Linking, TypeOK, listVars
  <1>1. Succession' = Succession
    BY <1>b, SuccessionQuiet
  <1>2. tail' = tail /\ owner' = owner /\ released \subseteq released'
    BY DEF RaiseBegin, listVars
  <1>3. \A x \in Thread : /\ pc'[x] = "splice" <=> pc[x] = "splice"
                          /\ pc[x] = "splice" => target'[x] = target[x]
    BY <1>0 DEF RaiseBegin, Goto, TypeOK
  <1>4. \A p \in Object : /\ state'[p] = "queued" <=> state[p] = "queued"
                          /\ state[p] = "queued" => home'[p] = home[p]
    BY <1>0 DEF RaiseBegin, TypeOK, Tokens
  <1>5. \A w \in Worker : /\ Walking(w)' <=> Walking(w)
                          /\ Walking(w) => curr'[w] = curr[w] /\ List(w)' = List(w)
    BY <1>0 DEF RaiseBegin, Walking, List, Goto, TypeOK, popVars
  <1> QED
    BY <1>1, <1>2, <1>3, <1>4, <1>5 DEF CalmStep

LEMMA RaiseLinkCalm == ASSUME HandoffInv, NEW th \in Thread, RaiseLink(th) PROVE CalmStep
  <1>0. /\ TypeOK /\ Roles /\ Tokens /\ Worker = Thread \cup {Mem} /\ Mem \notin Thread
    BY HandoffAssumption DEF HandoffInv, Worker
  <1>1. Succession' = Succession
    BY RaiseLinkSuccession
  <1>2. tail' = tail /\ owner' = owner /\ released \subseteq released'
    BY DEF RaiseLink, tokenVars
  <1>3. \A x \in Thread : /\ pc'[x] = "splice" <=> pc[x] = "splice"
                          /\ pc[x] = "splice" => target'[x] = target[x]
    BY <1>0 DEF RaiseLink, Goto, TypeOK, localVars
  <1>4. \A p \in Object : /\ state'[p] = "queued" <=> state[p] = "queued"
                          /\ state[p] = "queued" => home'[p] = home[p]
    BY <1>0 DEF RaiseLink, TypeOK, Tokens
  <1>5. \A w \in Worker : /\ Walking(w)' <=> Walking(w)
                          /\ Walking(w) => curr'[w] = curr[w] /\ List(w)' = List(w)
    BY <1>0 DEF RaiseLink, Walking, List, Goto, TypeOK, popVars, tokenVars
  <1> QED
    BY <1>1, <1>2, <1>3, <1>4, <1>5 DEF CalmStep

LEMMA RaiseEndCalm == ASSUME HandoffInv, NEW th \in Thread, RaiseEnd(th) PROVE CalmStep
  <1>0. /\ TypeOK /\ Roles /\ Tokens /\ Worker = Thread \cup {Mem} /\ Mem \notin Thread
    BY HandoffAssumption DEF HandoffInv, Worker
  <1>b. /\ next' = next
        /\ \A x \in Thread :
              /\ Linking(x)' <=> Linking(x)
              /\ Linking(x) => /\ pc'[x] = pc[x] /\ prev'[x] = prev[x] /\ obj'[x] = obj[x]
                               /\ target'[x] = target[x]
    BY <1>0 DEF RaiseEnd, Goto, Linking, TypeOK, listVars
  <1>1. Succession' = Succession
    BY <1>b, SuccessionQuiet
  <1>2. tail' = tail /\ owner' = owner /\ released \subseteq released'
    BY DEF RaiseEnd, listVars
  <1>3. \A x \in Thread : /\ pc'[x] = "splice" <=> pc[x] = "splice"
                          /\ pc[x] = "splice" => target'[x] = target[x]
    BY <1>0 DEF RaiseEnd, Goto, TypeOK
  <1>4. \A p \in Object : /\ state'[p] = "queued" <=> state[p] = "queued"
                          /\ state[p] = "queued" => home'[p] = home[p]
    BY <1>0 DEF RaiseEnd, TypeOK, Tokens
  <1>5. \A w \in Worker : /\ Walking(w)' <=> Walking(w)
                          /\ Walking(w) => curr'[w] = curr[w] /\ List(w)' = List(w)
    BY <1>0 DEF RaiseEnd, Walking, List, Goto, TypeOK, popVars
  <1> QED
    BY <1>1, <1>2, <1>3, <1>4, <1>5 DEF CalmStep

------------------------------------------------------------------------------
(* Steps that change a list or a walk: the lists                            *)

LEMMA SameList ==
    ASSUME HandoffInv, NEW v \in Worker, NEW w \in Worker, List(v) = List(w),
           w \in Thread => token[w] # Null
    PROVE  v = w
  <1>1. Mem \notin Thread /\ Worker = Thread \cup {Mem} /\ Back \notin Token
    BY HandoffAssumption DEF Worker
  <1>2. \A x \in Thread : token[x] \in Token \cup {Null} /\ Back # Null
    BY HandoffAssumption DEF HandoffInv, TypeOK
  <1>3. \A x, y \in Thread : token[x] = token[y] /\ token[x] # Null => x = y
    BY DEF HandoffInv, Tokens
  <1> QED
    BY <1>1, <1>2, <1>3 DEF List

LEMMA QueuesApart ==
    ASSUME NEW s, NEW t, s # t
    PROVE  Queue(s) \cap Queue(t) = {}
  BY DEF Queue

LEMMA QueueInQueued ==
    ASSUME NEW t
    PROVE  Queue(t) \subseteq Queued /\ Queued \subseteq Object /\ Queue(t) \subseteq Object
  BY DEF Queue, Queued

(* A list with no first object is empty. *)
LEMMA EmptyList ==
    ASSUME HandoffInv, NEW t \in Lists
    PROVE  /\ First(t) = Null <=> Queue(t) = {}
           /\ First(t) = Null => tail[t] = t /\ Walker(t) = {}
           /\ First(t) # Null => First(t) \in Queue(t) /\ tail[t] \in Queue(t)
  <1>0. TypeOK /\ Roles /\ Tokens /\ Listing /\ Walks
    BY DEF HandoffInv
  <1>1. /\ First(t) \in Queue(t) \cup {Null} /\ Null \notin Queue(t)
        /\ tail[t] \in {t} \cup Queue(t)
    BY <1>0, FirstQueued, NullApart DEF Queue, Listing
  <1>2. First(t) = Null => Queue(t) = {}
    BY <1>0, ChainNull DEF Listing
  <1>3. First(t) = Null => Walker(t) = {}
    <2>1. ASSUME NEW w \in Walker(t) PROVE First(t) # Null
      <3>1. w \in Worker /\ Walking(w) /\ List(w) = t
        BY <2>1 DEF Walker, Walking
      <3> QED
        BY <1>0, <3>1, FirstWalked DEF Walks
    <2> QED
      BY <2>1
  <1>4. First(t) # Null => tail[t] # t
    <2>1. SUFFICES ASSUME First(t) # Null, tail[t] = t PROVE FALSE
      OBVIOUS
    <2>2. CASE Walker(t) = {}
      BY <1>0, <2>1, <2>2 DEF First, Listing
    <2>3. CASE Walker(t) # {}
      <3>1. PICK w \in Walker(t) : TRUE
        BY <2>3
      <3>2. w \in Worker /\ Walking(w) /\ List(w) = t
        BY <3>1 DEF Walker, Walking
      <3> QED
        BY <1>0, <2>1, <3>2 DEF Walks
    <2> QED
      BY <2>2, <2>3
  <1> QED
    BY <1>1, <1>2, <1>3, <1>4

LEMMA WalkBegins ==
    ASSUME HandoffInv, NEW w \in Worker, ~Walking(w), Walking(w)',
           w \in Thread => token[w] # Null,
           List(w) \in Lists, next[List(w)] # Null,
           curr'[w] = next[List(w)], \A v \in Worker : v # w => curr'[v] = curr[v],
           \A v \in Worker : v # w => pc'[v] = pc[v], pc[w] # "splice", pc'[w] # "splice",
           Succession' = Succession, tail' = tail, owner' = owner, released' = released,
           state' = state, home' = home, token' = token, target' = target
    PROVE  /\ Listing' /\ OneWay' /\ Lists' = Lists /\ Queued' = Queued
           /\ \A t : Queue(t)' = Queue(t)
           /\ \A t : t # List(w) => Walker(t)' = Walker(t)
           /\ Walker(List(w)) = {}
           /\ \A t : t = List(w) => Walker(t)' = {w}
  <1>0. TypeOK /\ Roles /\ Tokens /\ Links
    BY DEF HandoffInv
  <1>1. \A v \in Worker : List(v)' = List(v)
    BY DEF List
  <1>2. \A v \in Worker : List(v) = List(w) => v = w
    BY SameList
  <1>3. Walker(List(w)) = {}
    BY <1>2 DEF Walker, Walking
  <1>4. \A v \in Worker : v # w => (Walking(v)' <=> Walking(v))
    BY DEF Walking
  <1>5. /\ \A t : Walker(t) = {v \in Worker : Walking(v) /\ List(v) = t}
        /\ \A t : Walker(t)' = {v \in Worker : Walking(v)' /\ List(v)' = t}
    BY DEF Walker, Walking
  <1>6. ASSUME NEW t, t # List(w) PROVE Walker(t)' = Walker(t)
    BY <1>1, <1>4, <1>5, <1>6
  <1>7. ASSUME NEW t, t = List(w) PROVE Walker(t)' = {w}
    BY <1>1, <1>2, <1>4, <1>5, <1>7
  <1>8. ASSUME NEW t PROVE Splicing(t)' <=> Splicing(t)
    <2>1. \A x \in Thread : pc'[x] = "splice" <=> pc[x] = "splice"
      BY DEF Worker
    <2> QED
      BY <2>1 DEF Splicing
  <1>9. Lists' = Lists
    BY <1>8 DEF Lists
  <1>10. \A o \in Object : ListOf(o)' = ListOf(o)
    BY <1>8, ListOfKept
  <1>11. Queued' = Queued /\ \A t : Queue(t)' = Queue(t)
    BY <1>10 DEF Queued, Queue
  <1>12. ASSUME NEW t \in Lists PROVE First(t)' = First(t)
    <2>1. CASE t # List(w)
      <3>1. \A v \in Walker(t) : curr'[v] = curr[v]
        BY <2>1 DEF Walker
      <3> QED
        BY <1>6, <2>1, <3>1, FirstKept
    <2>2. CASE t = List(w)
      <3>1. First(t) = Succession[t]
        BY <1>3, <2>2 DEF First
      <3>2. Succession[t] = next[t]
        BY <1>0, <2>2, FirstTyped, SuccessionNext
      <3>3. Walker(t)' = {w}
        BY <1>7, <2>2
      <3>4. (CHOOSE v \in Walker(t)' : TRUE) = w
        BY <3>3
      <3>5. First(t)' = curr'[w]
        BY <3>3, <3>4 DEF First
      <3> QED
        BY <2>2, <3>1, <3>2, <3>5
    <2> QED
      BY <2>1, <2>2
  <1>13. Listing' /\ OneWay'
    BY <1>9, <1>11, <1>12, ListsKept
  <1> QED
    BY <1>3, <1>6, <1>7, <1>9, <1>11, <1>13

LEMMA RaiseOwnerLists ==
    ASSUME HandoffInv, NEW th \in Thread, RaiseOwner(th)
    PROVE  /\ Listing' /\ OneWay' /\ Lists' = Lists /\ Queued' = Queued
           /\ \A t : Queue(t)' = Queue(t) /\ Walker(t)' = Walker(t)
           /\ Succession' = Succession
  <1>0. TypeOK /\ Roles /\ Tokens /\ Links /\ Back \notin Token /\ th \in Worker
    BY HandoffAssumption DEF HandoffInv, Worker
  <1>1. /\ target[th] \in Token /\ target[th] = token[th] /\ pc[th] = "raise"
        /\ owner[target[th]] = target[th] /\ target[th] \notin released
    <2>1. target[th] \in Token /\ target[th] = token[th] /\ pc[th] = "raise" /\ target[th] # Null
      BY <1>0, RaiseOwnerFacts DEF RaiseOwner, Roles, RoleOf
    <2> QED
      BY <1>0, <2>1 DEF Tokens
  <1>2. /\ pc' = [pc EXCEPT ![th] = "splice"] /\ owner' = [owner EXCEPT ![target[th]] = Back]
        /\ state' = state /\ home' = home /\ released' = released /\ token' = token /\ curr' = curr
        /\ tail' = tail /\ next' = next /\ prev' = prev /\ obj' = obj /\ target' = target
    BY DEF RaiseOwner, Goto, listVars, localVars, popVars
  <1>3. \A x \in Thread : /\ Linking(x)' <=> Linking(x)
                          /\ Linking(x) => pc'[x] = pc[x]
    BY <1>0, <1>1, <1>2 DEF Linking, TypeOK
  <1>4. Succession' = Succession
    BY <1>2, <1>3, SuccessionQuiet
  <1>5. \A w \in Worker : (Walking(w)' <=> Walking(w)) /\ List(w)' = List(w)
    BY <1>0, <1>1, <1>2 DEF Walking, List, TypeOK
  <1>6. \A t : Walker(t)' = Walker(t)
    BY <1>5, WalkerKept
  <1>7. \A t : First(t)' = First(t)
    BY <1>2, <1>4, <1>6, FirstKept
  <1>8. Splicing(target[th])' /\ \A t : t # target[th] => (Splicing(t)' <=> Splicing(t))
    BY <1>0, <1>1, <1>2 DEF Splicing, TypeOK
  <1>9. \A t : t = target[th] => Splicing(t)'
    BY <1>0, <1>1, <1>2 DEF Splicing, TypeOK
  <1>10. \A t \in Token : t # target[th] => owner'[t] = owner[t]
    BY <1>0, <1>2 DEF TypeOK
  <1>11. Lists' = Lists
    BY <1>1, <1>2, <1>8, <1>9, <1>10 DEF Lists
  <1>12. ASSUME NEW o \in Queued PROVE ListOf(o)' = ListOf(o)
    <2>1. home[o] \in Token /\ home'[o] = home[o]
      BY <1>0, <1>2, ListOfIn
    <2>2. CASE home[o] = target[th]
      <3>1. ListOf(o) = target[th]
        BY <1>1, <2>2 DEF ListOf
      <3>2. \A t : t = home[o] => Splicing(t)'
        BY <1>9, <2>2
      <3>3. ListOf(o)' = home[o]
        BY <1>2, <3>2 DEF ListOf
      <3> QED
        BY <2>2, <3>1, <3>3
    <2>3. CASE home[o] # target[th]
      BY <1>8, <1>10, <2>1, <2>3, ListOfKept
    <2> QED
      BY <2>2, <2>3
  <1>13. Queued' = Queued
    BY <1>2 DEF Queued
  <1>14. ASSUME NEW t PROVE Queue(t)' = Queue(t)
    <2>1. Queue(t) = {o \in Queued : ListOf(o) = t} /\ Queue(t)' = {o \in Queued' : ListOf(o)' = t}
      BY DEF Queue, Queued
    <2> QED
      BY <1>12, <1>13, <2>1
  <1>15. Listing' /\ OneWay'
    BY <1>2, <1>4, <1>7, <1>11, <1>13, <1>14, ListsKept
  <1> QED
    BY <1>4, <1>6, <1>11, <1>13, <1>14, <1>15

LEMMA PopNodeLists ==
    ASSUME HandoffInv, NEW w \in Worker, PopNode(w)
    PROVE  /\ Listing' /\ OneWay' /\ Lists' = Lists /\ Queued' = Queued \ {curr[w]}
           /\ \A t : Queue(t)' = Queue(t) \ {curr[w]} /\ Walker(t)' = Walker(t)
           /\ Succession' = Succession
           /\ \A o \in Object : ListOf(o)' = ListOf(o)
  <1>0. TypeOK /\ Roles /\ Tokens /\ Links /\ Listing /\ OneWay
    BY DEF HandoffInv
  <1>1. /\ Walking(w) /\ next[curr[w]] \in Queue(List(w)) /\ next[curr[w]] # curr[w]
        /\ next[curr[w]] = Succession[curr[w]]
        /\ token' = token /\ released \subseteq released'
        /\ w \in Thread => released' = released
        /\ w = Mem => released' \subseteq released \cup {home[curr[w]]}
        /\ state' = [state EXCEPT ![curr[w]] = "freed"]
    BY PopNodeFacts
  <1>2. /\ pc' = pc /\ home' = home /\ owner' = owner /\ target' = target /\ prev' = prev
        /\ obj' = obj /\ next' = next /\ tail' = tail
        /\ curr' = [curr EXCEPT ![w] = next[curr[w]]]
    BY DEF PopNode, listVars, localVars
  <1>3. /\ curr[w] \in Queue(List(w)) /\ curr[w] \in Object /\ curr[w] \in Queued
        /\ List(w) \in Lists /\ First(List(w)) = curr[w] /\ Walker(List(w)) = {w}
        /\ curr[w] # Null
    BY <1>0, <1>1, WalkedQueued, WalkerOnly, FirstWalked, NullApart DEF Queued
  <1>4. Succession' = Succession
    <2>1. \A x \in Thread : Linking(x)' <=> Linking(x)
      BY <1>2 DEF Linking
    <2> QED
      BY <1>2, <2>1, SuccessionQuiet
  <1>5. \A t : Walker(t)' = Walker(t)
    <2>1. \A v \in Worker : (Walking(v)' <=> Walking(v)) /\ List(v)' = List(v)
      BY <1>1, <1>2 DEF Walking, List
    <2> QED
      BY <2>1, WalkerKept
  <1>6. \A t : Splicing(t)' <=> Splicing(t)
    BY <1>2 DEF Splicing
  <1>7. Lists' = Lists
    <2>1. \A t \in Lists : t \notin released'
      <3>1. CASE w \in Thread
        BY <1>0, <1>1, <3>1, HandoffAssumption DEF Lists, TypeOK
      <3>2. CASE w = Mem
        <4>1. owner[home[curr[w]]] = Back /\ ~Splicing(home[curr[w]]) /\ home[curr[w]] \in Token
          BY <1>1, <1>3, <3>2, WalkedHome
        <4>2. home[curr[w]] \notin Lists
          BY <4>1, HandoffAssumption DEF Lists
        <4> QED
          BY <1>0, <1>1, <3>2, <4>2, HandoffAssumption DEF Lists, TypeOK
      <3> QED
        BY <3>1, <3>2 DEF Worker
    <2> QED
      BY <1>1, <1>2, <1>6, <2>1 DEF Lists
  <1>8. \A o \in Object : ListOf(o)' = ListOf(o)
    BY <1>2, <1>6, ListOfKept
  <1>9. Queued' = Queued \ {curr[w]}
    BY <1>0, <1>1, <1>3 DEF Queued, TypeOK
  <1>10. ASSUME NEW t PROVE Queue(t)' = Queue(t) \ {curr[w]}
    <2>1. Queue(t) = {o \in Queued : ListOf(o) = t} /\ Queue(t)' = {o \in Queued' : ListOf(o)' = t}
      BY DEF Queue, Queued
    <2> QED
      BY <1>8, <1>9, <2>1, QueueInQueued
  <1>11. ASSUME NEW t \in Lists, t # List(w) PROVE First(t)' = First(t) /\ Queue(t)' = Queue(t)
    <2>1. \A v \in Walker(t) : v # w /\ v \in Worker
      BY <1>11 DEF Walker
    <2>2. \A v \in Walker(t) : curr'[v] = curr[v]
      BY <1>0, <1>2, <2>1 DEF TypeOK
    <2>3. curr[w] \notin Queue(t)
      BY <1>3, <1>11 DEF Queue
    <2> QED
      BY <1>4, <1>5, <1>10, <2>2, <2>3, FirstKept
  <1>12. \A t : t = List(w) => First(t)' = next[curr[w]]
    <2>1. ASSUME NEW t, t = List(w) PROVE First(t)' = next[curr[w]]
      <3>1. Walker(t)' = {w}
        BY <1>3, <1>5, <2>1
      <3>2. (CHOOSE v \in Walker(t)' : TRUE) = w
        BY <3>1
      <3>3. First(t)' = curr'[w]
        BY <3>1, <3>2 DEF First
      <3> QED
        BY <1>0, <1>2, <3>3 DEF TypeOK
    <2> QED
      BY <2>1
  <1>13. Listing'
    <2>1. ASSUME NEW t \in Lists
          PROVE  /\ Chain(First(t)', Succession) = Queue(t)'
                 /\ tail[t] \in {t} \cup Queue(t)'
                 /\ Succession[tail[t]] = Null
      <3>1. CASE t # List(w)
        BY <1>0, <1>11, <2>1, <3>1 DEF Listing
      <3>2. CASE t = List(w)
        <4>1. Chain(curr[w], Succession) = Queue(t) /\ Succession \in Successors
          BY <1>0, <1>3, <3>2, SuccessionTyped DEF Listing
        <4>2. \A m \in Queue(t) : Succession[m] # curr[w]
          BY <1>0, <1>3, <3>2, QueueInQueued DEF OneWay
        <4>3. Chain(Succession[curr[w]], Succession) = Queue(t) \ {curr[w]}
          BY <1>3, <4>1, <4>2, ChainRest
        <4>4. tail[t] # curr[w]
          BY <1>0, <1>1, <1>3, <3>2, NullApart DEF Listing, Queue
        <4> QED
          BY <1>0, <1>1, <1>10, <1>12, <2>1, <3>2, <4>3, <4>4 DEF Listing
      <3> QED
        BY <3>1, <3>2
    <2> QED
      BY <1>2, <1>4, <1>7, <2>1 DEF Listing, Chain
  <1>14. OneWay'
    <2>1. \A a, b \in Queued' : Succession'[a] = Succession'[b] /\ Succession'[a] # Null => a = b
      BY <1>0, <1>4, <1>9 DEF OneWay
    <2>2. ASSUME NEW t \in Lists, NEW a \in Queued', Succession[a] = First(t)'
          PROVE  First(t)' = Null
      <3>1. CASE t # List(w)
        BY <1>0, <1>9, <1>11, <2>2, <3>1 DEF OneWay
      <3>2. CASE t = List(w)
        <4>1. Succession[a] = Succession[curr[w]] /\ a # curr[w] /\ a \in Queued
          BY <1>1, <1>9, <1>12, <2>2, <3>2
        <4>2. Succession[a] = Null
          BY <1>0, <1>3, <4>1 DEF OneWay
        <4> QED
          BY <2>2, <4>2
      <3> QED
        BY <3>1, <3>2
    <2> QED
      BY <1>4, <1>7, <2>1, <2>2 DEF OneWay
  <1> QED
    BY <1>4, <1>5, <1>7, <1>8, <1>9, <1>10, <1>13, <1>14

------------------------------------------------------------------------------
LEMMA PopBeginFacts ==
    ASSUME HandoffInv, NEW w \in Worker, PopBegin(w)
    PROVE  /\ pc[w] = "pop" /\ (w \in Thread => token[w] \in Token)
           /\ List(w) \in Lists /\ List(w) \in Node /\ Succession' = Succession
           /\ Walker(List(w)) = {}
           /\ \A v \in Worker : v # w => pc'[v] = pc[v] /\ curr'[v] = curr[v]
           /\ curr'[w] = next[List(w)]
           /\ next[List(w)] # Null => pc'[w] = "walk"
           /\ next[List(w)] = Null => pc'[w] \in {"idle", "resume"}
  <1>0. TypeOK /\ Roles /\ Tokens
    BY DEF HandoffInv
  <1>1. pc[w] = "pop" /\ (w \in Thread => token[w] \in Token)
    BY <1>0, HandoffAssumption DEF PopBegin, Roles, RoleOf, TypeOK
  <1>2. w \in Thread => token[w] \notin released /\ owner[token[w]] = token[w]
    BY <1>0, <1>1, HandoffAssumption DEF Tokens
  <1>3. List(w) \in Lists
    BY <1>1, <1>2, HandoffAssumption DEF List, Lists, Worker
  <1>4. List(w) \in Node
    BY <1>3 DEF Lists, Node, AnyToken
  <1>5. /\ \A v \in Worker : v # w => pc'[v] = pc[v] /\ curr'[v] = curr[v]
        /\ curr'[w] = next[List(w)]
        /\ next[List(w)] # Null => pc'[w] = "walk"
        /\ next[List(w)] = Null => pc'[w] \in {"idle", "resume"}
    BY <1>0 DEF PopBegin, Goto, AfterPop, TypeOK
  <1>6. ASSUME NEW x \in Thread
        PROVE  /\ Linking(x)' <=> Linking(x)
               /\ Linking(x) => pc'[x] = pc[x]
    <2>1. x \in Worker
      BY DEF Worker
    <2>2. CASE x = w
      BY <1>1, <1>5, <2>2 DEF Linking
    <2>3. CASE x # w
      BY <1>5, <2>1, <2>3 DEF Linking
    <2> QED
      BY <2>2, <2>3
  <1>7. next' = next /\ prev' = prev /\ obj' = obj /\ target' = target
    BY DEF PopBegin, listVars, localVars
  <1>8. Succession' = Succession
    BY <1>6, <1>7, SuccessionQuiet
  <1>9. Walker(List(w)) = {}
    <2>1. ASSUME NEW v \in Worker, Walking(v), List(v) = List(w) PROVE FALSE
      <3>1. v = w
        BY <1>1, <2>1, HandoffAssumption, SameList
      <3> QED
        BY <1>1, <2>1, <3>1 DEF Walking
    <2> QED
      BY <2>1 DEF Walker, Walking
  <1> QED
    BY <1>1, <1>3, <1>4, <1>5, <1>8, <1>9

LEMMA PopBeginLists ==
    ASSUME HandoffInv, NEW w \in Worker, PopBegin(w)
    PROVE  /\ Listing' /\ OneWay' /\ Lists' = Lists /\ Queued' = Queued
           /\ \A t : Queue(t)' = Queue(t)
           /\ \A t : t # List(w) => Walker(t)' = Walker(t)
           /\ \A t : t = List(w) => Walker(t)' = IF next[List(w)] = Null THEN {} ELSE {w}
  <1>0. /\ pc[w] = "pop" /\ (w \in Thread => token[w] # Null)
        /\ List(w) \in Lists /\ List(w) \in Node /\ Succession' = Succession
        /\ Walker(List(w)) = {}
        /\ \A v \in Worker : v # w => pc'[v] = pc[v] /\ curr'[v] = curr[v]
        /\ curr'[w] = next[List(w)]
        /\ next[List(w)] # Null => pc'[w] = "walk"
        /\ next[List(w)] = Null => pc'[w] \in {"idle", "resume"}
    BY PopBeginFacts, HandoffAssumption
  <1>1. /\ tail' = tail /\ owner' = owner /\ released' = released /\ state' = state /\ home' = home
        /\ token' = token /\ target' = target
    BY DEF PopBegin, listVars, localVars, tokenVars
  <1>2. CASE next[List(w)] = Null
    <2>1. \A v \in Worker : (Walking(v)' <=> Walking(v)) /\ List(v)' = List(v)
      BY <1>0, <1>1, <1>2 DEF Walking, List
    <2>2. \A v \in Worker : Walking(v) => curr'[v] = curr[v]
      BY <1>0 DEF Walking
    <2>3. \A x \in Thread : pc'[x] = "splice" <=> pc[x] = "splice"
      BY <1>0, <1>2 DEF Worker
    <2>4. CalmStep
      BY <1>0, <1>1, <2>1, <2>2, <2>3 DEF CalmStep
    <2>5. /\ Listing' /\ OneWay' /\ Queued' = Queued /\ Lists' \subseteq Lists
          /\ \A t \in Lists : t \notin released' => t \in Lists'
          /\ \A t : Queue(t)' = Queue(t) /\ Walker(t)' = Walker(t)
      BY <2>4, CalmLists
    <2>6. Lists' = Lists
      <3>1. \A t : Splicing(t)' <=> Splicing(t)
        BY <2>4, CalmLists
      <3> QED
        BY <1>1, <3>1 DEF Lists
    <2> QED
      BY <1>0, <1>2, <2>5, <2>6
  <1>3. CASE next[List(w)] # Null
    <2>1. ~Walking(w) /\ Walking(w)' /\ pc[w] # "splice" /\ pc'[w] # "splice"
      BY <1>0, <1>3 DEF Walking
    <2>2. \A v \in Worker : v # w => curr'[v] = curr[v]
      BY <1>0
    <2>3. \A v \in Worker : v # w => pc'[v] = pc[v]
      BY <1>0
    <2>4. /\ Listing' /\ OneWay' /\ Lists' = Lists /\ Queued' = Queued
          /\ \A t : Queue(t)' = Queue(t)
          /\ \A t : t # List(w) => Walker(t)' = Walker(t)
          /\ Walker(List(w)) = {}
          /\ \A t : t = List(w) => Walker(t)' = {w}
      BY <1>0, <1>1, <1>3, <2>1, <2>2, <2>3, WalkBegins
    <2> QED
      BY <1>3, <2>4
  <1> QED
    BY <1>2, <1>3

LEMMA ExitDrainFacts ==
    ASSUME HandoffInv, NEW th \in Thread, ExitDrain(th)
    PROVE  /\ pc[th] = "idle" /\ token[th] \in Token /\ List(th) = token[th]
           /\ owner[token[th]] = token[th] /\ token[th] \notin released
           /\ token[th] \in Lists /\ token[th] \in Node /\ Succession' = Succession
           /\ Walker(token[th]) = {} /\ th \in Worker
           /\ \A v \in Worker : v # th => pc'[v] = pc[v] /\ curr'[v] = curr[v]
           /\ curr'[th] = next[token[th]]
           /\ next[token[th]] # Null => pc'[th] = "drain"
           /\ next[token[th]] = Null => pc'[th] = "exited"
  <1>0. TypeOK /\ Roles /\ Tokens /\ th \in Worker
    BY DEF HandoffInv, Worker
  <1>1. pc[th] = "idle" /\ token[th] \in Token /\ token[th] # Null
    BY <1>0 DEF ExitDrain, TypeOK
  <1>2. token[th] \notin released /\ owner[token[th]] = token[th]
    BY <1>0, <1>1 DEF Tokens
  <1>3. token[th] \in Lists /\ List(th) = token[th]
    BY <1>1, <1>2, HandoffAssumption DEF List, Lists
  <1>4. token[th] \in Node
    BY <1>3 DEF Lists, Node, AnyToken
  <1>5. /\ \A v \in Worker : v # th => pc'[v] = pc[v] /\ curr'[v] = curr[v]
        /\ curr'[th] = next[token[th]]
        /\ next[token[th]] # Null => pc'[th] = "drain"
        /\ next[token[th]] = Null => pc'[th] = "exited"
    BY <1>0 DEF ExitDrain, Goto, TypeOK
  <1>6. ASSUME NEW x \in Thread
        PROVE  /\ Linking(x)' <=> Linking(x)
               /\ Linking(x) => pc'[x] = pc[x]
    <2>1. x \in Worker
      BY DEF Worker
    <2>2. CASE x = th
      BY <1>1, <1>5, <2>2 DEF Linking
    <2>3. CASE x # th
      BY <1>5, <2>1, <2>3 DEF Linking
    <2> QED
      BY <2>2, <2>3
  <1>7. next' = next /\ prev' = prev /\ obj' = obj /\ target' = target
    BY DEF ExitDrain, listVars, localVars
  <1>8. Succession' = Succession
    BY <1>6, <1>7, SuccessionQuiet
  <1>9. Walker(token[th]) = {}
    <2>1. ASSUME NEW v \in Worker, Walking(v), List(v) = List(th) PROVE FALSE
      <3>1. v = th
        BY <1>0, <1>1, <2>1, SameList
      <3> QED
        BY <1>1, <2>1, <3>1 DEF Walking
    <2> QED
      BY <1>3, <2>1 DEF Walker, Walking
  <1> QED
    BY <1>0, <1>1, <1>2, <1>3, <1>4, <1>5, <1>8, <1>9

LEMMA ExitDrainLists ==
    ASSUME HandoffInv, NEW th \in Thread, ExitDrain(th)
    PROVE  /\ Listing' /\ OneWay' /\ Lists' = Lists /\ Queued' = Queued
           /\ \A t : Queue(t)' = Queue(t)
           /\ \A t : t # token[th] => Walker(t)' = Walker(t)
           /\ \A t : t = token[th] => Walker(t)' = IF next[token[th]] = Null THEN {} ELSE {th}
  <1>0. /\ pc[th] = "idle" /\ token[th] # Null /\ List(th) = token[th]
        /\ token[th] \in Lists /\ token[th] \in Node /\ Succession' = Succession
        /\ Walker(token[th]) = {} /\ th \in Worker
        /\ \A v \in Worker : v # th => pc'[v] = pc[v] /\ curr'[v] = curr[v]
        /\ curr'[th] = next[token[th]]
        /\ next[token[th]] # Null => pc'[th] = "drain"
        /\ next[token[th]] = Null => pc'[th] = "exited"
    BY ExitDrainFacts, HandoffAssumption
  <1>1. /\ tail' = tail /\ owner' = owner /\ released' = released /\ state' = state /\ home' = home
        /\ token' = token /\ target' = target
    BY DEF ExitDrain, listVars, localVars, tokenVars
  <1>2. CASE next[token[th]] = Null
    <2>1. \A v \in Worker : (Walking(v)' <=> Walking(v)) /\ List(v)' = List(v)
      BY <1>0, <1>1, <1>2 DEF Walking, List
    <2>2. \A v \in Worker : Walking(v) => curr'[v] = curr[v]
      BY <1>0 DEF Walking
    <2>3. \A x \in Thread : pc'[x] = "splice" <=> pc[x] = "splice"
      BY <1>0, <1>2 DEF Worker
    <2>4. CalmStep
      BY <1>0, <1>1, <2>1, <2>2, <2>3 DEF CalmStep
    <2>5. /\ Listing' /\ OneWay' /\ Queued' = Queued
          /\ \A t : Queue(t)' = Queue(t) /\ Walker(t)' = Walker(t)
      BY <2>4, CalmLists
    <2>6. Lists' = Lists
      <3>1. \A t : Splicing(t)' <=> Splicing(t)
        BY <2>4, CalmLists
      <3> QED
        BY <1>1, <3>1 DEF Lists
    <2> QED
      BY <1>0, <1>2, <2>5, <2>6
  <1>3. CASE next[token[th]] # Null
    <2>1. ~Walking(th) /\ Walking(th)' /\ pc[th] # "splice" /\ pc'[th] # "splice"
      BY <1>0, <1>3 DEF Walking
    <2>2. \A v \in Worker : v # th => curr'[v] = curr[v]
      BY <1>0
    <2>3. \A v \in Worker : v # th => pc'[v] = pc[v]
      BY <1>0
    <2>4. List(th) \in Lists /\ next[List(th)] # Null /\ curr'[th] = next[List(th)]
      BY <1>0, <1>3
    <2>5. /\ Listing' /\ OneWay' /\ Lists' = Lists /\ Queued' = Queued
          /\ \A t : Queue(t)' = Queue(t)
          /\ \A t : t # List(th) => Walker(t)' = Walker(t)
          /\ Walker(List(th)) = {}
          /\ \A t : t = List(th) => Walker(t)' = {th}
      BY <1>0, <1>1, <2>1, <2>2, <2>3, <2>4, WalkBegins
    <2> QED
      BY <1>0, <1>3, <2>5
  <1> QED
    BY <1>2, <1>3

------------------------------------------------------------------------------
(* The last node stays on the list, or is freed with its token              *)

LEMMA PopLastLists ==
    ASSUME HandoffInv, NEW w \in Worker, PopLast(w)
    PROVE  /\ Listing' /\ OneWay' /\ Lists' = Lists /\ Queued' = Queued
           /\ \A t : Queue(t)' = Queue(t)
           /\ \A t : t # List(w) => Walker(t)' = Walker(t)
           /\ \A t : t = List(w) => Walker(t)' = {}
           /\ Walking(w) /\ List(w) \in Lists /\ Walker(List(w)) = {w}
           /\ \A x \in Thread : /\ Linking(x)' <=> Linking(x)
                                /\ Linking(x) => pc'[x] = pc[x]
  <1>0. TypeOK /\ Roles /\ Tokens /\ Links /\ Listing /\ OneWay /\ Walks
    BY DEF HandoffInv
  <1>1. /\ Walking(w) /\ pc[w] = "walk" /\ pc'[w] \in {"idle", "resume"}
        /\ \A v \in Worker : v # w => pc'[v] = pc[v] /\ curr'[v] = curr[v]
        /\ next' = [next EXCEPT ![List(w)] = curr[w]]
        /\ tail' = tail /\ owner' = owner /\ released' = released /\ state' = state /\ home' = home
        /\ token' = token /\ target' = target /\ prev' = prev /\ obj' = obj
    BY <1>0 DEF PopLast, Walking, Goto, AfterPop, localVars, tokenVars, TypeOK
  <1>2. /\ curr[w] \in Queue(List(w)) /\ curr[w] \in Object
        /\ List(w) \in Lists /\ List(w) \in AnyToken
        /\ First(List(w)) = curr[w] /\ Walker(List(w)) = {w}
    BY <1>0, <1>1, WalkedQueued, WalkerOnly, FirstWalked
  <1>3. ASSUME NEW x \in Thread
        PROVE  /\ Linking(x)' <=> Linking(x)
               /\ Linking(x) => pc'[x] = pc[x]
               /\ pc'[x] = "splice" <=> pc[x] = "splice"
    <2>1. x \in Worker
      BY DEF Worker
    <2>2. CASE x = w
      BY <1>1, <2>2 DEF Linking
    <2>3. CASE x # w
      BY <1>1, <2>1, <2>3 DEF Linking
    <2> QED
      BY <2>2, <2>3
  <1>4. Succession' = [Succession EXCEPT ![List(w)] = curr[w]]
    BY <1>1, <1>3, HeadSuccession
  <1>5. Succession \in Successors /\ Succession' \in Successors
    <2>1. Succession \in Successors
      BY <1>0, SuccessionTyped
    <2> QED
      BY <1>2, <1>4, <2>1 DEF Successors
  <1>6. \A t : Splicing(t)' <=> Splicing(t)
    BY <1>1, <1>3 DEF Splicing
  <1>7. Lists' = Lists
    BY <1>1, <1>6 DEF Lists
  <1>8. Queued' = Queued
    BY <1>1 DEF Queued
  <1>9. \A t : Queue(t)' = Queue(t)
    <2>1. \A o \in Object : ListOf(o)' = ListOf(o)
      BY <1>1, <1>6, ListOfKept
    <2> QED
      BY <1>1, <2>1 DEF Queue
  <1>10. /\ \A v \in Worker : v # w => (Walking(v)' <=> Walking(v)) /\ List(v)' = List(v)
         /\ ~Walking(w)'
    BY <1>1 DEF Walking, List
  <1>11. /\ \A t : Walker(t) = {v \in Worker : Walking(v) /\ List(v) = t}
         /\ \A t : Walker(t)' = {v \in Worker : Walking(v)' /\ List(v)' = t}
    BY DEF Walker, Walking
  <1>12. ASSUME NEW t, t # List(w) PROVE Walker(t)' = Walker(t)
    BY <1>10, <1>11, <1>12
  <1>13. ASSUME NEW t, t = List(w) PROVE Walker(t)' = {}
    <2>1. \A v \in Worker : Walking(v) /\ List(v) = t => v = w
      BY <1>2, <1>11, <1>13
    <2> QED
      BY <1>10, <1>11, <2>1
  <1>14. ASSUME NEW t \in Lists PROVE First(t)' = First(t)
    <2>1. CASE t = List(w)
      <3>1. First(t)' = Succession'[t]
        BY <1>13, <2>1 DEF First
      <3>2. Succession'[t] = curr[w]
        BY <1>2, <1>4, <1>5, <2>1 DEF Successors, Node
      <3> QED
        BY <1>2, <2>1, <3>1, <3>2
    <2>2. CASE t # List(w)
      <3>1. Succession'[t] = Succession[t]
        BY <1>4, <2>2, <1>5, <1>0, FirstTyped DEF Successors
      <3>2. \A v \in Walker(t) : curr'[v] = curr[v]
        BY <1>1, <2>2 DEF Walker
      <3> QED
        BY <1>12, <2>2, <3>1, <3>2, FirstKept
    <2> QED
      BY <2>1, <2>2
  <1>15. \A m \in Object : Succession'[m] = Succession[m]
    BY <1>2, <1>4, <1>5, NullApart DEF Successors, Node
  <1>16. Listing'
    <2>1. ASSUME NEW t \in Lists
          PROVE  /\ Chain(First(t), Succession') = Queue(t)
                 /\ Succession'[tail[t]] = Null
      <3>1. /\ First(t) \in Object \cup {Null} /\ Chain(First(t), Succession) = Queue(t)
            /\ tail[t] \in {t} \cup Queue(t) /\ Succession[tail[t]] = Null /\ t \in Node
        BY <1>0, FirstTyped DEF Listing
      <3>2. Chain(First(t), Succession') = Chain(First(t), Succession)
        <4>1. \A m \in Chain(First(t), Succession) : m \in Object
          BY <3>1 DEF Queue
        <4> QED
          BY <1>5, <1>15, <3>1, <4>1, ChainSame
      <3>3. tail[t] # List(w) /\ tail[t] \in Node
        BY <1>0, <1>1, <1>2, <3>1, NullApart DEF Walks, Queue, Node
      <3>4. Succession'[tail[t]] = Succession[tail[t]]
        BY <1>4, <1>5, <3>3 DEF Successors
      <3> QED
        BY <3>1, <3>2, <3>4
    <2>2. ASSUME NEW t \in Lists'
          PROVE  /\ Chain(First(t)', Succession') = Queue(t)'
                 /\ tail'[t] \in {t} \cup Queue(t)'
                 /\ Succession'[tail'[t]] = Null
      BY <1>0, <1>1, <1>7, <1>9, <1>14, <2>1, <2>2 DEF Listing
    <2> QED
      BY <2>2 DEF Listing, Chain
  <1>17. OneWay'
    <2>1. \A a \in Queued : Succession'[a] = Succession[a]
      BY <1>15 DEF Queued
    <2> QED
      BY <1>0, <1>7, <1>8, <1>14, <2>1 DEF OneWay
  <1> QED
    BY <1>1, <1>2, <1>3, <1>7, <1>8, <1>9, <1>12, <1>13, <1>16, <1>17

LEMMA DrainLastLists ==
    ASSUME HandoffInv, NEW w \in Thread, DrainLast(w)
    PROVE  /\ Listing' /\ OneWay' /\ Lists' = Lists \ {token[w]} /\ Queued' = Queued \ {curr[w]}
           /\ \A t : t # token[w] => Queue(t)' = Queue(t) /\ Walker(t)' = Walker(t)
           /\ \A x \in Thread : /\ Linking(x)' <=> Linking(x)
                                /\ Linking(x) => pc'[x] = pc[x]
  <1>0. TypeOK /\ Roles /\ Tokens /\ Links /\ Listing /\ OneWay /\ Walks /\ w \in Worker
    BY DEF HandoffInv, Worker
  <1>1. /\ Walking(w) /\ pc[w] = "drain" /\ pc'[w] = "exited"
        /\ \A v \in Worker : v # w => pc'[v] = pc[v] /\ curr'[v] = curr[v]
        /\ next' = [next EXCEPT ![List(w)] = curr[w]]
        /\ tail' = tail /\ owner' = owner /\ home' = home
        /\ target' = target /\ prev' = prev /\ obj' = obj
    BY <1>0 DEF DrainLast, Walking, Goto, localVars, TypeOK
  <1>2. /\ List(w) = token[w] /\ token[w] \in Token
        /\ Queue(token[w]) = {curr[w]}
        /\ released' = released \cup {token[w]}
        /\ token' = [token EXCEPT ![w] = Null]
        /\ state' = [state EXCEPT ![curr[w]] = "freed"]
    BY DrainLastFacts
  <1>3. /\ curr[w] \in Queue(List(w)) /\ curr[w] \in Object
        /\ List(w) \in Lists /\ List(w) \in AnyToken /\ Walker(List(w)) = {w}
    BY <1>0, <1>1, WalkedQueued, WalkerOnly
  <1>4. ASSUME NEW x \in Thread
        PROVE  /\ Linking(x)' <=> Linking(x)
               /\ Linking(x) => pc'[x] = pc[x]
               /\ pc'[x] = "splice" <=> pc[x] = "splice"
    <2>1. x \in Worker
      BY DEF Worker
    <2>2. CASE x = w
      BY <1>1, <2>2 DEF Linking
    <2>3. CASE x # w
      BY <1>1, <2>1, <2>3 DEF Linking
    <2> QED
      BY <2>2, <2>3
  <1>5. Succession' = [Succession EXCEPT ![List(w)] = curr[w]]
    BY <1>0, <1>1, <1>4, HeadSuccession
  <1>6. Succession \in Successors /\ Succession' \in Successors
    <2>1. Succession \in Successors
      BY <1>0, SuccessionTyped
    <2> QED
      BY <1>3, <1>5, <2>1 DEF Successors
  <1>7. \A t : Splicing(t)' <=> Splicing(t)
    BY <1>1, <1>4 DEF Splicing
  <1>8. Lists' = Lists \ {token[w]}
    BY <1>1, <1>2, <1>7, HandoffAssumption DEF Lists
  <1>9. Queued' = Queued \ {curr[w]}
    BY <1>0, <1>2, <1>3 DEF Queued, TypeOK
  <1>10. \A t : Queue(t)' = Queue(t) \ {curr[w]}
    <2>1. \A o \in Object : ListOf(o)' = ListOf(o)
      BY <1>1, <1>7, ListOfKept
    <2>2. \A t : /\ Queue(t) = {o \in Queued : ListOf(o) = t}
                 /\ Queue(t)' = {o \in Queued' : ListOf(o)' = t}
      BY DEF Queue, Queued
    <2> QED
      BY <1>9, <2>1, <2>2, QueueInQueued
  <1>11. \A t : t # token[w] => Queue(t)' = Queue(t)
    BY <1>2, <1>3, <1>10 DEF Queue
  <1>12. /\ \A v \in Worker : v # w => (Walking(v)' <=> Walking(v)) /\ List(v)' = List(v)
         /\ ~Walking(w)'
    BY <1>0, <1>1, <1>2 DEF Walking, List, Worker, TypeOK
  <1>13. /\ \A t : Walker(t) = {v \in Worker : Walking(v) /\ List(v) = t}
         /\ \A t : Walker(t)' = {v \in Worker : Walking(v)' /\ List(v)' = t}
    BY DEF Walker, Walking
  <1>14. ASSUME NEW t, t # token[w] PROVE Walker(t)' = Walker(t)
    BY <1>2, <1>12, <1>13, <1>14
  <1>15. ASSUME NEW t \in Lists, t # token[w] PROVE First(t)' = First(t)
    <2>1. Succession'[t] = Succession[t]
      BY <1>0, <1>2, <1>5, <1>6, <1>15, FirstTyped DEF Successors
    <2>2. \A v \in Walker(t) : curr'[v] = curr[v]
      BY <1>1, <1>2, <1>15 DEF Walker
    <2> QED
      BY <1>14, <1>15, <2>1, <2>2, FirstKept
  <1>16. \A m \in Object : Succession'[m] = Succession[m]
    BY <1>3, <1>5, <1>6, NullApart DEF Successors, Node
  <1>17. Listing'
    <2>1. ASSUME NEW t \in Lists, t # token[w]
          PROVE  /\ Chain(First(t), Succession') = Queue(t)
                 /\ Succession'[tail[t]] = Null
      <3>1. /\ First(t) \in Object \cup {Null} /\ Chain(First(t), Succession) = Queue(t)
            /\ tail[t] \in {t} \cup Queue(t) /\ Succession[tail[t]] = Null /\ t \in Node
        BY <1>0, FirstTyped DEF Listing
      <3>2. Chain(First(t), Succession') = Chain(First(t), Succession)
        <4>1. \A m \in Chain(First(t), Succession) : m \in Object
          BY <3>1 DEF Queue
        <4> QED
          BY <1>6, <1>16, <3>1, <4>1, ChainSame
      <3>3. tail[t] # List(w) /\ tail[t] \in Node
        BY <1>2, <1>3, <2>1, <3>1, NullApart DEF Queue, Node
      <3>4. Succession'[tail[t]] = Succession[tail[t]]
        BY <1>5, <1>6, <3>3 DEF Successors
      <3> QED
        BY <3>1, <3>2, <3>4
    <2>2. ASSUME NEW t \in Lists'
          PROVE  /\ Chain(First(t)', Succession') = Queue(t)'
                 /\ tail'[t] \in {t} \cup Queue(t)'
                 /\ Succession'[tail'[t]] = Null
      BY <1>0, <1>1, <1>8, <1>11, <1>15, <2>1, <2>2 DEF Listing
    <2> QED
      BY <2>2 DEF Listing, Chain
  <1>18. OneWay'
    <2>1. \A a \in Queued : Succession'[a] = Succession[a]
      BY <1>16 DEF Queued
    <2> QED
      BY <1>0, <1>8, <1>9, <1>15, <2>1 DEF OneWay
  <1> QED
    BY <1>4, <1>8, <1>9, <1>11, <1>14, <1>17, <1>18

------------------------------------------------------------------------------
(* A node, or a whole list, is appended to a list                           *)

LEMMA PushSwapFacts ==
    ASSUME HandoffInv, NEW th \in Thread, PushSwap(th)
    PROVE  /\ pc[th] = "swap" /\ pc'[th] = "link" /\ th \in Worker
           /\ \A v \in Worker : v # th => pc'[v] = pc[v]
           /\ obj[th] \in Object /\ state[obj[th]] = "freeing" /\ home[obj[th]] = target[th]
           /\ target[th] \in Token \ released /\ target[th] \in used
           /\ into[th] = owner[target[th]]
           /\ into[th] \in Lists /\ into[th] \in AnyToken /\ ~Splicing(target[th])
           /\ state' = [state EXCEPT ![obj[th]] = "queued"]
           /\ next' = [next EXCEPT ![obj[th]] = Null]
           /\ prev' = [prev EXCEPT ![th] = tail[into[th]]]
           /\ tail' = [tail EXCEPT ![into[th]] = obj[th]]
           /\ \A v \in Worker : /\ Walking(v)' <=> Walking(v)
                                /\ List(v)' = List(v) /\ curr'[v] = curr[v]
           /\ \A x \in Thread : Linking(x)' <=> Linking(x) \/ x = th
           /\ \A t : (Splicing(t)' <=> Splicing(t)) /\ Walker(t)' = Walker(t)
  <1>0. TypeOK /\ Roles /\ Tokens /\ Pushes /\ th \in Worker /\ Thread \subseteq Worker
    BY DEF HandoffInv, Worker
  <1>1. /\ pc[th] = "swap" /\ pc'[th] = "link"
        /\ \A v \in Worker : v # th => pc'[v] = pc[v]
        /\ state' = [state EXCEPT ![obj[th]] = "queued"]
        /\ next' = [next EXCEPT ![obj[th]] = Null]
        /\ prev' = [prev EXCEPT ![th] = tail[into[th]]]
        /\ tail' = [tail EXCEPT ![into[th]] = obj[th]]
        /\ curr' = curr /\ token' = token /\ target' = target
    BY <1>0 DEF PushSwap, Goto, popVars, tokenVars, TypeOK
  <1>2. /\ obj[th] \in Object /\ state[obj[th]] = "freeing" /\ home[obj[th]] = target[th]
        /\ target[th] \in Token /\ target[th] \in used /\ into[th] = owner[target[th]]
    BY <1>0, <1>1 DEF Roles, RoleOf, TypeOK, Tokens
  <1>3. into[th] \in Lists
    BY PushSwapSuccession
  <1>4. target[th] \notin released
    <2>1. obj[th] \in Active(target[th])
      BY <1>2 DEF Active
    <2> QED
      BY <1>0, <2>1 DEF Tokens
  <1>5. ~Splicing(target[th])
    <2>1. ASSUME NEW y \in Thread, pc[y] = "splice", target[y] = target[th] PROVE FALSE
      <3>1. Busy(target[th]) = {}
        BY <1>0, <1>2, <2>1 DEF Pushes, PushesOf
      <3> QED
        BY <1>1, <3>1 DEF Busy
    <2> QED
      BY <2>1 DEF Splicing
  <1>6. \A v \in Worker : (Walking(v)' <=> Walking(v)) /\ List(v)' = List(v) /\ curr'[v] = curr[v]
    BY <1>1 DEF Walking, List
  <1>7. \A x \in Thread : Linking(x)' <=> Linking(x) \/ x = th
    BY <1>0, <1>1 DEF Linking
  <1>8. \A t : Splicing(t)' <=> Splicing(t)
    <2>1. \A x \in Thread : pc'[x] = "splice" <=> pc[x] = "splice"
      BY <1>0, <1>1
    <2> QED
      BY <1>1, <2>1 DEF Splicing
  <1>9. \A t : Walker(t)' = Walker(t)
    BY <1>6, WalkerKept
  <1>10. into[th] \in AnyToken
    BY <1>3 DEF Lists, AnyToken
  <1> QED
    BY <1>0, <1>1, <1>2, <1>3, <1>4, <1>5, <1>6, <1>7, <1>8, <1>9, <1>10

LEMMA PushSwapQueues ==
    ASSUME HandoffInv, NEW th \in Thread, PushSwap(th)
    PROVE  /\ Lists' = Lists /\ Queued' = Queued \cup {obj[th]} /\ obj[th] \notin Queued
           /\ \A t : t # into[th] => Queue(t)' = Queue(t)
           /\ \A t : t = into[th] => Queue(t)' = Queue(t) \cup {obj[th]}
           /\ \A t : obj[th] \notin Queue(t)
           /\ \A o \in Object : ListOf(o)' = ListOf(o)
           /\ ListOf(obj[th]) = into[th]
  <1>0. /\ TypeOK /\ Tokens
        /\ obj[th] \in Object /\ state[obj[th]] = "freeing" /\ home[obj[th]] = target[th]
        /\ target[th] \in Token /\ into[th] = owner[target[th]] /\ ~Splicing(target[th])
        /\ state' = [state EXCEPT ![obj[th]] = "queued"]
        /\ \A t : Splicing(t)' <=> Splicing(t)
    BY PushSwapFacts DEF HandoffInv
  <1>1. owner' = owner /\ released' = released /\ home' = home
    BY DEF PushSwap, tokenVars
  <1>2. Lists' = Lists
    BY <1>0, <1>1 DEF Lists
  <1>3. \A o \in Object : ListOf(o)' = ListOf(o)
    BY <1>0, <1>1, ListOfKept
  <1>4. ListOf(obj[th]) = into[th]
    BY <1>0 DEF ListOf, Tokens
  <1>5. Queued' = Queued \cup {obj[th]} /\ obj[th] \notin Queued
    BY <1>0 DEF Queued, TypeOK
  <1>6. \A t : /\ Queue(t) = {o \in Queued : ListOf(o) = t}
               /\ Queue(t)' = {o \in Queued' : ListOf(o)' = t}
    BY DEF Queue, Queued
  <1>7. \A o \in Queued' : o \in Object
    BY DEF Queued
  <1>8. ASSUME NEW t, t # into[th] PROVE Queue(t)' = Queue(t)
    BY <1>3, <1>4, <1>5, <1>6, <1>7, <1>8
  <1>9. ASSUME NEW t, t = into[th] PROVE Queue(t)' = Queue(t) \cup {obj[th]}
    BY <1>3, <1>4, <1>5, <1>6, <1>7, <1>9
  <1>10. \A t : obj[th] \notin Queue(t)
    BY <1>5, <1>6
  <1> QED
    BY <1>2, <1>3, <1>4, <1>5, <1>8, <1>9, <1>10

LEMMA PushSwapLists ==
    ASSUME HandoffInv, NEW th \in Thread, PushSwap(th)
    PROVE  Listing' /\ OneWay'
  <1> DEFINE o == obj[th]
             q == into[th]
             last == tail[into[th]]
  <1>0. TypeOK /\ Roles /\ Tokens /\ Listing /\ OneWay
    BY DEF HandoffInv
  <1>1. /\ o \in Object /\ q \in Lists /\ q \in AnyToken
        /\ tail' = [tail EXCEPT ![q] = o]
        /\ \A t : Walker(t)' = Walker(t)
        /\ \A v \in Worker : curr'[v] = curr[v]
    BY PushSwapFacts
  <1>2. /\ Lists' = Lists /\ Queued' = Queued \cup {o} /\ o \notin Queued
        /\ \A t : t # q => Queue(t)' = Queue(t)
        /\ \A t : t = q => Queue(t)' = Queue(t) \cup {o}
        /\ \A t : o \notin Queue(t)
    BY PushSwapQueues
  <1>3. last \in Node /\ last # o /\ Succession' = [Succession EXCEPT ![last] = o, ![o] = Null]
    BY PushSwapSuccession
  <1>4. o \in Node /\ o # Null /\ q \notin Object
    BY <1>1, NullApart DEF Node
  <1>5. Succession \in Successors /\ Succession' \in Successors
    <2>1. Succession \in Successors
      BY <1>0, SuccessionTyped
    <2> QED
      BY <1>1, <1>3, <1>4, <2>1 DEF Successors
  <1>6. /\ Succession'[last] = o /\ Succession'[o] = Null
        /\ \A m \in Node : m # last /\ m # o => Succession'[m] = Succession[m]
    BY <1>3, <1>4, <1>5 DEF Successors
  <1>7. last \in {q} \cup Queue(q) /\ Succession[last] = Null
    BY <1>0, <1>1 DEF Listing
  <1>8. last = q => First(q) = Null /\ Queue(q) = {} /\ Walker(q) = {}
    BY <1>1, <1>4, EmptyList DEF Queue
  <1>9. last # q => First(q) \in Object /\ last \in Queue(q)
    BY <1>0, <1>1, <1>4, <1>7, EmptyList, FirstTyped
  <1> HIDE DEF o, q, last
  <1>10. ASSUME NEW t \in Lists, t # q PROVE First(t)' = First(t)
    <2>1. t \in Node /\ t # last /\ t # o
      BY <1>0, <1>1, <1>7, <1>10, FirstTyped, NullApart DEF Queue, Lists, AnyToken
    <2>2. Succession'[t] = Succession[t]
      BY <1>6, <2>1
    <2>3. \A v \in Walker(t) : curr'[v] = curr[v]
      BY <1>1 DEF Walker
    <2>4. Walker(t)' = Walker(t)
      BY <1>1
    <2> QED
      BY <2>2, <2>3, <2>4, FirstKept
  <1>11. ASSUME NEW t, t = q, last # q PROVE First(t)' = First(t)
    <2>1. t \in Node /\ t # last /\ t # o
      BY <1>0, <1>1, <1>4, <1>11, FirstTyped
    <2>2. Succession'[t] = Succession[t]
      BY <1>6, <2>1
    <2>3. \A v \in Walker(t) : curr'[v] = curr[v]
      BY <1>1 DEF Walker
    <2>4. Walker(t)' = Walker(t)
      BY <1>1
    <2> QED
      BY <2>2, <2>3, <2>4, FirstKept
  <1>12. ASSUME NEW t, t = q, last = q PROVE First(t)' = o
    <2>1. Walker(t)' = {}
      BY <1>1, <1>8, <1>12
    <2> QED
      BY <1>6, <1>12, <2>1 DEF First
  <1>13. ASSUME NEW t \in Lists, t # q
         PROVE  /\ Chain(First(t), Succession') = Queue(t)
                /\ tail'[t] = tail[t] /\ Succession'[tail[t]] = Null
    <2>1. /\ First(t) \in Object \cup {Null} /\ Chain(First(t), Succession) = Queue(t)
          /\ tail[t] \in {t} \cup Queue(t) /\ Succession[tail[t]] = Null /\ t \in Node
          /\ t \in AnyToken
      BY <1>0, FirstTyped DEF Listing, Lists, AnyToken
    <2>2. \A m \in Queue(t) : m # last /\ m # o /\ m \in Node
      BY <1>2, <1>4, <1>7, <1>13 DEF Queue, Node
    <2>3. Chain(First(t), Succession') = Chain(First(t), Succession)
      BY <1>5, <1>6, <2>1, <2>2, ChainSame
    <2>4. tail'[t] = tail[t]
      BY <1>0, <1>1, <1>13, <2>1 DEF TypeOK
    <2>5. t # last /\ t # o
      BY <1>1, <1>7, <1>13, <2>1, NullApart DEF Queue
    <2>6. Succession'[tail[t]] = Null
      BY <1>6, <2>1, <2>2, <2>5
    <2> QED
      BY <2>1, <2>3, <2>4, <2>6
  <1>14. tail'[q] = o
    BY <1>0, <1>1 DEF TypeOK
  <1>15. last = q => Chain(o, Succession') = {o}
    BY <1>1, <1>5, <1>6, ChainOne
  <1>16. last # q => Chain(First(q), Succession') = Queue(q) \cup {o}
    <2>1. SUFFICES ASSUME last # q PROVE Chain(First(q), Succession') = Queue(q) \cup {o}
      OBVIOUS
    <2>2. First(q) \in Object /\ Chain(First(q), Succession) = Queue(q) /\ last \in Queue(q)
      BY <1>0, <1>1, <1>9, <2>1 DEF Listing
    <2>3. o \notin Chain(First(q), Succession) /\ last \in Chain(First(q), Succession)
      BY <1>2, <2>2
    <2>4. \A m \in Chain(First(q), Succession) \ {last} : Succession'[m] = Succession[m]
      BY <1>2, <1>6, <2>2 DEF Queue, Node
    <2>5. Chain(First(q), Succession') = Chain(First(q), Succession) \cup {o}
      BY <1>1, <1>5, <1>6, <1>7, <2>2, <2>3, <2>4, ChainAppend
    <2> QED
      BY <2>2, <2>5
  <1>17. Listing'
    <2>1. ASSUME NEW t \in Lists'
          PROVE  /\ Chain(First(t)', Succession') = Queue(t)'
                 /\ tail'[t] \in {t} \cup Queue(t)'
                 /\ Succession'[tail'[t]] = Null
      <3>1. CASE t # q
        BY <1>0, <1>2, <1>10, <1>13, <2>1, <3>1 DEF Listing
      <3>2. CASE t = q /\ last = q
        BY <1>2, <1>6, <1>8, <1>12, <1>14, <1>15, <3>2
      <3>3. CASE t = q /\ last # q
        BY <1>2, <1>6, <1>11, <1>14, <1>16, <3>3
      <3> QED
        BY <3>1, <3>2, <3>3
    <2> QED
      BY <2>1 DEF Listing, Chain
  <1>18. \A a \in Queued : a \in Node /\ a # o /\ Succession[a] # o
    <2>1. ASSUME NEW a \in Queued PROVE Succession[a] \in Queued \cup {Null} /\ a \in Node
      <3>1. ListOf(a) \in Lists /\ a \in Queue(ListOf(a))
        BY <1>0, ListOfIn
      <3> QED
        BY <3>1, QueueNext DEF Queue, Queued
    <2> QED
      BY <1>2, <1>4, <2>1
  <1>19. OneWay'
    <2>1. ASSUME NEW a \in Queued', NEW b \in Queued', Succession'[a] = Succession'[b],
                 Succession'[a] # Null
          PROVE  a = b
      <3>1. a \in Queued /\ b \in Queued
        BY <1>2, <1>6, <2>1
      <3>2. a # last => Succession'[a] = Succession[a]
        BY <1>6, <1>18, <3>1
      <3>3. b # last => Succession'[b] = Succession[b]
        BY <1>6, <1>18, <3>1
      <3> QED
        BY <1>0, <1>6, <1>18, <2>1, <3>1, <3>2, <3>3 DEF OneWay
    <2>2. ASSUME NEW t \in Lists', NEW a \in Queued', Succession'[a] = First(t)'
          PROVE  First(t)' = Null
      <3>1. SUFFICES ASSUME First(t)' # Null PROVE FALSE
        OBVIOUS
      <3>2. a \in Queued /\ t \in Lists
        BY <1>2, <1>6, <2>2, <3>1
      <3>3. First(t) # o
        BY <1>2, <1>4, <3>2, FirstQueued
      <3>4. CASE t = q /\ last = q
        <4>1. First(t)' = o /\ a # last
          BY <1>4, <1>12, <3>2, <3>4 DEF Queued
        <4> QED
          BY <1>6, <1>18, <2>2, <3>2, <4>1
      <3>5. CASE ~(t = q /\ last = q)
        <4>1. First(t)' = First(t)
          BY <1>10, <1>11, <3>2, <3>5
        <4> QED
          BY <1>0, <1>6, <1>18, <2>2, <3>1, <3>2, <3>3, <4>1 DEF OneWay
      <3> QED
        BY <3>4, <3>5
    <2> QED
      BY <2>1, <2>2 DEF OneWay
  <1> QED
    BY <1>17, <1>19

LEMMA RaiseSpliceFacts ==
    ASSUME HandoffInv, NEW th \in Thread, RaiseSplice(th)
    PROVE  /\ pc[th] = "splice" /\ th \in Worker
           /\ \A v \in Worker : v # th => pc'[v] = pc[v]
           /\ target[th] \in Token /\ target[th] \notin released /\ target[th] = token[th]
           /\ owner[target[th]] = Back /\ Walker(target[th]) = {}
           /\ target[th] \in Lists /\ Back \in Lists /\ Busy(target[th]) = {}
           /\ next' = next /\ owner' = owner /\ released' = released /\ state' = state
           /\ home' = home /\ token' = token /\ target' = target /\ curr' = curr
           /\ obj' = obj /\ into' = into /\ count' = count /\ async_returned' = async_returned
           /\ \A v \in Worker : (Walking(v)' <=> Walking(v)) /\ List(v)' = List(v)
           /\ \A t : Walker(t)' = Walker(t)
           /\ \A t : Splicing(t)' <=> Splicing(t) /\ t # target[th]
           /\ Lists' = Lists \ {target[th]}
           /\ IF tail[target[th]] = target[th]
              THEN pc'[th] = "clear" /\ tail' = tail /\ prev' = prev
              ELSE /\ pc'[th] = "relink" /\ prev' = [prev EXCEPT ![th] = tail[Back]]
                   /\ tail' = [tail EXCEPT ![Back] = tail[target[th]]]
  <1>0. TypeOK /\ Roles /\ Tokens /\ Pushes /\ th \in Worker /\ Thread \subseteq Worker
    BY DEF HandoffInv, Worker
  <1>1. /\ target[th] \in Token /\ target[th] = token[th] /\ target[th] \in Lists
        /\ owner[target[th]] = Back /\ Walker(target[th]) = {}
    BY RaiseSpliceSuccession
  <1>2. /\ pc[th] = "splice" /\ \A v \in Worker : v # th => pc'[v] = pc[v]
        /\ pc'[th] \in {"clear", "relink"}
        /\ IF tail[target[th]] = target[th]
              THEN pc'[th] = "clear" /\ tail' = tail /\ prev' = prev
              ELSE /\ pc'[th] = "relink" /\ prev' = [prev EXCEPT ![th] = tail[Back]]
                   /\ tail' = [tail EXCEPT ![Back] = tail[target[th]]]
    BY <1>0 DEF RaiseSplice, Goto, TypeOK
  <1>3. /\ next' = next /\ owner' = owner /\ released' = released /\ state' = state
        /\ home' = home /\ token' = token /\ target' = target /\ curr' = curr
        /\ obj' = obj /\ into' = into /\ count' = count /\ async_returned' = async_returned
    BY DEF RaiseSplice, tokenVars, popVars
  <1>4. \A v \in Worker : (Walking(v)' <=> Walking(v)) /\ List(v)' = List(v)
    BY <1>2, <1>3 DEF Walking, List
  <1>5. \A t : Walker(t)' = Walker(t)
    BY <1>4, WalkerKept
  <1>6. \A t : Splicing(t)' <=> Splicing(t) /\ t # target[th]
    <2>1. ASSUME NEW t, Splicing(t)' PROVE Splicing(t) /\ t # target[th]
      <3>1. PICK x \in Thread : pc'[x] = "splice" /\ target'[x] = t
        BY <2>1 DEF Splicing
      <3>2. x # th /\ pc[x] = "splice" /\ target[x] = t
        BY <1>0, <1>2, <1>3, <3>1
      <3>3. t # target[th]
        BY <1>2, <3>2, RaiserOnly
      <3> QED
        BY <3>2, <3>3 DEF Splicing
    <2>2. ASSUME NEW t, Splicing(t), t # target[th] PROVE Splicing(t)'
      <3>1. PICK x \in Thread : pc[x] = "splice" /\ target[x] = t
        BY <2>2 DEF Splicing
      <3>2. pc'[x] = "splice" /\ target'[x] = t
        BY <1>0, <1>2, <1>3, <2>2, <3>1
      <3> QED
        BY <3>2 DEF Splicing
    <2> QED
      BY <2>1, <2>2
  <1>7. Lists' = Lists \ {target[th]}
    BY <1>1, <1>3, <1>6, HandoffAssumption DEF Lists
  <1>8. target[th] \notin released /\ Busy(target[th]) = {}
    BY <1>0, <1>1, <1>2 DEF Tokens, Pushes, PushesOf
  <1>9. Back \in Lists
    BY DEF Lists
  <1> QED
    BY <1>0, <1>1, <1>2, <1>3, <1>4, <1>5, <1>6, <1>7, <1>8, <1>9

LEMMA RaiseSpliceQueues ==
    ASSUME HandoffInv, NEW th \in Thread, RaiseSplice(th)
    PROVE  /\ Queued' = Queued
           /\ \A o \in Object : ListOf(o) = target[th] => ListOf(o)' = Back
           /\ \A o \in Object : ListOf(o) # target[th] => ListOf(o)' = ListOf(o)
           /\ \A t : t \notin {Back, target[th]} => Queue(t)' = Queue(t)
           /\ \A t : t = Back => Queue(t)' = Queue(t) \cup Queue(target[th])
  <1>0. /\ target[th] \in Token /\ owner[target[th]] = Back /\ owner' = owner /\ state' = state
        /\ home' = home /\ pc[th] = "splice"
        /\ \A t : Splicing(t)' <=> Splicing(t) /\ t # target[th]
        /\ Back \notin Token
    BY RaiseSpliceFacts, HandoffAssumption
  <1>1. Splicing(target[th])
    BY <1>0 DEF Splicing
  <1>2. Queued' = Queued
    BY <1>0 DEF Queued
  <1>3. ASSUME NEW o \in Object, ListOf(o) = target[th] PROVE ListOf(o)' = Back
    <2>1. home[o] = target[th]
      BY <1>0, <1>3 DEF ListOf
    <2>2. \A t : t = home[o] => ~Splicing(t)'
      BY <1>0, <2>1
    <2> QED
      BY <1>0, <2>1, <2>2 DEF ListOf
  <1>4. ASSUME NEW o \in Object, ListOf(o) # target[th] PROVE ListOf(o)' = ListOf(o)
    <2>1. home[o] # target[th]
      BY <1>1, <1>4 DEF ListOf
    <2> QED
      BY <1>0, <2>1, ListOfKept
  <1>5. \A t : /\ Queue(t) = {o \in Queued : ListOf(o) = t}
               /\ Queue(t)' = {o \in Queued' : ListOf(o)' = t}
    BY DEF Queue, Queued
  <1>6. \A o \in Queued : o \in Object
    BY DEF Queued
  <1>7. ASSUME NEW t, t \notin {Back, target[th]} PROVE Queue(t)' = Queue(t)
    BY <1>2, <1>3, <1>4, <1>5, <1>6, <1>7
  <1>8. ASSUME NEW t, t = Back PROVE Queue(t)' = Queue(t) \cup Queue(target[th])
    BY <1>0, <1>2, <1>3, <1>4, <1>5, <1>6, <1>8
  <1> QED
    BY <1>2, <1>3, <1>4, <1>7, <1>8

LEMMA RaiseSpliceLists ==
    ASSUME HandoffInv, NEW th \in Thread, RaiseSplice(th)
    PROVE  Listing' /\ OneWay'
  <1> DEFINE s == target[th]
             y == next[target[th]]
             last == tail[Back]
  <1>0. TypeOK /\ Roles /\ Tokens /\ Listing /\ OneWay
    BY DEF HandoffInv
  <1>1. /\ s \in Token /\ s \in Lists /\ Back \in Lists /\ Walker(s) = {}
        /\ \A t : Walker(t)' = Walker(t) /\ curr' = curr
        /\ Lists' = Lists \ {s} /\ s # Back /\ s \in Node /\ Back \in Node
        /\ s \notin Object /\ Back \notin Object
    BY RaiseSpliceFacts, HandoffAssumption DEF Node, AnyToken
  <1>2. /\ Queued' = Queued
        /\ \A t : t \notin {Back, s} => Queue(t)' = Queue(t)
        /\ \A t : t = Back => Queue(t)' = Queue(t) \cup Queue(s)
    BY RaiseSpliceQueues
  <1>3. /\ Succession[s] = y
        /\ IF tail[s] = s
           THEN Succession' = Succession
           ELSE last \in Node /\ Succession' = [Succession EXCEPT ![last] = y]
    BY RaiseSpliceSuccession
  <1>4. IF tail[s] = s THEN tail' = tail ELSE tail' = [tail EXCEPT ![Back] = tail[s]]
    BY RaiseSpliceFacts
  <1>5. Succession \in Successors
    BY <1>0, SuccessionTyped
  <1>6. First(s) = y
    BY <1>1, <1>3 DEF First
  <1>7. /\ First(s) = Null => tail[s] = s /\ Queue(s) = {}
        /\ First(s) # Null => First(s) \in Queue(s) /\ tail[s] \in Queue(s)
    BY <1>1, EmptyList
  <1>8. CASE tail[s] = s
    <2>1. Queue(s) = {}
      BY <1>1, <1>7, <1>8 DEF Queue
    <2>2. \A t \in Lists' : Queue(t)' = Queue(t)
      BY <1>1, <1>2, <2>1
    <2>3. ASSUME NEW t PROVE First(t)' = First(t)
      BY <1>1, <1>3, <1>8, FirstKept
    <2> QED
      BY <1>1, <1>2, <1>3, <1>4, <1>8, <2>2, <2>3, ListsKept
  <1>9. CASE tail[s] # s
    <2>1. /\ y \in Queue(s) /\ tail[s] \in Queue(s) /\ y \in Object /\ y # Null
          /\ last \in Node /\ Succession' = [Succession EXCEPT ![last] = y]
          /\ tail' = [tail EXCEPT ![Back] = tail[s]]
      BY <1>3, <1>4, <1>6, <1>7, <1>9, NullApart DEF Queue
    <2>2. /\ Succession' \in Successors /\ Succession'[last] = y
          /\ \A m \in Node : m # last => Succession'[m] = Succession[m]
      BY <1>5, <2>1 DEF Successors
    <2>3. last \in {Back} \cup Queue(Back) /\ Succession[last] = Null
      BY <1>0, <1>1 DEF Listing
    <2>4. last = Back => First(Back) = Null /\ Queue(Back) = {} /\ Walker(Back) = {}
      BY <1>1, EmptyList DEF Queue
    <2>5. last # Back => First(Back) \in Object /\ last \in Queue(Back)
      BY <1>0, <1>1, <2>3, EmptyList, FirstTyped
    <2>6. Chain(y, Succession) = Queue(s) /\ Chain(First(Back), Succession) = Queue(Back)
      BY <1>0, <1>1, <1>6 DEF Listing
    <2>7. \A m \in Queue(s) : m # last /\ m \in Node
      BY <1>1, <2>3 DEF Queue, Node
    <2> HIDE DEF s, y, last
    <2>71. y \in Object /\ y \in Object \cup {Null}
      BY <2>1
    <2>8. ASSUME NEW t \in Lists, t # Back PROVE First(t)' = First(t)
      <3>1. t \in Node /\ t # last
        BY <1>0, <2>3, <2>8, FirstTyped, NullApart DEF Queue, Lists, AnyToken
      <3>2. Succession'[t] = Succession[t]
        BY <2>2, <3>1
      <3>3. \A v \in Walker(t) : curr'[v] = curr[v]
        BY <1>1
      <3>4. Walker(t)' = Walker(t)
        BY <1>1
      <3> QED
        BY <3>2, <3>3, <3>4, FirstKept
    <2>9. ASSUME NEW t, t = Back, last # Back PROVE First(t)' = First(t)
      <3>1. Succession'[t] = Succession[t]
        BY <1>1, <2>2, <2>9
      <3>2. \A v \in Walker(t) : curr'[v] = curr[v]
        BY <1>1
      <3>3. Walker(t)' = Walker(t)
        BY <1>1
      <3> QED
        BY <3>1, <3>2, <3>3, FirstKept
    <2>10. ASSUME NEW t, t = Back, last = Back PROVE First(t)' = y
      <3>1. Walker(t)' = {}
        BY <1>1, <2>4, <2>10
      <3> QED
        BY <2>2, <2>10, <3>1 DEF First
    <2>11. Chain(y, Succession') = Queue(s)
      <3>1. \A m \in Chain(y, Succession) : Succession'[m] = Succession[m]
        BY <2>2, <2>6, <2>7
      <3>2. Succession' \in Successors
        BY <2>2
      <3>3. Chain(y, Succession') = Chain(y, Succession)
        BY <1>5, <2>71, <3>1, <3>2, ChainSame
      <3> QED
        BY <2>6, <3>3
    <2>12. last # Back => Chain(First(Back), Succession') = Queue(Back) \cup Queue(s)
      <3>1. SUFFICES ASSUME last # Back PROVE Chain(First(Back), Succession') = Queue(Back) \cup Queue(s)
        OBVIOUS
      <3>2. First(Back) \in Object /\ last \in Chain(First(Back), Succession)
        BY <2>5, <2>6, <3>1
      <3>3. last \notin Chain(y, Succession)
        BY <2>6, <2>7
      <3>4. \A m \in (Chain(First(Back), Succession) \cup Chain(y, Succession)) \ {last} :
                Succession'[m] = Succession[m]
        BY <2>2, <2>6 DEF Queue, Node
      <3>5. Chain(First(Back), Succession') = Chain(First(Back), Succession) \cup Chain(y, Succession)
        <4>1. Succession' \in Successors /\ Succession'[last] = y /\ Succession[last] = Null
          BY <2>2, <2>3
        <4> QED
          BY <1>5, <2>71, <3>2, <3>3, <3>4, <4>1, ChainJoin
      <3> QED
        BY <2>6, <3>5
    <2>13. tail'[Back] = tail[s] /\ \A t \in AnyToken : t # Back => tail'[t] = tail[t]
      BY <1>0, <2>1 DEF TypeOK, AnyToken
    <2>14. Succession'[tail[s]] = Null
      BY <1>0, <1>1, <2>1, <2>2, <2>7 DEF Listing
    <2>15. ASSUME NEW t \in Lists, t # Back, t # s
          PROVE  /\ Chain(First(t), Succession') = Queue(t)
                 /\ tail'[t] = tail[t] /\ Succession'[tail[t]] = Null
      <3>1. /\ First(t) \in Object \cup {Null} /\ Chain(First(t), Succession) = Queue(t)
            /\ tail[t] \in {t} \cup Queue(t) /\ Succession[tail[t]] = Null /\ t \in Node
            /\ t \in AnyToken
        BY <1>0, FirstTyped DEF Listing, Lists, AnyToken
      <3>2. \A m \in Queue(t) : m # last /\ m \in Node
        BY <1>1, <2>3, <2>15 DEF Queue, Node
      <3>3. Chain(First(t), Succession') = Chain(First(t), Succession)
        BY <1>5, <2>2, <3>1, <3>2, ChainSame
      <3>4. t # last
        BY <2>3, <2>15, <3>1, NullApart DEF Queue
      <3>5. Succession'[tail[t]] = Null
        BY <2>2, <3>1, <3>2, <3>4
      <3> QED
        BY <2>13, <2>15, <3>1, <3>3, <3>5
    <2>16. Listing'
      <3>1. ASSUME NEW t \in Lists'
            PROVE  /\ Chain(First(t)', Succession') = Queue(t)'
                   /\ tail'[t] \in {t} \cup Queue(t)'
                   /\ Succession'[tail'[t]] = Null
        <4>1. CASE t # Back
          <5>1. t \in Lists /\ t # s /\ Queue(t)' = Queue(t) /\ First(t)' = First(t)
            BY <1>1, <1>2, <2>8, <3>1, <4>1
          <5>2. tail[t] \in {t} \cup Queue(t)
            BY <1>0, <5>1 DEF Listing
          <5> QED
            BY <2>15, <4>1, <5>1, <5>2
        <4>2. CASE t = Back /\ last = Back
          BY <1>2, <2>1, <2>4, <2>10, <2>11, <2>13, <2>14, <4>2
        <4>3. CASE t = Back /\ last # Back
          BY <1>2, <2>1, <2>9, <2>12, <2>13, <2>14, <4>3
        <4> QED
          BY <4>1, <4>2, <4>3
      <3> QED
        BY <3>1 DEF Listing, Chain
    <2>17. \A a \in Queued : a \in Node /\ Succession[a] # y
      BY <1>0, <1>1, <1>6, <2>1 DEF OneWay, Queued, Node
    <2>18. OneWay'
      <3>1. ASSUME NEW a \in Queued, NEW b \in Queued, Succession'[a] = Succession'[b],
                   Succession'[a] # Null
            PROVE  a = b
        BY <1>0, <2>2, <2>17, <3>1 DEF OneWay
      <3>2. ASSUME NEW t \in Lists', NEW a \in Queued, Succession'[a] = First(t)'
            PROVE  First(t)' = Null
        <4>1. CASE t = Back /\ last = Back
          BY <1>1, <2>2, <2>10, <2>17, <3>2, <4>1 DEF Queued
        <4>2. CASE ~(t = Back /\ last = Back)
          <5>1. First(t)' = First(t) /\ t \in Lists /\ t # s
            BY <1>1, <2>8, <2>9, <3>2, <4>2
          <5>2. First(t) # y
            BY <2>1, <5>1, FirstQueued, QueuesApart
          <5> QED
            BY <1>0, <2>2, <2>17, <3>2, <5>1, <5>2 DEF OneWay
        <4> QED
          BY <4>1, <4>2
      <3> QED
        BY <1>2, <3>1, <3>2 DEF OneWay
    <2> QED
      BY <2>16, <2>18
  <1> QED
    BY <1>8, <1>9

------------------------------------------------------------------------------
(* The links under way after a step                                         *)

LEMMA ListKept ==
    ASSUME HandoffInv, NEW t \in Lists
    PROVE  t \notin released /\ t \in AnyToken
  BY HandoffAssumption DEF HandoffInv, TypeOK, Lists, AnyToken

(* Nobody is about to link to a list's tail. *)
LEMMA TailNotLinked ==
    ASSUME HandoffInv, NEW t \in Lists
    PROVE  next[tail[t]] = Null /\ \A x \in Thread : Linking(x) => prev[x] # tail[t]
  <1>0. TypeOK /\ Listing
    BY DEF HandoffInv
  <1>1. /\ tail[t] \in {t} \cup Queue(t) /\ Succession[tail[t]] = Null
        /\ t \in AnyToken /\ t \notin Object
    BY <1>0, ListKept, NullApart DEF Listing
  <1>2. ASSUME NEW x \in Thread, Linking(x), prev[x] = tail[t] PROVE FALSE
    <2>1. /\ IntoList(x) \in AnyToken /\ prev[x] \in {IntoList(x)} \cup Queue(IntoList(x))
          /\ tail[IntoList(x)] # prev[x]
      BY <1>2, LinkFacts
    <2>2. IntoList(x) = t
      BY <1>1, <1>2, <2>1, NullApart DEF Queue
    <2> QED
      BY <1>2, <2>1, <2>2
  <1>3. tail[t] \in Node
    BY <1>1 DEF Queue, Node
  <1>4. next[tail[t]] = Null
    BY <1>1, <1>2, <1>3, SuccessionPlain
  <1> QED
    BY <1>2, <1>4

(* A token a push appends to has objects on its list. *)
LEMMA IntoOpen ==
    ASSUME HandoffInv, NEW x \in Thread, pc[x] \in {"link", "relink", "count"},
           IntoList(x) \in Token
    PROVE  /\ IntoList(x) \in Lists /\ owner[IntoList(x)] = IntoList(x)
           /\ IntoList(x) \notin released /\ into[x] = IntoList(x)
           /\ pc[x] \in {"link", "count"}
           /\ \E o \in Active(IntoList(x)) : state[o] = "queued"
  <1>0. /\ TypeOK /\ Roles /\ Tokens /\ Links /\ Listing /\ Back \notin Token
    BY HandoffAssumption DEF HandoffInv
  <1>1. into[x] = IntoList(x) /\ pc[x] \in {"link", "count"}
    BY <1>0 DEF IntoList
  <1>2. owner[IntoList(x)] = IntoList(x)
    BY <1>0, <1>1 DEF Roles, RoleOf, Tokens, TypeOK
  <1>3. IntoList(x) \notin released /\ tail[IntoList(x)] # IntoList(x)
    <2>1. CASE pc[x] = "link"
      BY <1>0, <1>1, <2>1, ListKept DEF Links, Linking
    <2>2. CASE pc[x] = "count"
      BY <1>0, <1>1, <2>2 DEF Links
    <2> QED
      BY <1>1, <2>1, <2>2
  <1>4. IntoList(x) \in Lists
    BY <1>2, <1>3 DEF Lists
  <1>5. tail[IntoList(x)] \in Queue(IntoList(x))
    BY <1>0, <1>3, <1>4 DEF Listing
  <1>6. /\ tail[IntoList(x)] \in Queued /\ state[tail[IntoList(x)]] = "queued"
        /\ ListOf(tail[IntoList(x)]) = IntoList(x)
    BY <1>5 DEF Queue, Queued
  <1>7. tail[IntoList(x)] \in Active(IntoList(x))
    BY <1>0, <1>6, ListOfIn
  <1> QED
    BY <1>1, <1>2, <1>3, <1>4, <1>6, <1>7

LEMMA LinksKept ==
    ASSUME HandoffInv, NEW F, tail' = tail,
           \A o \in Queued : home'[o] = home[o],
           \A t \in Lists : t \in Lists' => Queue(t) \ F \subseteq Queue(t)',
           \A x \in Thread : Linking(x)' =>
              /\ Linking(x) /\ pc'[x] = pc[x] /\ prev'[x] = prev[x] /\ into'[x] = into[x]
              /\ target'[x] = target[x]
              /\ IntoList(x) \in Lists' /\ next'[prev[x]] = Null /\ prev[x] \notin F
              /\ pc[x] = "relink" =>
                    /\ next'[target[x]] = next[target[x]] /\ next[target[x]] \notin F
                    /\ Back \in Lists',
           \A x \in Thread : pc'[x] = "count" =>
              /\ pc[x] \in {"link", "count"} /\ into'[x] = into[x]
              /\ into[x] \in Token => into[x] \notin released'
    PROVE  Links'
  <1>0. Links /\ Back \in Lists
    BY DEF HandoffInv, Lists
  <1>1. ASSUME NEW x \in Thread, Linking(x)'
        PROVE  /\ IntoList(x)' = IntoList(x) /\ IntoList(x)' \in Lists'
               /\ prev'[x] \in {IntoList(x)'} \cup Queue(IntoList(x))'
               /\ next'[prev'[x]] = Null
               /\ tail'[IntoList(x)'] # prev'[x] /\ tail'[IntoList(x)'] # IntoList(x)'
    <2>1. IntoList(x)' = IntoList(x)
      BY <1>1 DEF IntoList
    <2>2. /\ IntoList(x) \in Lists /\ prev[x] \in {IntoList(x)} \cup Queue(IntoList(x))
          /\ tail[IntoList(x)] # prev[x] /\ tail[IntoList(x)] # IntoList(x)
      BY <1>0, <1>1
      DEF Links
    <2>3. \A t : t = IntoList(x) /\ prev[x] # t => prev[x] \in Queue(t)'
      BY <1>1, <2>2
    <2>4. prev[x] # IntoList(x) => prev[x] \in Queue(IntoList(x))'
      BY <2>1, <2>3 DEF Queue
    <2> QED
      BY <1>1, <2>1, <2>2, <2>4
  <1>2. ASSUME NEW x \in Thread, pc'[x] = "relink"
        PROVE  next'[target'[x]] \in Queue(Back)' /\ home'[next'[target'[x]]] = target'[x]
    <2>1. Linking(x)' /\ pc[x] = "relink"
      BY <1>2 DEF Linking
    <2>2. next[target[x]] \in Queue(Back) /\ home[next[target[x]]] = target[x]
      BY <1>0, <2>1 DEF Links
    <2>3. next[target[x]] \in Queued
      BY <2>2 DEF Queue, Queued
    <2> QED
      BY <1>0, <2>1, <2>2, <2>3
  <1>3. ASSUME NEW x \in Thread, NEW y \in Thread, Linking(x)', Linking(y)', prev'[x] = prev'[y]
        PROVE  x = y
    BY <1>0, <1>3 DEF Links
  <1>4. ASSUME NEW x \in Thread, pc'[x] = "count", into'[x] \in Token
        PROVE  into'[x] \notin released' /\ tail'[into'[x]] # into'[x]
    <2>1. CASE pc[x] = "count"
      BY <1>0, <1>4, <2>1 DEF Links
    <2>2. CASE pc[x] = "link"
      BY <1>0, <1>4, <2>2 DEF Links, Linking, IntoList
    <2> QED
      BY <1>4, <2>1, <2>2
  <1> QED
    BY <1>1, <1>2, <1>3, <1>4 DEF Links

LEMMA LinksCalm ==
    ASSUME HandoffInv, CalmStep, TypeOK', next' = next,
           \A x \in Thread : Linking(x)' =>
              /\ Linking(x) /\ pc'[x] = pc[x] /\ prev'[x] = prev[x] /\ into'[x] = into[x]
              /\ target'[x] = target[x] /\ IntoList(x) \notin released',
           \A x \in Thread : pc'[x] = "count" =>
              pc[x] = "count" /\ into'[x] = into[x] /\ (into[x] \in Token => into[x] \notin released')
    PROVE  Links'
  <1> DEFINE F == {}
  <1>0. Links /\ Back \notin released' /\ Back \in Lists /\ tail' = tail
    BY HandoffAssumption DEF HandoffInv, TypeOK, Lists, CalmStep
  <1>1. /\ \A t \in Lists : t \notin released' => t \in Lists'
        /\ \A t : Queue(t)' = Queue(t)
    BY CalmLists
  <1>2. \A t \in Lists : t \in Lists' => Queue(t) \ F \subseteq Queue(t)'
    BY <1>1
  <1>3. \A o \in Queued : home'[o] = home[o]
    BY DEF CalmStep, Queued
  <1>4. ASSUME NEW x \in Thread, Linking(x)'
        PROVE  /\ Linking(x) /\ pc'[x] = pc[x] /\ prev'[x] = prev[x] /\ into'[x] = into[x]
               /\ target'[x] = target[x]
               /\ IntoList(x) \in Lists' /\ next'[prev[x]] = Null /\ prev[x] \notin F
               /\ pc[x] = "relink" =>
                     /\ next'[target[x]] = next[target[x]] /\ next[target[x]] \notin F
                     /\ Back \in Lists'
    BY <1>0, <1>1, <1>4 DEF Links
  <1>5. \A x \in Thread : pc'[x] = "count" =>
              /\ pc[x] \in {"link", "count"} /\ into'[x] = into[x]
              /\ into[x] \in Token => into[x] \notin released'
    OBVIOUS
  <1> HIDE DEF F
  <1> QED
    BY <1>0, <1>2, <1>3, <1>4, <1>5, LinksKept

------------------------------------------------------------------------------
LEMMA LinksSame ==
    ASSUME HandoffInv, Lists' = Lists, \A t : Queue(t)' = Queue(t), home' = home, tail' = tail,
           next' = next, released' = released,
           \A x \in Thread : Linking(x)' =>
              /\ Linking(x) /\ pc'[x] = pc[x] /\ prev'[x] = prev[x] /\ into'[x] = into[x]
              /\ target'[x] = target[x],
           \A x \in Thread : pc'[x] = "count" => pc[x] = "count" /\ into'[x] = into[x]
    PROVE  Links'
  <1> DEFINE F == {}
  <1>0. Links /\ Back \in Lists
    BY DEF HandoffInv, Lists
  <1>1. \A t \in Lists : t \in Lists' => Queue(t) \ F \subseteq Queue(t)'
    OBVIOUS
  <1>2. \A o \in Queued : home'[o] = home[o]
    OBVIOUS
  <1>3. ASSUME NEW x \in Thread, Linking(x)'
        PROVE  /\ Linking(x) /\ pc'[x] = pc[x] /\ prev'[x] = prev[x] /\ into'[x] = into[x]
               /\ target'[x] = target[x]
               /\ IntoList(x) \in Lists' /\ next'[prev[x]] = Null /\ prev[x] \notin F
               /\ pc[x] = "relink" =>
                     /\ next'[target[x]] = next[target[x]] /\ next[target[x]] \notin F
                     /\ Back \in Lists'
    BY <1>0, <1>3 DEF Links
  <1>4. \A x \in Thread : pc'[x] = "count" =>
              /\ pc[x] \in {"link", "count"} /\ into'[x] = into[x]
              /\ into[x] \in Token => into[x] \notin released'
    BY <1>0 DEF Links
  <1>5. tail' = tail
    OBVIOUS
  <1> HIDE DEF F
  <1> QED
    BY <1>1, <1>2, <1>3, <1>4, <1>5, LinksKept

LEMMA ResumeLinks == ASSUME HandoffInv, TypeOK', NEW th \in Thread, Resume(th) PROVE Links'
  <1>0. TypeOK /\ th \in Worker /\ Links
    BY DEF HandoffInv, Worker
  <1>1. CalmStep
    BY ResumeCalm
  <1>2. next' = next /\ prev' = prev /\ into' = into /\ target' = target
    BY DEF Resume, listVars
  <1>3. \A x \in Thread : /\ Linking(x)' => Linking(x) /\ pc'[x] = pc[x]
                          /\ pc'[x] = "count" => pc[x] = "count"
    BY <1>0 DEF Resume, Goto, Linking, TypeOK, Worker
  <1>4. /\ state[obj[th]] \in {"new", "freeing"} /\ token[th] \in Token
        /\ \/ released' = released
           \/ released' = released \cup {token[th]} /\ Active(token[th]) = {obj[th]}
    BY ResumeFacts
  <1>5. ASSUME NEW x \in Thread, pc[x] \in {"link", "relink", "count"}, IntoList(x) \in Token
        PROVE  IntoList(x) \notin released'
    <2>1. IntoList(x) \notin released /\ \E o \in Active(IntoList(x)) : state[o] = "queued"
      BY <1>5, IntoOpen
    <2>2. IntoList(x) # token[th] \/ released' = released
      BY <1>4, <2>1
    <2> QED
      BY <1>4, <2>1, <2>2
  <1>6. ASSUME NEW x \in Thread, Linking(x)' PROVE IntoList(x) \notin released'
    <2>1. pc[x] \in {"link", "relink"} /\ IntoList(x) \in AnyToken
      BY <1>3, <1>6, LinkFacts DEF Linking
    <2>2. Back \notin released'
      BY HandoffAssumption DEF TypeOK
    <2> QED
      BY <1>5, <2>1, <2>2 DEF AnyToken
  <1>7. ASSUME NEW x \in Thread, pc'[x] = "count", into[x] \in Token PROVE into[x] \notin released'
    BY <1>3, <1>5, <1>7 DEF IntoList
  <1> QED
    BY <1>1, <1>2, <1>3, <1>6, <1>7, LinksCalm

LEMMA PopNodeLinks == ASSUME HandoffInv, TypeOK', NEW w \in Worker, PopNode(w) PROVE Links'
  <1> DEFINE F == {curr[w]}
  <1>0. TypeOK /\ Tokens /\ Links
    BY DEF HandoffInv
  <1>1. /\ Walking(w) /\ (w \in Thread => released' = released)
        /\ w = Mem => released' \subseteq released \cup {home[curr[w]]}
    BY PopNodeFacts
  <1>2. Lists' = Lists /\ \A t : Queue(t)' = Queue(t) \ {curr[w]}
    BY PopNodeLists
  <1>3. /\ pc' = pc /\ prev' = prev /\ into' = into /\ target' = target /\ next' = next /\ tail' = tail
        /\ home' = home /\ next[curr[w]] # Null
    BY DEF PopNode, listVars, localVars
  <1>4. \A x \in Thread : Linking(x)' <=> Linking(x)
    BY <1>3 DEF Linking
  <1>5. ASSUME NEW x \in Thread, Linking(x)
        PROVE  /\ IntoList(x) \in Lists' /\ next'[prev[x]] = Null /\ prev[x] \notin F
               /\ pc[x] = "relink" =>
                     /\ next'[target[x]] = next[target[x]] /\ next[target[x]] \notin F
                     /\ Back \in Lists'
    <2>1. IntoList(x) \in Lists /\ next[prev[x]] = Null
      BY <1>5, LinkFacts
    <2>2. pc[x] = "relink" => next[target[x]] # curr[w]
      BY <1>1, LinkedNotFirst
    <2>3. Back \in Lists
      BY DEF Lists
    <2> QED
      BY <1>2, <1>3, <2>1, <2>2, <2>3
  <1>6. ASSUME NEW x \in Thread, pc[x] = "count", into[x] \in Token PROVE into[x] \notin released'
    <2>1. into[x] \notin released /\ owner[into[x]] = into[x]
      BY <1>6, IntoOpen DEF IntoList
    <2>2. CASE w \in Thread
      BY <1>1, <2>1, <2>2
    <2>3. CASE w = Mem
      <3>1. curr[w] \in Queue(List(w))
        BY <1>1, WalkedQueued
      <3>2. owner[home[curr[w]]] = Back
        BY <1>1, <2>3, <3>1, WalkedHome
      <3> QED
        BY <1>1, <1>6, <2>1, <2>3, <3>2, HandoffAssumption
    <2> QED
      BY <2>2, <2>3 DEF Worker
  <1>7. \A t \in Lists : t \in Lists' => Queue(t) \ F \subseteq Queue(t)'
    BY <1>2
  <1>8. \A o \in Queued : home'[o] = home[o]
    BY <1>3
  <1>9. tail' = tail
    BY <1>3
  <1> HIDE DEF F
  <1>10. ASSUME NEW x \in Thread, Linking(x)'
         PROVE  /\ Linking(x) /\ pc'[x] = pc[x] /\ prev'[x] = prev[x] /\ into'[x] = into[x]
                /\ target'[x] = target[x]
                /\ IntoList(x) \in Lists' /\ next'[prev[x]] = Null /\ prev[x] \notin F
                /\ pc[x] = "relink" =>
                      /\ next'[target[x]] = next[target[x]] /\ next[target[x]] \notin F
                      /\ Back \in Lists'
    BY <1>3, <1>4, <1>5, <1>10
  <1>11. \A x \in Thread : pc'[x] = "count" =>
              /\ pc[x] \in {"link", "count"} /\ into'[x] = into[x]
              /\ into[x] \in Token => into[x] \notin released'
    BY <1>3, <1>6
  <1> QED
    BY <1>7, <1>8, <1>9, <1>10, <1>11, LinksKept

LEMMA PopLastLinks == ASSUME HandoffInv, NEW w \in Worker, PopLast(w) PROVE Links'
  <1> DEFINE F == {}
  <1>0. TypeOK /\ Tokens /\ Links /\ Walks /\ Back \in Lists
    BY DEF HandoffInv, Lists
  <1>1. /\ Lists' = Lists /\ Walking(w) /\ List(w) \in Lists
        /\ \A t : Queue(t)' = Queue(t)
        /\ \A x \in Thread : /\ Linking(x)' <=> Linking(x)
                             /\ Linking(x) => pc'[x] = pc[x]
    BY PopLastLists
  <1>2. /\ prev' = prev /\ into' = into /\ target' = target /\ tail' = tail /\ home' = home
        /\ released' = released /\ next' = [next EXCEPT ![List(w)] = curr[w]]
    BY DEF PopLast, localVars, tokenVars
  <1>3. ASSUME NEW x \in Thread, Linking(x)
        PROVE  /\ IntoList(x) \in Lists /\ next'[prev[x]] = Null
               /\ pc[x] = "relink" => next'[target[x]] = next[target[x]]
    <2>1. /\ IntoList(x) \in Lists /\ next[prev[x]] = Null /\ prev[x] # List(w) /\ prev[x] \in Node
          /\ target[x] \in Token /\ (pc[x] = "relink" => target[x] # List(w))
      BY <1>0, <1>1, <1>3, LinkFacts DEF Walks
    <2> QED
      BY <1>0, <1>2, <2>1 DEF TypeOK, Node, AnyToken
  <1>4. \A x \in Thread : pc'[x] = "count" => pc[x] = "count"
    BY <1>0 DEF PopLast, Goto, AfterPop, TypeOK, Worker
  <1>5. \A t \in Lists : t \in Lists' => Queue(t) \ F \subseteq Queue(t)'
    BY <1>1
  <1>6. ASSUME NEW x \in Thread, Linking(x)'
        PROVE  /\ Linking(x) /\ pc'[x] = pc[x] /\ prev'[x] = prev[x] /\ into'[x] = into[x]
               /\ target'[x] = target[x]
               /\ IntoList(x) \in Lists' /\ next'[prev[x]] = Null /\ prev[x] \notin F
               /\ pc[x] = "relink" =>
                     /\ next'[target[x]] = next[target[x]] /\ next[target[x]] \notin F
                     /\ Back \in Lists'
    BY <1>0, <1>1, <1>2, <1>3, <1>6
  <1>7. \A x \in Thread : pc'[x] = "count" =>
              /\ pc[x] \in {"link", "count"} /\ into'[x] = into[x]
              /\ into[x] \in Token => into[x] \notin released'
    BY <1>0, <1>2, <1>4 DEF Links
  <1>8. tail' = tail /\ \A o \in Queued : home'[o] = home[o]
    BY <1>2
  <1> HIDE DEF F
  <1> QED
    BY <1>5, <1>6, <1>7, <1>8, LinksKept

LEMMA DrainLastLinks == ASSUME HandoffInv, NEW w \in Thread, DrainLast(w) PROVE Links'
  <1> DEFINE F == {}
  <1>0. TypeOK /\ Tokens /\ Links /\ Walks /\ Back \in Lists /\ Back \notin Token /\ w \in Worker
    BY HandoffAssumption DEF HandoffInv, Lists, Worker
  <1>1. /\ Walking(w) /\ List(w) = token[w] /\ token[w] \in Token /\ Counting(token[w]) = {}
        /\ released' = released \cup {token[w]}
    BY DrainLastFacts
  <1>2. /\ Lists' = Lists \ {token[w]}
        /\ \A t : t # token[w] => Queue(t)' = Queue(t)
        /\ \A x \in Thread : /\ Linking(x)' <=> Linking(x)
                             /\ Linking(x) => pc'[x] = pc[x]
    BY DrainLastLists
  <1>3. /\ prev' = prev /\ into' = into /\ target' = target /\ tail' = tail /\ home' = home
        /\ next' = [next EXCEPT ![List(w)] = curr[w]]
    BY DEF DrainLast, localVars
  <1>4. ASSUME NEW x \in Thread, pc[x] \in {"link", "relink", "count"}
        PROVE  IntoList(x) # token[w]
    <2>1. SUFFICES ASSUME IntoList(x) = token[w] PROVE FALSE
      OBVIOUS
    <2>2. into[x] = token[w] /\ pc[x] \in {"link", "count"}
      BY <1>1, <1>4, <2>1, IntoOpen
    <2> QED
      BY <1>1, <2>2 DEF Counting
  <1>5. ASSUME NEW x \in Thread, Linking(x)
        PROVE  /\ IntoList(x) \in Lists' /\ next'[prev[x]] = Null
               /\ pc[x] = "relink" => next'[target[x]] = next[target[x]]
    <2>1. /\ IntoList(x) \in Lists /\ next[prev[x]] = Null /\ prev[x] # List(w) /\ prev[x] \in Node
          /\ target[x] \in Token /\ (pc[x] = "relink" => target[x] \notin Lists)
      BY <1>0, <1>1, <1>5, LinkFacts DEF Walks
    <2>2. List(w) \in Lists
      BY <1>0, <1>1, WalkerOnly DEF HandoffInv
    <2>3. IntoList(x) # token[w]
      BY <1>4, <1>5 DEF Linking
    <2> QED
      BY <1>0, <1>2, <1>3, <2>1, <2>2, <2>3 DEF TypeOK, Node, AnyToken
  <1>6. \A x \in Thread : pc'[x] = "count" => pc[x] = "count"
    BY <1>0 DEF DrainLast, Goto, TypeOK, Worker
  <1>7. \A t \in Lists : t \in Lists' => Queue(t) \ F \subseteq Queue(t)'
    BY <1>2
  <1>8. ASSUME NEW x \in Thread, Linking(x)'
        PROVE  /\ Linking(x) /\ pc'[x] = pc[x] /\ prev'[x] = prev[x] /\ into'[x] = into[x]
               /\ target'[x] = target[x]
               /\ IntoList(x) \in Lists' /\ next'[prev[x]] = Null /\ prev[x] \notin F
               /\ pc[x] = "relink" =>
                     /\ next'[target[x]] = next[target[x]] /\ next[target[x]] \notin F
                     /\ Back \in Lists'
    BY <1>0, <1>1, <1>2, <1>3, <1>5, <1>8
  <1>9. ASSUME NEW x \in Thread, pc'[x] = "count"
        PROVE  /\ pc[x] \in {"link", "count"} /\ into'[x] = into[x]
               /\ into[x] \in Token => into[x] \notin released'
    <2>1. pc[x] = "count" /\ into[x] # token[w]
      BY <1>4, <1>6, <1>9 DEF IntoList
    <2> QED
      BY <1>0, <1>1, <1>3, <2>1 DEF Links
  <1>10. tail' = tail /\ \A o \in Queued : home'[o] = home[o]
    BY <1>3
  <1> HIDE DEF F
  <1> QED
    BY <1>7, <1>8, <1>9, <1>10, LinksKept

LEMMA PushLinkLinks == ASSUME HandoffInv, NEW th \in Thread, PushLink(th) PROVE Links'
  <1> DEFINE F == {}
  <1>0. TypeOK /\ Links /\ Back \in Lists /\ th \in Worker
    BY DEF HandoffInv, Lists, Worker
  <1>1. /\ pc[th] = "link" /\ pc'[th] = "count" /\ \A x \in Thread : x # th => pc'[x] = pc[x]
        /\ prev' = prev /\ into' = into /\ target' = target /\ tail' = tail /\ home' = home
        /\ released' = released /\ owner' = owner
        /\ next' = [next EXCEPT ![prev[th]] = obj[th]]
    BY <1>0 DEF PushLink, Goto, localVars, tokenVars, TypeOK, Worker
  <1>2. CalmStep
    BY PushLinkCalm
  <1>3. /\ \A t \in Lists : t \notin released' => t \in Lists'
        /\ \A t : Queue(t)' = Queue(t)
    BY <1>2, CalmLists
  <1>4. \A t \in Lists : t \in Lists'
    BY <1>1, <1>3, ListKept
  <1>5. Linking(th) /\ prev[th] \in {IntoList(th)} \cup Queue(IntoList(th)) /\ IntoList(th) \in Lists
    BY <1>1, LinkFacts DEF Linking
  <1>6. ASSUME NEW x \in Thread, Linking(x)'
        PROVE  /\ Linking(x) /\ pc'[x] = pc[x] /\ prev'[x] = prev[x] /\ into'[x] = into[x]
               /\ target'[x] = target[x]
               /\ IntoList(x) \in Lists' /\ next'[prev[x]] = Null /\ prev[x] \notin F
               /\ pc[x] = "relink" =>
                     /\ next'[target[x]] = next[target[x]] /\ next[target[x]] \notin F
                     /\ Back \in Lists'
    <2>1. x # th /\ Linking(x) /\ pc'[x] = pc[x]
      BY <1>1, <1>6 DEF Linking
    <2>2. prev[x] # prev[th]
      BY <1>0, <1>5, <2>1 DEF Links
    <2>3. /\ IntoList(x) \in Lists /\ next[prev[x]] = Null /\ prev[x] \in Node /\ target[x] \in Token
          /\ pc[x] = "relink" => target[x] \notin Lists /\ target[x] \notin Object
      BY <2>1, LinkFacts
    <2>4. pc[x] = "relink" => target[x] # prev[th]
      BY <1>5, <2>3 DEF Queue
    <2>5. next'[prev[x]] = Null /\ (pc[x] = "relink" => next'[target[x]] = next[target[x]])
      BY <1>0, <1>1, <2>2, <2>3, <2>4 DEF TypeOK, Node, AnyToken
    <2> QED
      BY <1>0, <1>1, <1>4, <2>1, <2>3, <2>5
  <1>7. ASSUME NEW x \in Thread, pc'[x] = "count"
        PROVE  /\ pc[x] \in {"link", "count"} /\ into'[x] = into[x]
               /\ into[x] \in Token => into[x] \notin released'
    <2>1. pc[x] \in {"link", "count"}
      BY <1>1, <1>7
    <2>2. into[x] \in Token => into[x] \notin released
      BY <2>1, IntoOpen DEF IntoList
    <2> QED
      BY <1>1, <2>1, <2>2
  <1>8. \A t \in Lists : t \in Lists' => Queue(t) \ F \subseteq Queue(t)'
    BY <1>3
  <1>9. tail' = tail /\ \A o \in Queued : home'[o] = home[o]
    BY <1>1
  <1> HIDE DEF F
  <1> QED
    BY <1>6, <1>7, <1>8, <1>9, LinksKept

LEMMA RaiseLinkLinks == ASSUME HandoffInv, NEW th \in Thread, RaiseLink(th) PROVE Links'
  <1> DEFINE F == {}
  <1>0. TypeOK /\ Links /\ Back \in Lists /\ th \in Worker
    BY DEF HandoffInv, Lists, Worker
  <1>1. /\ pc[th] = "relink" /\ pc'[th] = "clear" /\ \A x \in Thread : x # th => pc'[x] = pc[x]
        /\ prev' = prev /\ into' = into /\ target' = target /\ tail' = tail /\ home' = home
        /\ released' = released /\ owner' = owner
        /\ next' = [next EXCEPT ![prev[th]] = next[target[th]]]
    BY <1>0 DEF RaiseLink, Goto, localVars, tokenVars, TypeOK, Worker
  <1>2. CalmStep
    BY RaiseLinkCalm
  <1>3. /\ \A t \in Lists : t \notin released' => t \in Lists'
        /\ \A t : Queue(t)' = Queue(t)
    BY <1>2, CalmLists
  <1>4. \A t \in Lists : t \in Lists'
    BY <1>1, <1>3, ListKept
  <1>5. Linking(th) /\ prev[th] \in {IntoList(th)} \cup Queue(IntoList(th)) /\ IntoList(th) \in Lists
    BY <1>1, LinkFacts DEF Linking
  <1>6. ASSUME NEW x \in Thread, Linking(x)'
        PROVE  /\ Linking(x) /\ pc'[x] = pc[x] /\ prev'[x] = prev[x] /\ into'[x] = into[x]
               /\ target'[x] = target[x]
               /\ IntoList(x) \in Lists' /\ next'[prev[x]] = Null /\ prev[x] \notin F
               /\ pc[x] = "relink" =>
                     /\ next'[target[x]] = next[target[x]] /\ next[target[x]] \notin F
                     /\ Back \in Lists'
    <2>1. x # th /\ Linking(x) /\ pc'[x] = pc[x]
      BY <1>1, <1>6 DEF Linking
    <2>2. prev[x] # prev[th]
      BY <1>0, <1>5, <2>1 DEF Links
    <2>3. /\ IntoList(x) \in Lists /\ next[prev[x]] = Null /\ prev[x] \in Node /\ target[x] \in Token
          /\ pc[x] = "relink" => target[x] \notin Lists /\ target[x] \notin Object
      BY <2>1, LinkFacts
    <2>4. pc[x] = "relink" => target[x] # prev[th]
      BY <1>5, <2>3 DEF Queue
    <2>5. next'[prev[x]] = Null /\ (pc[x] = "relink" => next'[target[x]] = next[target[x]])
      BY <1>0, <1>1, <2>2, <2>3, <2>4 DEF TypeOK, Node, AnyToken
    <2> QED
      BY <1>0, <1>1, <1>4, <2>1, <2>3, <2>5
  <1>7. ASSUME NEW x \in Thread, pc'[x] = "count"
        PROVE  /\ pc[x] \in {"link", "count"} /\ into'[x] = into[x]
               /\ into[x] \in Token => into[x] \notin released'
    <2>1. pc[x] \in {"link", "count"}
      BY <1>1, <1>7
    <2>2. into[x] \in Token => into[x] \notin released
      BY <2>1, IntoOpen DEF IntoList
    <2> QED
      BY <1>1, <2>1, <2>2
  <1>8. \A t \in Lists : t \in Lists' => Queue(t) \ F \subseteq Queue(t)'
    BY <1>3
  <1>9. tail' = tail /\ \A o \in Queued : home'[o] = home[o]
    BY <1>1
  <1> HIDE DEF F
  <1> QED
    BY <1>6, <1>7, <1>8, <1>9, LinksKept

LEMMA PushSwapLinks == ASSUME HandoffInv, NEW th \in Thread, PushSwap(th) PROVE Links'
  <1> DEFINE o == obj[th]
             q == into[th]
             last == tail[into[th]]
  <1>0. TypeOK /\ Roles /\ Tokens /\ Links /\ Listing
    BY DEF HandoffInv
  <1>1. /\ pc[th] = "swap" /\ pc'[th] = "link" /\ th \in Worker
        /\ \A v \in Worker : v # th => pc'[v] = pc[v]
        /\ o \in Object /\ q \in Lists /\ q \in AnyToken
        /\ next' = [next EXCEPT ![o] = Null]
        /\ prev' = [prev EXCEPT ![th] = last]
        /\ tail' = [tail EXCEPT ![q] = o]
        /\ \A x \in Thread : Linking(x)' <=> Linking(x) \/ x = th
    BY PushSwapFacts
  <1>2. /\ Lists' = Lists /\ Queued' = Queued \cup {o} /\ o \notin Queued
        /\ \A t : t # q => Queue(t)' = Queue(t)
        /\ \A t : t = q => Queue(t)' = Queue(t) \cup {o}
        /\ \A t : o \notin Queue(t)
    BY PushSwapQueues
  <1>3. /\ into' = into /\ target' = target /\ obj' = obj /\ home' = home /\ released' = released
        /\ owner' = owner
    BY DEF PushSwap, tokenVars
  <1>4. /\ last \in {q} \cup Queue(q) /\ last \in Node /\ last # o
        /\ next[last] = Null /\ \A x \in Thread : Linking(x) => prev[x] # last
    <2>1. last \in {q} \cup Queue(q) /\ next[last] = Null /\ \A x \in Thread : Linking(x) => prev[x] # last
      BY <1>0, <1>1, TailNotLinked DEF Listing
    <2> QED
      BY <1>1, <1>2, <2>1, NullApart DEF Queue, Node
  <1>5. th \notin {x \in Thread : Linking(x)}
    BY <1>1 DEF Linking
  <1> HIDE DEF o, q, last
  <1>6. /\ \A n \in Node : n # o => next'[n] = next[n]
        /\ tail'[q] = o /\ \A t \in AnyToken : t # q => tail'[t] = tail[t]
        /\ prev'[th] = last /\ \A x \in Thread : x # th => prev'[x] = prev[x]
    BY <1>0, <1>1 DEF TypeOK, Node
  <1>7. \A x \in Thread : x # th => pc'[x] = pc[x]
    BY <1>1 DEF Worker
  <1>8. q \notin Object /\ o \notin AnyToken
    BY <1>1, NullApart
  <1>9. ASSUME NEW x \in Thread, Linking(x)'
        PROVE  /\ IntoList(x)' = IntoList(x) /\ IntoList(x)' \in Lists'
               /\ prev'[x] \in {IntoList(x)'} \cup Queue(IntoList(x))'
               /\ next'[prev'[x]] = Null
               /\ tail'[IntoList(x)'] # prev'[x] /\ tail'[IntoList(x)'] # IntoList(x)'
    <2>1. CASE x = th
      <3>1. IntoList(x) = q /\ IntoList(x)' = q
        BY <1>1, <1>3, <2>1 DEF IntoList, q
      <3>2. prev'[x] \in {q} \cup Queue(q)
        BY <1>4, <1>6, <2>1
      <3>3. \A t : t = q => Queue(q) \subseteq Queue(t)'
        BY <1>2
      <3>4. prev'[x] \in {IntoList(x)'} \cup Queue(IntoList(x))'
        BY <3>1, <3>2, <3>3 DEF Queue
      <3>5. next'[prev'[x]] = Null
        BY <1>4, <1>6, <2>1
      <3> QED
        BY <1>1, <1>2, <1>4, <1>6, <1>8, <2>1, <3>1, <3>4, <3>5
    <2>2. CASE x # th
      <3>1. Linking(x) /\ pc'[x] = pc[x] /\ prev'[x] = prev[x]
        BY <1>1, <1>6, <1>7, <1>9, <2>2
      <3>2. IntoList(x)' = IntoList(x)
        BY <1>3, <3>1 DEF IntoList
      <3>3. /\ IntoList(x) \in Lists /\ prev[x] \in {IntoList(x)} \cup Queue(IntoList(x))
            /\ prev[x] \in Node /\ next[prev[x]] = Null
            /\ tail[IntoList(x)] # prev[x] /\ tail[IntoList(x)] # IntoList(x)
            /\ IntoList(x) \in AnyToken
        BY <1>0, <3>1, LinkFacts DEF Links
      <3>4. \A t : Queue(t) \subseteq Queue(t)'
        BY <1>2
      <3>5. prev'[x] \in {IntoList(x)'} \cup Queue(IntoList(x))'
        <4>1. \A t : t = IntoList(x) => prev'[x] \in {t} \cup Queue(t)'
          BY <3>1, <3>3, <3>4
        <4> QED
          BY <3>2, <4>1 DEF Queue
      <3>6. prev[x] # o
        BY <1>2, <1>8, <3>3
      <3>7. next'[prev'[x]] = Null
        BY <1>6, <3>1, <3>3, <3>6
      <3>8. tail'[IntoList(x)] # prev[x] /\ tail'[IntoList(x)] # IntoList(x)
        BY <1>6, <1>8, <3>3, <3>6
      <3> QED
        BY <1>2, <3>1, <3>2, <3>3, <3>5, <3>7, <3>8
    <2> QED
      BY <2>1, <2>2
  <1>10. ASSUME NEW x \in Thread, pc'[x] = "relink"
         PROVE  next'[target'[x]] \in Queue(Back)' /\ home'[next'[target'[x]]] = target'[x]
    <2>1. x # th /\ pc[x] = "relink" /\ Linking(x)
      BY <1>1, <1>7, <1>10 DEF Linking
    <2>2. /\ next[target[x]] \in Queue(Back) /\ home[next[target[x]]] = target[x]
          /\ target[x] \in Token
      BY <1>0, <2>1, LinkFacts DEF Links
    <2>3. next'[target[x]] = next[target[x]]
      BY <1>6, <1>8, <2>2 DEF Node, AnyToken
    <2>4. \A t : Queue(t) \subseteq Queue(t)'
      BY <1>2
    <2> QED
      BY <1>3, <2>2, <2>3, <2>4
  <1>11. ASSUME NEW x \in Thread, NEW y \in Thread, Linking(x)', Linking(y)', prev'[x] = prev'[y]
         PROVE  x = y
    BY <1>0, <1>1, <1>4, <1>6, <1>11 DEF Links
  <1>12. ASSUME NEW x \in Thread, pc'[x] = "count", into'[x] \in Token
         PROVE  into'[x] \notin released' /\ tail'[into'[x]] # into'[x]
    <2>1. x # th /\ pc[x] = "count"
      BY <1>1, <1>7, <1>12
    <2>2. into[x] \notin released /\ tail[into[x]] # into[x] /\ into[x] \in AnyToken
      BY <1>0, <1>3, <1>12, <2>1 DEF Links, AnyToken
    <2>3. tail'[into[x]] # into[x]
      BY <1>6, <1>8, <2>2
    <2> QED
      BY <1>3, <2>2, <2>3
  <1> QED
    BY <1>9, <1>10, <1>11, <1>12 DEF Links

LEMMA RaiseSpliceLinks == ASSUME HandoffInv, NEW th \in Thread, RaiseSplice(th) PROVE Links'
  <1> DEFINE s == target[th]
             last == tail[Back]
  <1>0. TypeOK /\ Roles /\ Tokens /\ Links /\ Listing
    BY DEF HandoffInv
  <1>1. /\ pc[th] = "splice" /\ th \in Worker
        /\ \A v \in Worker : v # th => pc'[v] = pc[v]
        /\ s \in Token /\ s \in Lists /\ Back \in Lists
        /\ next' = next /\ released' = released /\ home' = home /\ target' = target
        /\ obj' = obj /\ into' = into
        /\ Lists' = Lists \ {s}
        /\ IF tail[s] = s
           THEN pc'[th] = "clear" /\ tail' = tail /\ prev' = prev
           ELSE /\ pc'[th] = "relink" /\ prev' = [prev EXCEPT ![th] = last]
                /\ tail' = [tail EXCEPT ![Back] = tail[s]]
    BY RaiseSpliceFacts
  <1>2. /\ \A t : t \notin {Back, s} => Queue(t)' = Queue(t)
        /\ \A t : t = Back => Queue(t)' = Queue(t) \cup Queue(s)
    BY RaiseSpliceQueues
  <1>3. \A x \in Thread : Linking(x) => IntoList(x) # s
    BY RaiseSpliceSuccession
  <1>4. s \notin Object /\ Back \notin Object /\ s # Back
    BY <1>1, HandoffAssumption
  <1>5. \A x \in Thread : x # th => pc'[x] = pc[x]
    BY <1>1 DEF Worker
  <1>6. ~Linking(th)
    BY <1>1 DEF Linking
  <1>7. tail[s] # s => /\ tail[s] \in Queue(s) /\ next[s] \in Queue(s) /\ home[next[s]] = s
    <2>1. SUFFICES ASSUME tail[s] # s
          PROVE  tail[s] \in Queue(s) /\ next[s] \in Queue(s) /\ home[next[s]] = s
      OBVIOUS
    <2>2. First(s) \in Queue(s) /\ tail[s] \in Queue(s)
      BY <1>1, <2>1, EmptyList
    <2>3. First(s) = next[s]
      <3>1. Walker(s) = {} /\ Succession[s] = next[s]
        BY RaiseSpliceSuccession
      <3> QED
        BY <3>1 DEF First
    <2>4. home[next[s]] = s
      BY <1>4, <2>2, <2>3 DEF Queue, ListOf
    <2> QED
      BY <2>2, <2>3, <2>4
  <1>8. /\ last \in {Back} \cup Queue(Back) /\ next[last] = Null
        /\ \A x \in Thread : Linking(x) => prev[x] # last
    BY <1>0, <1>1, TailNotLinked DEF Listing
  <1>9. Queue(Back) \cap Queue(s) = {}
    BY <1>4, QueuesApart
  <1> HIDE DEF s, last
  <1>10. ASSUME NEW x \in Thread, Linking(x)
         PROVE  /\ x # th /\ pc'[x] = pc[x] /\ prev'[x] = prev[x] /\ IntoList(x)' = IntoList(x)
                /\ IntoList(x)' \in Lists'
                /\ prev'[x] \in {IntoList(x)'} \cup Queue(IntoList(x))'
                /\ next'[prev'[x]] = Null
                /\ tail'[IntoList(x)'] # prev'[x] /\ tail'[IntoList(x)'] # IntoList(x)'
    <2>1. x # th /\ pc'[x] = pc[x]
      BY <1>5, <1>6, <1>10
    <2>2. prev'[x] = prev[x]
      BY <1>0, <1>1, <2>1 DEF TypeOK
    <2>3. IntoList(x)' = IntoList(x)
      BY <1>1, <2>1 DEF IntoList
    <2>4. /\ IntoList(x) \in Lists /\ prev[x] \in {IntoList(x)} \cup Queue(IntoList(x))
          /\ next[prev[x]] = Null /\ IntoList(x) # s
          /\ tail[IntoList(x)] # prev[x] /\ tail[IntoList(x)] # IntoList(x)
          /\ IntoList(x) \in AnyToken
      BY <1>0, <1>3, <1>10, LinkFacts DEF Links
    <2>5. prev'[x] \in {IntoList(x)'} \cup Queue(IntoList(x))'
      <3>1. \A t : t # s => Queue(t) \subseteq Queue(t)'
        BY <1>2
      <3>2. \A t : t = IntoList(x) => prev'[x] \in {t} \cup Queue(t)'
        BY <2>2, <2>4, <3>1
      <3> QED
        BY <2>3, <3>2 DEF Queue
    <2>6. tail'[IntoList(x)] # prev[x] /\ tail'[IntoList(x)] # IntoList(x)
      <3>1. CASE tail[s] = s
        BY <1>1, <2>4, <3>1
      <3>2. CASE tail[s] # s /\ IntoList(x) # Back
        BY <1>0, <1>1, <2>4, <3>2 DEF TypeOK
      <3>3. CASE tail[s] # s /\ IntoList(x) = Back
        <4>1. tail'[Back] = tail[s]
          BY <1>0, <1>1, <3>3 DEF TypeOK, AnyToken
        <4>2. tail[s] \in Object /\ tail[s] \notin Queue(Back)
          BY <1>7, <1>9, <3>3 DEF Queue
        <4> QED
          BY <1>4, <2>4, <3>3, <4>1, <4>2
      <3> QED
        BY <3>1, <3>2, <3>3
    <2> QED
      BY <1>1, <2>1, <2>2, <2>3, <2>4, <2>5, <2>6
  <1>11. CASE tail[s] = s
    <2>1. \A x \in Thread : Linking(x)' => Linking(x)
      BY <1>1, <1>5, <1>11 DEF Linking
    <2>2. ASSUME NEW x \in Thread, pc'[x] = "relink"
          PROVE  next'[target'[x]] \in Queue(Back)' /\ home'[next'[target'[x]]] = target'[x]
      <3>1. pc[x] = "relink"
        BY <1>1, <1>5, <1>11, <2>2
      <3>2. next[target[x]] \in Queue(Back) /\ home[next[target[x]]] = target[x]
        BY <1>0, <3>1 DEF Links
      <3> QED
        BY <1>1, <1>2, <3>2
    <2>3. \A x, y \in Thread : Linking(x)' /\ Linking(y)' /\ prev'[x] = prev'[y] => x = y
      BY <1>0, <1>1, <1>11, <2>1 DEF Links
    <2>4. \A x \in Thread : pc'[x] = "count" /\ into'[x] \in Token =>
              into'[x] \notin released' /\ tail'[into'[x]] # into'[x]
      BY <1>0, <1>1, <1>5, <1>11 DEF Links
    <2> QED
      BY <1>10, <2>1, <2>2, <2>3, <2>4 DEF Links
  <1>12. CASE tail[s] # s
    <2>1. /\ pc'[th] = "relink" /\ prev'[th] = last
          /\ tail'[Back] = tail[s] /\ \A t \in AnyToken : t # Back => tail'[t] = tail[t]
      BY <1>0, <1>1, <1>12 DEF TypeOK, AnyToken
    <2>2. \A x \in Thread : Linking(x)' <=> Linking(x) \/ x = th
      BY <1>5, <2>1 DEF Linking
    <2>3. /\ IntoList(th)' = Back /\ IntoList(th)' \in Lists'
          /\ prev'[th] \in {IntoList(th)'} \cup Queue(IntoList(th))'
          /\ next'[prev'[th]] = Null
          /\ tail'[IntoList(th)'] # prev'[th] /\ tail'[IntoList(th)'] # IntoList(th)'
      <3>1. IntoList(th)' = Back
        BY <2>1 DEF IntoList
      <3>2. prev'[th] \in {Back} \cup Queue(Back)'
        BY <1>2, <1>8, <2>1
      <3>3. prev'[th] \in {IntoList(th)'} \cup Queue(IntoList(th))'
        BY <3>1, <3>2 DEF Queue
      <3>4. tail[s] \in Object /\ tail[s] \notin Queue(Back)
        BY <1>7, <1>9, <1>12 DEF Queue
      <3> QED
        BY <1>1, <1>4, <1>8, <2>1, <3>1, <3>3, <3>4
    <2>4. ASSUME NEW x \in Thread, pc'[x] = "relink"
          PROVE  next'[target'[x]] \in Queue(Back)' /\ home'[next'[target'[x]]] = target'[x]
      <3>1. CASE x = th
        <4>1. next[s] \in Queue(Back)' /\ home[next[s]] = s
          BY <1>2, <1>7, <1>12
        <4> QED
          BY <1>1, <3>1, <4>1 DEF s
      <3>2. CASE x # th
        <4>1. pc[x] = "relink"
          BY <1>5, <2>4, <3>2
        <4>2. next[target[x]] \in Queue(Back) /\ home[next[target[x]]] = target[x]
          BY <1>0, <4>1 DEF Links
        <4> QED
          BY <1>1, <1>2, <4>2
      <3> QED
        BY <3>1, <3>2
    <2>5. ASSUME NEW x \in Thread, NEW y \in Thread, Linking(x)', Linking(y)', prev'[x] = prev'[y]
          PROVE  x = y
      BY <1>0, <1>8, <1>10, <2>1, <2>2, <2>5 DEF Links
    <2>6. ASSUME NEW x \in Thread, pc'[x] = "count", into'[x] \in Token
          PROVE  into'[x] \notin released' /\ tail'[into'[x]] # into'[x]
      <3>1. pc[x] = "count" /\ into[x] \in Token
        BY <1>1, <1>5, <2>1, <2>6
      <3>2. into[x] \notin released /\ tail[into[x]] # into[x] /\ into[x] # Back
        BY <1>0, <3>1, HandoffAssumption DEF Links
      <3> QED
        BY <1>1, <2>1, <3>1, <3>2 DEF AnyToken
    <2> QED
      BY <1>10, <2>2, <2>3, <2>4, <2>5, <2>6 DEF Links
  <1> QED
    BY <1>11, <1>12

LEMMA StepLinks ==
    ASSUME HandoffInv, Next
    PROVE  Links'
  <1>0. /\ TypeOK /\ TypeOK' /\ Links
        /\ \A th \in Thread : th \in Worker /\ th # Mem
    BY HandoffAssumption, StepTyped DEF HandoffInv, Worker
  <1>a. \A x \in Thread : /\ Linking(x) => IntoList(x) \notin released
                          /\ pc[x] = "count" /\ into[x] \in Token => into[x] \notin released
    BY <1>0, LinkFacts, ListKept DEF Links
  <1>1. ASSUME NEW th \in Thread, NEW o \in Object, NEW t \in Token, Alloc(th, o, t)
        PROVE  Links'
    <2>1. CalmStep
      BY <1>1, AllocCalm
    <2>2. next' = next /\ released' = released
      BY <1>1 DEF Alloc, listVars
    <2>3. ASSUME NEW x \in Thread
          PROVE  /\ Linking(x)' => /\ Linking(x) /\ pc'[x] = pc[x] /\ prev'[x] = prev[x]
                                   /\ into'[x] = into[x] /\ target'[x] = target[x]
                 /\ pc'[x] = "count" => pc[x] = "count" /\ into'[x] = into[x]
      BY <1>0, <1>1 DEF Alloc, Goto, Linking, TypeOK, PopLazily
    <2> QED
      BY <1>0, <1>a, <2>1, <2>2, <2>3, LinksCalm
  <1>2. ASSUME NEW th \in Thread, NEW o \in Object, FreeOwn(th, o)
        PROVE  Links'
    <2>1. CalmStep
      BY <1>2, FreeOwnCalm
    <2>2. next' = next /\ released' = released
      BY <1>2 DEF FreeOwn, listVars, tokenVars
    <2>3. ASSUME NEW x \in Thread
          PROVE  /\ Linking(x)' => /\ Linking(x) /\ pc'[x] = pc[x] /\ prev'[x] = prev[x]
                                   /\ into'[x] = into[x] /\ target'[x] = target[x]
                 /\ pc'[x] = "count" => pc[x] = "count" /\ into'[x] = into[x]
      BY <1>0, <1>2 DEF FreeOwn, Goto, Linking, TypeOK, PopLazily
    <2> QED
      BY <1>0, <1>a, <2>1, <2>2, <2>3, LinksCalm
  <1>3. ASSUME NEW th \in Thread, Resume(th)
        PROVE  Links'
    BY <1>0, <1>3, ResumeLinks
  <1>4. ASSUME NEW w \in Worker, PopBegin(w)
        PROVE  Links'
    <2>1. Lists' = Lists /\ \A t : Queue(t)' = Queue(t)
      BY <1>4, PopBeginLists
    <2>2. /\ next' = next /\ released' = released /\ prev' = prev /\ into' = into
          /\ target' = target /\ home' = home /\ tail' = tail
      BY <1>4 DEF PopBegin, listVars, localVars, tokenVars
    <2>3. ASSUME NEW x \in Thread
          PROVE  /\ Linking(x)' => Linking(x) /\ pc'[x] = pc[x]
                 /\ pc'[x] = "count" => pc[x] = "count"
      BY <1>0, <1>4 DEF PopBegin, Goto, AfterPop, Linking, TypeOK
    <2> QED
      BY <2>1, <2>2, <2>3, LinksSame
  <1>5. ASSUME NEW w \in Worker, PopNode(w)
        PROVE  Links'
    BY <1>0, <1>5, PopNodeLinks
  <1>6. ASSUME NEW w \in Worker, PopLast(w)
        PROVE  Links'
    BY <1>0, <1>6, PopLastLinks
  <1>7. ASSUME NEW th \in Thread, DrainLast(th)
        PROVE  Links'
    BY <1>0, <1>7, DrainLastLinks
  <1>8. ASSUME MemWake
        PROVE  Links'
    <2>1. CalmStep
      BY <1>8, MemWakeCalm
    <2>2. next' = next /\ released' = released
      BY <1>8 DEF MemWake, listVars, tokenVars
    <2>3. ASSUME NEW x \in Thread
          PROVE  /\ Linking(x)' => /\ Linking(x) /\ pc'[x] = pc[x] /\ prev'[x] = prev[x]
                                   /\ into'[x] = into[x] /\ target'[x] = target[x]
                 /\ pc'[x] = "count" => pc[x] = "count" /\ into'[x] = into[x]
      BY <1>0, <1>8 DEF MemWake, Goto, Linking, TypeOK, localVars
    <2> QED
      BY <1>0, <1>a, <2>1, <2>2, <2>3, LinksCalm
  <1>9. ASSUME NEW th \in Thread, NEW o \in Object, PushEnter(th, o)
        PROVE  Links'
    <2>1. CalmStep
      BY <1>9, PushEnterCalm
    <2>2. next' = next /\ released' = released
      BY <1>9 DEF PushEnter, listVars
    <2>3. ASSUME NEW x \in Thread
          PROVE  /\ Linking(x)' => /\ Linking(x) /\ pc'[x] = pc[x] /\ prev'[x] = prev[x]
                                   /\ into'[x] = into[x] /\ target'[x] = target[x]
                 /\ pc'[x] = "count" => pc[x] = "count" /\ into'[x] = into[x]
      BY <1>0, <1>9 DEF PushEnter, Goto, Linking, TypeOK
    <2> QED
      BY <1>0, <1>a, <2>1, <2>2, <2>3, LinksCalm
  <1>10. ASSUME NEW th \in Thread, PushWait(th)
        PROVE  Links'
    <2>1. CalmStep
      BY <1>10, PushWaitCalm
    <2>2. next' = next /\ released' = released
      BY <1>10 DEF PushWait, listVars, tokenVars
    <2>3. ASSUME NEW x \in Thread
          PROVE  /\ Linking(x)' => /\ Linking(x) /\ pc'[x] = pc[x] /\ prev'[x] = prev[x]
                                   /\ into'[x] = into[x] /\ target'[x] = target[x]
                 /\ pc'[x] = "count" => pc[x] = "count" /\ into'[x] = into[x]
      BY <1>0, <1>10 DEF PushWait, Goto, Linking, TypeOK, localVars
    <2> QED
      BY <1>0, <1>a, <2>1, <2>2, <2>3, LinksCalm
  <1>11. ASSUME NEW th \in Thread, PushLoad(th)
        PROVE  Links'
    <2>1. CalmStep
      BY <1>11, PushLoadCalm
    <2>2. next' = next /\ released' = released
      BY <1>11 DEF PushLoad, listVars, tokenVars
    <2>3. ASSUME NEW x \in Thread
          PROVE  /\ Linking(x)' => /\ Linking(x) /\ pc'[x] = pc[x] /\ prev'[x] = prev[x]
                                   /\ into'[x] = into[x] /\ target'[x] = target[x]
                 /\ pc'[x] = "count" => pc[x] = "count" /\ into'[x] = into[x]
      BY <1>0, <1>11 DEF PushLoad, Goto, Linking, TypeOK
    <2> QED
      BY <1>0, <1>a, <2>1, <2>2, <2>3, LinksCalm
  <1>12. ASSUME NEW th \in Thread, PushSwap(th)
        PROVE  Links'
    BY <1>0, <1>12, PushSwapLinks
  <1>13. ASSUME NEW th \in Thread, PushLink(th)
        PROVE  Links'
    BY <1>0, <1>13, PushLinkLinks
  <1>14. ASSUME NEW th \in Thread, PushCount(th)
        PROVE  Links'
    <2>1. CalmStep
      BY <1>14, PushCountCalm
    <2>2. next' = next /\ released' = released
      BY <1>14 DEF PushCount, tokenVars
    <2>3. ASSUME NEW x \in Thread
          PROVE  /\ Linking(x)' => /\ Linking(x) /\ pc'[x] = pc[x] /\ prev'[x] = prev[x]
                                   /\ into'[x] = into[x] /\ target'[x] = target[x]
                 /\ pc'[x] = "count" => pc[x] = "count" /\ into'[x] = into[x]
      BY <1>0, <1>14 DEF PushCount, Goto, Linking, TypeOK, localVars
    <2> QED
      BY <1>0, <1>a, <2>1, <2>2, <2>3, LinksCalm
  <1>15. ASSUME NEW th \in Thread, PushExit(th)
        PROVE  Links'
    <2>1. CalmStep
      BY <1>15, PushExitCalm
    <2>2. next' = next /\ released' = released
      BY <1>15 DEF PushExit, listVars
    <2>3. ASSUME NEW x \in Thread
          PROVE  /\ Linking(x)' => /\ Linking(x) /\ pc'[x] = pc[x] /\ prev'[x] = prev[x]
                                   /\ into'[x] = into[x] /\ target'[x] = target[x]
                 /\ pc'[x] = "count" => pc[x] = "count" /\ into'[x] = into[x]
      BY <1>0, <1>15 DEF PushExit, Goto, Linking, TypeOK
    <2> QED
      BY <1>0, <1>a, <2>1, <2>2, <2>3, LinksCalm
  <1>16. ASSUME NEW th \in Thread, ExitPlain(th)
        PROVE  Links'
    <2>1. CalmStep
      BY <1>16, ExitPlainCalm
    <2>2. next' = next /\ released' = released
      BY <1>16 DEF ExitPlain, listVars, tokenVars
    <2>3. ASSUME NEW x \in Thread
          PROVE  /\ Linking(x)' => /\ Linking(x) /\ pc'[x] = pc[x] /\ prev'[x] = prev[x]
                                   /\ into'[x] = into[x] /\ target'[x] = target[x]
                 /\ pc'[x] = "count" => pc[x] = "count" /\ into'[x] = into[x]
      BY <1>0, <1>16 DEF ExitPlain, Goto, Linking, TypeOK, localVars
    <2> QED
      BY <1>0, <1>a, <2>1, <2>2, <2>3, LinksCalm
  <1>17. ASSUME NEW th \in Thread, ExitDrain(th)
        PROVE  Links'
    <2>1. Lists' = Lists /\ \A t : Queue(t)' = Queue(t)
      BY <1>17, ExitDrainLists
    <2>2. /\ next' = next /\ released' = released /\ prev' = prev /\ into' = into
          /\ target' = target /\ home' = home /\ tail' = tail
      BY <1>17 DEF ExitDrain, listVars, localVars, tokenVars
    <2>3. ASSUME NEW x \in Thread
          PROVE  /\ Linking(x)' => Linking(x) /\ pc'[x] = pc[x]
                 /\ pc'[x] = "count" => pc[x] = "count"
      BY <1>0, <1>17 DEF ExitDrain, Goto, Linking, TypeOK
    <2> QED
      BY <2>1, <2>2, <2>3, LinksSame
  <1>18. ASSUME NEW th \in Thread, RaiseBegin(th)
        PROVE  Links'
    <2>1. CalmStep
      BY <1>18, RaiseBeginCalm
    <2>2. next' = next /\ released' = released
      BY <1>18 DEF RaiseBegin, listVars
    <2>3. ASSUME NEW x \in Thread
          PROVE  /\ Linking(x)' => /\ Linking(x) /\ pc'[x] = pc[x] /\ prev'[x] = prev[x]
                                   /\ into'[x] = into[x] /\ target'[x] = target[x]
                 /\ pc'[x] = "count" => pc[x] = "count" /\ into'[x] = into[x]
      BY <1>0, <1>18 DEF RaiseBegin, Goto, Linking, TypeOK
    <2> QED
      BY <1>0, <1>a, <2>1, <2>2, <2>3, LinksCalm
  <1>19. ASSUME NEW th \in Thread, RaiseOwner(th)
        PROVE  Links'
    <2>1. Lists' = Lists /\ \A t : Queue(t)' = Queue(t)
      BY <1>19, RaiseOwnerLists
    <2>2. /\ next' = next /\ released' = released /\ prev' = prev /\ into' = into
          /\ target' = target /\ home' = home /\ tail' = tail
      BY <1>19 DEF RaiseOwner, listVars, localVars
    <2>3. ASSUME NEW x \in Thread
          PROVE  /\ Linking(x)' => Linking(x) /\ pc'[x] = pc[x]
                 /\ pc'[x] = "count" => pc[x] = "count"
      BY <1>0, <1>19 DEF RaiseOwner, Goto, Linking, TypeOK
    <2> QED
      BY <2>1, <2>2, <2>3, LinksSame
  <1>20. ASSUME NEW th \in Thread, RaiseSplice(th)
        PROVE  Links'
    BY <1>0, <1>20, RaiseSpliceLinks
  <1>21. ASSUME NEW th \in Thread, RaiseLink(th)
        PROVE  Links'
    BY <1>0, <1>21, RaiseLinkLinks
  <1>22. ASSUME NEW th \in Thread, RaiseEnd(th)
        PROVE  Links'
    <2>1. CalmStep
      BY <1>22, RaiseEndCalm
    <2>2. next' = next /\ released' = released
      BY <1>22 DEF RaiseEnd, listVars
    <2>3. ASSUME NEW x \in Thread
          PROVE  /\ Linking(x)' => /\ Linking(x) /\ pc'[x] = pc[x] /\ prev'[x] = prev[x]
                                   /\ into'[x] = into[x] /\ target'[x] = target[x]
                 /\ pc'[x] = "count" => pc[x] = "count" /\ into'[x] = into[x]
      BY <1>0, <1>22 DEF RaiseEnd, Goto, Linking, TypeOK
    <2> QED
      BY <1>0, <1>a, <2>1, <2>2, <2>3, LinksCalm
  <1> QED
    BY <1>1, <1>2, <1>3, <1>4, <1>5, <1>6, <1>7, <1>8, <1>9, <1>10, <1>11, <1>12,
       <1>13, <1>14, <1>15, <1>16, <1>17, <1>18, <1>19, <1>20, <1>21, <1>22 DEF Next, Step,
       Call, Pop, Worker

------------------------------------------------------------------------------
(* The walks under way after a step                                         *)

LEMMA WalksKept ==
    ASSUME HandoffInv,
           \A w \in Worker : Walking(w)' =>
              /\ Walking(w) /\ curr'[w] # Null /\ List(w)' = List(w)
              /\ tail'[List(w)] # List(w),
           \A x \in Thread : Linking(x)' => Linking(x) /\ prev'[x] = prev[x]
    PROVE  Walks'
  <1>0. Walks
    BY DEF HandoffInv
  <1>1. ASSUME NEW w \in Worker, Walking(w)'
        PROVE  /\ curr'[w] # Null /\ tail'[List(w)'] # List(w)'
               /\ \A x \in Thread : Linking(x)' => prev'[x] # List(w)'
    BY <1>0, <1>1 DEF Walks
  <1> QED
    BY <1>1 DEF Walks

LEMMA WalksCalm ==
    ASSUME HandoffInv, CalmStep,
           \A x \in Thread : Linking(x)' => Linking(x) /\ prev'[x] = prev[x]
    PROVE  Walks'
  <1>1. \A w \in Worker : Walking(w)' =>
              /\ Walking(w) /\ curr'[w] # Null /\ List(w)' = List(w)
              /\ tail'[List(w)] # List(w)
    BY DEF CalmStep, HandoffInv, Walks
  <1> QED
    BY <1>1, WalksKept

(* A list that has a first object can be walked. *)
LEMMA WalkStarts ==
    ASSUME HandoffInv, NEW t \in Lists, Walker(t) = {}, next[t] # Null
    PROVE  tail[t] # t /\ \A x \in Thread : Linking(x) => prev[x] # t
  <1>0. Links /\ t \in Node /\ t \notin Object
    BY ListKept, NullApart DEF HandoffInv, Node
  <1>1. First(t) = next[t]
    BY <1>0, SuccessionNext DEF First
  <1>2. tail[t] \in Queue(t)
    BY <1>1, EmptyList
  <1> QED
    BY <1>0, <1>2 DEF Queue, Links

LEMMA PopBeginWalks == ASSUME HandoffInv, NEW w \in Worker, PopBegin(w) PROVE Walks'
  <1>0. TypeOK /\ Walks
    BY DEF HandoffInv
  <1>1. /\ pc[w] = "pop" /\ List(w) \in Lists /\ Walker(List(w)) = {}
        /\ \A v \in Worker : v # w => pc'[v] = pc[v] /\ curr'[v] = curr[v]
        /\ curr'[w] = next[List(w)]
        /\ next[List(w)] = Null => pc'[w] \in {"idle", "resume"}
        /\ next[List(w)] # Null => pc'[w] = "walk"
    BY PopBeginFacts
  <1>2. tail' = tail /\ prev' = prev /\ token' = token
    BY DEF PopBegin, listVars, localVars, tokenVars
  <1>3. \A v \in Worker : List(v)' = List(v)
    BY <1>2 DEF List
  <1>4. \A x \in Thread : Linking(x)' => Linking(x)
    BY <1>1 DEF Linking, Worker
  <1>5. ASSUME NEW v \in Worker, Walking(v)'
        PROVE  /\ curr'[v] # Null /\ tail'[List(v)'] # List(v)'
               /\ \A x \in Thread : Linking(x)' => prev'[x] # List(v)'
    <2>1. CASE v = w
      <3>1. next[List(w)] # Null
        BY <1>1, <1>5, <2>1 DEF Walking
      <3>2. tail[List(w)] # List(w) /\ \A x \in Thread : Linking(x) => prev[x] # List(w)
        BY <1>1, <3>1, WalkStarts
      <3> QED
        BY <1>1, <1>2, <1>3, <1>4, <2>1, <3>1, <3>2
    <2>2. CASE v # w
      <3>1. Walking(v)
        BY <1>1, <1>5, <2>2 DEF Walking
      <3> QED
        BY <1>0, <1>1, <1>2, <1>3, <1>4, <2>2, <3>1 DEF Walks
    <2> QED
      BY <2>1, <2>2
  <1> QED
    BY <1>5 DEF Walks

LEMMA ExitDrainWalks == ASSUME HandoffInv, NEW th \in Thread, ExitDrain(th) PROVE Walks'
  <1>0. TypeOK /\ Walks
    BY DEF HandoffInv
  <1>1. /\ pc[th] = "idle" /\ List(th) \in Lists /\ Walker(List(th)) = {}
        /\ \A v \in Worker : v # th => pc'[v] = pc[v] /\ curr'[v] = curr[v]
        /\ curr'[th] = next[List(th)]
        /\ next[List(th)] = Null => pc'[th] = "exited"
        /\ next[List(th)] # Null => pc'[th] = "drain"
    BY ExitDrainFacts
  <1>2. tail' = tail /\ prev' = prev /\ token' = token
    BY DEF ExitDrain, listVars, localVars, tokenVars
  <1>3. \A v \in Worker : List(v)' = List(v)
    BY <1>2 DEF List
  <1>4. \A x \in Thread : Linking(x)' => Linking(x)
    BY <1>1 DEF Linking, Worker
  <1>5. ASSUME NEW v \in Worker, Walking(v)'
        PROVE  /\ curr'[v] # Null /\ tail'[List(v)'] # List(v)'
               /\ \A x \in Thread : Linking(x)' => prev'[x] # List(v)'
    <2>1. CASE v = th
      <3>1. next[List(th)] # Null
        BY <1>1, <1>5, <2>1 DEF Walking
      <3>2. tail[List(th)] # List(th) /\ \A x \in Thread : Linking(x) => prev[x] # List(th)
        BY <1>1, <3>1, WalkStarts
      <3> QED
        BY <1>1, <1>2, <1>3, <1>4, <2>1, <3>1, <3>2
    <2>2. CASE v # th
      <3>1. Walking(v)
        BY <1>1, <1>5, <2>2 DEF Walking
      <3> QED
        BY <1>0, <1>1, <1>2, <1>3, <1>4, <2>2, <3>1 DEF Walks
    <2> QED
      BY <2>1, <2>2
  <1> QED
    BY <1>5 DEF Walks

LEMMA PopNodeWalks == ASSUME HandoffInv, NEW w \in Worker, PopNode(w) PROVE Walks'
  <1>0. TypeOK /\ Walks
    BY DEF HandoffInv
  <1>1. token' = token /\ Walking(w)
    BY PopNodeFacts
  <1>2. /\ pc' = pc /\ tail' = tail /\ prev' = prev /\ next[curr[w]] # Null
        /\ curr' = [curr EXCEPT ![w] = next[curr[w]]]
    BY DEF PopNode, listVars, localVars
  <1>3. \A v \in Worker : Walking(v)' =>
              /\ Walking(v) /\ curr'[v] # Null /\ List(v)' = List(v)
              /\ tail'[List(v)] # List(v)
    BY <1>0, <1>1, <1>2 DEF Walks, Walking, List, TypeOK
  <1>4. \A x \in Thread : Linking(x)' => Linking(x) /\ prev'[x] = prev[x]
    BY <1>2 DEF Linking
  <1> QED
    BY <1>3, <1>4, WalksKept

LEMMA PopLastWalks == ASSUME HandoffInv, NEW w \in Worker, PopLast(w) PROVE Walks'
  <1>0. TypeOK /\ Walks
    BY DEF HandoffInv
  <1>1. \A x \in Thread : Linking(x)' <=> Linking(x)
    BY PopLastLists
  <1>2. /\ tail' = tail /\ prev' = prev /\ token' = token /\ pc'[w] \in {"idle", "resume"}
        /\ \A v \in Worker : v # w => pc'[v] = pc[v] /\ curr'[v] = curr[v]
    BY <1>0 DEF PopLast, Goto, AfterPop, localVars, tokenVars, TypeOK
  <1>3. \A v \in Worker : Walking(v)' =>
              /\ Walking(v) /\ curr'[v] # Null /\ List(v)' = List(v)
              /\ tail'[List(v)] # List(v)
    BY <1>0, <1>2 DEF Walks, Walking, List
  <1> QED
    BY <1>1, <1>2, <1>3, WalksKept

LEMMA DrainLastWalks == ASSUME HandoffInv, NEW w \in Thread, DrainLast(w) PROVE Walks'
  <1>0. TypeOK /\ Walks /\ w \in Worker
    BY DEF HandoffInv, Worker
  <1>1. \A x \in Thread : Linking(x)' <=> Linking(x)
    BY DrainLastLists
  <1>2. token' = [token EXCEPT ![w] = Null]
    BY DrainLastFacts
  <1>3. /\ tail' = tail /\ prev' = prev /\ pc'[w] = "exited"
        /\ \A v \in Worker : v # w => pc'[v] = pc[v] /\ curr'[v] = curr[v]
    BY <1>0 DEF DrainLast, Goto, localVars, TypeOK
  <1>4. \A v \in Worker : v # w => List(v)' = List(v)
    BY <1>0, <1>2 DEF List, Worker, TypeOK
  <1>5. \A v \in Worker : Walking(v)' =>
              /\ Walking(v) /\ curr'[v] # Null /\ List(v)' = List(v)
              /\ tail'[List(v)] # List(v)
    BY <1>0, <1>3, <1>4 DEF Walks, Walking
  <1> QED
    BY <1>1, <1>3, <1>5, WalksKept

LEMMA RaiseOwnerWalks == ASSUME HandoffInv, NEW th \in Thread, RaiseOwner(th) PROVE Walks'
  <1>0. TypeOK /\ Walks /\ th \in Worker
    BY DEF HandoffInv, Worker
  <1>1. /\ tail' = tail /\ prev' = prev /\ token' = token /\ curr' = curr /\ pc'[th] = "splice"
        /\ \A v \in Worker : v # th => pc'[v] = pc[v]
    BY <1>0 DEF RaiseOwner, Goto, listVars, localVars, popVars, TypeOK
  <1>2. \A v \in Worker : Walking(v)' =>
              /\ Walking(v) /\ curr'[v] # Null /\ List(v)' = List(v)
              /\ tail'[List(v)] # List(v)
    BY <1>0, <1>1 DEF Walks, Walking, List
  <1>3. \A x \in Thread : Linking(x)' => Linking(x) /\ prev'[x] = prev[x]
    BY <1>1 DEF Linking, Worker
  <1> QED
    BY <1>2, <1>3, WalksKept

(* Appending to a list never links to the head a walk has left behind. *)
LEMMA AppendWalks ==
    ASSUME HandoffInv, NEW th \in Thread, NEW q \in Lists, NEW n \in Object,
           tail' = [tail EXCEPT ![q] = n], prev' = [prev EXCEPT ![th] = tail[q]],
           \A v \in Worker : (Walking(v)' <=> Walking(v)) /\ List(v)' = List(v) /\ curr'[v] = curr[v],
           \A x \in Thread : Linking(x)' => Linking(x) \/ x = th
    PROVE  Walks'
  <1>0. TypeOK /\ Walks /\ Roles /\ Tokens /\ Listing
    BY DEF HandoffInv
  <1>1. q \in AnyToken /\ tail[q] \in {q} \cup Queue(q)
    BY <1>0, ListKept DEF Listing
  <1>2. ASSUME NEW v \in Worker, Walking(v)'
        PROVE  /\ curr'[v] # Null /\ tail'[List(v)'] # List(v)'
               /\ \A x \in Thread : Linking(x)' => prev'[x] # List(v)'
    <2>1. /\ Walking(v) /\ List(v)' = List(v) /\ curr'[v] # Null /\ tail[List(v)] # List(v)
          /\ \A x \in Thread : Linking(x) => prev[x] # List(v)
      BY <1>0, <1>2 DEF Walks
    <2>2. List(v) \in AnyToken /\ List(v) \notin Object
      BY <1>0, <2>1, WalkerOnly, NullApart
    <2>3. tail'[List(v)] # List(v)
      BY <1>0, <1>1, <2>1, <2>2 DEF TypeOK
    <2>4. tail[q] # List(v)
      BY <1>1, <2>1, <2>2 DEF Queue
    <2>5. \A x \in Thread : Linking(x)' => prev'[x] # List(v)
      BY <1>0, <2>1, <2>4 DEF TypeOK
    <2> QED
      BY <2>1, <2>3, <2>5
  <1> QED
    BY <1>2 DEF Walks

LEMMA PushSwapWalks == ASSUME HandoffInv, NEW th \in Thread, PushSwap(th) PROVE Walks'
  <1>1. /\ into[th] \in Lists /\ obj[th] \in Object
        /\ prev' = [prev EXCEPT ![th] = tail[into[th]]]
        /\ tail' = [tail EXCEPT ![into[th]] = obj[th]]
        /\ \A v \in Worker : (Walking(v)' <=> Walking(v)) /\ List(v)' = List(v) /\ curr'[v] = curr[v]
        /\ \A x \in Thread : Linking(x)' => Linking(x) \/ x = th
    BY PushSwapFacts
  <1> QED
    BY <1>1, AppendWalks

LEMMA RaiseSpliceWalks == ASSUME HandoffInv, NEW th \in Thread, RaiseSplice(th) PROVE Walks'
  <1>0. TypeOK /\ Walks
    BY DEF HandoffInv
  <1>1. /\ th \in Worker /\ \A v \in Worker : v # th => pc'[v] = pc[v]
        /\ target[th] \in Lists /\ Back \in Lists /\ curr' = curr
        /\ \A v \in Worker : (Walking(v)' <=> Walking(v)) /\ List(v)' = List(v)
        /\ IF tail[target[th]] = target[th]
           THEN pc'[th] = "clear" /\ tail' = tail /\ prev' = prev
           ELSE /\ pc'[th] = "relink" /\ prev' = [prev EXCEPT ![th] = tail[Back]]
                /\ tail' = [tail EXCEPT ![Back] = tail[target[th]]]
    BY RaiseSpliceFacts
  <1>2. CASE tail[target[th]] = target[th]
    <2>1. \A v \in Worker : Walking(v)' =>
              /\ Walking(v) /\ curr'[v] # Null /\ List(v)' = List(v)
              /\ tail'[List(v)] # List(v)
      BY <1>0, <1>1, <1>2 DEF Walks
    <2>2. \A x \in Thread : Linking(x)' => Linking(x) /\ prev'[x] = prev[x]
      BY <1>1, <1>2 DEF Linking, Worker
    <2> QED
      BY <2>1, <2>2, WalksKept
  <1>3. CASE tail[target[th]] # target[th]
    <2>1. tail[target[th]] \in Object
      BY <1>1, <1>3, EmptyList DEF Queue
    <2>2. \A x \in Thread : Linking(x)' => Linking(x) \/ x = th
      BY <1>1 DEF Linking, Worker
    <2>3. \A v \in Worker : (Walking(v)' <=> Walking(v)) /\ List(v)' = List(v) /\ curr'[v] = curr[v]
      BY <1>1
    <2>4. /\ prev' = [prev EXCEPT ![th] = tail[Back]]
          /\ tail' = [tail EXCEPT ![Back] = tail[target[th]]] /\ Back \in Lists
      BY <1>1, <1>3
    <2> QED
      BY <2>1, <2>2, <2>3, <2>4, AppendWalks
  <1> QED
    BY <1>2, <1>3

LEMMA StepWalks ==
    ASSUME HandoffInv, Next
    PROVE  Walks'
  <1>0. TypeOK /\ \A th \in Thread : th \in Worker /\ th # Mem
    BY HandoffAssumption DEF HandoffInv, Worker
  <1>1. ASSUME NEW th \in Thread, NEW o \in Object, NEW t \in Token, Alloc(th, o, t)
        PROVE  Walks'
    <2>1. CalmStep
      BY <1>1, AllocCalm
    <2>2. \A x \in Thread : Linking(x)' => Linking(x) /\ prev'[x] = prev[x]
      BY <1>0, <1>1 DEF Alloc, Goto, Linking, TypeOK, PopLazily
    <2> QED
      BY <2>1, <2>2, WalksCalm
  <1>2. ASSUME NEW th \in Thread, NEW o \in Object, FreeOwn(th, o)
        PROVE  Walks'
    <2>1. CalmStep
      BY <1>2, FreeOwnCalm
    <2>2. \A x \in Thread : Linking(x)' => Linking(x) /\ prev'[x] = prev[x]
      BY <1>0, <1>2 DEF FreeOwn, Goto, Linking, TypeOK, PopLazily
    <2> QED
      BY <2>1, <2>2, WalksCalm
  <1>3. ASSUME NEW th \in Thread, Resume(th)
        PROVE  Walks'
    <2>1. CalmStep
      BY <1>3, ResumeCalm
    <2>2. \A x \in Thread : Linking(x)' => Linking(x) /\ prev'[x] = prev[x]
      BY <1>0, <1>3 DEF Resume, Goto, Linking, TypeOK
    <2> QED
      BY <2>1, <2>2, WalksCalm
  <1>4. ASSUME NEW w \in Worker, PopBegin(w)
        PROVE  Walks'
    BY <1>4, PopBeginWalks
  <1>5. ASSUME NEW w \in Worker, PopNode(w)
        PROVE  Walks'
    BY <1>5, PopNodeWalks
  <1>6. ASSUME NEW w \in Worker, PopLast(w)
        PROVE  Walks'
    BY <1>6, PopLastWalks
  <1>7. ASSUME NEW th \in Thread, DrainLast(th)
        PROVE  Walks'
    BY <1>7, DrainLastWalks
  <1>8. ASSUME MemWake
        PROVE  Walks'
    <2>1. CalmStep
      BY <1>8, MemWakeCalm
    <2>2. \A x \in Thread : Linking(x)' => Linking(x) /\ prev'[x] = prev[x]
      BY <1>0, <1>8 DEF MemWake, Goto, Linking, TypeOK, localVars
    <2> QED
      BY <2>1, <2>2, WalksCalm
  <1>9. ASSUME NEW th \in Thread, NEW o \in Object, PushEnter(th, o)
        PROVE  Walks'
    <2>1. CalmStep
      BY <1>9, PushEnterCalm
    <2>2. \A x \in Thread : Linking(x)' => Linking(x) /\ prev'[x] = prev[x]
      BY <1>0, <1>9 DEF PushEnter, Goto, Linking, TypeOK
    <2> QED
      BY <2>1, <2>2, WalksCalm
  <1>10. ASSUME NEW th \in Thread, PushWait(th)
        PROVE  Walks'
    <2>1. CalmStep
      BY <1>10, PushWaitCalm
    <2>2. \A x \in Thread : Linking(x)' => Linking(x) /\ prev'[x] = prev[x]
      BY <1>0, <1>10 DEF PushWait, Goto, Linking, TypeOK, localVars
    <2> QED
      BY <2>1, <2>2, WalksCalm
  <1>11. ASSUME NEW th \in Thread, PushLoad(th)
        PROVE  Walks'
    <2>1. CalmStep
      BY <1>11, PushLoadCalm
    <2>2. \A x \in Thread : Linking(x)' => Linking(x) /\ prev'[x] = prev[x]
      BY <1>0, <1>11 DEF PushLoad, Goto, Linking, TypeOK
    <2> QED
      BY <2>1, <2>2, WalksCalm
  <1>12. ASSUME NEW th \in Thread, PushSwap(th)
        PROVE  Walks'
    BY <1>12, PushSwapWalks
  <1>13. ASSUME NEW th \in Thread, PushLink(th)
        PROVE  Walks'
    <2>1. CalmStep
      BY <1>13, PushLinkCalm
    <2>2. \A x \in Thread : Linking(x)' => Linking(x) /\ prev'[x] = prev[x]
      BY <1>0, <1>13 DEF PushLink, Goto, Linking, TypeOK, localVars
    <2> QED
      BY <2>1, <2>2, WalksCalm
  <1>14. ASSUME NEW th \in Thread, PushCount(th)
        PROVE  Walks'
    <2>1. CalmStep
      BY <1>14, PushCountCalm
    <2>2. \A x \in Thread : Linking(x)' => Linking(x) /\ prev'[x] = prev[x]
      BY <1>0, <1>14 DEF PushCount, Goto, Linking, TypeOK, localVars
    <2> QED
      BY <2>1, <2>2, WalksCalm
  <1>15. ASSUME NEW th \in Thread, PushExit(th)
        PROVE  Walks'
    <2>1. CalmStep
      BY <1>15, PushExitCalm
    <2>2. \A x \in Thread : Linking(x)' => Linking(x) /\ prev'[x] = prev[x]
      BY <1>0, <1>15 DEF PushExit, Goto, Linking, TypeOK
    <2> QED
      BY <2>1, <2>2, WalksCalm
  <1>16. ASSUME NEW th \in Thread, ExitPlain(th)
        PROVE  Walks'
    <2>1. CalmStep
      BY <1>16, ExitPlainCalm
    <2>2. \A x \in Thread : Linking(x)' => Linking(x) /\ prev'[x] = prev[x]
      BY <1>0, <1>16 DEF ExitPlain, Goto, Linking, TypeOK, localVars
    <2> QED
      BY <2>1, <2>2, WalksCalm
  <1>17. ASSUME NEW th \in Thread, ExitDrain(th)
        PROVE  Walks'
    BY <1>17, ExitDrainWalks
  <1>18. ASSUME NEW th \in Thread, RaiseBegin(th)
        PROVE  Walks'
    <2>1. CalmStep
      BY <1>18, RaiseBeginCalm
    <2>2. \A x \in Thread : Linking(x)' => Linking(x) /\ prev'[x] = prev[x]
      BY <1>0, <1>18 DEF RaiseBegin, Goto, Linking, TypeOK
    <2> QED
      BY <2>1, <2>2, WalksCalm
  <1>19. ASSUME NEW th \in Thread, RaiseOwner(th)
        PROVE  Walks'
    BY <1>19, RaiseOwnerWalks
  <1>20. ASSUME NEW th \in Thread, RaiseSplice(th)
        PROVE  Walks'
    BY <1>20, RaiseSpliceWalks
  <1>21. ASSUME NEW th \in Thread, RaiseLink(th)
        PROVE  Walks'
    <2>1. CalmStep
      BY <1>21, RaiseLinkCalm
    <2>2. \A x \in Thread : Linking(x)' => Linking(x) /\ prev'[x] = prev[x]
      BY <1>0, <1>21 DEF RaiseLink, Goto, Linking, TypeOK, localVars
    <2> QED
      BY <2>1, <2>2, WalksCalm
  <1>22. ASSUME NEW th \in Thread, RaiseEnd(th)
        PROVE  Walks'
    <2>1. CalmStep
      BY <1>22, RaiseEndCalm
    <2>2. \A x \in Thread : Linking(x)' => Linking(x) /\ prev'[x] = prev[x]
      BY <1>0, <1>22 DEF RaiseEnd, Goto, Linking, TypeOK
    <2> QED
      BY <2>1, <2>2, WalksCalm
  <1> QED
    BY <1>1, <1>2, <1>3, <1>4, <1>5, <1>6, <1>7, <1>8, <1>9, <1>10, <1>11, <1>12,
       <1>13, <1>14, <1>15, <1>16, <1>17, <1>18, <1>19, <1>20, <1>21, <1>22 DEF Next, Step,
       Call, Pop, Worker

------------------------------------------------------------------------------
(* What is counted after a step                                             *)

LEMMA BalancedKept ==
    ASSUME NEW t, Balanced(t), async_returned'[t] = async_returned[t], Queue(t)' = Queue(t),
           Counting(t)' = Counting(t), Walker(t)' = Walker(t),
           \A w \in Walker(t) : count'[w] = count[w]
    PROVE  Balanced(t)'
  BY DEF Balanced

LEMMA DrainedKept ==
    ASSUME NEW x \in Thread, Drained(x),
           pc'[x] = "drain" => pc[x] = "drain" /\ token'[x] = token[x],
           \A t : t = token[x] /\ pc[x] = "drain" =>
              /\ Counting(t)' \subseteq Counting(t)
              /\ Active(t) = Queue(t) => Active(t)' = Queue(t)'
    PROVE  Drained(x)'
  <1>1. SUFFICES ASSUME pc'[x] = "drain"
                 PROVE  Counting(token[x])' = {} /\ Active(token[x])' = Queue(token[x])'
    BY DEF Drained
  <1>2. pc[x] = "drain" /\ token'[x] = token[x]
    BY <1>1
  <1>3. Counting(token[x]) = {} /\ Active(token[x]) = Queue(token[x])
    BY <1>2 DEF Drained
  <1>4. \A t : t = token[x] => Counting(t)' = {} /\ Active(t)' = Queue(t)'
    BY <1>2, <1>3
  <1>5. Counting(token[x])' = {}
    BY <1>2, <1>4 DEF Counting
  <1>6. Active(token[x])' = Queue(token[x])'
    BY <1>2, <1>4 DEF Active, Queue
  <1> QED
    BY <1>5, <1>6

(* The pushes the counter does not have yet                                 *)
LEMMA CountingKept ==
    ASSUME \A x \in Thread : /\ pc'[x] \in {"link", "count"} <=> pc[x] \in {"link", "count"}
                             /\ pc[x] \in {"link", "count"} => into'[x] = into[x]
    PROVE  \A t : Counting(t)' = Counting(t)
  BY DEF Counting

LEMMA ActiveSame ==
    ASSUME home' = home,
           \A o \in Object : state'[o] \in {"new", "live", "freeing", "queued"}
                                <=> state[o] \in {"new", "live", "freeing", "queued"}
    PROVE  \A t : Active(t)' = Active(t)
  BY DEF Active

(* The objects of an own list belong to its token.                          *)
LEMMA QueueActive ==
    ASSUME HandoffInv, NEW t \in Token
    PROVE  Queue(t) \subseteq Active(t)
  BY HandoffAssumption DEF Queue, Active, ListOf, HandoffInv, TypeOK

LEMMA WalkerIs ==
    ASSUME NEW t, NEW w \in Walker(t)
    PROVE  w \in Worker /\ Walking(w) /\ List(w) = t
  BY DEF Walker, Walking

LEMMA AccountsCalm ==
    ASSUME HandoffInv, CalmStep, count' = count, async_returned' = async_returned,
           \A x \in Thread : /\ pc'[x] \in {"link", "count"} <=> pc[x] \in {"link", "count"}
                             /\ pc[x] \in {"link", "count"} => into'[x] = into[x],
           \A x \in Thread : pc'[x] = "drain" => pc[x] = "drain" /\ token'[x] = token[x],
           \A x \in Thread : \A t : t = token[x] /\ pc[x] = "drain" => Active(t)' = Active(t)
    PROVE  Accounts'
  <1>0. /\ Accounts /\ owner' = owner /\ released \subseteq released'
        /\ \A w \in Worker : Walking(w)' <=> Walking(w)
    BY DEF HandoffInv, CalmStep
  <1>1. \A t : Queue(t)' = Queue(t) /\ Walker(t)' = Walker(t)
    BY CalmLists
  <1>2. \A t : Counting(t)' = Counting(t)
    BY CountingKept
  <1>3. \A w \in Worker : ~Walking(w)' => count'[w] = 0
    BY <1>0 DEF Accounts
  <1>4. ASSUME NEW t \in Token \ released', owner'[t] = t PROVE Balanced(t)'
    <2>1. Balanced(t)
      BY <1>0, <1>4 DEF Accounts
    <2> QED
      BY <1>1, <1>2, <2>1, BalancedKept
  <1>5. ASSUME NEW x \in Thread PROVE Drained(x)'
    <2>1. Drained(x)
      BY <1>0 DEF Accounts
    <2> QED
      BY <1>1, <1>2, <2>1, DrainedKept
  <1> QED
    BY <1>3, <1>4, <1>5 DEF Accounts

LEMMA AllocAccounts ==
    ASSUME HandoffInv, NEW th \in Thread, NEW o \in Object, NEW t \in Token, Alloc(th, o, t)
    PROVE  Accounts'
  <1>0. TypeOK /\ Tokens /\ Roles /\ th \in Worker
    BY DEF HandoffInv, Worker
  <1>1. CalmStep
    BY AllocCalm
  <1>2. /\ pc[th] = "idle" /\ pc'[th] \in {"pop", "resume"}
        /\ \A v \in Worker : v # th => pc'[v] = pc[v]
        /\ token' = [token EXCEPT ![th] = t] /\ home' = [home EXCEPT ![o] = t]
        /\ state' = [state EXCEPT ![o] = "new"] /\ into' = into /\ count' = count
        /\ async_returned' = async_returned /\ state[o] = "unborn"
        /\ IF token[th] = Null THEN t \notin used ELSE t = token[th]
    BY <1>0 DEF Alloc, PopLazily, Goto, listVars, popVars, TypeOK
  <1>3. \A x \in Thread : /\ pc'[x] \in {"link", "count"} <=> pc[x] \in {"link", "count"}
                          /\ pc[x] \in {"link", "count"} => into'[x] = into[x]
    BY <1>2 DEF Worker
  <1>4. \A x \in Thread : pc'[x] = "drain" => pc[x] = "drain" /\ token'[x] = token[x]
    BY <1>0, <1>2 DEF Worker, TypeOK
  <1>5. ASSUME NEW x \in Thread, NEW u, u = token[x], pc[x] = "drain" PROVE Active(u)' = Active(u)
    <2>1. token[x] # Null /\ token[x] \in used /\ x # th
      BY <1>0, <1>2, <1>5 DEF Roles, RoleOf, Tokens
    <2>2. u # t
      BY <1>0, <1>2, <1>5, <2>1 DEF Tokens
    <2>3. home[o] = Null
      BY <1>0, <1>2 DEF Tokens
    <2> QED
      BY <1>0, <1>2, <1>5, <2>1, <2>2, <2>3 DEF Active, TypeOK
  <1> QED
    BY <1>1, <1>2, <1>3, <1>4, <1>5, AccountsCalm

LEMMA ResumeAccounts == ASSUME HandoffInv, NEW th \in Thread, Resume(th) PROVE Accounts'
  <1>0. TypeOK /\ Tokens /\ Roles /\ th \in Worker
    BY DEF HandoffInv, Worker
  <1>1. CalmStep
    BY ResumeCalm
  <1>2. /\ pc[th] = "resume" /\ pc'[th] = "idle"
        /\ \A v \in Worker : v # th => pc'[v] = pc[v]
        /\ into' = into /\ count' = count /\ async_returned' = async_returned /\ home' = home
    BY <1>0 DEF Resume, Goto, listVars, popVars, TypeOK
  <1>3. /\ obj[th] \in Object /\ home[obj[th]] = token[th] /\ token[th] \in Token
        /\ state[obj[th]] \in {"new", "freeing"}
        /\ state' = [state EXCEPT ![obj[th]] = IF state[obj[th]] = "new" THEN "live" ELSE "freed"]
        /\ token' = token \/ token' = [token EXCEPT ![th] = Null]
    BY ResumeFacts
  <1>4. \A x \in Thread : /\ pc'[x] \in {"link", "count"} <=> pc[x] \in {"link", "count"}
                          /\ pc[x] \in {"link", "count"} => into'[x] = into[x]
    BY <1>2 DEF Worker
  <1>5. \A x \in Thread : pc'[x] = "drain" => pc[x] = "drain" /\ token'[x] = token[x]
    BY <1>0, <1>2, <1>3 DEF Worker, TypeOK
  <1>6. ASSUME NEW x \in Thread, NEW u, u = token[x], pc[x] = "drain" PROVE Active(u)' = Active(u)
    <2>1. token[x] # Null /\ x # th
      BY <1>0, <1>2, <1>6 DEF Roles, RoleOf
    <2>2. u # token[th]
      BY <1>0, <1>3, <1>6, <2>1 DEF Tokens
    <2> QED
      BY <1>0, <1>2, <1>3, <1>6, <2>2 DEF Active, TypeOK
  <1> QED
    BY <1>1, <1>2, <1>4, <1>5, <1>6, AccountsCalm

LEMMA PushCountAccounts ==
    ASSUME HandoffInv, NEW th \in Thread, PushCount(th)
    PROVE  Accounts'
  <1>0. TypeOK /\ Tokens /\ Roles /\ th \in Worker /\ Accounts
    BY DEF HandoffInv, Worker
  <1>1. CalmStep
    BY PushCountCalm
  <1>2. /\ pc[th] = "count" /\ pc'[th] = "leave"
        /\ \A v \in Worker : v # th => pc'[v] = pc[v]
        /\ into' = into /\ count' = count /\ home' = home /\ state' = state /\ token' = token
        /\ owner' = owner /\ released' = released
        /\ async_returned' = [async_returned EXCEPT ![into[th]] = @ + 1]
    BY <1>0 DEF PushCount, Goto, localVars, popVars, tokenVars, TypeOK
  <1>3. \A t : Queue(t)' = Queue(t) /\ Walker(t)' = Walker(t)
    BY <1>1, CalmLists
  <1>4. /\ \A t : t = into[th] => Counting(t)' = Counting(t) \ {th} /\ th \in Counting(t)
        /\ \A t : t # into[th] => Counting(t)' = Counting(t)
    BY <1>2 DEF Counting, Worker
  <1>5. \A w \in Worker : ~Walking(w)' => count'[w] = 0
    BY <1>0, <1>1, <1>2 DEF Accounts, CalmStep
  <1>6. ASSUME NEW t \in Token \ released', owner'[t] = t PROVE Balanced(t)'
    <2>1. Balanced(t)
      BY <1>0, <1>2, <1>6 DEF Accounts
    <2>2. CASE t # into[th]
      <3>1. async_returned'[t] = async_returned[t]
        BY <1>0, <1>2, <2>2 DEF TypeOK, AnyToken
      <3> QED
        BY <1>2, <1>3, <1>4, <2>1, <2>2, <3>1, BalancedKept
    <2>3. CASE t = into[th]
      <3>1. async_returned'[t] = async_returned[t] + 1 /\ async_returned[t] \in Int
        BY <1>0, <1>2, <2>3 DEF TypeOK, AnyToken
      <3>2. Cardinality(Counting(t)') = Cardinality(Counting(t)) - 1
        BY <1>4, <2>3, BusyFinite, FS_RemoveElement
      <3>3. Cardinality(Counting(t)) \in Nat /\ Cardinality(Queue(t)) \in Nat
        BY BusyFinite
      <3>4. \A w \in Walker(t) : count[w] \in Nat
        BY <1>0, WalkerIs DEF TypeOK
      <3> QED
        BY <1>2, <1>3, <2>1, <3>1, <3>2, <3>3, <3>4 DEF Balanced
    <2> QED
      BY <2>2, <2>3
  <1>7. \A t : Active(t)' = Active(t)
    BY <1>2, ActiveSame
  <1>8. ASSUME NEW x \in Thread PROVE Drained(x)'
    <2>1. Drained(x) /\ (pc'[x] = "drain" => pc[x] = "drain" /\ token'[x] = token[x])
      BY <1>0, <1>2 DEF Accounts, Worker
    <2>2. \A t : Counting(t)' \subseteq Counting(t)
      BY <1>4
    <2> QED
      BY <1>3, <1>7, <2>1, <2>2, DrainedKept
  <1> QED
    BY <1>5, <1>6, <1>8 DEF Accounts

LEMMA PopBeginAccounts == ASSUME HandoffInv, NEW w \in Worker, PopBegin(w) PROVE Accounts'
  <1>0. TypeOK /\ Accounts
    BY DEF HandoffInv
  <1>1. /\ pc[w] = "pop" /\ pc'[w] \in {"idle", "resume", "walk"} /\ Walker(List(w)) = {}
        /\ \A v \in Worker : v # w => pc'[v] = pc[v]
    BY PopBeginFacts
  <1>2. /\ \A t : Queue(t)' = Queue(t)
        /\ \A t : t # List(w) => Walker(t)' = Walker(t)
        /\ \A t : t = List(w) => Walker(t)' = IF next[List(w)] = Null THEN {} ELSE {w}
    BY PopBeginLists
  <1>3. /\ count' = [count EXCEPT ![w] = 0] /\ async_returned' = async_returned /\ into' = into
        /\ owner' = owner /\ released' = released /\ home' = home /\ state' = state /\ token' = token
    BY DEF PopBegin, listVars, localVars, tokenVars
  <1>4. \A t : Counting(t)' = Counting(t)
    BY <1>1, <1>3, CountingKept DEF Worker
  <1>5. \A v \in Worker : ~Walking(v)' => count'[v] = 0
    BY <1>0, <1>1, <1>3 DEF Accounts, Walking, TypeOK
  <1>6. ASSUME NEW t \in Token \ released', owner'[t] = t PROVE Balanced(t)'
    <2>1. Balanced(t)
      BY <1>0, <1>3, <1>6 DEF Accounts
    <2>2. CASE t # List(w)
      <3>1. \A v \in Walker(t) : count'[v] = count[v]
        BY <1>0, <1>3, <2>2, WalkerIs DEF TypeOK
      <3> QED
        BY <1>2, <1>3, <1>4, <2>1, <2>2, <3>1, BalancedKept
    <2>3. CASE t = List(w)
      <3>1. async_returned[t] = Cardinality(Queue(t)) - Cardinality(Counting(t))
        BY <1>1, <2>1, <2>3 DEF Balanced
      <3>2. \A v \in Walker(t)' : count'[v] = 0
        BY <1>0, <1>2, <1>3, <2>3 DEF TypeOK
      <3>3. Cardinality(Counting(t)) \in Nat /\ Cardinality(Queue(t)) \in Nat
        BY BusyFinite
      <3> QED
        BY <1>2, <1>3, <1>4, <3>1, <3>2, <3>3 DEF Balanced
    <2> QED
      BY <2>2, <2>3
  <1>7. \A t : Active(t)' = Active(t)
    BY <1>3, ActiveSame
  <1>8. ASSUME NEW x \in Thread PROVE Drained(x)'
    <2>1. Drained(x) /\ (pc'[x] = "drain" => pc[x] = "drain" /\ token'[x] = token[x])
      BY <1>0, <1>1, <1>3 DEF Accounts, Worker
    <2> QED
      BY <1>2, <1>4, <1>7, <2>1, DrainedKept
  <1> QED
    BY <1>5, <1>6, <1>8 DEF Accounts

(* A thread that counts everything as returned is right.                    *)
LEMMA ExitDrainAll ==
    ASSUME HandoffInv, NEW th \in Thread, ExitDrain(th)
    PROVE  \A t : t = token[th] => Counting(t) = {} /\ Active(t) = Queue(t)
  <1>0. TypeOK /\ Accounts
    BY DEF HandoffInv
  <1>1. /\ token[th] \in Token /\ token[th] \notin released /\ owner[token[th]] = token[th]
        /\ Walker(token[th]) = {}
    BY ExitDrainFacts
  <1>2. async_returned[token[th]] = Cardinality(Active(token[th]))
    BY DEF ExitDrain, IsAllReturned
  <1>3. ASSUME NEW t, t = token[th] PROVE Counting(t) = {} /\ Active(t) = Queue(t)
    <2>1. Cardinality(Active(t)) = Cardinality(Queue(t)) - Cardinality(Counting(t))
      BY <1>0, <1>1, <1>2, <1>3 DEF Accounts, Balanced
    <2>2. /\ Cardinality(Counting(t)) \in Nat /\ Cardinality(Queue(t)) \in Nat
          /\ Cardinality(Active(t)) \in Nat /\ IsFiniteSet(Active(t)) /\ IsFiniteSet(Counting(t))
      BY BusyFinite
    <2>3. Queue(t) \subseteq Active(t)
      BY <1>1, <1>3, QueueActive
    <2>4. Cardinality(Queue(t)) <= Cardinality(Active(t))
      BY <2>2, <2>3, FS_Subset
    <2>5. Cardinality(Counting(t)) = 0 /\ Cardinality(Queue(t)) = Cardinality(Active(t))
      BY <2>1, <2>2, <2>4
    <2>6. Counting(t) = {}
      BY <2>2, <2>5, FS_EmptySet
    <2>7. Active(t) = Queue(t)
      BY <2>2, <2>3, <2>5, FS_Subset
    <2> QED
      BY <2>6, <2>7
  <1> QED
    BY <1>3

LEMMA ExitDrainAccounts ==
    ASSUME HandoffInv, NEW th \in Thread, ExitDrain(th)
    PROVE  Accounts'
  <1>0. TypeOK /\ Accounts
    BY DEF HandoffInv
  <1>1. /\ pc[th] = "idle" /\ pc'[th] \in {"exited", "drain"} /\ Walker(token[th]) = {}
        /\ th \in Worker /\ \A v \in Worker : v # th => pc'[v] = pc[v]
    BY ExitDrainFacts
  <1>2. /\ \A t : Queue(t)' = Queue(t)
        /\ \A t : t # token[th] => Walker(t)' = Walker(t)
        /\ \A t : t = token[th] => Walker(t)' = IF next[token[th]] = Null THEN {} ELSE {th}
    BY ExitDrainLists
  <1>3. /\ count' = count /\ async_returned' = async_returned /\ into' = into
        /\ owner' = owner /\ released' = released /\ home' = home /\ state' = state /\ token' = token
    BY DEF ExitDrain, listVars, localVars, tokenVars
  <1>4. \A t : Counting(t)' = Counting(t)
    BY <1>1, <1>3, CountingKept DEF Worker
  <1>5. \A v \in Worker : ~Walking(v)' => count'[v] = 0
    BY <1>0, <1>1, <1>3 DEF Accounts, Walking
  <1>6. ASSUME NEW t \in Token \ released', owner'[t] = t PROVE Balanced(t)'
    <2>1. Balanced(t)
      BY <1>0, <1>3, <1>6 DEF Accounts
    <2>2. CASE t # token[th]
      BY <1>2, <1>3, <1>4, <2>1, <2>2, BalancedKept
    <2>3. CASE t = token[th]
      <3>1. async_returned[t] = Cardinality(Queue(t)) - Cardinality(Counting(t))
        BY <1>1, <2>1, <2>3 DEF Balanced
      <3>2. \A v \in Walker(t)' : count'[v] = 0
        BY <1>0, <1>1, <1>2, <1>3, <2>3 DEF Accounts, Walking
      <3>3. Cardinality(Counting(t)) \in Nat /\ Cardinality(Queue(t)) \in Nat
        BY BusyFinite
      <3> QED
        BY <1>2, <1>3, <1>4, <3>1, <3>2, <3>3 DEF Balanced
    <2> QED
      BY <2>2, <2>3
  <1>7. \A t : Active(t)' = Active(t)
    BY <1>3, ActiveSame
  <1>8. ASSUME NEW x \in Thread PROVE Drained(x)'
    <2>1. CASE x # th
      <3>1. Drained(x) /\ (pc'[x] = "drain" => pc[x] = "drain" /\ token'[x] = token[x])
        BY <1>0, <1>1, <1>3, <2>1 DEF Accounts, Worker
      <3> QED
        BY <1>2, <1>4, <1>7, <3>1, DrainedKept
    <2>2. CASE x = th
      <3>1. \A t : t = token[th] => Counting(t)' = {} /\ Active(t)' = Queue(t)'
        BY <1>2, <1>4, <1>7, ExitDrainAll
      <3>2. Counting(token[th])' = {}
        BY <1>3, <3>1 DEF Counting
      <3>3. Active(token[th])' = Queue(token[th])'
        BY <1>3, <3>1 DEF Active, Queue
      <3> QED
        BY <2>2, <3>2, <3>3 DEF Drained
    <2> QED
      BY <2>1, <2>2
  <1> QED
    BY <1>5, <1>6, <1>8 DEF Accounts

LEMMA PopNodeAccounts == ASSUME HandoffInv, NEW w \in Worker, PopNode(w) PROVE Accounts'
  <1>0. TypeOK /\ Accounts /\ Roles /\ Tokens
    BY DEF HandoffInv
  <1>1. /\ Walking(w) /\ token' = token /\ released \subseteq released'
        /\ state' = [state EXCEPT ![curr[w]] = "freed"]
    BY PopNodeFacts
  <1>2. \A t : Queue(t)' = Queue(t) \ {curr[w]} /\ Walker(t)' = Walker(t)
    BY PopNodeLists
  <1>3. /\ count' = [count EXCEPT ![w] = @ + 1] /\ async_returned' = async_returned /\ into' = into
        /\ owner' = owner /\ home' = home /\ pc' = pc
    BY DEF PopNode, listVars, localVars
  <1>4. /\ curr[w] \in Queue(List(w)) /\ curr[w] \in Object /\ Walker(List(w)) = {w}
        /\ List(w) \in AnyToken
    BY <1>0, <1>1, WalkedQueued, WalkerOnly
  <1>5. \A t : Counting(t)' = Counting(t)
    BY <1>3, CountingKept
  <1>6. \A v \in Worker : ~Walking(v)' => count'[v] = 0
    BY <1>0, <1>1, <1>3 DEF Accounts, Walking, TypeOK
  <1>7. ASSUME NEW t \in Token \ released', owner'[t] = t PROVE Balanced(t)'
    <2>1. Balanced(t)
      BY <1>0, <1>1, <1>3, <1>7 DEF Accounts
    <2>2. CASE t # List(w)
      <3>1. \A v \in Walker(t) : count'[v] = count[v]
        BY <1>0, <1>3, <2>2, WalkerIs DEF TypeOK
      <3>2. Queue(t)' = Queue(t)
        BY <1>2, <1>4, <2>2 DEF Queue
      <3> QED
        BY <1>2, <1>3, <1>5, <2>1, <3>1, <3>2, BalancedKept
    <2>3. CASE t = List(w)
      <3>1. async_returned[t] = Cardinality(Queue(t)) + count[w] - Cardinality(Counting(t))
        BY <1>4, <2>1, <2>3 DEF Balanced
      <3>2. Cardinality(Queue(t)') = Cardinality(Queue(t)) - 1
        BY <1>2, <1>4, <2>3, BusyFinite, FS_RemoveElement
      <3>3. /\ Cardinality(Counting(t)) \in Nat /\ Cardinality(Queue(t)) \in Nat
            /\ count[w] \in Nat /\ count'[w] = count[w] + 1
        BY <1>0, <1>3, BusyFinite DEF TypeOK
      <3>4. async_returned'[t] = Cardinality(Queue(t)') + count'[w] - Cardinality(Counting(t)')
        BY <1>3, <1>5, <3>1, <3>2, <3>3
      <3>5. Walker(t)' = {w}
        BY <1>2, <1>4, <2>3
      <3> QED
        BY <3>4, <3>5 DEF Balanced
    <2> QED
      BY <2>2, <2>3
  <1>8. \A t : Active(t)' = Active(t) \ {curr[w]}
    BY <1>0, <1>1, <1>3, <1>4 DEF Active, TypeOK
  <1>9. ASSUME NEW x \in Thread PROVE Drained(x)'
    <2>1. Drained(x) /\ (pc'[x] = "drain" => pc[x] = "drain" /\ token'[x] = token[x])
      BY <1>0, <1>1, <1>3 DEF Accounts
    <2>2. \A t : /\ Counting(t)' \subseteq Counting(t)
                 /\ Active(t) = Queue(t) => Active(t)' = Queue(t)'
      BY <1>2, <1>5, <1>8
    <2> QED
      BY <2>1, <2>2, DrainedKept
  <1> QED
    BY <1>6, <1>7, <1>9 DEF Accounts

LEMMA PopLastAccounts == ASSUME HandoffInv, NEW w \in Worker, PopLast(w) PROVE Accounts'
  <1>0. TypeOK /\ Accounts /\ Roles /\ Tokens
    BY DEF HandoffInv
  <1>1. /\ Walking(w) /\ Walker(List(w)) = {w}
        /\ \A t : Queue(t)' = Queue(t)
        /\ \A t : t # List(w) => Walker(t)' = Walker(t)
        /\ \A t : t = List(w) => Walker(t)' = {}
    BY PopLastLists
  <1>2. /\ pc[w] = "walk" /\ pc'[w] \in {"idle", "resume"}
        /\ \A v \in Worker : v # w => pc'[v] = pc[v]
        /\ count' = [count EXCEPT ![w] = 0] /\ into' = into /\ token' = token
        /\ async_returned' = [async_returned EXCEPT ![List(w)] = @ - count[w]]
        /\ owner' = owner /\ released' = released /\ home' = home /\ state' = state
    BY <1>0 DEF PopLast, Goto, AfterPop, localVars, tokenVars, TypeOK
  <1>3. \A t : Counting(t)' = Counting(t)
    BY <1>2, CountingKept DEF Worker
  <1>4. \A v \in Worker : ~Walking(v)' => count'[v] = 0
    BY <1>0, <1>2 DEF Accounts, Walking, TypeOK
  <1>5. ASSUME NEW t \in Token \ released', owner'[t] = t PROVE Balanced(t)'
    <2>1. Balanced(t)
      BY <1>0, <1>2, <1>5 DEF Accounts
    <2>2. CASE t # List(w)
      <3>1. \A v \in Walker(t) : count'[v] = count[v]
        BY <1>0, <1>2, <2>2, WalkerIs DEF TypeOK
      <3>2. async_returned'[t] = async_returned[t]
        BY <1>0, <1>2, <2>2 DEF TypeOK, AnyToken
      <3> QED
        BY <1>1, <1>3, <2>1, <2>2, <3>1, <3>2, BalancedKept
    <2>3. CASE t = List(w)
      <3>1. async_returned[t] = Cardinality(Queue(t)) + count[w] - Cardinality(Counting(t))
        BY <1>1, <2>1, <2>3 DEF Balanced
      <3>2. /\ Cardinality(Counting(t)) \in Nat /\ Cardinality(Queue(t)) \in Nat
            /\ count[w] \in Nat /\ async_returned'[t] = async_returned[t] - count[w]
        BY <1>0, <1>2, <2>3, BusyFinite DEF TypeOK, AnyToken
      <3>3. async_returned'[t] = Cardinality(Queue(t)') - Cardinality(Counting(t)')
        BY <1>1, <1>3, <3>1, <3>2
      <3>4. Walker(t)' = {}
        BY <1>1, <2>3
      <3> QED
        BY <3>3, <3>4 DEF Balanced
    <2> QED
      BY <2>2, <2>3
  <1>6. \A t : Active(t)' = Active(t)
    BY <1>2, ActiveSame
  <1>7. ASSUME NEW x \in Thread PROVE Drained(x)'
    <2>1. Drained(x) /\ (pc'[x] = "drain" => pc[x] = "drain" /\ token'[x] = token[x])
      BY <1>0, <1>2 DEF Accounts, Worker
    <2> QED
      BY <1>1, <1>3, <1>6, <2>1, DrainedKept
  <1> QED
    BY <1>4, <1>5, <1>7 DEF Accounts

LEMMA DrainLastAccounts == ASSUME HandoffInv, NEW w \in Thread, DrainLast(w) PROVE Accounts'
  <1>0. TypeOK /\ Accounts /\ Roles /\ Tokens /\ w \in Worker
    BY DEF HandoffInv, Worker
  <1>1. /\ List(w) = token[w] /\ token[w] \in Token /\ home[curr[w]] = token[w]
        /\ released' = released \cup {token[w]} /\ token' = [token EXCEPT ![w] = Null]
        /\ state' = [state EXCEPT ![curr[w]] = "freed"]
    BY DrainLastFacts
  <1>2. \A t : t # token[w] => Queue(t)' = Queue(t) /\ Walker(t)' = Walker(t)
    BY DrainLastLists
  <1>3. /\ pc[w] = "drain" /\ pc'[w] = "exited"
        /\ \A v \in Worker : v # w => pc'[v] = pc[v]
        /\ count' = [count EXCEPT ![w] = 0] /\ into' = into
        /\ async_returned' = async_returned /\ owner' = owner /\ home' = home
    BY <1>0 DEF DrainLast, Goto, localVars, TypeOK
  <1>4. \A t : Counting(t)' = Counting(t)
    BY <1>3, CountingKept DEF Worker
  <1>5. \A v \in Worker : ~Walking(v)' => count'[v] = 0
    BY <1>0, <1>3 DEF Accounts, Walking, TypeOK
  <1>6. ASSUME NEW t \in Token \ released', owner'[t] = t PROVE Balanced(t)'
    <2>1. Balanced(t) /\ t # List(w)
      BY <1>0, <1>1, <1>3, <1>6 DEF Accounts
    <2>2. \A v \in Walker(t) : count'[v] = count[v]
      BY <1>0, <1>3, <2>1, WalkerIs DEF TypeOK
    <2> QED
      BY <1>1, <1>2, <1>3, <1>4, <2>1, <2>2, BalancedKept
  <1>7. \A t : t # token[w] => Active(t)' = Active(t)
    BY <1>0, <1>1, <1>3 DEF Active, TypeOK
  <1>8. ASSUME NEW x \in Thread PROVE Drained(x)'
    <2>1. CASE x = w
      BY <1>3, <2>1 DEF Drained
    <2>2. CASE x # w
      <3>1. Drained(x) /\ (pc'[x] = "drain" => pc[x] = "drain" /\ token'[x] = token[x])
        BY <1>0, <1>1, <1>3, <2>2 DEF Accounts, Worker, TypeOK
      <3>2. pc[x] = "drain" => token[x] # token[w]
        BY <1>0, <1>1, <2>2, HandoffAssumption DEF Tokens
      <3> QED
        BY <1>2, <1>4, <1>7, <3>1, <3>2, DrainedKept
    <2> QED
      BY <2>1, <2>2
  <1> QED
    BY <1>5, <1>6, <1>8 DEF Accounts

LEMMA PushSwapAccounts == ASSUME HandoffInv, NEW th \in Thread, PushSwap(th) PROVE Accounts'
  <1>0. TypeOK /\ Accounts /\ Roles /\ Tokens
    BY DEF HandoffInv
  <1>1. /\ pc[th] = "swap" /\ pc'[th] = "link" /\ th \in Worker
        /\ \A v \in Worker : v # th => pc'[v] = pc[v]
        /\ obj[th] \in Object /\ state[obj[th]] = "freeing" /\ home[obj[th]] = target[th]
        /\ target[th] \in Token /\ into[th] = owner[target[th]]
        /\ state' = [state EXCEPT ![obj[th]] = "queued"]
        /\ \A v \in Worker : Walking(v)' <=> Walking(v)
        /\ \A t : Walker(t)' = Walker(t)
    BY PushSwapFacts
  <1>2. /\ \A t : t # into[th] => Queue(t)' = Queue(t)
        /\ \A t : t = into[th] => Queue(t)' = Queue(t) \cup {obj[th]}
        /\ \A t : obj[th] \notin Queue(t)
    BY PushSwapQueues
  <1>3. /\ count' = count /\ into' = into /\ token' = token /\ async_returned' = async_returned
        /\ owner' = owner /\ released' = released /\ home' = home
    BY DEF PushSwap, popVars, tokenVars
  <1>4. /\ \A t : t = into[th] => Counting(t)' = Counting(t) \cup {th} /\ th \notin Counting(t)
        /\ \A t : t # into[th] => Counting(t)' = Counting(t)
    BY <1>1, <1>3 DEF Counting, Worker
  <1>5. \A v \in Worker : ~Walking(v)' => count'[v] = 0
    BY <1>0, <1>1, <1>3 DEF Accounts
  <1>6. ASSUME NEW t \in Token \ released', owner'[t] = t PROVE Balanced(t)'
    <2>1. Balanced(t)
      BY <1>0, <1>3, <1>6 DEF Accounts
    <2>2. CASE t # into[th]
      BY <1>1, <1>2, <1>3, <1>4, <2>1, <2>2, BalancedKept
    <2>3. CASE t = into[th]
      <3>1. Cardinality(Counting(t)') = Cardinality(Counting(t)) + 1
        BY <1>4, <2>3, BusyFinite, FS_AddElement
      <3>2. Cardinality(Queue(t)') = Cardinality(Queue(t)) + 1
        BY <1>2, <2>3, BusyFinite, FS_AddElement
      <3>3. Cardinality(Counting(t)) \in Nat /\ Cardinality(Queue(t)) \in Nat
        BY BusyFinite
      <3>4. \A w \in Walker(t) : count[w] \in Nat
        BY <1>0, WalkerIs DEF TypeOK
      <3> QED
        BY <1>1, <1>3, <2>1, <3>1, <3>2, <3>3, <3>4 DEF Balanced
    <2> QED
      BY <2>2, <2>3
  <1>7. \A t : Active(t)' = Active(t)
    BY <1>0, <1>1, <1>3 DEF Active, TypeOK
  <1>8. ASSUME NEW x \in Thread PROVE Drained(x)'
    <2>1. Drained(x) /\ (pc'[x] = "drain" => pc[x] = "drain" /\ token'[x] = token[x])
      BY <1>0, <1>1, <1>3 DEF Accounts, Worker
    <2>2. pc[x] = "drain" => token[x] # into[th]
      <3>1. SUFFICES ASSUME pc[x] = "drain", token[x] = into[th] PROVE FALSE
        OBVIOUS
      <3>2. token[x] \in Token /\ Active(token[x]) = Queue(token[x])
        BY <1>0, <3>1 DEF Accounts, Drained, Roles, RoleOf, TypeOK
      <3>3. target[th] = token[x]
        BY <1>0, <1>1, <3>1, <3>2, HandoffAssumption DEF Tokens
      <3>4. obj[th] \in Active(token[x])
        BY <1>1, <3>3 DEF Active
      <3> QED
        BY <1>2, <3>2, <3>4
    <2> QED
      BY <1>2, <1>4, <1>7, <2>1, <2>2, DrainedKept
  <1> QED
    BY <1>5, <1>6, <1>8 DEF Accounts

LEMMA RaiseOwnerAccounts ==
    ASSUME HandoffInv, NEW th \in Thread, RaiseOwner(th)
    PROVE  Accounts'
  <1>0. TypeOK /\ Accounts /\ th \in Worker /\ target[th] \in Token /\ Back \notin Token
    BY RaiseOwnerFacts, HandoffAssumption DEF HandoffInv, Worker
  <1>1. \A t : Queue(t)' = Queue(t) /\ Walker(t)' = Walker(t)
    BY RaiseOwnerLists
  <1>2. /\ pc[th] = "raise" /\ pc'[th] = "splice"
        /\ \A v \in Worker : v # th => pc'[v] = pc[v]
        /\ count' = count /\ into' = into /\ token' = token /\ async_returned' = async_returned
        /\ released' = released /\ home' = home /\ state' = state
        /\ owner' = [owner EXCEPT ![target[th]] = Back]
    BY <1>0 DEF RaiseOwner, Goto, listVars, localVars, popVars, TypeOK
  <1>3. \A t : Counting(t)' = Counting(t)
    BY <1>2, CountingKept DEF Worker
  <1>4. \A v \in Worker : ~Walking(v)' => count'[v] = 0
    BY <1>0, <1>2 DEF Accounts, Walking
  <1>5. ASSUME NEW t \in Token \ released', owner'[t] = t PROVE Balanced(t)'
    <2>1. owner[t] = t
      BY <1>0, <1>2, <1>5 DEF TypeOK
    <2>2. Balanced(t)
      BY <1>0, <1>2, <1>5, <2>1 DEF Accounts
    <2> QED
      BY <1>1, <1>2, <1>3, <2>2, BalancedKept
  <1>6. \A t : Active(t)' = Active(t)
    BY <1>2, ActiveSame
  <1>7. ASSUME NEW x \in Thread PROVE Drained(x)'
    <2>1. Drained(x) /\ (pc'[x] = "drain" => pc[x] = "drain" /\ token'[x] = token[x])
      BY <1>0, <1>2 DEF Accounts, Worker
    <2> QED
      BY <1>1, <1>3, <1>6, <2>1, DrainedKept
  <1> QED
    BY <1>4, <1>5, <1>7 DEF Accounts

LEMMA RaiseSpliceAccounts ==
    ASSUME HandoffInv, NEW th \in Thread, RaiseSplice(th)
    PROVE  Accounts'
  <1>0. TypeOK /\ Accounts /\ Roles /\ Tokens /\ Back \notin Token
    BY HandoffAssumption DEF HandoffInv
  <1>1. /\ pc[th] = "splice" /\ th \in Worker /\ pc'[th] \in {"clear", "relink"}
        /\ \A v \in Worker : v # th => pc'[v] = pc[v]
        /\ target[th] \in Token /\ target[th] = token[th] /\ owner[target[th]] = Back
        /\ owner' = owner /\ released' = released /\ state' = state /\ home' = home
        /\ token' = token /\ into' = into /\ count' = count /\ async_returned' = async_returned
        /\ \A v \in Worker : Walking(v)' <=> Walking(v)
        /\ \A t : Walker(t)' = Walker(t)
    BY RaiseSpliceFacts
  <1>2. \A t : t \notin {Back, target[th]} => Queue(t)' = Queue(t)
    BY RaiseSpliceQueues
  <1>3. \A t : Counting(t)' = Counting(t)
    BY <1>1, CountingKept DEF Worker
  <1>4. \A v \in Worker : ~Walking(v)' => count'[v] = 0
    BY <1>0, <1>1 DEF Accounts
  <1>5. ASSUME NEW t \in Token \ released', owner'[t] = t PROVE Balanced(t)'
    <2>1. Balanced(t) /\ t \notin {Back, target[th]}
      BY <1>0, <1>1, <1>5 DEF Accounts
    <2> QED
      BY <1>1, <1>2, <1>3, <2>1, BalancedKept
  <1>6. \A t : Active(t)' = Active(t)
    BY <1>1, ActiveSame
  <1>7. ASSUME NEW x \in Thread PROVE Drained(x)'
    <2>1. Drained(x) /\ (pc'[x] = "drain" => pc[x] = "drain" /\ token'[x] = token[x])
      BY <1>0, <1>1 DEF Accounts, Worker
    <2>2. pc[x] = "drain" => token[x] \notin {Back, target[th]}
      BY <1>0, <1>1 DEF Roles, RoleOf, Tokens, TypeOK
    <2> QED
      BY <1>2, <1>3, <1>6, <2>1, <2>2, DrainedKept
  <1> QED
    BY <1>4, <1>5, <1>7 DEF Accounts

LEMMA StepAccounts ==
    ASSUME HandoffInv, Next
    PROVE  Accounts'
  <1>0. TypeOK /\ \A th \in Thread : th \in Worker /\ th # Mem
    BY HandoffAssumption DEF HandoffInv, Worker
  <1>1. ASSUME NEW th \in Thread, NEW o \in Object, NEW t \in Token, Alloc(th, o, t)
        PROVE  Accounts'
    BY <1>1, AllocAccounts
  <1>2. ASSUME NEW th \in Thread, NEW o \in Object, FreeOwn(th, o)
        PROVE  Accounts'
    <2>1. CalmStep
      BY <1>2, FreeOwnCalm
    <2>2. count' = count /\ async_returned' = async_returned /\ token' = token /\ home' = home
      BY <1>2 DEF FreeOwn, popVars, listVars, tokenVars
    <2>3. \A x \in Thread : /\ pc'[x] \in {"link", "count"} <=> pc[x] \in {"link", "count"}
                            /\ pc[x] \in {"link", "count"} => into'[x] = into[x]
      BY <1>0, <1>2 DEF FreeOwn, Goto, TypeOK, PopLazily
    <2>4. \A x \in Thread : pc'[x] = "drain" => pc[x] = "drain"
      BY <1>0, <1>2 DEF FreeOwn, Goto, TypeOK, PopLazily
    <2>5. \A p \in Object : state'[p] \in {"new", "live", "freeing", "queued"}
                               <=> state[p] \in {"new", "live", "freeing", "queued"}
      BY <1>0, <1>2 DEF FreeOwn, TypeOK
    <2> QED
      BY <2>1, <2>2, <2>3, <2>4, <2>5, ActiveSame, AccountsCalm
  <1>3. ASSUME NEW th \in Thread, Resume(th)
        PROVE  Accounts'
    BY <1>3, ResumeAccounts
  <1>4. ASSUME NEW w \in Worker, PopBegin(w)
        PROVE  Accounts'
    BY <1>4, PopBeginAccounts
  <1>5. ASSUME NEW w \in Worker, PopNode(w)
        PROVE  Accounts'
    BY <1>5, PopNodeAccounts
  <1>6. ASSUME NEW w \in Worker, PopLast(w)
        PROVE  Accounts'
    BY <1>6, PopLastAccounts
  <1>7. ASSUME NEW th \in Thread, DrainLast(th)
        PROVE  Accounts'
    BY <1>7, DrainLastAccounts
  <1>8. ASSUME MemWake
        PROVE  Accounts'
    <2>1. CalmStep
      BY <1>8, MemWakeCalm
    <2>2. count' = count /\ async_returned' = async_returned /\ token' = token /\ home' = home
      BY <1>8 DEF MemWake, popVars, listVars, tokenVars
    <2>3. \A x \in Thread : /\ pc'[x] \in {"link", "count"} <=> pc[x] \in {"link", "count"}
                            /\ pc[x] \in {"link", "count"} => into'[x] = into[x]
      BY <1>0, <1>8 DEF MemWake, Goto, TypeOK, localVars
    <2>4. \A x \in Thread : pc'[x] = "drain" => pc[x] = "drain"
      BY <1>0, <1>8 DEF MemWake, Goto, TypeOK
    <2>5. \A p \in Object : state'[p] \in {"new", "live", "freeing", "queued"}
                               <=> state[p] \in {"new", "live", "freeing", "queued"}
      BY <1>0, <1>8 DEF MemWake, TypeOK
    <2> QED
      BY <2>1, <2>2, <2>3, <2>4, <2>5, ActiveSame, AccountsCalm
  <1>9. ASSUME NEW th \in Thread, NEW o \in Object, PushEnter(th, o)
        PROVE  Accounts'
    <2>1. CalmStep
      BY <1>9, PushEnterCalm
    <2>2. count' = count /\ async_returned' = async_returned /\ token' = token /\ home' = home
      BY <1>9 DEF PushEnter, popVars, listVars
    <2>3. \A x \in Thread : /\ pc'[x] \in {"link", "count"} <=> pc[x] \in {"link", "count"}
                            /\ pc[x] \in {"link", "count"} => into'[x] = into[x]
      BY <1>0, <1>9 DEF PushEnter, Goto, TypeOK
    <2>4. \A x \in Thread : pc'[x] = "drain" => pc[x] = "drain"
      BY <1>0, <1>9 DEF PushEnter, Goto, TypeOK
    <2>5. \A p \in Object : state'[p] \in {"new", "live", "freeing", "queued"}
                               <=> state[p] \in {"new", "live", "freeing", "queued"}
      BY <1>0, <1>9 DEF PushEnter, TypeOK
    <2> QED
      BY <2>1, <2>2, <2>3, <2>4, <2>5, ActiveSame, AccountsCalm
  <1>10. ASSUME NEW th \in Thread, PushWait(th)
        PROVE  Accounts'
    <2>1. CalmStep
      BY <1>10, PushWaitCalm
    <2>2. count' = count /\ async_returned' = async_returned /\ token' = token /\ home' = home
      BY <1>10 DEF PushWait, popVars, listVars, tokenVars
    <2>3. \A x \in Thread : /\ pc'[x] \in {"link", "count"} <=> pc[x] \in {"link", "count"}
                            /\ pc[x] \in {"link", "count"} => into'[x] = into[x]
      BY <1>0, <1>10 DEF PushWait, Goto, TypeOK, localVars
    <2>4. \A x \in Thread : pc'[x] = "drain" => pc[x] = "drain"
      BY <1>0, <1>10 DEF PushWait, Goto, TypeOK
    <2>5. \A p \in Object : state'[p] \in {"new", "live", "freeing", "queued"}
                               <=> state[p] \in {"new", "live", "freeing", "queued"}
      BY <1>0, <1>10 DEF PushWait, TypeOK
    <2> QED
      BY <2>1, <2>2, <2>3, <2>4, <2>5, ActiveSame, AccountsCalm
  <1>11. ASSUME NEW th \in Thread, PushLoad(th)
        PROVE  Accounts'
    <2>1. CalmStep
      BY <1>11, PushLoadCalm
    <2>2. count' = count /\ async_returned' = async_returned /\ token' = token /\ home' = home
      BY <1>11 DEF PushLoad, popVars, listVars, tokenVars
    <2>3. \A x \in Thread : /\ pc'[x] \in {"link", "count"} <=> pc[x] \in {"link", "count"}
                            /\ pc[x] \in {"link", "count"} => into'[x] = into[x]
      BY <1>0, <1>11 DEF PushLoad, Goto, TypeOK
    <2>4. \A x \in Thread : pc'[x] = "drain" => pc[x] = "drain"
      BY <1>0, <1>11 DEF PushLoad, Goto, TypeOK
    <2>5. \A p \in Object : state'[p] \in {"new", "live", "freeing", "queued"}
                               <=> state[p] \in {"new", "live", "freeing", "queued"}
      BY <1>0, <1>11 DEF PushLoad, TypeOK
    <2> QED
      BY <2>1, <2>2, <2>3, <2>4, <2>5, ActiveSame, AccountsCalm
  <1>12. ASSUME NEW th \in Thread, PushSwap(th)
        PROVE  Accounts'
    BY <1>12, PushSwapAccounts
  <1>13. ASSUME NEW th \in Thread, PushLink(th)
        PROVE  Accounts'
    <2>1. CalmStep
      BY <1>13, PushLinkCalm
    <2>2. count' = count /\ async_returned' = async_returned /\ token' = token /\ home' = home
      BY <1>13 DEF PushLink, popVars, tokenVars
    <2>3. \A x \in Thread : /\ pc'[x] \in {"link", "count"} <=> pc[x] \in {"link", "count"}
                            /\ pc[x] \in {"link", "count"} => into'[x] = into[x]
      BY <1>0, <1>13 DEF PushLink, Goto, TypeOK, localVars
    <2>4. \A x \in Thread : pc'[x] = "drain" => pc[x] = "drain"
      BY <1>0, <1>13 DEF PushLink, Goto, TypeOK
    <2>5. \A p \in Object : state'[p] \in {"new", "live", "freeing", "queued"}
                               <=> state[p] \in {"new", "live", "freeing", "queued"}
      BY <1>0, <1>13 DEF PushLink, TypeOK
    <2> QED
      BY <2>1, <2>2, <2>3, <2>4, <2>5, ActiveSame, AccountsCalm
  <1>14. ASSUME NEW th \in Thread, PushCount(th)
        PROVE  Accounts'
    BY <1>14, PushCountAccounts
  <1>15. ASSUME NEW th \in Thread, PushExit(th)
        PROVE  Accounts'
    <2>1. CalmStep
      BY <1>15, PushExitCalm
    <2>2. count' = count /\ async_returned' = async_returned /\ token' = token /\ home' = home
      BY <1>15 DEF PushExit, popVars, listVars
    <2>3. \A x \in Thread : /\ pc'[x] \in {"link", "count"} <=> pc[x] \in {"link", "count"}
                            /\ pc[x] \in {"link", "count"} => into'[x] = into[x]
      BY <1>0, <1>15 DEF PushExit, Goto, TypeOK
    <2>4. \A x \in Thread : pc'[x] = "drain" => pc[x] = "drain"
      BY <1>0, <1>15 DEF PushExit, Goto, TypeOK
    <2>5. \A p \in Object : state'[p] \in {"new", "live", "freeing", "queued"}
                               <=> state[p] \in {"new", "live", "freeing", "queued"}
      BY <1>0, <1>15 DEF PushExit, TypeOK
    <2> QED
      BY <2>1, <2>2, <2>3, <2>4, <2>5, ActiveSame, AccountsCalm
  <1>16. ASSUME NEW th \in Thread, ExitPlain(th)
        PROVE  Accounts'
    <2>1. CalmStep
      BY <1>16, ExitPlainCalm
    <2>2. count' = count /\ async_returned' = async_returned /\ token' = token /\ home' = home
      BY <1>16 DEF ExitPlain, popVars, listVars, tokenVars
    <2>3. \A x \in Thread : /\ pc'[x] \in {"link", "count"} <=> pc[x] \in {"link", "count"}
                            /\ pc[x] \in {"link", "count"} => into'[x] = into[x]
      BY <1>0, <1>16 DEF ExitPlain, Goto, TypeOK, localVars
    <2>4. \A x \in Thread : pc'[x] = "drain" => pc[x] = "drain"
      BY <1>0, <1>16 DEF ExitPlain, Goto, TypeOK
    <2>5. \A p \in Object : state'[p] \in {"new", "live", "freeing", "queued"}
                               <=> state[p] \in {"new", "live", "freeing", "queued"}
      BY <1>0, <1>16 DEF ExitPlain, TypeOK
    <2> QED
      BY <2>1, <2>2, <2>3, <2>4, <2>5, ActiveSame, AccountsCalm
  <1>17. ASSUME NEW th \in Thread, ExitDrain(th)
        PROVE  Accounts'
    BY <1>17, ExitDrainAccounts
  <1>18. ASSUME NEW th \in Thread, RaiseBegin(th)
        PROVE  Accounts'
    <2>1. CalmStep
      BY <1>18, RaiseBeginCalm
    <2>2. count' = count /\ async_returned' = async_returned /\ token' = token /\ home' = home
      BY <1>18 DEF RaiseBegin, popVars, listVars
    <2>3. \A x \in Thread : /\ pc'[x] \in {"link", "count"} <=> pc[x] \in {"link", "count"}
                            /\ pc[x] \in {"link", "count"} => into'[x] = into[x]
      BY <1>0, <1>18 DEF RaiseBegin, Goto, TypeOK
    <2>4. \A x \in Thread : pc'[x] = "drain" => pc[x] = "drain"
      BY <1>0, <1>18 DEF RaiseBegin, Goto, TypeOK
    <2>5. \A p \in Object : state'[p] \in {"new", "live", "freeing", "queued"}
                               <=> state[p] \in {"new", "live", "freeing", "queued"}
      BY <1>0, <1>18 DEF RaiseBegin, TypeOK
    <2> QED
      BY <2>1, <2>2, <2>3, <2>4, <2>5, ActiveSame, AccountsCalm
  <1>19. ASSUME NEW th \in Thread, RaiseOwner(th)
        PROVE  Accounts'
    BY <1>19, RaiseOwnerAccounts
  <1>20. ASSUME NEW th \in Thread, RaiseSplice(th)
        PROVE  Accounts'
    BY <1>20, RaiseSpliceAccounts
  <1>21. ASSUME NEW th \in Thread, RaiseLink(th)
        PROVE  Accounts'
    <2>1. CalmStep
      BY <1>21, RaiseLinkCalm
    <2>2. count' = count /\ async_returned' = async_returned /\ token' = token /\ home' = home
      BY <1>21 DEF RaiseLink, popVars, tokenVars
    <2>3. \A x \in Thread : /\ pc'[x] \in {"link", "count"} <=> pc[x] \in {"link", "count"}
                            /\ pc[x] \in {"link", "count"} => into'[x] = into[x]
      BY <1>0, <1>21 DEF RaiseLink, Goto, TypeOK, localVars
    <2>4. \A x \in Thread : pc'[x] = "drain" => pc[x] = "drain"
      BY <1>0, <1>21 DEF RaiseLink, Goto, TypeOK
    <2>5. \A p \in Object : state'[p] \in {"new", "live", "freeing", "queued"}
                               <=> state[p] \in {"new", "live", "freeing", "queued"}
      BY <1>0, <1>21 DEF RaiseLink, TypeOK
    <2> QED
      BY <2>1, <2>2, <2>3, <2>4, <2>5, ActiveSame, AccountsCalm
  <1>22. ASSUME NEW th \in Thread, RaiseEnd(th)
        PROVE  Accounts'
    <2>1. CalmStep
      BY <1>22, RaiseEndCalm
    <2>2. count' = count /\ async_returned' = async_returned /\ token' = token /\ home' = home
      BY <1>22 DEF RaiseEnd, popVars, listVars
    <2>3. \A x \in Thread : /\ pc'[x] \in {"link", "count"} <=> pc[x] \in {"link", "count"}
                            /\ pc[x] \in {"link", "count"} => into'[x] = into[x]
      BY <1>0, <1>22 DEF RaiseEnd, Goto, TypeOK
    <2>4. \A x \in Thread : pc'[x] = "drain" => pc[x] = "drain"
      BY <1>0, <1>22 DEF RaiseEnd, Goto, TypeOK
    <2>5. \A p \in Object : state'[p] \in {"new", "live", "freeing", "queued"}
                               <=> state[p] \in {"new", "live", "freeing", "queued"}
      BY <1>0, <1>22 DEF RaiseEnd, TypeOK
    <2> QED
      BY <2>1, <2>2, <2>3, <2>4, <2>5, ActiveSame, AccountsCalm
  <1> QED
    BY <1>1, <1>2, <1>3, <1>4, <1>5, <1>6, <1>7, <1>8, <1>9, <1>10, <1>11, <1>12,
       <1>13, <1>14, <1>15, <1>16, <1>17, <1>18, <1>19, <1>20, <1>21, <1>22 DEF Next, Step,
       Call, Pop, Worker

------------------------------------------------------------------------------
(* The invariant is kept by every step, and by every step that changes      *)
(* nothing.                                                                 *)

LEMMA StepLists ==
    ASSUME HandoffInv, Next
    PROVE  Listing' /\ OneWay'
  <1>1. ASSUME NEW th \in Thread, NEW o \in Object, NEW t \in Token, Alloc(th, o, t)
        PROVE  Listing' /\ OneWay'
    BY <1>1, AllocCalm, CalmLists
  <1>2. ASSUME NEW th \in Thread, NEW o \in Object, FreeOwn(th, o)
        PROVE  Listing' /\ OneWay'
    BY <1>2, FreeOwnCalm, CalmLists
  <1>3. ASSUME NEW th \in Thread, Resume(th)
        PROVE  Listing' /\ OneWay'
    BY <1>3, ResumeCalm, CalmLists
  <1>4. ASSUME NEW w \in Worker, PopBegin(w)
        PROVE  Listing' /\ OneWay'
    BY <1>4, PopBeginLists
  <1>5. ASSUME NEW w \in Worker, PopNode(w)
        PROVE  Listing' /\ OneWay'
    BY <1>5, PopNodeLists
  <1>6. ASSUME NEW w \in Worker, PopLast(w)
        PROVE  Listing' /\ OneWay'
    BY <1>6, PopLastLists
  <1>7. ASSUME NEW th \in Thread, DrainLast(th)
        PROVE  Listing' /\ OneWay'
    BY <1>7, DrainLastLists
  <1>8. ASSUME MemWake
        PROVE  Listing' /\ OneWay'
    BY <1>8, MemWakeCalm, CalmLists
  <1>9. ASSUME NEW th \in Thread, NEW o \in Object, PushEnter(th, o)
        PROVE  Listing' /\ OneWay'
    BY <1>9, PushEnterCalm, CalmLists
  <1>10. ASSUME NEW th \in Thread, PushWait(th)
        PROVE  Listing' /\ OneWay'
    BY <1>10, PushWaitCalm, CalmLists
  <1>11. ASSUME NEW th \in Thread, PushLoad(th)
        PROVE  Listing' /\ OneWay'
    BY <1>11, PushLoadCalm, CalmLists
  <1>12. ASSUME NEW th \in Thread, PushSwap(th)
        PROVE  Listing' /\ OneWay'
    BY <1>12, PushSwapLists
  <1>13. ASSUME NEW th \in Thread, PushLink(th)
        PROVE  Listing' /\ OneWay'
    BY <1>13, PushLinkCalm, CalmLists
  <1>14. ASSUME NEW th \in Thread, PushCount(th)
        PROVE  Listing' /\ OneWay'
    BY <1>14, PushCountCalm, CalmLists
  <1>15. ASSUME NEW th \in Thread, PushExit(th)
        PROVE  Listing' /\ OneWay'
    BY <1>15, PushExitCalm, CalmLists
  <1>16. ASSUME NEW th \in Thread, ExitPlain(th)
        PROVE  Listing' /\ OneWay'
    BY <1>16, ExitPlainCalm, CalmLists
  <1>17. ASSUME NEW th \in Thread, ExitDrain(th)
        PROVE  Listing' /\ OneWay'
    BY <1>17, ExitDrainLists
  <1>18. ASSUME NEW th \in Thread, RaiseBegin(th)
        PROVE  Listing' /\ OneWay'
    BY <1>18, RaiseBeginCalm, CalmLists
  <1>19. ASSUME NEW th \in Thread, RaiseOwner(th)
        PROVE  Listing' /\ OneWay'
    BY <1>19, RaiseOwnerLists
  <1>20. ASSUME NEW th \in Thread, RaiseSplice(th)
        PROVE  Listing' /\ OneWay'
    BY <1>20, RaiseSpliceLists
  <1>21. ASSUME NEW th \in Thread, RaiseLink(th)
        PROVE  Listing' /\ OneWay'
    BY <1>21, RaiseLinkCalm, CalmLists
  <1>22. ASSUME NEW th \in Thread, RaiseEnd(th)
        PROVE  Listing' /\ OneWay'
    BY <1>22, RaiseEndCalm, CalmLists
  <1> QED
    BY <1>1, <1>2, <1>3, <1>4, <1>5, <1>6, <1>7, <1>8, <1>9, <1>10, <1>11, <1>12,
       <1>13, <1>14, <1>15, <1>16, <1>17, <1>18, <1>19, <1>20, <1>21, <1>22 DEF Next, Step,
       Call, Pop, Worker

LEMMA StepStutter ==
    ASSUME HandoffInv, UNCHANGED vars
    PROVE  HandoffInv'
  <1>0. /\ TypeOK /\ Roles /\ Tokens /\ Pushes /\ Links
        /\ \A x \in Thread : x \in Worker
    BY DEF HandoffInv, Worker
  <1>a. /\ state' = state /\ home' = home /\ token' = token /\ released' = released
        /\ used' = used /\ owner' = owner /\ i_enter' = i_enter /\ i_exit' = i_exit
        /\ next' = next /\ tail' = tail /\ async_returned' = async_returned
        /\ skip_count' = skip_count /\ pc' = pc
    BY DEF vars, tokenVars, listVars
  <1>b. /\ obj' = obj /\ target' = target /\ into' = into /\ prev' = prev
        /\ current' = current /\ curr' = curr /\ count' = count
    BY DEF vars, localVars, popVars
  <1>1. TypeOK'
    BY <1>0, <1>a, <1>b DEF TypeOK
  <1>2. Roles'
    BY <1>0, <1>a, <1>b DEF Roles, RoleOf, Holding
  <1>3. \A t : Active(t)' = Active(t) /\ Busy(t)' = Busy(t) /\ (Raising(t)' <=> Raising(t))
    BY <1>a, <1>b DEF Active, Busy, Raising
  <1>4. Tokens'
    BY <1>0, <1>a, <1>b, <1>3 DEF Tokens
  <1>5. Pushes'
    BY <1>0, <1>a, <1>b, <1>3 DEF Pushes, PushesOf
  <1>6. CalmStep
    <2>1. \A x \in Thread :
              /\ Linking(x)' <=> Linking(x)
              /\ Linking(x) => /\ pc'[x] = pc[x] /\ prev'[x] = prev[x] /\ obj'[x] = obj[x]
                               /\ target'[x] = target[x]
      BY <1>a, <1>b DEF Linking
    <2>2. Succession' = Succession
      BY <1>a, <2>1, SuccessionQuiet
    <2>3. \A w \in Worker : /\ Walking(w)' <=> Walking(w)
                            /\ Walking(w) => curr'[w] = curr[w] /\ List(w)' = List(w)
      BY <1>a, <1>b DEF Walking, List
    <2> QED
      BY <1>a, <1>b, <2>2, <2>3 DEF CalmStep
  <1>7. Listing' /\ OneWay'
    BY <1>6, CalmLists
  <1>8. Links'
    <2>1. \A x \in Thread :
              /\ Linking(x) => IntoList(x) \notin released
              /\ pc[x] = "count" /\ into[x] \in Token => into[x] \notin released
      BY <1>0, LinkFacts, ListKept DEF Links
    <2>2. ASSUME NEW x \in Thread PROVE Linking(x)' => Linking(x)
      BY <1>a DEF Linking
    <2> QED
      BY <1>1, <1>6, <1>a, <1>b, <2>1, <2>2, LinksCalm
  <1>9. Walks'
    <2>1. \A x \in Thread : Linking(x)' => Linking(x)
      BY <1>a DEF Linking
    <2> QED
      BY <1>6, <1>b, <2>1, WalksCalm
  <1>10. Accounts'
    BY <1>3, <1>6, <1>a, <1>b, AccountsCalm
  <1> QED
    BY <1>1, <1>2, <1>4, <1>5, <1>7, <1>8, <1>9, <1>10 DEF HandoffInv

LEMMA InvStep == HandoffInv /\ [Next]_vars => HandoffInv'
  <1>1. ASSUME HandoffInv, Next PROVE HandoffInv'
    BY <1>1, StepTyped, StepRoles, StepTokens, StepPushes, StepLists, StepLinks, StepWalks,
       StepAccounts DEF HandoffInv
  <1>2. ASSUME HandoffInv, UNCHANGED vars PROVE HandoffInv'
    BY <1>2, StepStutter
  <1> QED
    BY <1>1, <1>2

------------------------------------------------------------------------------
(* The inductive invariant holds in every reachable state, whatever number  *)
(* of threads allocates, frees, pushes and ends (memory_flow.hpp:120-220,   *)
(* 384-500).                                                                *)
THEOREM HandoffInvariant == Spec => []HandoffInv
  BY InitInv, InvStep, PTL DEF Spec

(* The variables have the values the code gives them (the pushes begun and  *)
(* finished are never negative, skip_count stays below max_skip_times).     *)
THEOREM HandoffTypeCorrect == Spec => []TypeOK
  <1>1. HandoffInv => TypeOK
    BY DEF HandoffInv
  <1> QED
    BY <1>1, HandoffInvariant, PTL

(* Nobody touches what was given back and no two threads give back at once: *)
(* no push links to a freed node, no walk stands on one, the objects of a   *)
(* token are freed by its own thread or by the memory thread, never by both,*)
(* and a token outlives the pushes and the hand-over that work on it        *)
(* (memory_flow.hpp:120-220, 384-410).                                      *)
THEOREM HandoffIsSafe == Spec => []HandoffSafe
  BY HandoffInvariant, InvSafe, PTL

(* Nothing returned is lost or returned twice through pushes that race with *)
(* pops and with the splice of a hand-over, and a thread that ends and finds*)
(* everything returned has all of its objects on its list                   *)
(* (memory_flow.hpp:146-220, 384-410).                                      *)
THEOREM NothingIsLost == Spec => []AllAccounted
  BY HandoffInvariant, InvSafe, PTL
==============================================================================
