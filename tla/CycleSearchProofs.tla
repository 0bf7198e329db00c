-------------------------- MODULE CycleSearchProofs --------------------------
(****************************************************************************)
(* CycleSearch for any number of objects, fields, threads and variables:    *)
(* the counter of an object is never less than the references to it and the *)
(* pushes of it, whatever the search decides and whoever assigns meanwhile. *)
(* For a careful program the search is exact: what is used is kept and what *)
(* is not, rings included, is destroyed.                                    *)
(****************************************************************************)
EXTENDS CycleSearch, FiniteSetTheorems, TLAPS

Calls == [kind : {"routing", "destroy"}, node : Node, i : 1 .. Width + 1, arrive : BOOLEAN]

Routes(s, k) == k \in DOMAIN s /\ s[k].kind = "routing"

(* The stack of calls: searches are innermost, and the outermost of them is *)
(* that of the root, which counts as visited as long as it is searched.     *)
Nesting(s, root, marks) ==
    \A k \in DOMAIN s :
        /\ s[k].kind = "destroy" => \A j \in DOMAIN s : j > k => s[j].kind = "destroy"
        /\ s[k].kind = "routing" =>
            /\ root \in Node /\ marks[root] >= 0
            /\ Routes(s, k + 1) <=> s[k].node # root

(* OwnersCover, for the destroyed objects too                               *)
Refs(m, n)   == {c \in Ref : m[c] = n}
Pushes(q, n) == {k \in DOMAIN q : q[k] = n}
Covered == \A n \in Node : owners[n] >= Cardinality(Refs(mem, n)) + Cardinality(Pushes(queue, n))

SearchInv == TypeOK /\ Nesting(calls, g_root, visited) /\ Covered

------------------------------------------------------------------------------
(* Stacks                                                                   *)
LEMMA Popping ==
    ASSUME NEW S, NEW s \in Seq(S), s # <<>>
    PROVE  /\ Tail(s) \in Seq(S) /\ Len(Tail(s)) = Len(s) - 1
           /\ \A k \in 1 .. Len(s) - 1 : Tail(s)[k] = s[k + 1]
           /\ Head(s) = s[1] /\ s[1] \in S /\ Len(s) \in Nat \ {0}
           /\ DOMAIN s = 1 .. Len(s)
OBVIOUS

LEMMA Replacing ==
    ASSUME NEW S, NEW s \in Seq(S), s # <<>>, NEW a \in S
    PROVE  /\ <<a>> \o Tail(s) \in Seq(S) /\ Len(<<a>> \o Tail(s)) = Len(s)
           /\ (<<a>> \o Tail(s))[1] = a
           /\ \A k \in 2 .. Len(s) : (<<a>> \o Tail(s))[k] = s[k]
BY Popping

LEMMA Pushing ==
    ASSUME NEW S, NEW s \in Seq(S), s # <<>>, NEW a \in S, NEW b \in S
    PROVE  /\ <<a, b>> \o Tail(s) \in Seq(S) /\ Len(<<a, b>> \o Tail(s)) = Len(s) + 1
           /\ (<<a, b>> \o Tail(s))[1] = a /\ (<<a, b>> \o Tail(s))[2] = b
           /\ \A k \in 3 .. Len(s) + 1 : (<<a, b>> \o Tail(s))[k] = s[k - 1]
           /\ <<a>> \o (<<b>> \o Tail(s)) = <<a, b>> \o Tail(s)
<1> DEFINE t == Tail(s)
           u == <<b>> \o t
<1>1. t \in Seq(S) /\ Len(t) = Len(s) - 1 /\ Len(s) \in Nat \ {0}
      /\ \A k \in 1 .. Len(s) - 1 : t[k] = s[k + 1]
  BY Popping
<1> HIDE DEF t
<1>2. /\ <<a, b>> \o t \in Seq(S) /\ Len(<<a, b>> \o t) = Len(s) + 1
      /\ (<<a, b>> \o t)[1] = a /\ (<<a, b>> \o t)[2] = b
      /\ \A k \in 3 .. Len(s) + 1 : (<<a, b>> \o t)[k] = s[k - 1]
  BY <1>1
<1>3. u \in Seq(S) /\ Len(u) = Len(s) /\ u[1] = b /\ \A k \in 2 .. Len(s) : u[k] = s[k]
  BY <1>1
<1> HIDE DEF u
<1>4. /\ <<a>> \o u \in Seq(S) /\ Len(<<a>> \o u) = Len(s) + 1
      /\ (<<a>> \o u)[1] = a /\ (<<a>> \o u)[2] = b
      /\ \A k \in 3 .. Len(s) + 1 : (<<a>> \o u)[k] = s[k - 1]
  <2>1. <<a>> \o u \in Seq(S) /\ Len(<<a>> \o u) = Len(s) + 1 /\ (<<a>> \o u)[1] = a
    BY <1>1, <1>3
  <2>2. \A k \in 2 .. Len(s) + 1 : (<<a>> \o u)[k] = u[k - 1]
    BY <1>1, <1>3
  <2>3. (<<a>> \o u)[2] = u[1]
    <3>1. 2 \in 2 .. Len(s) + 1 /\ 2 - 1 = 1
      BY <1>1
    <3> QED
      BY <2>2, <3>1
  <2>4. ASSUME NEW k \in 3 .. Len(s) + 1
        PROVE  (<<a>> \o u)[k] = s[k - 1]
    <3>1. k \in 2 .. Len(s) + 1 /\ k - 1 \in 2 .. Len(s)
      BY <1>1
    <3> QED
      BY <1>3, <2>2, <3>1
  <2> QED
    BY <1>3, <2>1, <2>3, <2>4
<1>5. <<a>> \o u = <<a, b>> \o t
  <2>1. \A k \in 1 .. Len(s) + 1 : (<<a>> \o u)[k] = (<<a, b>> \o t)[k]
    BY <1>1, <1>2, <1>4
  <2>2. ASSUME NEW v \in Seq(S), NEW w \in Seq(S), Len(v) = Len(w),
               \A k \in 1 .. Len(v) : v[k] = w[k]
        PROVE  v = w
    BY <2>2
  <2> QED
    BY <1>2, <1>4, <2>1, <2>2
<1> QED
  BY <1>2, <1>5 DEF t, u

------------------------------------------------------------------------------
(* Every step of the filter thread keeps the nesting of its calls.          *)
LEMMA CallKinds ==
    ASSUME NEW s \in Seq(Calls)
    PROVE  \A k \in DOMAIN s : s[k].kind \in {"routing", "destroy"}
<1>1. \A k \in DOMAIN s : s[k] \in Calls
  OBVIOUS
<1> QED
  BY <1>1 DEF Calls

LEMMA NestTail ==
    ASSUME NEW s \in Seq(Calls), s # <<>>, NEW root, NEW marks, Nesting(s, root, marks)
    PROVE  Nesting(Tail(s), root, marks)
<1>1. DOMAIN Tail(s) = 1 .. Len(s) - 1 /\ DOMAIN s = 1 .. Len(s) /\ Len(s) \in Nat \ {0}
  BY Popping
<1>2. \A k \in 1 .. Len(s) - 1 : Tail(s)[k] = s[k + 1]
  BY Popping
<1> QED
  BY <1>1, <1>2 DEF Nesting, Routes

LEMMA NestTop ==
    ASSUME NEW s \in Seq(Calls), s # <<>>, NEW root, NEW marks, Nesting(s, root, marks),
           NEW a \in Calls, a.kind = s[1].kind, a.node = s[1].node,
           NEW marks1, s[1].kind = "routing" => marks1[root] >= 0
    PROVE  Nesting(<<a>> \o Tail(s), root, marks1)
<1> DEFINE t == <<a>> \o Tail(s)
<1>1. DOMAIN t = 1 .. Len(s) /\ DOMAIN s = 1 .. Len(s) /\ Len(s) \in Nat \ {0}
  BY Popping, Replacing
<1>2. t[1] = a /\ \A k \in 2 .. Len(s) : t[k] = s[k]
  BY Replacing
<1>3. \A k \in DOMAIN s : s[k].kind \in {"routing", "destroy"}
  BY CallKinds
<1> HIDE DEF t
<1>4. s[1].kind = "destroy" => \A k \in 1 .. Len(s) : t[k].kind = "destroy"
  BY <1>1, <1>2, <1>3 DEF Nesting
<1>5. Nesting(t, root, marks1)
  <2>1. CASE s[1].kind = "destroy"
    BY <1>1, <1>4, <2>1 DEF Nesting, Routes
  <2>2. CASE s[1].kind = "routing"
    BY <1>1, <1>2, <1>3, <2>2 DEF Nesting, Routes
  <2> QED
    BY <1>1, <1>3, <2>1, <2>2
<1> QED
  BY <1>5 DEF t

LEMMA NestVerdict ==
    ASSUME NEW s \in Seq(Calls), s # <<>>, NEW root, NEW marks, Nesting(s, root, marks),
           s[1].kind = "routing", s[1].node = root,
           NEW a \in Calls, a.kind = "destroy"
    PROVE  Nesting(<<a>> \o Tail(s), root, marks)
<1> DEFINE t == <<a>> \o Tail(s)
<1>1. DOMAIN t = 1 .. Len(s) /\ DOMAIN s = 1 .. Len(s) /\ Len(s) \in Nat \ {0}
  BY Popping, Replacing
<1>2. t[1] = a /\ \A k \in 2 .. Len(s) : t[k] = s[k]
  BY Replacing
<1>3. \A k \in DOMAIN s : s[k].kind \in {"routing", "destroy"}
  BY CallKinds
<1> HIDE DEF t
<1>4. \A k \in 2 .. Len(s) : s[k].kind = "destroy"
  <2>1. ~Routes(s, 2)
    BY <1>1 DEF Nesting
  <2>2. Len(s) >= 2 => s[2].kind = "destroy"
    BY <1>1, <1>3, <2>1 DEF Routes
  <2> QED
    BY <1>1, <2>2 DEF Nesting
<1>5. \A k \in 1 .. Len(s) : t[k].kind = "destroy"
  BY <1>1, <1>2, <1>4
<1>6. Nesting(t, root, marks)
  BY <1>1, <1>5 DEF Nesting, Routes
<1> QED
  BY <1>6 DEF t

LEMMA NestDestroy ==
    ASSUME NEW s \in Seq(Calls), s # <<>>, NEW root, NEW marks, Nesting(s, root, marks),
           s[1].kind = "destroy",
           NEW a \in Calls, NEW b \in Calls, b.kind = "destroy",
           NEW root1, NEW marks1,
           a.kind = "routing" => a.node = root1 /\ root1 \in Node /\ marks1[root1] >= 0
    PROVE  Nesting(<<a, b>> \o Tail(s), root1, marks1)
<1> DEFINE t == <<a, b>> \o Tail(s)
<1>1. DOMAIN t = 1 .. Len(s) + 1 /\ DOMAIN s = 1 .. Len(s) /\ Len(s) \in Nat \ {0}
  BY Popping, Pushing
<1>2. t[1] = a /\ t[2] = b /\ \A k \in 3 .. Len(s) + 1 : t[k] = s[k - 1]
  BY Pushing
<1> HIDE DEF t
<1>3. \A k \in 2 .. Len(s) + 1 : t[k].kind = "destroy"
  BY <1>1, <1>2 DEF Nesting
<1>4. Nesting(t, root1, marks1)
  BY <1>1, <1>2, <1>3 DEF Nesting, Routes
<1> QED
  BY <1>4 DEF t

LEMMA NestRoute ==
    ASSUME NEW s \in Seq(Calls), s # <<>>, NEW root, NEW marks, Nesting(s, root, marks),
           s[1].kind = "routing",
           NEW a \in Calls, NEW b \in Calls, a.kind = "routing", a.node # root,
           b.kind = "routing", b.node = s[1].node,
           NEW marks1, marks1[root] >= 0
    PROVE  Nesting(<<a, b>> \o Tail(s), root, marks1)
<1> DEFINE t == <<a, b>> \o Tail(s)
<1>1. DOMAIN t = 1 .. Len(s) + 1 /\ DOMAIN s = 1 .. Len(s) /\ Len(s) \in Nat \ {0}
  BY Popping, Pushing
<1>2. t[1] = a /\ t[2] = b /\ \A k \in 3 .. Len(s) + 1 : t[k] = s[k - 1]
  BY Pushing
<1> HIDE DEF t
<1>3. root \in Node
  BY <1>1 DEF Nesting
<1>4. \A k \in 2 .. Len(s) + 1 : t[k].kind = s[k - 1].kind /\ t[k].node = s[k - 1].node
  BY <1>1, <1>2
<1>5. \A k \in 2 .. Len(s) + 1 : Routes(t, k + 1) <=> Routes(s, k)
  BY <1>1, <1>4 DEF Routes
<1>6. Nesting(t, root, marks1)
  <2> SUFFICES ASSUME NEW k \in 1 .. Len(s) + 1
               PROVE  /\ t[k].kind = "destroy" => \A j \in 1 .. Len(s) + 1 : j > k => t[j].kind = "destroy"
                      /\ t[k].kind = "routing" => (Routes(t, k + 1) <=> t[k].node # root)
    BY <1>1, <1>3 DEF Nesting
  <2>1. CASE k = 1
    BY <1>1, <1>2, <2>1 DEF Routes
  <2>2. CASE k # 1
    <3>1. k - 1 \in DOMAIN s /\ k \in 2 .. Len(s) + 1
      BY <1>1, <2>2
    <3>2. ASSUME t[k].kind = "destroy", NEW j \in 1 .. Len(s) + 1, j > k
          PROVE  t[j].kind = "destroy"
      <4>1. s[k - 1].kind = "destroy"
        BY <1>4, <3>1, <3>2
      <4>2. j - 1 \in DOMAIN s /\ j - 1 > k - 1 /\ j \in 2 .. Len(s) + 1
        BY <1>1, <3>1, <3>2
      <4>3. s[j - 1].kind = "destroy"
        BY <3>1, <4>1, <4>2 DEF Nesting
      <4> QED
        BY <1>4, <4>2, <4>3
    <3>3. ASSUME t[k].kind = "routing"
          PROVE  Routes(t, k + 1) <=> t[k].node # root
      <4>1. s[k - 1].kind = "routing" /\ t[k].node = s[k - 1].node
        BY <1>4, <3>1, <3>3
      <4>2. Routes(s, (k - 1) + 1) <=> s[k - 1].node # root
        BY <3>1, <4>1 DEF Nesting
      <4>3. (k - 1) + 1 = k
        BY <3>1
      <4> QED
        BY <1>5, <3>1, <4>1, <4>2, <4>3
    <3> QED
      BY <3>2, <3>3
  <2> QED
    BY <2>1, <2>2
<1> QED
  BY <1>6 DEF t

------------------------------------------------------------------------------
(* Counting                                                                 *)
Same(a, b) == IF a = b THEN 1 ELSE 0

LEMMA RefFinite == IsFiniteSet(Ref)
<1>1. IsFiniteSet(1 .. Width)
  BY FS_Interval, CycleAssumption
<1>2. IsFiniteSet(Node \X (1 .. Width)) /\ IsFiniteSet(Thread \X Local)
  BY <1>1, FS_Product, CycleAssumption
<1>3. Ref = (Node \X (1 .. Width)) \cup (Thread \X Local)
  <2>1. UNION {Field(n) : n \in Node} = Node \X (1 .. Width)
    <3>1. \A n : Field(n) = {n} \X (1 .. Width)
      BY DEF Field
    <3> QED
      BY <3>1
  <2> QED
    BY <2>1 DEF Ref
<1> QED
  BY <1>2, <1>3, FS_Union

LEMMA RefCount ==
    ASSUME NEW m, NEW n
    PROVE  Cardinality(Refs(m, n)) \in Nat
<1>1. IsFiniteSet(Refs(m, n))
  BY RefFinite, FS_Subset DEF Refs
<1> QED
  BY <1>1, FS_CardinalityType

LEMMA PushCount ==
    ASSUME NEW q \in Seq(Node), NEW n
    PROVE  IsFiniteSet(Pushes(q, n)) /\ Cardinality(Pushes(q, n)) \in Nat
<1>1. IsFiniteSet(1 .. Len(q))
  BY FS_Interval
<1>2. Pushes(q, n) \subseteq 1 .. Len(q)
  BY DEF Pushes
<1>3. IsFiniteSet(Pushes(q, n))
  BY <1>1, <1>2, FS_Subset
<1> QED
  BY <1>3, FS_CardinalityType

(* One reference is given another value.                                    *)
Assigned(f, c, v, g) == \A r \in Ref : g[r] = IF r = c THEN v ELSE f[r]

LEMMA Redirected ==
    ASSUME NEW f, NEW c \in Ref, NEW v, NEW g, Assigned(f, c, v, g), NEW n
    PROVE  Cardinality(Refs(g, n)) = Cardinality(Refs(f, n)) - Same(f[c], n) + Same(v, n)
<1> DEFINE A == Refs(f, n)
           B == Refs(g, n)
<1>1. IsFiniteSet(A) /\ IsFiniteSet(B)
  BY RefFinite, FS_Subset DEF Refs
<1>2. A \ {c} = B \ {c} /\ (c \in A <=> f[c] = n) /\ (c \in B <=> v = n)
  BY DEF Refs, Assigned
<1> HIDE DEF A, B
<1>3. Cardinality(A \ {c}) = IF c \in A THEN Cardinality(A) - 1 ELSE Cardinality(A)
  BY <1>1, FS_RemoveElement
<1>4. Cardinality(B \ {c}) = IF c \in B THEN Cardinality(B) - 1 ELSE Cardinality(B)
  BY <1>1, FS_RemoveElement
<1>5. Cardinality(A) \in Nat /\ Cardinality(B) \in Nat
  BY <1>1, FS_CardinalityType
<1>6. Cardinality(B) = Cardinality(A) - Same(f[c], n) + Same(v, n)
  BY <1>2, <1>3, <1>4, <1>5 DEF Same
<1> QED
  BY <1>6 DEF A, B

(* One object is pushed.                                                    *)
LEMMA PushedOn ==
    ASSUME NEW q \in Seq(Node), NEW x \in Node, NEW n
    PROVE  Cardinality(Pushes(Append(q, x), n)) = Cardinality(Pushes(q, n)) + Same(x, n)
<1> DEFINE A == Pushes(q, n)
           B == Pushes(Append(q, x), n)
<1>1. IsFiniteSet(A) /\ Cardinality(A) \in Nat
  BY PushCount
<1>2. Len(q) + 1 \notin A
  BY DEF Pushes
<1>3. B = IF x = n THEN A \cup {Len(q) + 1} ELSE A
  BY DEF Pushes
<1> HIDE DEF A, B
<1>4. Cardinality(B) = Cardinality(A) + Same(x, n)
  <2>1. Cardinality(A \cup {Len(q) + 1}) = Cardinality(A) + 1
    BY <1>1, <1>2, FS_AddElement
  <2> QED
    BY <1>1, <1>3, <2>1 DEF Same
<1> QED
  BY <1>4 DEF A, B

------------------------------------------------------------------------------
(* The first states: every reference is counted, nothing is pushed.         *)
LEMMA SearchInit == Init => SearchInv
<1> SUFFICES ASSUME Init PROVE SearchInv
  OBVIOUS
<1>1. calls = <<>> /\ queue = <<>> /\ batch = <<>> /\ g_root = Null
  BY DEF Init
<1>2. \A n \in Node : Pushes(queue, n) = {} /\ owners[n] = Cardinality(Refs(mem, n))
  BY <1>1 DEF Init, Pushes, Refs
<1>3. owners \in [Node -> Nat]
  <2>1. \A n : Cardinality(Refs(mem, n)) \in Nat
    BY RefCount
  <2>2. \A n : Cardinality({c \in Ref : mem[c] = n}) \in Nat
    BY <2>1 DEF Refs
  <2> QED
    BY <2>2 DEF Init
<1>4. TypeOK
  BY <1>1, <1>3, CycleAssumption DEF Init, TypeOK
<1>5. Nesting(calls, g_root, visited)
  BY <1>1 DEF Nesting
<1>6. Covered
  <2> SUFFICES ASSUME NEW n \in Node
               PROVE  owners[n] >= Cardinality(Refs(mem, n)) + Cardinality(Pushes(queue, n))
    BY DEF Covered
  <2>1. Cardinality(Refs(mem, n)) \in Nat
    BY RefCount
  <2>2. Cardinality(Pushes(queue, n)) = 0
    BY <1>2, FS_EmptySet
  <2> QED
    BY <1>2, <2>1, <2>2
<1> QED
  BY <1>4, <1>5, <1>6 DEF SearchInv

(* What the steps of the search and of the destructions have in common      *)
LEMMA TopCall ==
    ASSUME TypeOK, calls # <<>>
    PROVE  /\ calls \in Seq(Calls) /\ Top = calls[1] /\ Top \in Calls
           /\ Top.node \in Node /\ Top.i \in 1 .. Width + 1 /\ Top.arrive \in BOOLEAN
           /\ Tail(calls) \in Seq(Calls) /\ DOMAIN calls = 1 .. Len(calls) /\ Len(calls) \in Nat \ {0}
<1>1. calls \in Seq(Calls)
  BY DEF TypeOK, Calls
<1>2. Head(calls) = calls[1] /\ calls[1] \in Calls /\ Tail(calls) \in Seq(Calls)
      /\ DOMAIN calls = 1 .. Len(calls) /\ Len(calls) \in Nat \ {0}
  BY <1>1, Popping
<1> QED
  BY <1>1, <1>2 DEF Top, Calls

LEMMA NewCall ==
    ASSUME NEW kind \in {"routing", "destroy"}, NEW n \in Node
    PROVE  Call(kind, n) \in Calls /\ Call(kind, n).kind = kind /\ Call(kind, n).node = n
BY CycleAssumption DEF Call, Calls

LEMMA UpdatedRecord ==
    ASSUME NEW K, NEW N, NEW I, NEW A, NEW c \in [kind : K, node : N, i : I, arrive : A],
           NEW x \in I, NEW b \in A
    PROVE  LET d == [c EXCEPT !.i = x, !.arrive = b]
               e == [c EXCEPT !.i = x]
               f == [c EXCEPT !.arrive = b]
           IN  /\ d \in [kind : K, node : N, i : I, arrive : A] /\ d.kind = c.kind /\ d.node = c.node
               /\ e \in [kind : K, node : N, i : I, arrive : A] /\ e.kind = c.kind /\ e.node = c.node
               /\ f \in [kind : K, node : N, i : I, arrive : A] /\ f.kind = c.kind /\ f.node = c.node
OBVIOUS

LEMMA NextField ==
    ASSUME NEW c \in Calls, NEW arrive \in BOOLEAN
    PROVE  LET d == [c EXCEPT !.i = @ + 1, !.arrive = @ \/ arrive]
               e == [c EXCEPT !.i = @ + 1]
               f == [c EXCEPT !.arrive = @ \/ arrive]
           IN  /\ c.i <= Width => d \in Calls /\ d.kind = c.kind /\ d.node = c.node
               /\ c.i <= Width => e \in Calls /\ e.kind = c.kind /\ e.node = c.node
               /\ f \in Calls /\ f.kind = c.kind /\ f.node = c.node
<1>1. c.i \in 1 .. Width + 1 /\ (c.i <= Width => c.i + 1 \in 1 .. Width + 1)
  BY CycleAssumption DEF Calls
<1>2. (c.arrive \/ arrive) \in BOOLEAN
  BY DEF Calls
<1>3. \A x \in 1 .. Width + 1, b \in BOOLEAN :
        LET d == [c EXCEPT !.i = x, !.arrive = b]
            e == [c EXCEPT !.i = x]
            f == [c EXCEPT !.arrive = b]
        IN  /\ d \in Calls /\ d.kind = c.kind /\ d.node = c.node
            /\ e \in Calls /\ e.kind = c.kind /\ e.node = c.node
            /\ f \in Calls /\ f.kind = c.kind /\ f.node = c.node
  BY UpdatedRecord DEF Calls
<1> QED
  BY <1>1, <1>2, <1>3, Zenon

(* Whoever leaves references, counters and pushes alone keeps them covered. *)
LEMMA CoveredSame ==
    ASSUME Covered, UNCHANGED <<mem, owners, queue>>
    PROVE  Covered'
BY DEF Covered

(* A search begins: its root is visited.                                    *)
Started(n) ==
    /\ g_root' = n /\ g_degree_dvalue' \in Int
    /\ visited' \in [Node -> Int] /\ (\A m \in Node : visited'[m] >= -1) /\ visited'[n] >= 0
    /\ can_arrive_root' \in [Node -> BOOLEAN]

LEMMA StartTypes ==
    ASSUME TypeOK, NEW n \in Node, StartSearch(n)
    PROVE  Started(n)
BY DEF TypeOK, StartSearch, Started

(* A search goes on: what was visited stays so.                             *)
MarksKept ==
    /\ visited' \in [Node -> Int] /\ (\A m \in Node : visited'[m] >= -1)
    /\ \A m \in Node : visited[m] >= 0 => visited'[m] >= 0
    /\ can_arrive_root' \in [Node -> BOOLEAN] /\ g_degree_dvalue' \in Int

LEMMA NewMark ==
    ASSUME TypeOK, NEW n \in Node, visited' = NewVisited(n),
           UNCHANGED <<can_arrive_root, g_degree_dvalue>>
    PROVE  MarksKept
<1>1. ASSUME NEW m \in Node
      PROVE  visited'[m] \in Int /\ visited'[m] >= -1 /\ (visited[m] >= 0 => visited'[m] >= 0)
  BY DEF TypeOK, NewVisited, IsVisited
<1>2. visited' \in [Node -> Int]
  BY <1>1 DEF TypeOK, NewVisited
<1> QED
  BY <1>1, <1>2 DEF MarksKept, TypeOK

(* The numbers of a finite set can be counted in their order.               *)
LEMMA Ranked ==
    ASSUME NEW S \in SUBSET Nat, IsFiniteSet(S), NEW k \in 1 .. Cardinality(S)
    PROVE  \E j \in S : Cardinality({i \in S : i <= j}) = k
<1> DEFINE n == Cardinality(S)
           Below(j) == {i \in S : i <= j}
           T == (1 .. n) \ {k}
           f == [j \in S |-> Cardinality(Below(j))]
<1>0. n \in Nat
  BY FS_CardinalityType
<1> SUFFICES ASSUME \A j \in S : Cardinality(Below(j)) # k PROVE FALSE
  OBVIOUS
<1>1. ASSUME NEW j \in S
      PROVE  IsFiniteSet(Below(j)) /\ Cardinality(Below(j)) \in 1 .. n
  <2>1. IsFiniteSet(Below(j)) /\ Cardinality(Below(j)) <= n
    BY FS_Subset
  <2>2. j \in Below(j)
    OBVIOUS
  <2>3. Cardinality(Below(j)) \in Nat /\ Cardinality(Below(j)) # 0
    <3>1. Below(j) # {}
      BY <2>2
    <3> QED
      BY <2>1, <3>1, FS_EmptySet, FS_CardinalityType
  <2> HIDE DEF Below
  <2> QED
    BY <1>0, <2>1, <2>3
<1>2. ASSUME NEW j \in S, NEW l \in S, j < l
      PROVE  Cardinality(Below(j)) # Cardinality(Below(l))
  <2>0. j \in Nat /\ l \in Nat
    OBVIOUS
  <2>1. ~(l <= j) /\ l <= l /\ \A i \in S : i <= j => i <= l
    BY <1>2, <2>0
  <2>2. l \in Below(l) /\ l \notin Below(j) /\ Below(j) \subseteq Below(l)
    BY <2>1
  <2>3. IsFiniteSet(Below(l))
    BY <1>1
  <2> HIDE DEF Below
  <2> QED
    BY <2>2, <2>3, FS_Subset
<1>3. f \in [S -> T] /\ \A j, l \in S : j # l => f[j] # f[l]
  <2> HIDE DEF Below, n
  <2>1. f \in [S -> T]
    BY <1>1
  <2>2. ASSUME NEW j \in S, NEW l \in S, j # l PROVE f[j] # f[l]
    <3>1. j < l \/ l < j
      BY <2>2
    <3> QED
      BY <1>2, <3>1
  <2> QED
    BY <2>1, <2>2
<1>4. IsFiniteSet(T) /\ Cardinality(T) = n - 1
  <2>1. IsFiniteSet(1 .. n) /\ Cardinality(1 .. n) = n
    <3> HIDE DEF n
    <3> QED
      BY <1>0, FS_Interval
  <2>2. k \in 1 .. n
    OBVIOUS
  <2> HIDE DEF n
  <2> QED
    BY <2>1, <2>2, FS_RemoveElement
<1>5. n - 1 < n
  BY <1>0
<1> HIDE DEF f, T
<1>6. \E j, l \in S : j # l /\ f[j] = f[l]
  BY <1>3, <1>4, <1>5, FS_PigeonHole
<1> QED
  BY <1>3, <1>6

LEMMA TakeStep == SearchInv /\ TakeBatch => SearchInv'
<1> SUFFICES ASSUME SearchInv, TakeBatch PROVE SearchInv'
  OBVIOUS
<1> USE DEF SearchInv
<1>1. queue \in Seq(Node) /\ DOMAIN queue = 1 .. Len(queue)
  BY DEF TypeOK
<1>2. \A n \in Node : owners'[n] = owners[n] - Cardinality(Pushes(queue, n))
  BY DEF TakeBatch, Pushes
<1>3. \A n \in Node : /\ owners[n] \in Nat /\ Cardinality(Refs(mem, n)) \in Nat
                      /\ Cardinality(Pushes(queue, n)) \in Nat
  BY <1>1, RefCount, PushCount DEF TypeOK
<1>4. owners' \in [Node -> Nat]
  <2>1. \A n \in Node : owners'[n] \in Nat
    BY <1>2, <1>3 DEF Covered
  <2> QED
    BY <2>1 DEF TakeBatch
<1>5. batch' \in Seq(Node)
  <2> DEFINE last == {k \in DOMAIN queue : \A j \in k + 1 .. Len(queue) : queue[j] # queue[k]}
             place(k) == CHOOSE j \in last : Cardinality({i \in last : i <= j}) = k
  <2>1. last \in SUBSET (1 .. Len(queue)) /\ IsFiniteSet(1 .. Len(queue))
    BY <1>1, FS_Interval
  <2>2. last \in SUBSET Nat /\ IsFiniteSet(last) /\ Cardinality(last) \in Nat
    BY <2>1, FS_Subset, FS_CardinalityType
  <2>3. batch' = [k \in 1 .. Cardinality(last) |-> queue[place(k)]]
    BY DEF TakeBatch
  <2> HIDE DEF last
  <2>4. ASSUME NEW k \in 1 .. Cardinality(last) PROVE place(k) \in last
    BY <2>2, Ranked
  <2> HIDE DEF place
  <2>5. ASSUME NEW k \in 1 .. Cardinality(last) PROVE queue[place(k)] \in Node
    <3>1. place(k) \in 1 .. Len(queue)
      BY <2>1, <2>4
    <3> QED
      BY <1>1, <3>1
  <2> QED
    BY <2>2, <2>3, <2>5
<1>6. visited' \in [Node -> Int] /\ \A n \in Node : visited'[n] >= -1
  BY DEF TakeBatch, NewTerm
<1>7. TypeOK'
  BY <1>4, <1>5, <1>6 DEF TypeOK, TakeBatch
<1>8. Nesting(calls, g_root, visited)'
  <2>1. calls' = <<>>
    BY DEF TakeBatch
  <2> QED
    BY <2>1 DEF Nesting
<1>9. Covered'
  <2> SUFFICES ASSUME NEW n \in Node
               PROVE  owners'[n] >= Cardinality(Refs(mem', n)) + Cardinality(Pushes(queue', n))
    BY DEF Covered
  <2>1. mem' = mem /\ queue' = <<>>
    BY DEF TakeBatch
  <2>2. Pushes(queue', n) = {}
    BY <2>1 DEF Pushes
  <2>3. Cardinality(Pushes(queue', n)) = 0
    BY <2>2, FS_EmptySet
  <2> QED
    BY <1>2, <1>3, <2>1, <2>3 DEF Covered
<1> QED
  BY <1>7, <1>8, <1>9

(* meta::release                                                            *)
LEMMA ReleaseStep == SearchInv /\ ReleaseNext => SearchInv'
<1> SUFFICES ASSUME SearchInv, ReleaseNext PROVE SearchInv'
  OBVIOUS
<1> USE DEF SearchInv
<1>1. batch \in Seq(Node) /\ batch # <<>> /\ Head(batch) \in Node /\ Tail(batch) \in Seq(Node)
  BY DEF TypeOK, ReleaseNext
<1> DEFINE n == Head(batch)
<1>2. n \in Node
  BY <1>1
<1>3. /\ calls = <<>> /\ batch' = Tail(batch)
      /\ UNCHANGED <<mem, owners, queue, om, sync, assigned>>
  BY DEF ReleaseNext
<1>4. Covered'
  BY <1>3, CoveredSame
<1> HIDE DEF n
<1>5. CASE UNCHANGED <<calls, under_release, searchVars>>
  <2>1. TypeOK'
    BY <1>1, <1>3, <1>5 DEF TypeOK, searchVars
  <2>2. Nesting(calls, g_root, visited)'
    BY <1>5 DEF searchVars
  <2> QED
    BY <1>4, <2>1, <2>2
<1>6. CASE Release(n) /\ calls' = <<Call("destroy", n)>> /\ UNCHANGED searchVars
  <2>1. Call("destroy", n) \in Calls /\ Call("destroy", n).kind = "destroy"
    BY <1>2, NewCall
  <2>2. calls' \in Seq(Calls) /\ DOMAIN calls' = {1} /\ calls'[1].kind = "destroy"
    BY <1>6, <2>1
  <2>3. under_release' \in [Node -> BOOLEAN]
    BY <1>2, <1>6 DEF TypeOK, Release
  <2>4. TypeOK'
    BY <1>1, <1>3, <1>6, <2>2, <2>3 DEF TypeOK, searchVars, Calls
  <2>5. Nesting(calls, g_root, visited)'
    BY <2>2 DEF Nesting, Routes
  <2> QED
    BY <1>4, <2>4, <2>5
<1>7. CASE StartSearch(n) /\ calls' = <<Call("routing", n)>> /\ UNCHANGED under_release
  <2>1. Call("routing", n) \in Calls /\ Call("routing", n).kind = "routing" /\ Call("routing", n).node = n
    BY <1>2, NewCall
  <2>2. calls' \in Seq(Calls) /\ DOMAIN calls' = {1} /\ calls'[1].kind = "routing" /\ calls'[1].node = n
    BY <1>7, <2>1
  <2>3. Started(n)
    BY <1>2, <1>7, StartTypes
  <2>4. TypeOK'
    BY <1>1, <1>2, <1>3, <1>7, <2>2, <2>3 DEF TypeOK, Calls, Started
  <2>5. Nesting(calls, g_root, visited)'
    BY <1>2, <2>2, <2>3 DEF Nesting, Routes, Started
  <2> QED
    BY <1>4, <2>4, <2>5
<1> QED
  BY <1>5, <1>6, <1>7 DEF ReleaseNext, n

(* routing looks at the next field                                          *)
LEMMA FieldStep == SearchInv /\ RouteField => SearchInv'
<1> SUFFICES ASSUME SearchInv, RouteField PROVE SearchInv'
  OBVIOUS
<1> USE DEF SearchInv
<1>1. /\ calls # <<>> /\ Top.kind = "routing" /\ Top.i <= Width
      /\ UNCHANGED <<heapVars, queue, batch, om, sync, assigned>>
  BY DEF RouteField
<1>2. /\ calls \in Seq(Calls) /\ Top = calls[1] /\ Top \in Calls /\ 1 \in DOMAIN calls
      /\ Top.node \in Node /\ Top.i \in 1 .. Width /\ Tail(calls) \in Seq(Calls)
  BY <1>1, TopCall, CycleAssumption
<1> DEFINE next(arrive) == [Top EXCEPT !.i = @ + 1, !.arrive = @ \/ arrive]
           c == mem[<<Top.node, Top.i>>]
<1>3. \A a \in BOOLEAN : next(a) \in Calls /\ next(a).kind = Top.kind /\ next(a).node = Top.node
  BY <1>1, <1>2, NextField
<1>4. c \in Node \cup {Null}
  <2>1. <<Top.node, Top.i>> \in Ref
    BY <1>2 DEF Ref, Field
  <2>2. mem \in [Ref -> Node \cup {Null}]
    BY DEF TypeOK
  <2> QED
    BY <2>1, <2>2
<1>5. Covered'
  BY <1>1, CoveredSame DEF heapVars
<1>6. g_root \in Node /\ visited[g_root] >= 0
  BY <1>1, <1>2 DEF Nesting
<1>7. TRUE \in BOOLEAN /\ FALSE \in BOOLEAN
  OBVIOUS
<1> HIDE DEF next
<1>8. ASSUME NEW a \in BOOLEAN, calls' = <<next(a)>> \o Tail(calls), UNCHANGED g_root, MarksKept
      PROVE  SearchInv'
  <2>1. calls' \in Seq(Calls)
    BY <1>1, <1>2, <1>3, <1>8, Replacing
  <2>2. TypeOK'
    BY <1>1, <1>8, <2>1 DEF TypeOK, heapVars, Calls, MarksKept
  <2>3. visited'[g_root] >= 0
    BY <1>6, <1>8 DEF MarksKept
  <2>4. Nesting(calls', g_root, visited')
    BY <1>1, <1>2, <1>3, <1>8, <2>3, NestTop
  <2> QED
    BY <1>5, <1>8, <2>2, <2>4
<1>9. ASSUME c \in Node, ~IsVisited(c), visited' = NewVisited(c),
             calls' = <<Call("routing", c), next(FALSE)>> \o Tail(calls),
             UNCHANGED <<can_arrive_root, g_root, g_degree_dvalue>>
      PROVE  SearchInv'
  <2>1. Call("routing", c) \in Calls /\ Call("routing", c).kind = "routing" /\ Call("routing", c).node = c
    BY <1>9, NewCall
  <2>2. calls' \in Seq(Calls)
    BY <1>1, <1>2, <1>3, <1>7, <1>9, <2>1, Pushing
  <2>3. MarksKept
    BY <1>9, NewMark DEF TypeOK
  <2>4. TypeOK'
    BY <1>1, <1>9, <2>2, <2>3 DEF TypeOK, heapVars, Calls, MarksKept
  <2>5. visited'[g_root] >= 0 /\ c # g_root
    BY <1>6, <1>9, <2>3 DEF MarksKept, IsVisited
  <2>6. Nesting(calls', g_root, visited')
    <3> HIDE DEF c
    <3> DEFINE s == calls
               a == Call("routing", c)
               b == next(FALSE)
    <3>1. a \in Calls /\ b \in Calls /\ a.kind = "routing" /\ a.node # g_root
          /\ b.kind = "routing" /\ b.node = s[1].node /\ s[1].kind = "routing"
      BY <1>1, <1>2, <1>3, <1>7, <2>1, <2>5
    <3>2. s \in Seq(Calls) /\ s # <<>> /\ Nesting(s, g_root, visited) /\ visited'[g_root] >= 0
      BY <1>1, <1>2, <2>5
    <3>3. calls' = <<a, b>> \o Tail(s)
      BY <1>9
    <3> HIDE DEF a, b, s
    <3> QED
      BY <3>1, <3>2, <3>3, NestRoute
  <2> QED
    BY <1>5, <1>9, <2>4, <2>6
<1>10. CASE c = Null /\ calls' = <<next(FALSE)>> \o Tail(calls) /\ UNCHANGED searchVars
  BY <1>7, <1>8, <1>10 DEF searchVars, MarksKept, TypeOK
<1>11. CASE c # Null /\ CanArrive(c) /\ g_degree_dvalue' = g_degree_dvalue - 1
            /\ calls' = <<next(TRUE)>> \o Tail(calls) /\ UNCHANGED <<visited, can_arrive_root, g_root>>
  <2>1. MarksKept
    BY <1>11 DEF MarksKept, TypeOK
  <2> QED
    BY <1>7, <1>8, <1>11, <2>1
<1>12. CASE c # Null /\ IsVisited(c) /\ ~CanArrive(c) /\ visited' = NewVisited(c)
            /\ calls' = <<next(FALSE)>> \o Tail(calls) /\ UNCHANGED <<can_arrive_root, g_root, g_degree_dvalue>>
  <2>1. MarksKept
    BY <1>4, <1>12, NewMark DEF TypeOK
  <2> QED
    BY <1>7, <1>8, <1>12, <2>1
<1>13. CASE c # Null /\ ~IsVisited(c) /\ visited' = NewVisited(c)
            /\ calls' = <<Call("routing", c), next(FALSE)>> \o Tail(calls)
            /\ UNCHANGED <<can_arrive_root, g_root, g_degree_dvalue>>
  BY <1>4, <1>9, <1>13
<1> QED
  BY <1>10, <1>11, <1>12, <1>13 DEF RouteField, next

(* routing of a node below the root returns                                 *)
LEMMA ReturnStep == SearchInv /\ RouteReturn => SearchInv'
<1> SUFFICES ASSUME SearchInv, RouteReturn PROVE SearchInv'
  OBVIOUS
<1> USE DEF SearchInv
<1>1. /\ calls # <<>> /\ Top.kind = "routing" /\ Top.i > Width /\ Top.node # g_root
      /\ UNCHANGED <<heapVars, visited, g_root, queue, batch, om, sync, assigned>>
      /\ calls' = <<[calls[2] EXCEPT !.arrive = @ \/ Top.arrive]>> \o Tail(Tail(calls))
  BY DEF RouteReturn
<1>2. /\ calls \in Seq(Calls) /\ Top = calls[1] /\ Top \in Calls /\ DOMAIN calls = 1 .. Len(calls)
      /\ Top.node \in Node /\ Top.arrive \in BOOLEAN /\ Tail(calls) \in Seq(Calls)
      /\ Len(calls) \in Nat \ {0} /\ 1 \in DOMAIN calls
  BY <1>1, TopCall
<1> DEFINE s == Tail(calls)
           b == [calls[2] EXCEPT !.arrive = @ \/ Top.arrive]
<1>3. Routes(calls, 2) /\ 2 \in DOMAIN calls /\ g_root \in Node /\ visited[g_root] >= 0
  BY <1>1, <1>2 DEF Nesting, Routes
<1>4. s \in Seq(Calls) /\ s # <<>> /\ s[1] = calls[2] /\ s[1] \in Calls
  <2>1. Len(s) = Len(calls) - 1 /\ s \in Seq(Calls) /\ \A k \in 1 .. Len(calls) - 1 : s[k] = calls[k + 1]
    BY <1>1, <1>2, Popping
  <2>2. Len(calls) >= 2
    BY <1>2, <1>3
  <2>3. Len(s) >= 1 /\ s[1] = calls[2]
    <3>1. 1 \in 1 .. Len(calls) - 1 /\ 1 + 1 = 2
      BY <1>2, <2>2
    <3> QED
      BY <1>2, <2>1, <2>2, <3>1
  <2>4. calls[2] \in Calls
    BY <1>2, <1>3
  <2> HIDE DEF s
  <2>5. s # <<>>
    BY <2>3
  <2> QED
    BY <2>1, <2>3, <2>4, <2>5
<1>5. b \in Calls /\ b.kind = s[1].kind /\ b.node = s[1].node
  <2>1. calls[2] \in Calls
    BY <1>4
  <2>2. b \in Calls /\ b.kind = calls[2].kind /\ b.node = calls[2].node
    BY <1>2, <2>1, NextField
  <2> QED
    BY <1>4, <2>2
<1>6. Nesting(s, g_root, visited)
  BY <1>1, <1>2, NestTail
<1>7. calls' = <<b>> \o Tail(s)
  BY <1>1
<1> HIDE DEF s, b
<1>8. calls' \in Seq(Calls)
  BY <1>4, <1>5, <1>7, Replacing
<1>9. Nesting(calls', g_root', visited')
  <2>1. Nesting(<<b>> \o Tail(s), g_root, visited)
    BY <1>3, <1>4, <1>5, <1>6, NestTop
  <2> QED
    BY <1>1, <1>7, <2>1
<1>10. can_arrive_root' \in [Node -> BOOLEAN] /\ g_degree_dvalue' \in Int
  <2>1. CASE Top.arrive
    <3>1. /\ g_degree_dvalue' = g_degree_dvalue + owners[Top.node] - visited[Top.node]
          /\ can_arrive_root' = [can_arrive_root EXCEPT ![Top.node] = TRUE]
      BY <2>1 DEF RouteReturn
    <3>2. g_degree_dvalue \in Int /\ owners[Top.node] \in Nat /\ visited[Top.node] \in Int
      BY <1>2 DEF TypeOK
    <3>3. g_degree_dvalue' \in Int
      BY <3>1, <3>2
    <3>4. can_arrive_root' \in [Node -> BOOLEAN]
      BY <3>1 DEF TypeOK
    <3> QED
      BY <3>3, <3>4
  <2>2. CASE ~Top.arrive
    BY <2>2 DEF RouteReturn, TypeOK
  <2> QED
    BY <2>1, <2>2
<1>11. TypeOK'
  BY <1>1, <1>8, <1>10 DEF TypeOK, heapVars, Calls
<1>12. Covered'
  BY <1>1, CoveredSame DEF heapVars
<1> QED
  BY <1>9, <1>11, <1>12

(* the verdict of can_release                                               *)
LEMMA VerdictStep == SearchInv /\ Verdict => SearchInv'
<1> SUFFICES ASSUME SearchInv, Verdict PROVE SearchInv'
  OBVIOUS
<1> USE DEF SearchInv
<1>1. /\ calls # <<>> /\ Top.kind = "routing" /\ Top.i > Width /\ Top.node = g_root
      /\ UNCHANGED <<mem, owners, visited, can_arrive_root, g_root, queue, batch, om, sync, assigned>>
  BY DEF Verdict
<1>2. /\ calls \in Seq(Calls) /\ Top = calls[1] /\ Top \in Calls
      /\ Top.node \in Node /\ Tail(calls) \in Seq(Calls)
  BY <1>1, TopCall
<1>3. Covered'
  BY <1>1, CoveredSame
<1>4. /\ g_degree_dvalue' \in Int
      /\ \/ Return /\ UNCHANGED under_release
         \/ /\ Release(g_root)
            /\ calls' = <<Call("destroy", g_root)>> \o Tail(calls)
  <2>1. g_degree_dvalue + owners[g_root] - visited[g_root] \in Int
    BY <1>1, <1>2 DEF TypeOK
  <2> QED
    BY <2>1 DEF Verdict, TypeOK
<1>5. CASE Return /\ UNCHANGED under_release
  <2>1. calls' = Tail(calls)
    BY <1>5 DEF Return
  <2>2. TypeOK'
    BY <1>1, <1>2, <1>4, <1>5, <2>1 DEF TypeOK, Calls
  <2>3. Nesting(Tail(calls), g_root, visited)
    BY <1>1, <1>2, NestTail
  <2>4. Nesting(calls', g_root', visited')
    BY <1>1, <2>1, <2>3
  <2> QED
    BY <1>3, <2>2, <2>4
<1>6. CASE Release(g_root) /\ calls' = <<Call("destroy", g_root)>> \o Tail(calls)
  <2>1. Call("destroy", g_root) \in Calls /\ Call("destroy", g_root).kind = "destroy"
    BY <1>1, <1>2, NewCall
  <2>2. calls' \in Seq(Calls)
    BY <1>1, <1>2, <1>6, <2>1, Replacing
  <2>3. under_release' \in [Node -> BOOLEAN]
    BY <1>6 DEF TypeOK, Release
  <2>4. TypeOK'
    BY <1>1, <1>4, <2>2, <2>3 DEF TypeOK, Calls
  <2>5. Nesting(<<Call("destroy", g_root)>> \o Tail(calls), g_root, visited)
    BY <1>1, <1>2, <2>1, NestVerdict
  <2>6. Nesting(calls', g_root', visited')
    BY <1>1, <1>6, <2>5
  <2> QED
    BY <1>3, <2>4, <2>6
<1> QED
  BY <1>4, <1>5, <1>6

(* A field of a destroyed object lets go: one reference less, and the       *)
(* counter falls by one at most, or not at all.                             *)
LEMMA DestroyStep == SearchInv /\ DestroyField => SearchInv'
<1> SUFFICES ASSUME SearchInv, DestroyField PROVE SearchInv'
  OBVIOUS
<1> USE DEF SearchInv
<1>1. /\ calls # <<>> /\ Top.kind = "destroy" /\ Top.i <= Width
      /\ UNCHANGED <<queue, batch, om, sync, assigned>>
  BY DEF DestroyField
<1>2. /\ calls \in Seq(Calls) /\ Top = calls[1] /\ Top \in Calls
      /\ Top.node \in Node /\ Top.i \in 1 .. Width /\ Tail(calls) \in Seq(Calls)
  BY <1>1, TopCall, CycleAssumption
<1> DEFINE f == <<Top.node, Width + 1 - Top.i>>
           m == mem[f]
           b == [Top EXCEPT !.i = @ + 1]
           rest == <<b>> \o Tail(calls)
           dead == IF m = Null THEN TRUE ELSE under_release[m]
<1>3. f \in Ref
  <2>1. Width + 1 - Top.i \in 1 .. Width
    BY <1>2, CycleAssumption
  <2> QED
    BY <1>2, <2>1 DEF Ref, Field
<1>4. m \in Node \cup {Null}
  BY <1>3 DEF TypeOK
<1>5. b \in Calls /\ b.kind = "destroy" /\ b.node = Top.node
  <2>1. TRUE \in BOOLEAN
    OBVIOUS
  <2> QED
    BY <1>1, <1>2, <2>1, NextField
<1>6. mem' = [mem EXCEPT ![f] = Null]
  BY DEF DestroyField
<1>7. \/ calls' = rest /\ UNCHANGED <<owners, under_release, searchVars>>
      \/ /\ m \in Node /\ Release(m) /\ calls' = <<Call("destroy", m)>> \o rest
         /\ (owners' = owners \/ owners' = Decrease(m)) /\ UNCHANGED searchVars
      \/ /\ m \in Node /\ StartSearch(m) /\ calls' = <<Call("routing", m)>> \o rest
         /\ owners' = Decrease(m) /\ UNCHANGED under_release
  <2>1. CASE dead
    BY <2>1 DEF DestroyField
  <2>2. CASE ~dead
    <3>1. m \in Node
      BY <1>4, <2>2
    <3> QED
      BY <2>2, <3>1 DEF DestroyField
  <2> QED
    BY <2>1, <2>2
<1>8. mem' \in [Ref -> Node \cup {Null}]
  BY <1>3, <1>6 DEF TypeOK
<1>9. owners' \in [Node -> Nat] /\ Covered'
  <2>1. \A n \in Node :
          /\ owners[n] \in Nat /\ Cardinality(Refs(mem, n)) \in Nat
          /\ Cardinality(Refs(mem', n)) \in Nat /\ Cardinality(Pushes(queue, n)) \in Nat
    BY RefCount, PushCount DEF TypeOK
  <2>2. \A n \in Node : Cardinality(Refs(mem', n)) = Cardinality(Refs(mem, n)) - Same(m, n)
    <3>1. Assigned(mem, f, Null, mem')
      BY <1>3, <1>6 DEF TypeOK, Assigned
    <3>5. mem[f] = m
      OBVIOUS
    <3> HIDE DEF f
    <3>2. \A n \in Node : Same(Null, n) = 0 /\ Same(m, n) \in {0, 1}
      BY CycleAssumption DEF Same
    <3> HIDE DEF m
    <3>3. ASSUME NEW n \in Node
          PROVE  Cardinality(Refs(mem', n)) = Cardinality(Refs(mem, n)) - Same(m, n)
      <4>1. Cardinality(Refs(mem', n)) = Cardinality(Refs(mem, n)) - Same(m, n) + Same(Null, n)
        BY <1>3, <3>1, <3>5, Redirected
      <4> QED
        BY <2>1, <3>2, <4>1
    <3> QED
      BY <3>3
  <2>3. \A n \in Node : owners'[n] = owners[n] \/ owners'[n] = owners[n] - Same(m, n)
    BY <1>7 DEF TypeOK, Decrease, Same
  <2>4. \A n \in Node : Same(m, n) \in {0, 1}
    BY DEF Same
  <2> HIDE DEF m
  <2>5. ASSUME NEW n \in Node
        PROVE  /\ owners'[n] \in Nat
               /\ owners'[n] >= Cardinality(Refs(mem', n)) + Cardinality(Pushes(queue', n))
    <3>1. owners[n] >= Cardinality(Refs(mem, n)) + Cardinality(Pushes(queue, n))
      BY DEF Covered
    <3>2. queue' = queue
      BY <1>1
    <3> QED
      BY <2>1, <2>2, <2>3, <2>4, <3>1, <3>2
  <2>6. \E r : owners' = [n \in Node |-> r[n]]
    BY <1>7 DEF TypeOK, Decrease
  <2> QED
    BY <2>5, <2>6 DEF Covered
<1>10. 1 \in DOMAIN calls /\ calls[1].kind = "destroy"
  BY <1>1, <1>2
<1> HIDE DEF f, m, b
<1>11. CASE calls' = rest /\ UNCHANGED <<owners, under_release, searchVars>>
  <2>1. calls' \in Seq(Calls)
    BY <1>1, <1>2, <1>5, <1>11, Replacing
  <2>2. TypeOK'
    BY <1>1, <1>8, <1>9, <1>11, <2>1 DEF TypeOK, searchVars, Calls
  <2>3. Nesting(<<b>> \o Tail(calls), g_root, visited)
    BY <1>1, <1>2, <1>5, <1>10, NestTop
  <2>4. Nesting(calls', g_root', visited')
    BY <1>11, <2>3 DEF searchVars
  <2> QED
    BY <1>9, <2>2, <2>4
<1>12. CASE /\ m \in Node /\ Release(m) /\ calls' = <<Call("destroy", m)>> \o rest
            /\ UNCHANGED searchVars
  <2> DEFINE a == Call("destroy", m)
  <2>1. a \in Calls /\ a.kind = "destroy"
    BY <1>12, NewCall
  <2> HIDE DEF a
  <2>2. calls' = <<a, b>> \o Tail(calls) /\ calls' \in Seq(Calls)
    BY <1>1, <1>2, <1>5, <1>12, <2>1, Pushing DEF a
  <2>3. under_release' \in [Node -> BOOLEAN]
    BY <1>12 DEF TypeOK, Release
  <2>4. TypeOK'
    BY <1>1, <1>8, <1>9, <1>12, <2>2, <2>3 DEF TypeOK, searchVars, Calls
  <2>5. Nesting(<<a, b>> \o Tail(calls), g_root, visited)
    BY <1>1, <1>2, <1>5, <1>10, <2>1, NestDestroy
  <2>6. Nesting(calls', g_root', visited')
    BY <1>12, <2>2, <2>5 DEF searchVars
  <2> QED
    BY <1>9, <2>4, <2>6
<1>13. CASE /\ m \in Node /\ StartSearch(m) /\ calls' = <<Call("routing", m)>> \o rest
            /\ UNCHANGED under_release
  <2> DEFINE a == Call("routing", m)
  <2>1. a \in Calls /\ a.kind = "routing" /\ a.node = m
    BY <1>13, NewCall
  <2> HIDE DEF a
  <2>2. calls' = <<a, b>> \o Tail(calls) /\ calls' \in Seq(Calls)
    BY <1>1, <1>2, <1>5, <1>13, <2>1, Pushing DEF a
  <2>3. Started(m)
    BY <1>13, StartTypes
  <2>4. TypeOK'
    BY <1>1, <1>8, <1>9, <1>13, <2>2, <2>3 DEF TypeOK, Calls, Started
  <2>5. g_root' = m /\ g_root' \in Node /\ visited'[g_root'] >= 0
    BY <1>13, <2>3 DEF Started
  <2>6. Nesting(<<a, b>> \o Tail(calls), g_root', visited')
    <3> DEFINE r == g_root'
               v == visited'
    <3>1. a.kind = "routing" => a.node = r /\ r \in Node /\ v[r] >= 0
      BY <2>1, <2>5
    <3> HIDE DEF r, v
    <3>2. Nesting(<<a, b>> \o Tail(calls), r, v)
      BY <1>1, <1>2, <1>5, <1>10, <2>1, <3>1, NestDestroy
    <3> QED
      BY <3>2 DEF r, v
  <2>7. Nesting(calls', g_root', visited')
    BY <2>2, <2>6
  <2> QED
    BY <1>9, <2>4, <2>7
<1> QED
  BY <1>7, <1>11, <1>12, <1>13

LEMMA DestroyedStep == SearchInv /\ DestroyReturn => SearchInv'
<1> SUFFICES ASSUME SearchInv, DestroyReturn PROVE SearchInv'
  OBVIOUS
<1> USE DEF SearchInv
<1>1. calls # <<>> /\ calls' = Tail(calls)
      /\ UNCHANGED <<heapVars, searchVars, queue, batch, om, sync, assigned>>
  BY DEF DestroyReturn, Return
<1>2. calls \in Seq(Calls) /\ Tail(calls) \in Seq(Calls)
  BY <1>1, TopCall
<1>3. TypeOK'
  BY <1>1, <1>2 DEF TypeOK, heapVars, searchVars, Calls
<1>4. Nesting(Tail(calls), g_root, visited)
  BY <1>1, <1>2, NestTail
<1>5. Nesting(calls', g_root', visited')
  BY <1>1, <1>4 DEF searchVars
<1>6. Covered'
  BY <1>1, CoveredSame DEF heapVars
<1> QED
  BY <1>3, <1>5, <1>6

(* operator= of a thread, first half: what is read is a node or null        *)
LEMMA LoadStep ==
    ASSUME SearchInv, NEW th \in Thread, NEW dst \in Ref, NEW src \in Ref, AssignLoad(th, dst, src)
    PROVE  SearchInv'
<1> USE DEF SearchInv
<1>1. /\ UNCHANGED <<heapVars, searchVars, queue, batch, calls, sync>>
      /\ om' = [om EXCEPT ![th] = [dst |-> dst, src |-> src, value |-> mem[src]]]
      /\ assigned' = assigned + 1 /\ assigned < MaxAssign
  BY DEF AssignLoad
<1>2. mem[src] \in Node \cup {Null}
  BY DEF TypeOK
<1>3. om' \in [Thread -> [dst : Ref, src : Ref, value : Node \cup {Null}] \cup {Idle}]
  BY <1>1, <1>2 DEF TypeOK
<1>4. assigned' \in 0 .. MaxAssign
  BY <1>1, CycleAssumption DEF TypeOK
<1>5. TypeOK'
  BY <1>1, <1>3, <1>4 DEF TypeOK, heapVars, searchVars
<1>6. Nesting(calls', g_root', visited')
  BY <1>1 DEF searchVars
<1>7. Covered'
  BY <1>1, CoveredSame DEF heapVars
<1> QED
  BY <1>5, <1>6, <1>7

(* One reference more to `value`, one push more of what was there before:   *)
(* the two halves of every assignment, with or without the counter.         *)
LEMMA Reassigned ==
    ASSUME SearchInv, NEW dst \in Ref, NEW value \in Node \cup {Null},
           mem' = [mem EXCEPT ![dst] = value],
           queue' = IF mem[dst] = Null THEN queue ELSE Append(queue, mem[dst]),
           owners' = IF value = Null THEN owners ELSE Increase(value)
    PROVE  /\ mem' \in [Ref -> Node \cup {Null}] /\ queue' \in Seq(Node)
           /\ owners' \in [Node -> Nat] /\ Covered'
<1> USE DEF SearchInv
<1> DEFINE old == mem[dst]
<1>1. /\ mem \in [Ref -> Node \cup {Null}] /\ queue \in Seq(Node) /\ old \in Node \cup {Null}
      /\ owners \in [Node -> Nat]
  BY DEF TypeOK
<1>2. mem' \in [Ref -> Node \cup {Null}]
  BY <1>1
<1>3. queue' \in Seq(Node)
  BY <1>1
<1>4. owners' \in [Node -> Nat]
  BY <1>1 DEF Increase
<1>5. ASSUME NEW n \in Node
      PROVE  owners'[n] >= Cardinality(Refs(mem', n)) + Cardinality(Pushes(queue', n))
  <2>1. Cardinality(Refs(mem', n)) = Cardinality(Refs(mem, n)) - Same(old, n) + Same(value, n)
    <3>1. Assigned(mem, dst, value, mem')
      BY <1>1 DEF Assigned
    <3> QED
      BY <3>1, Redirected
  <2>2. Cardinality(Pushes(queue', n)) = Cardinality(Pushes(queue, n)) + Same(old, n)
    <3>1. CASE old = Null
      <4>1. Same(old, n) = 0
        BY <3>1, CycleAssumption DEF Same
      <4>2. queue' = queue
        BY <3>1
      <4>3. Cardinality(Pushes(queue, n)) \in Nat
        BY <1>1, PushCount
      <4> QED
        BY <4>1, <4>2, <4>3
    <3>2. CASE old # Null
      <4>1. old \in Node /\ queue' = Append(queue, old)
        BY <1>1, <3>2
      <4> HIDE DEF old
      <4> QED
        BY <1>1, <4>1, PushedOn
    <3> QED
      BY <3>1, <3>2
  <2>3. owners'[n] = owners[n] + Same(value, n)
    BY <1>1, CycleAssumption DEF Increase, Same
  <2>4. /\ owners[n] \in Nat /\ Cardinality(Refs(mem, n)) \in Nat /\ Cardinality(Pushes(queue, n)) \in Nat
        /\ Same(value, n) \in {0, 1} /\ Same(old, n) \in {0, 1}
    BY <1>1, RefCount, PushCount DEF Same
  <2>5. owners[n] >= Cardinality(Refs(mem, n)) + Cardinality(Pushes(queue, n))
    BY DEF Covered
  <2> HIDE DEF old
  <2> QED
    BY <2>1, <2>2, <2>3, <2>4, <2>5
<1> QED
  BY <1>2, <1>3, <1>4, <1>5 DEF Covered

(* second half: the counter and the swap                                    *)
LEMMA SwapStep ==
    ASSUME SearchInv, NEW th \in Thread, AssignSwap(th)
    PROVE  SearchInv'
<1> USE DEF SearchInv
<1> DEFINE dst == om[th].dst
           value == om[th].value
<1>1. dst \in Ref /\ value \in Node \cup {Null}
  BY DEF TypeOK, AssignSwap
<1>2. /\ mem' = [mem EXCEPT ![dst] = value]
      /\ queue' = IF mem[dst] = Null THEN queue ELSE Append(queue, mem[dst])
      /\ owners' = IF value = Null THEN owners ELSE Increase(value)
      /\ om' = [om EXCEPT ![th] = Idle]
      /\ UNCHANGED <<under_release, searchVars, batch, calls, sync, assigned>>
  BY DEF AssignSwap
<1> HIDE DEF dst, value
<1>3. /\ mem' \in [Ref -> Node \cup {Null}] /\ queue' \in Seq(Node)
      /\ owners' \in [Node -> Nat] /\ Covered'
  BY <1>1, <1>2, Reassigned
<1>4. om' \in [Thread -> [dst : Ref, src : Ref, value : Node \cup {Null}] \cup {Idle}]
  BY <1>2 DEF TypeOK
<1>5. TypeOK'
  BY <1>2, <1>3, <1>4 DEF TypeOK, searchVars
<1>6. Nesting(calls', g_root', visited')
  BY <1>2 DEF searchVars
<1> QED
  BY <1>3, <1>5, <1>6

LEMMA ClearStep ==
    ASSUME SearchInv, NEW th \in Thread, NEW dst \in Ref, Clear(th, dst)
    PROVE  SearchInv'
<1> USE DEF SearchInv
<1>1. /\ mem[dst] # Null /\ mem' = [mem EXCEPT ![dst] = Null] /\ queue' = Append(queue, mem[dst])
      /\ UNCHANGED <<owners, under_release, searchVars, batch, calls, om, sync, assigned>>
  BY DEF Clear
<1>2. Null \in Node \cup {Null}
  OBVIOUS
<1>3. /\ queue' = IF mem[dst] = Null THEN queue ELSE Append(queue, mem[dst])
      /\ owners' = IF Null = Null THEN owners ELSE Increase(Null)
  BY <1>1
<1>4. /\ mem' \in [Ref -> Node \cup {Null}] /\ queue' \in Seq(Node)
      /\ owners' \in [Node -> Nat] /\ Covered'
  BY <1>1, <1>2, <1>3, Reassigned
<1>5. TypeOK'
  BY <1>1, <1>4 DEF TypeOK, searchVars
<1>6. Nesting(calls', g_root', visited')
  BY <1>1 DEF searchVars
<1> QED
  BY <1>4, <1>5, <1>6

LEMMA SearchNext == SearchInv /\ [Next]_vars => SearchInv'
<1> SUFFICES ASSUME SearchInv, [Next]_vars PROVE SearchInv'
  OBVIOUS
<1>1. CASE Filter
  BY <1>1, TakeStep, ReleaseStep, FieldStep, ReturnStep, VerdictStep, DestroyStep, DestroyedStep
     DEF Filter
<1>2. ASSUME NEW th \in Thread, NEW dst \in Ref, NEW src \in Ref, AssignLoad(th, dst, src)
      PROVE  SearchInv'
  BY <1>2, LoadStep
<1>3. ASSUME NEW th \in Thread, AssignSwap(th) PROVE SearchInv'
  BY <1>3, SwapStep
<1>4. ASSUME NEW th \in Thread, NEW dst \in Ref, Clear(th, dst) PROVE SearchInv'
  BY <1>4, ClearStep
<1>5. CASE UNCHANGED vars
  <2>1. /\ UNCHANGED <<mem, owners, under_release, visited, can_arrive_root, g_root, g_degree_dvalue>>
        /\ UNCHANGED <<queue, batch, calls, sync, om, assigned>>
    BY <1>5 DEF vars, heapVars, searchVars
  <2>2. TypeOK' /\ Nesting(calls', g_root', visited')
    BY <2>1 DEF TypeOK, SearchInv
  <2>3. Covered'
    BY <2>1, CoveredSame DEF SearchInv
  <2> QED
    BY <2>2, <2>3 DEF SearchInv
<1> QED
  BY <1>1, <1>2, <1>3, <1>4, <1>5 DEF Next

LEMMA SearchAlways == Spec => []SearchInv
BY SearchInit, SearchNext, PTL DEF Spec

(* Every variable keeps its type: a search always returns to the call that  *)
(* began it, and no counter falls below zero (ref.hpp:85-130, 340-380).     *)
THEOREM SearchTypeCorrect == Spec => []TypeOK
<1>1. SearchInv => TypeOK
  BY DEF SearchInv
<1> QED
  BY <1>1, SearchAlways, PTL

(* The counter of a live object covers every reference to it and every push *)
(* of it that was not taken, whatever a search decided about it meanwhile.  *)
THEOREM CounterCovers == Spec => []OwnersCover
<1>1. SearchInv => OwnersCover
  BY DEF SearchInv, Covered, OwnersCover, Refs, Pushes
<1> QED
  BY <1>1, SearchAlways, PTL
------------------------------------------------------------------------------
(* One field to an object at most: the graph of the objects is a function.  *)
Variable    == Thread \X Local
Memory(m)   == Width <= 1 /\ m \in [Ref -> Node \cup {Null}]
Succ(m, n)  == IF Width = 1 THEN m[<<n, 1>>] ELSE Null
Closed(m, S) == S \subseteq Node /\ \A n \in S : Succ(m, n) \in S \cup {Null}
Held(m)     == {m[c] : c \in Variable}
From(m, x)  == Reaches(m, {x})
Used(m)     == Reaches(m, Held(m))

LEMMA Arrows ==
    ASSUME NEW m, Memory(m)
    PROVE  /\ Width \in {0, 1} /\ m \in [Ref -> Node \cup {Null}]
           /\ \A n \in Node : Succ(m, n) \in Node \cup {Null}
           /\ \A n \in Node : Succ(m, n) # Null => Width = 1
           /\ Width = 1 => \A n \in Node : <<n, 1>> \in Ref /\ Succ(m, n) = m[<<n, 1>>]
           /\ Held(m) \subseteq Node \cup {Null}
           /\ Variable \subseteq Ref
           /\ \A n \in Node : <<n, 1>> \notin Variable
           /\ \A c \in Ref : c \in Variable \/ (Width = 1 /\ \E n \in Node : c = <<n, 1>>)
<1>1. Width \in {0, 1} /\ m \in [Ref -> Node \cup {Null}]
  BY CycleAssumption DEF Memory
<1>2. Variable \subseteq Ref
  BY DEF Ref, Variable
<1>3. Width = 1 => \A n \in Node : <<n, 1>> \in Ref
  BY DEF Ref, Field
<1>4. ASSUME NEW n \in Node
      PROVE  Succ(m, n) \in Node \cup {Null} /\ (Succ(m, n) # Null => Width = 1)
  BY <1>1, <1>3 DEF Succ
<1>5. ASSUME NEW n \in Node PROVE <<n, 1>> \notin Variable
  BY CycleAssumption DEF Variable
<1>6. ASSUME NEW c \in Ref
      PROVE  c \in Variable \/ (Width = 1 /\ \E n \in Node : c = <<n, 1>>)
  <2>1. CASE c \in Variable
    BY <2>1
  <2>2. CASE c \notin Variable
    <3>1. PICK n \in Node : c \in Field(n)
      BY <2>2 DEF Ref, Variable
    <3>2. PICK w \in 1 .. Width : c = <<n, w>>
      BY <3>1 DEF Field
    <3>3. Width = 1 /\ w = 1
      BY <1>1, <3>2
    <3> QED
      BY <3>2, <3>3
  <2> QED
    BY <2>1, <2>2
<1>7. Held(m) \subseteq Node \cup {Null}
  BY <1>1, <1>2 DEF Held
<1>8. Width = 1 => \A n \in Node : <<n, 1>> \in Ref /\ Succ(m, n) = m[<<n, 1>>]
  BY <1>3 DEF Succ
<1> QED
  BY <1>1, <1>2, <1>4, <1>5, <1>6, <1>7, <1>8

LEMMA ClosedIsShut ==
    ASSUME NEW m, Memory(m), NEW S \in SUBSET Node
    PROVE  Shut(m, S) <=> Closed(m, S)
<1>1. Width \in {0, 1}
  BY Arrows
<1>2. CASE Width = 0
  <2>1. \A n : Field(n) = {}
    BY <1>2 DEF Field
  <2> QED
    BY <1>2, <2>1 DEF Shut, Closed, Succ
<1>3. CASE Width = 1
  <2>1. \A n : Field(n) = {<<n, 1>>}
    BY <1>3 DEF Field
  <2> QED
    BY <1>3, <2>1 DEF Shut, Closed, Succ
<1> QED
  BY <1>1, <1>2, <1>3

(* What can be reached is the least closed set.                             *)
LEMMA ReachesTold ==
    ASSUME NEW m, Memory(m), NEW X \in SUBSET (Node \cup {Null})
    PROVE  /\ Closed(m, Reaches(m, X)) /\ X \subseteq Reaches(m, X) \cup {Null}
           /\ \A S : Closed(m, S) /\ X \subseteq S \cup {Null} => Reaches(m, X) \subseteq S
<1> DEFINE R == Reaches(m, X)
<1>1. \A n : n \in R <=> n \in Node /\ \A S \in SUBSET Node :
                 Shut(m, S) /\ X \subseteq S \cup {Null} => n \in S
  BY DEF Reaches
<1>2. \A n : n \in R <=> n \in Node /\ \A S \in SUBSET Node :
                 Closed(m, S) /\ X \subseteq S \cup {Null} => n \in S
  BY <1>1, ClosedIsShut
<1>3. Null \notin Node /\ \A n \in Node : Succ(m, n) \in Node \cup {Null}
  BY Arrows, CycleAssumption
<1> HIDE DEF R
<1>4. ASSUME NEW n \in R PROVE Succ(m, n) \in R \cup {Null}
  <2> SUFFICES ASSUME Succ(m, n) # Null PROVE Succ(m, n) \in R
    OBVIOUS
  <2>1. n \in Node /\ Succ(m, n) \in Node
    BY <1>2, <1>3
  <2>2. ASSUME NEW S \in SUBSET Node, Closed(m, S), X \subseteq S \cup {Null}
        PROVE  Succ(m, n) \in S
    <3>1. n \in S
      BY <1>2, <2>2
    <3> QED
      BY <2>2, <3>1 DEF Closed
  <2> QED
    BY <1>2, <2>1, <2>2
<1>5. R \subseteq Node
  BY <1>2
<1>6. X \subseteq R \cup {Null}
  <2> SUFFICES ASSUME NEW x \in X, x # Null PROVE x \in R
    OBVIOUS
  <2>1. x \in Node
    OBVIOUS
  <2>2. \A S \in SUBSET Node : X \subseteq S \cup {Null} => x \in S
    OBVIOUS
  <2> QED
    BY <1>2, <2>1, <2>2
<1>7. \A S : Closed(m, S) /\ X \subseteq S \cup {Null} => R \subseteq S
  BY <1>2 DEF Closed
<1>8. Closed(m, R)
  BY <1>4, <1>5 DEF Closed
<1> QED
  BY <1>6, <1>7, <1>8 DEF R

LEMMA UsedTold ==
    ASSUME NEW m, Memory(m)
    PROVE  /\ Closed(m, Used(m)) /\ Used(m) \subseteq Node
           /\ \A c \in Variable : m[c] \in Used(m) \cup {Null}
           /\ \A S : Closed(m, S) /\ (\A c \in Variable : m[c] \in S \cup {Null}) => Used(m) \subseteq S
<1>1. Held(m) \in SUBSET (Node \cup {Null})
  BY Arrows
<1>2. \A S : Held(m) \subseteq S \cup {Null} <=> \A c \in Variable : m[c] \in S \cup {Null}
  BY DEF Held
<1>3. /\ Closed(m, Used(m)) /\ Held(m) \subseteq Used(m) \cup {Null}
      /\ \A S : Closed(m, S) /\ Held(m) \subseteq S \cup {Null} => Used(m) \subseteq S
  BY <1>1, ReachesTold DEF Used
<1>4. Used(m) \subseteq Node
  BY <1>3 DEF Closed
<1> QED
  BY <1>2, <1>3, <1>4

LEMMA FromTold ==
    ASSUME NEW m, Memory(m), NEW x \in Node \cup {Null}
    PROVE  /\ Closed(m, From(m, x)) /\ From(m, x) \subseteq Node
           /\ x # Null => x \in From(m, x)
           /\ \A S : Closed(m, S) /\ x \in S \cup {Null} => From(m, x) \subseteq S
           /\ x = Null => From(m, x) = {}
<1>1. {x} \in SUBSET (Node \cup {Null})
  OBVIOUS
<1>2. /\ Closed(m, From(m, x)) /\ {x} \subseteq From(m, x) \cup {Null}
      /\ \A S : Closed(m, S) /\ {x} \subseteq S \cup {Null} => From(m, x) \subseteq S
  BY <1>1, ReachesTold DEF From
<1>3. From(m, x) \subseteq Node
  BY <1>2 DEF Closed
<1>4. x = Null => From(m, x) = {}
  <2>1. Closed(m, {})
    BY DEF Closed
  <2> QED
    BY <1>2, <2>1
<1> QED
  BY <1>2, <1>3, <1>4

(* From a node one reaches itself, and whatever its field reaches.          *)
LEMMA FromStep ==
    ASSUME NEW m, Memory(m), NEW x \in Node
    PROVE  From(m, x) = {x} \cup From(m, Succ(m, x))
<1> DEFINE y == Succ(m, x)
           A == From(m, x)
           B == From(m, y)
<1>1. y \in Node \cup {Null} /\ Null \notin Node
  BY Arrows, CycleAssumption
<1> HIDE DEF y
<1>2. /\ Closed(m, A) /\ x \in A /\ A \subseteq Node
      /\ \A S : Closed(m, S) /\ x \in S \cup {Null} => A \subseteq S
  BY FromTold, CycleAssumption
<1>3. /\ Closed(m, B) /\ y \in B \cup {Null} /\ B \subseteq Node
      /\ \A S : Closed(m, S) /\ y \in S \cup {Null} => B \subseteq S
  BY <1>1, FromTold
<1> HIDE DEF A, B
<1>4. Closed(m, {x} \cup B)
  BY <1>3 DEF Closed, y
<1>5. y \in A \cup {Null}
  BY <1>2 DEF Closed, y
<1>6. A = {x} \cup B
  BY <1>2, <1>3, <1>4, <1>5
<1> QED
  BY <1>6 DEF A, B, y

(* Two memories that agree about the fields of what is reached reach the    *)
(* same.                                                                    *)
LEMMA ReachesSame ==
    ASSUME NEW m, Memory(m), NEW k, Memory(k), NEW X \in SUBSET (Node \cup {Null}),
           \A n \in Reaches(m, X) : Succ(k, n) = Succ(m, n)
    PROVE  Reaches(k, X) = Reaches(m, X)
<1> DEFINE A == Reaches(m, X)
           B == Reaches(k, X)
<1>1. /\ Closed(m, A) /\ X \subseteq A \cup {Null}
      /\ \A S : Closed(m, S) /\ X \subseteq S \cup {Null} => A \subseteq S
  BY ReachesTold
<1>2. /\ Closed(k, B) /\ X \subseteq B \cup {Null}
      /\ \A S : Closed(k, S) /\ X \subseteq S \cup {Null} => B \subseteq S
  BY ReachesTold
<1>3. \A n \in A : Succ(k, n) = Succ(m, n)
  OBVIOUS
<1> HIDE DEF A, B
<1>4. Closed(k, A)
  BY <1>1, <1>3 DEF Closed
<1>5. B \subseteq A
  BY <1>1, <1>2, <1>4
<1>6. Closed(m, B)
  BY <1>2, <1>3, <1>5 DEF Closed
<1> QED
  BY <1>1, <1>2, <1>5, <1>6 DEF A, B

LEMMA UsedSame ==
    ASSUME NEW m, Memory(m), NEW k, Memory(k), \A c \in Variable : k[c] = m[c],
           \A n \in Used(m) : Succ(k, n) = Succ(m, n)
    PROVE  Used(k) = Used(m)
<1>1. Held(k) = Held(m) /\ Held(m) \in SUBSET (Node \cup {Null})
  BY Arrows DEF Held
<1>2. \A n \in Reaches(m, Held(m)) : Succ(k, n) = Succ(m, n)
  BY DEF Used
<1>3. Reaches(k, Held(m)) = Reaches(m, Held(m))
  BY <1>1, <1>2, ReachesSame
<1> QED
  BY <1>1, <1>3 DEF Used

LEMMA FromSame ==
    ASSUME NEW m, Memory(m), NEW k, Memory(k), NEW x \in Node \cup {Null},
           \A n \in From(m, x) : Succ(k, n) = Succ(m, n)
    PROVE  From(k, x) = From(m, x)
<1>1. {x} \in SUBSET (Node \cup {Null})
  OBVIOUS
<1>2. \A n \in Reaches(m, {x}) : Succ(k, n) = Succ(m, n)
  BY DEF From
<1> QED
  BY <1>1, <1>2, ReachesSame DEF From

(* A node that no reference refers to.                                      *)
LEMMA ArrowIsRef ==
    ASSUME NEW m, Memory(m), NEW n \in Node, NEW p \in Node, Succ(m, p) = n
    PROVE  Width = 1 /\ <<p, 1>> \in Refs(m, n)
BY Arrows, CycleAssumption DEF Refs

LEMMA HolderIsRef ==
    ASSUME NEW m, Memory(m), NEW n \in Node, NEW c \in Variable, m[c] = n
    PROVE  c \in Refs(m, n)
BY Arrows DEF Refs

LEMMA RefIs ==
    ASSUME NEW m, Memory(m), NEW n \in Node, NEW c \in Refs(m, n)
    PROVE  \/ c \in Variable /\ m[c] = n
           \/ \E p \in Node : c = <<p, 1>> /\ Succ(m, p) = n
<1>1. c \in Ref /\ m[c] = n
  BY DEF Refs
<1>2. c \in Variable \/ (Width = 1 /\ \E p \in Node : c = <<p, 1>>)
  BY <1>1, Arrows
<1>3. ASSUME NEW p \in Node, c = <<p, 1>>, Width = 1
      PROVE  Succ(m, p) = n
  BY <1>1, <1>3 DEF Succ
<1> QED
  BY <1>1, <1>2, <1>3

LEMMA RefsFinite ==
    ASSUME NEW m, NEW n
    PROVE  /\ IsFiniteSet(Refs(m, n)) /\ Cardinality(Refs(m, n)) \in Nat
           /\ Cardinality(Refs(m, n)) = 0 <=> Refs(m, n) = {}
<1>1. IsFiniteSet(Refs(m, n))
  BY RefFinite, FS_Subset DEF Refs
<1> QED
  BY <1>1, FS_CardinalityType, FS_EmptySet

LEMMA Unreferenced ==
    ASSUME NEW m, Memory(m), NEW n \in Node, Refs(m, n) = {}
    PROVE  n \notin Used(m) /\ \A p \in Node : Succ(m, p) # n
<1>1. \A p \in Node : Succ(m, p) # n
  BY ArrowIsRef
<1>2. \A c \in Variable : m[c] # n
  BY HolderIsRef
<1> DEFINE S == Used(m) \ {n}
<1>3. /\ Closed(m, Used(m)) /\ Used(m) \subseteq Node
      /\ \A c \in Variable : m[c] \in Used(m) \cup {Null}
      /\ \A T : Closed(m, T) /\ (\A c \in Variable : m[c] \in T \cup {Null}) => Used(m) \subseteq T
  BY UsedTold
<1>4. Closed(m, S)
  BY <1>1, <1>3 DEF Closed
<1>5. \A c \in Variable : m[c] \in S \cup {Null}
  BY <1>2, <1>3
<1> HIDE DEF S
<1>6. Used(m) \subseteq S
  BY <1>3, <1>4, <1>5
<1> QED
  BY <1>1, <1>6 DEF S

------------------------------------------------------------------------------
(* A finite set whose fields refer to all of it is a union of rings.        *)
LEMMA Onto ==
    ASSUME NEW m, NEW V, IsFiniteSet(V), \A v \in V : \E p \in V : Succ(m, p) = v
    PROVE  \A a \in V : Succ(m, a) \in V /\ \A b \in V : Succ(m, a) = Succ(m, b) => a = b
<1> DEFINE P == {v \in V : Succ(m, v) \in V}
           f == [v \in P |-> Succ(m, v)]
<1>1. IsFiniteSet(P) /\ Cardinality(P) <= Cardinality(V) /\ (Cardinality(V) = Cardinality(P) => V = P)
  BY FS_Subset
<1>2. f \in Surjection(P, V)
  BY DEF Surjection
<1>3. Cardinality(V) <= Cardinality(P) /\ (Cardinality(V) = Cardinality(P) => f \in Injection(P, V))
  <2> HIDE DEF P, f
  <2> QED
    BY <1>1, <1>2, FS_Surjection
<1>4. Cardinality(V) \in Nat /\ Cardinality(P) \in Nat
  BY <1>1, FS_CardinalityType
<1>5. V = P /\ f \in Injection(P, V)
  BY <1>1, <1>3, <1>4
<1>6. DOMAIN f = P /\ \A a \in P : f[a] = Succ(m, a)
  OBVIOUS
<1>7. \A a, b \in P : f[a] = f[b] => a = b
  <2> HIDE DEF f, P
  <2> QED
    BY <1>5, <1>6 DEF Injection, IsInjective
<1>8. \A a \in P : Succ(m, a) \in V
  OBVIOUS
<1> HIDE DEF f, P
<1> QED
  BY <1>5, <1>6, <1>7, <1>8

Inward(m, V) == \A v \in V : Succ(m, v) \in V
Apart(m, V)  == \A a, b \in V : Succ(m, a) = Succ(m, b) => a = b

LEMMA OneToOne ==
    ASSUME NEW m, NEW V, IsFiniteSet(V), Inward(m, V), Apart(m, V)
    PROVE  \A v \in V : \E p \in V : Succ(m, p) = v
<1> DEFINE f == [v \in V |-> Succ(m, v)]
<1>1. f \in Injection(V, V)
  BY DEF Injection, IsInjective, Inward, Apart
<1>2. f \in Surjection(V, V)
  <2> HIDE DEF f
  <2> QED
    BY <1>1, FS_Injection
<1>3. \A v \in V : \E p \in V : f[p] = v
  BY <1>2 DEF Surjection
<1> QED
  BY <1>3

LEMMA OnlyRef ==
    ASSUME NEW m, NEW n, Cardinality(Refs(m, n)) = 1, NEW a \in Refs(m, n), NEW b \in Refs(m, n)
    PROVE  a = b
<1>1. IsFiniteSet(Refs(m, n))
  BY RefsFinite
<1>2. PICK x : Refs(m, n) = {x}
  BY <1>1, FS_Singleton
<1> QED
  BY <1>2

(* Objects that are owned once each, and from inside: nothing reaches them. *)
LEMMA RingIsLost ==
    ASSUME NEW m, Memory(m), NEW V \in SUBSET Node,
           \A v \in V : Succ(m, v) \in V /\ Cardinality(Refs(m, v)) = 1
    PROVE  V \cap Used(m) = {}
<1>0. IsFiniteSet(V) /\ Null \notin V
  BY FS_Subset, CycleAssumption
<1>1. ASSUME NEW a \in V, NEW b \in V, Succ(m, a) = Succ(m, b) PROVE a = b
  <2> DEFINE v == Succ(m, a)
  <2>1. v \in V /\ v \in Node /\ Cardinality(Refs(m, v)) = 1
    OBVIOUS
  <2>2. <<a, 1>> \in Refs(m, v) /\ <<b, 1>> \in Refs(m, v)
    BY <1>1, <2>1, ArrowIsRef
  <2>3. <<a, 1>> = <<b, 1>>
    BY <2>1, <2>2, OnlyRef
  <2> QED
    BY <2>3
<1>2. Inward(m, V) /\ Apart(m, V)
  BY <1>1 DEF Inward, Apart
<1>3. \A v \in V : \E p \in V : Succ(m, p) = v
  BY <1>0, <1>2, OneToOne
<1>4. /\ Closed(m, Used(m)) /\ Used(m) \subseteq Node
      /\ \A c \in Variable : m[c] \in Used(m) \cup {Null}
      /\ \A T : Closed(m, T) /\ (\A c \in Variable : m[c] \in T \cup {Null}) => Used(m) \subseteq T
  BY UsedTold
<1> DEFINE S == Used(m) \ V
<1>5. ASSUME NEW n \in S PROVE Succ(m, n) \in S \cup {Null}
  <2>1. n \in Node /\ n \notin V /\ Succ(m, n) \in Used(m) \cup {Null}
    BY <1>4 DEF Closed
  <2>2. ASSUME Succ(m, n) \in V PROVE FALSE
    <3> DEFINE v == Succ(m, n)
    <3>1. v \in V /\ v \in Node /\ Cardinality(Refs(m, v)) = 1
      BY <2>2
    <3>2. PICK p \in V : Succ(m, p) = v
      BY <1>3, <3>1
    <3>3. <<n, 1>> \in Refs(m, v) /\ <<p, 1>> \in Refs(m, v)
      BY <2>1, <3>1, <3>2, ArrowIsRef
    <3>4. <<n, 1>> = <<p, 1>>
      BY <3>1, <3>3, OnlyRef
    <3> QED
      BY <2>1, <3>4
  <2> QED
    BY <2>1, <2>2
<1>6. ASSUME NEW c \in Variable PROVE m[c] \in S \cup {Null}
  <2>1. ASSUME m[c] \in V PROVE FALSE
    <3> DEFINE v == m[c]
    <3>1. v \in V /\ v \in Node /\ Cardinality(Refs(m, v)) = 1
      BY <2>1
    <3>2. PICK p \in V : Succ(m, p) = v
      BY <1>3, <3>1
    <3>3. c \in Refs(m, v) /\ <<p, 1>> \in Refs(m, v)
      BY <3>1, <3>2, ArrowIsRef, HolderIsRef
    <3>4. c = <<p, 1>>
      BY <3>1, <3>3, OnlyRef
    <3> QED
      BY <3>4, Arrows
  <2> QED
    BY <1>4, <2>1
<1>7. Closed(m, S)
  BY <1>4, <1>5 DEF Closed
<1> HIDE DEF S
<1>8. Used(m) \subseteq S
  BY <1>4, <1>6, <1>7
<1> QED
  BY <1>8 DEF S

(* The root of a search that no variable reaches, though it is owned: what  *)
(* was found is a ring, and each of it is owned once.                       *)
LEMMA LostIsRing ==
    ASSUME NEW m, Memory(m), NEW L \in SUBSET Node, NEW r \in L, r \notin Used(m),
           \A p \in Node \ L : Succ(m, p) = Null,
           L \subseteq Used(m) \cup From(m, r),
           \A v \in From(m, r) \ {r} : \E p \in From(m, r) : Succ(m, p) = v,
           Refs(m, r) # {}
    PROVE  /\ \E p \in From(m, r) : Succ(m, p) = r
           /\ \A v \in From(m, r) : Succ(m, v) \in From(m, r) /\ Cardinality(Refs(m, v)) = 1
<1> DEFINE V == From(m, r)
           U == Used(m)
<1>0. /\ r \in Node /\ Null \notin Node /\ IsFiniteSet(Node)
      /\ Closed(m, U) /\ U \subseteq Node /\ \A c \in Variable : m[c] \in U \cup {Null}
  BY UsedTold, CycleAssumption
<1>1. /\ Closed(m, V) /\ V \subseteq Node /\ r \in V
      /\ \A S : Closed(m, S) /\ r \in S \cup {Null} => V \subseteq S
  BY <1>0, FromTold
<1>2. r \notin U /\ L \subseteq U \cup V /\ \A v \in V \ {r} : \E p \in V : Succ(m, p) = v
  OBVIOUS
<1>3. IsFiniteSet(V)
  BY <1>0, <1>1, FS_Subset
<1> HIDE DEF U, V
(* a node that is not used is referred to by nodes of V only                *)
<1>4. ASSUME NEW v \in Node, v \notin U, NEW c \in Refs(m, v)
      PROVE  \E p \in V : c = <<p, 1>> /\ Succ(m, p) = v
  <2>1. \/ c \in Variable /\ m[c] = v
        \/ \E p \in Node : c = <<p, 1>> /\ Succ(m, p) = v
    BY RefIs
  <2>2. ~(c \in Variable /\ m[c] = v)
    BY <1>0, <1>4
  <2>3. PICK p \in Node : c = <<p, 1>> /\ Succ(m, p) = v
    BY <2>1, <2>2
  <2>4. p \in L
    BY <1>0, <2>3
  <2>5. p \notin U
    BY <1>0, <1>4, <2>3 DEF Closed
  <2> QED
    BY <1>2, <2>3, <2>4, <2>5
<1>5. \E p \in V : Succ(m, p) = r
  BY <1>0, <1>2, <1>4
<1>6. \A v \in V : \E p \in V : Succ(m, p) = v
  BY <1>2, <1>5
<1>7. \A a \in V : Succ(m, a) \in V /\ \A b \in V : Succ(m, a) = Succ(m, b) => a = b
  BY <1>3, <1>6, Onto
<1>8. V \cap U = {}
  <2> DEFINE W == V \cap U
  <2>1. IsFiniteSet(W)
    BY <1>3, FS_Subset
  <2>2. Inward(m, W)
    <3>1. \A w \in W : Succ(m, w) \in V /\ Succ(m, w) \in U \cup {Null}
      BY <1>0, <1>7 DEF Closed
    <3> QED
      BY <1>0, <1>1, <3>1 DEF Inward
  <2>3. Apart(m, W)
    BY <1>7 DEF Apart
  <2> HIDE DEF W
  <2>4. \A w \in W : \E p \in W : Succ(m, p) = w
    BY <2>1, <2>2, <2>3, OneToOne
  <2> DEFINE S == V \ W
  <2>5. ASSUME NEW n \in S PROVE Succ(m, n) \in S
    <3>1. Succ(m, n) \in V
      BY <1>7
    <3>2. ASSUME Succ(m, n) \in W PROVE FALSE
      <4>1. PICK p \in W : Succ(m, p) = Succ(m, n)
        BY <2>4, <3>2
      <4>2. p \in V
        BY DEF W
      <4>3. p = n
        BY <1>7, <4>1, <4>2
      <4> QED
        BY <4>3
    <3> QED
      BY <3>1, <3>2
  <2>6. Closed(m, S) /\ r \in S
    BY <1>1, <1>2, <2>5 DEF Closed, W
  <2> HIDE DEF S
  <2>7. V \subseteq S
    BY <1>1, <2>6
  <2> QED
    BY <2>7 DEF S, W
<1>9. ASSUME NEW v \in V PROVE Cardinality(Refs(m, v)) = 1
  <2>1. v \in Node /\ v \notin U
    BY <1>1, <1>8
  <2>2. PICK p \in V : Succ(m, p) = v
    BY <1>6
  <2>3. <<p, 1>> \in Refs(m, v)
    BY <1>1, <2>1, <2>2, ArrowIsRef
  <2>4. ASSUME NEW c \in Refs(m, v) PROVE c = <<p, 1>>
    <3>1. PICK q \in V : c = <<q, 1>> /\ Succ(m, q) = v
      BY <1>4, <2>1
    <3>2. q = p
      BY <1>7, <2>2, <3>1
    <3> QED
      BY <3>1, <3>2
  <2>5. Refs(m, v) = {<<p, 1>>}
    BY <2>3, <2>4
  <2> QED
    BY <2>5, FS_Singleton
<1> QED
  BY <1>5, <1>7, <1>9 DEF V

------------------------------------------------------------------------------
(* The field of a node outside of what is used becomes empty.               *)
Cut(m, x) == [m EXCEPT ![<<x, 1>>] = Null]

LEMMA CutTold ==
    ASSUME NEW m, Memory(m), NEW x \in Node
    PROVE  /\ Memory(Cut(m, x)) /\ \A c \in Variable : Cut(m, x)[c] = m[c]
           /\ \A n \in Node : n # x => Succ(Cut(m, x), n) = Succ(m, n)
           /\ Succ(Cut(m, x), x) = Null
<1>1. m \in [Ref -> Node \cup {Null}] /\ Variable \subseteq Ref /\ <<x, 1>> \notin Variable
  BY Arrows
<1>2. Memory(Cut(m, x))
  BY <1>1 DEF Memory, Cut
<1>3. \A c \in Variable : Cut(m, x)[c] = m[c]
  BY <1>1 DEF Cut
<1>4. Width = 1 => \A n \in Node : <<n, 1>> \in Ref
  BY Arrows
<1>5. \A n \in Node : n # x => Succ(Cut(m, x), n) = Succ(m, n)
  BY <1>1, <1>4 DEF Succ, Cut
<1>6. Succ(Cut(m, x), x) = Null
  BY <1>1, <1>4 DEF Succ, Cut
<1> QED
  BY <1>2, <1>3, <1>5, <1>6

LEMMA CutUnused ==
    ASSUME NEW m, Memory(m), NEW x \in Node, x \notin Used(m)
    PROVE  Used(Cut(m, x)) = Used(m)
<1>1. \A n \in Used(m) : n \in Node /\ n # x
  BY UsedTold
<1>2. /\ Memory(Cut(m, x)) /\ \A c \in Variable : Cut(m, x)[c] = m[c]
      /\ \A n \in Used(m) : Succ(Cut(m, x), n) = Succ(m, n)
  BY <1>1, CutTold
<1> QED
  BY <1>2, UsedSame

(* Cutting what leads to y takes nothing from what y reaches.               *)
LEMMA CutBefore ==
    ASSUME NEW m, Memory(m), NEW x \in Node
    PROVE  From(m, Succ(m, x)) \subseteq From(Cut(m, x), Succ(m, x))
<1> DEFINE y == Succ(m, x)
           k == Cut(m, x)
<1>1. y \in Node \cup {Null}
  BY Arrows
<1>2. Memory(k) /\ \A n \in Node : n # x => Succ(k, n) = Succ(m, n)
  BY CutTold
<1> HIDE DEF k
<1>3. \A S : Closed(m, S) /\ y \in S \cup {Null} => From(m, y) \subseteq S
  BY <1>1, FromTold
<1>4. /\ Closed(k, From(k, y)) /\ (y # Null => y \in From(k, y))
  BY <1>1, <1>2, FromTold
<1>5. Closed(m, From(k, y))
  <2>1. ASSUME NEW n \in From(k, y) PROVE Succ(m, n) \in From(k, y) \cup {Null}
    <3>1. n \in Node
      BY <1>4 DEF Closed
    <3>2. CASE n = x
      BY <3>2, <1>4
    <3>3. CASE n # x
      BY <3>1, <3>3, <1>2, <1>4 DEF Closed
    <3> QED
      BY <3>2, <3>3
  <2> QED
    BY <1>4, <2>1 DEF Closed
<1>6. From(m, y) \subseteq From(k, y)
  BY <1>3, <1>4, <1>5
<1> QED
  BY <1>6 DEF k

(* A reference that can be named gets another value: nothing gets lost but  *)
(* what only the old value reached, and nothing is found that was not used. *)
LEMMA Swapped ==
    ASSUME NEW m, Memory(m), NEW k, Memory(k), NEW c \in Ref, NEW v, Assigned(m, c, v, k),
           c \in Variable \/ \E n \in Used(m) : c = <<n, 1>>,
           v \in Used(m) \cup {Null}
    PROVE  /\ m[c] \in Used(m) \cup {Null}
           /\ Used(k) \subseteq Used(m) /\ Closed(k, Used(m))
           /\ Used(m) \subseteq Used(k) \cup From(k, m[c])
<1> DEFINE U == Used(m)
           old == m[c]
<1>0. /\ Closed(m, U) /\ U \subseteq Node /\ \A b \in Variable : m[b] \in U \cup {Null}
      /\ \A S : Closed(m, S) /\ (\A b \in Variable : m[b] \in S \cup {Null}) => U \subseteq S
  BY UsedTold
<1>1. /\ Closed(k, Used(k)) /\ Used(k) \subseteq Node /\ \A b \in Variable : k[b] \in Used(k) \cup {Null}
      /\ \A S : Closed(k, S) /\ (\A b \in Variable : k[b] \in S \cup {Null}) => Used(k) \subseteq S
  BY UsedTold
<1>2. \A b \in Variable : b \in Ref /\ k[b] = IF b = c THEN v ELSE m[b]
  BY Arrows DEF Assigned
<1>3. ASSUME NEW n \in Node PROVE Succ(k, n) = IF Width = 1 /\ <<n, 1>> = c THEN v ELSE Succ(m, n)
  <2>1. Width = 1 => <<n, 1>> \in Ref
    BY Arrows
  <2> QED
    BY <2>1 DEF Succ, Assigned
<1>4. old \in U \cup {Null}
  <2>1. CASE c \in Variable
    BY <1>0, <2>1
  <2>2. ASSUME NEW n \in U, c = <<n, 1>> PROVE old \in U \cup {Null}
    <3>1. n \in Node /\ c \notin Variable
      BY <1>0, <2>2, Arrows
    <3>2. Width = 1
      BY <3>1, Arrows
    <3>3. old = Succ(m, n)
      BY <2>2, <3>2 DEF Succ
    <3> QED
      BY <1>0, <3>3 DEF Closed
  <2> QED
    BY <2>1, <2>2
<1>5. v \in U \cup {Null}
  OBVIOUS
<1>n. m[c] = old
  OBVIOUS
<1> HIDE DEF U, old
<1>6. Closed(k, U)
  BY <1>0, <1>3, <1>5 DEF Closed
<1>7. \A b \in Variable : k[b] \in U \cup {Null}
  BY <1>0, <1>2, <1>5
<1>8. Used(k) \subseteq U
  BY <1>1, <1>6, <1>7
<1> DEFINE F == From(k, old)
           T == Used(k) \cup F
<1>9. Closed(k, F) /\ F \subseteq Node /\ old \in F \cup {Null}
  <2>1. old \in Node \cup {Null}
    BY <1>0, <1>4
  <2> QED
    BY <2>1, FromTold
<1> HIDE DEF F
<1>10. ASSUME NEW n \in T PROVE Succ(m, n) \in T \cup {Null}
  <2>1. n \in Node /\ Succ(k, n) \in T \cup {Null}
    BY <1>1, <1>9 DEF Closed
  <2>2. CASE Width = 1 /\ <<n, 1>> = c
    <3>1. Succ(m, n) = old
      BY <2>2, <1>n DEF Succ
    <3> QED
      BY <1>9, <3>1
  <2>3. CASE ~(Width = 1 /\ <<n, 1>> = c)
    BY <1>3, <2>1, <2>3
  <2> QED
    BY <2>2, <2>3
<1>11. Closed(m, T)
  BY <1>1, <1>9, <1>10 DEF Closed
<1>12. \A b \in Variable : m[b] \in T \cup {Null}
  BY <1>1, <1>2, <1>9, <1>n
<1> HIDE DEF T
<1>13. U \subseteq T
  BY <1>0, <1>11, <1>12
<1> QED
  BY <1>n, <1>4, <1>6, <1>8, <1>13 DEF U, T, F

------------------------------------------------------------------------------
(* A careful program: what holds between its steps and those of the filter  *)
(* thread.  Nothing is alive and unused but what hangs on one object: the   *)
(* one that was dropped, the root of the search, or the next to be          *)
(* destroyed.                                                               *)
Alive(u)   == {n \in Node : ~u[n]}
Marked(v)  == {n \in Node : v[n] >= 0}
OnStack(s) == {n \in Node : \E k \in DOMAIN s : s[k].kind = "routing" /\ s[k].node = n}

Single == sync /\ Width <= 1 /\ \A a, b \in Thread : a = b

Counted   == \A n \in Alive(under_release) :
                 owners[n] = Cardinality(Refs(mem, n)) + Cardinality(Pushes(queue, n))
UsedAlive == Used(mem) \subseteq Alive(under_release)
Below(s)  == \A k \in DOMAIN s : k > 1 => s[k].i > Width /\ (s[k].kind = "routing" => ~s[k].arrive)
Breaking(n) == calls # <<>> /\ calls[1].kind = "destroy" /\ calls[1].node = n /\ calls[1].i <= Width
Blank     == \A n \in Node \ Alive(under_release) : Succ(mem, n) # Null => Breaking(n)
Loaded    == \A th \in Thread : om[th] # Idle =>
                 /\ Quiet
                 /\ om[th].dst \in Variable \/ \E n \in Used(mem) : om[th].dst = <<n, 1>>
                 /\ om[th].value \in Used(mem) \cup {Null}

Hanging(x) == Alive(under_release) \subseteq Used(mem) \cup From(mem, x)
Whole      == Closed(mem, Alive(under_release))

Rest  == Quiet /\ Alive(under_release) \subseteq Used(mem)
Dropped == \E x \in Alive(under_release) :
    queue = <<x>> /\ batch = <<>> /\ calls = <<>> /\ Whole /\ Hanging(x)
Taken == \E x \in Alive(under_release) :
    /\ queue = <<>> /\ batch = <<x>> /\ calls = <<>> /\ Whole /\ Hanging(x)
    /\ Marked(visited) = {}

(* The search of r has visited V, a path from r; going down it is all on    *)
(* the stack, coming up it is all of what r reaches.                        *)
Seeking(V, r) ==
    /\ queue = <<>> /\ batch = <<>> /\ calls # <<>> /\ calls[1].kind = "routing"
    /\ r \in V /\ r \in Alive(under_release) /\ owners[r] >= 1 /\ can_arrive_root[r]
    /\ Whole /\ Hanging(r)
    /\ V \subseteq From(mem, r) /\ OnStack(calls) \subseteq V
    /\ \A v \in V \ {r} : \E p \in V : Succ(mem, p) = v
PlainMarks(V, r) == visited[r] = 0 /\ \A v \in V \ {r} : visited[v] = 1
Down(V, r) ==
    /\ Seeking(V, r) /\ calls[1].i <= Width /\ ~calls[1].arrive
    /\ V \subseteq OnStack(calls) /\ g_degree_dvalue = 0 /\ PlainMarks(V, r)
    /\ \A v \in V \ {calls[1].node} : Succ(mem, v) \in V \ {r}
Summed(V) ==
    \/ g_degree_dvalue = -1 /\ \A v \in V \ OnStack(calls) : owners[v] = 1
    \/ g_degree_dvalue > -1 /\ \E v \in V : owners[v] # 1
Arrives(V, r) ==
    /\ PlainMarks(V, r) /\ (\A v \in V : Succ(mem, v) \in V) /\ Summed(V)
    /\ \A v \in V \ OnStack(calls) : can_arrive_root[v]
Misses(V, r) == \A v \in V : Succ(mem, v) # r
Up(V, r) ==
    /\ Seeking(V, r) /\ calls[1].i > Width /\ Closed(mem, V)
    /\ IF calls[1].arrive THEN Arrives(V, r) ELSE Misses(V, r)
Searching == \E V \in SUBSET Node, r \in Node :
    V = Marked(visited) /\ r = g_root /\ (Down(V, r) \/ Up(V, r))

(* A chain of objects that nothing else owns is destroyed, or a ring.       *)
Ending == queue = <<>> /\ batch = <<>> /\ calls # <<>> /\ calls[1].kind = "destroy"
Tearing(n) ==
    /\ Ending /\ n = calls[1].node /\ calls[1].i <= Width
    /\ n \in Node \ Alive(under_release) /\ Hanging(Succ(mem, n))
Chain == \E n \in Node : Tearing(n) /\ Marked(visited) = {} /\ Whole
Ring  == \E n \in Node : \E V \in SUBSET Node :
    /\ Tearing(n) /\ V = Marked(visited) /\ n \in V
    /\ V \cap Used(mem) = {} /\ Closed(mem, V) /\ \A v \in V : can_arrive_root[v]
Ended == Ending /\ calls[1].i > Width /\ Alive(under_release) \subseteq Used(mem)

Phase == Rest \/ Dropped \/ Taken \/ Searching \/ Chain \/ Ring \/ Ended
Kept  == Counted /\ UsedAlive /\ Below(calls) /\ Blank /\ Loaded /\ Phase
Calm  == SearchInv /\ Single /\ Kept

LEMMA CalmFacts ==
    ASSUME Calm
    PROVE  /\ Memory(mem) /\ TypeOK /\ calls \in Seq(Calls)
           /\ Alive(under_release) \subseteq Node /\ Used(mem) \subseteq Alive(under_release)
           /\ ~Quiet => \A th \in Thread : om[th] = Idle
<1>1. TypeOK /\ Width <= 1
  BY DEF Calm, SearchInv, Single
<1>2. Memory(mem) /\ calls \in Seq(Calls)
  BY <1>1 DEF TypeOK, Memory, Calls
<1>3. ~Quiet => \A th \in Thread : om[th] = Idle
  BY DEF Calm, Kept, Loaded
<1> QED
  BY <1>1, <1>2, <1>3 DEF Calm, Kept, UsedAlive, Alive

LEMMA PushesTold ==
    ASSUME NEW n
    PROVE  /\ Pushes(<<>>, n) = {} /\ Cardinality(Pushes(<<>>, n)) = 0
<1>1. Pushes(<<>>, n) = {}
  BY DEF Pushes
<1> QED
  BY <1>1, FS_EmptySet

(* TakeBatch: of one push, one object.                                      *)
LEMMA TakeKept == Calm /\ SearchInv' /\ TakeBatch => Kept'
<1> SUFFICES ASSUME Calm, SearchInv', TakeBatch PROVE Kept'
  OBVIOUS
<1>1. /\ calls = <<>> /\ batch = <<>> /\ queue # <<>> /\ queue' = <<>> /\ visited' = NewTerm
      /\ UNCHANGED <<mem, under_release, can_arrive_root, g_root, g_degree_dvalue, calls, om, sync, assigned>>
      /\ \A n \in Node : owners'[n] = owners[n] - Cardinality(Pushes(queue, n))
  BY DEF TakeBatch, Pushes
<1>2. PICK x \in Alive(under_release) : queue = <<x>> /\ Whole /\ Hanging(x)
  <2>1. Dropped
    BY <1>1 DEF Calm, Kept, Phase, Rest, Quiet, Taken, Searching, Down, Up, Seeking, Chain, Ring,
                Tearing, Ending, Ended
  <2> QED
    BY <2>1 DEF Dropped
<1>3. batch' = <<x>>
  <2> DEFINE last == {k \in DOMAIN queue : \A j \in k + 1 .. Len(queue) : queue[j] # queue[k]}
             place(k) == CHOOSE j \in last : Cardinality({i \in last : i <= j}) = k
  <2>1. last = {1}
    BY <1>2
  <2>2. batch' = [k \in 1 .. Cardinality(last) |-> queue[place(k)]]
    BY DEF TakeBatch
  <2> HIDE DEF last
  <2>3. Cardinality(last) = 1
    BY <2>1, FS_Singleton
  <2>4. place(1) = 1
    <3>1. \A j \in last : j = 1
      BY <2>1
    <3>2. {i \in last : i <= 1} = {1} /\ 1 \in last
      BY <2>1
    <3>3. Cardinality({i \in last : i <= 1}) = 1
      BY <3>2, FS_Singleton
    <3> QED
      BY <3>1, <3>2, <3>3
  <2> HIDE DEF place
  <2>5. 1 .. 1 = {1}
    OBVIOUS
  <2>6. batch' = [k \in {1} |-> x]
    BY <1>2, <2>2, <2>3, <2>4, <2>5
  <2> QED
    BY <2>6
<1>4. Counted'
  <2> SUFFICES ASSUME NEW n \in Alive(under_release)
               PROVE  owners'[n] = Cardinality(Refs(mem, n)) + Cardinality(Pushes(queue', n))
    BY <1>1 DEF Counted
  <2>1. n \in Node /\ owners[n] = Cardinality(Refs(mem, n)) + Cardinality(Pushes(queue, n))
    BY DEF Calm, Kept, Counted, Alive
  <2>2. Cardinality(Pushes(queue', n)) = 0
    BY <1>1, PushesTold
  <2>3. Cardinality(Refs(mem, n)) \in Nat /\ Cardinality(Pushes(queue, n)) \in Nat
    BY RefCount, PushCount, CalmFacts DEF TypeOK
  <2> QED
    BY <1>1, <2>1, <2>2, <2>3
<1>5. Marked(visited') = {}
  BY <1>1 DEF Marked, NewTerm
<1>6. Taken'
  BY <1>1, <1>2, <1>3, <1>5 DEF Taken, Whole, Hanging
<1>7. \A th \in Thread : om'[th] = Idle
  BY <1>1, CalmFacts DEF Quiet
<1>8. UsedAlive' /\ Below(calls') /\ Blank'
  BY <1>1 DEF Calm, Kept, UsedAlive, Below, Blank, Breaking
<1> QED
  BY <1>4, <1>6, <1>7, <1>8 DEF Kept, Loaded, Phase

------------------------------------------------------------------------------
(* What a dying object leaves to its field.                                 *)
LEMMA Dying ==
    ASSUME NEW m, Memory(m), NEW L \in SUBSET Node, NEW x \in L, Used(m) \subseteq L,
           L \subseteq Used(m) \cup From(m, x), x \notin Used(m)
    PROVE  /\ Used(m) \subseteq L \ {x}
           /\ L \ {x} \subseteq Used(m) \cup From(m, Succ(m, x))
<1>1. From(m, x) = {x} \cup From(m, Succ(m, x))
  BY FromStep
<1> QED
  BY <1>1

LEMMA DyingAlone ==
    ASSUME NEW m, Memory(m), NEW L \in SUBSET Node, NEW x \in L, Closed(m, L), Refs(m, x) = {}
    PROVE  x \notin Used(m) /\ Closed(m, L \ {x})
<1>1. x \notin Used(m) /\ \A p \in Node : Succ(m, p) # x
  BY Unreferenced
<1> QED
  BY <1>1 DEF Closed

LEMMA Fewer ==
    ASSUME NEW x \in Node, Release(x), under_release \in [Node -> BOOLEAN]
    PROVE  Alive(under_release') = Alive(under_release) \ {x}
BY DEF Alive, Release

(* Below the call of a root there is no search.                             *)
LEMMA RootOnTop ==
    ASSUME NEW s \in Seq(Calls), s # <<>>, NEW root, NEW marks, Nesting(s, root, marks),
           s[1].kind = "routing", s[1].node = root
    PROVE  OnStack(s) = {root}
<1>1. DOMAIN s = 1 .. Len(s) /\ Len(s) \in Nat \ {0} /\ \A k \in DOMAIN s : s[k].kind \in {"routing", "destroy"}
  BY Popping, CallKinds
<1>2. root \in Node /\ ~Routes(s, 2)
  BY <1>1 DEF Nesting
<1>3. \A k \in DOMAIN s : k > 1 => s[k].kind = "destroy"
  <2>1. Len(s) >= 2 => s[2].kind = "destroy"
    BY <1>1, <1>2 DEF Routes
  <2> QED
    BY <1>1, <2>1 DEF Nesting
<1>4. \A k \in DOMAIN s : s[k].kind = "routing" => k = 1
  BY <1>1, <1>3
<1> QED
  BY <1>1, <1>2, <1>4 DEF OnStack

(* Nothing hangs on the empty reference.                                    *)
LEMMA NothingHangs ==
    ASSUME NEW m, Memory(m), NEW L, L \subseteq Used(m) \cup From(m, Null)
    PROVE  L \subseteq Used(m)
<1>1. From(m, Null) = {}
  BY FromTold
<1> QED
  BY <1>1

(* A search begins.                                                         *)
LEMMA Begun ==
    ASSUME TypeOK, SearchInv', Width <= 1, NEW x \in Node, StartSearch(x), Marked(visited) = {},
           calls' # <<>>, calls'[1] = Call("routing", x), queue' = <<>>, batch' = <<>>,
           x \in Alive(under_release'), owners'[x] >= 1,
           Closed(mem', Alive(under_release')),
           Alive(under_release') \subseteq Used(mem') \cup From(mem', x)
    PROVE  Searching'
<1>1. /\ visited' = [visited EXCEPT ![x] = 0] /\ g_root' = x /\ g_degree_dvalue' = 0
      /\ can_arrive_root' = [can_arrive_root EXCEPT ![x] = TRUE]
  BY DEF StartSearch
<1>2. Memory(mem') /\ calls' \in Seq(Calls) /\ Nesting(calls', g_root', visited')
  BY DEF SearchInv, TypeOK, Memory, Calls
<1>3. Marked(visited') = {x} /\ visited'[x] = 0 /\ can_arrive_root'[x]
  BY <1>1 DEF Marked, TypeOK
<1>4. /\ calls'[1].kind = "routing" /\ calls'[1].node = x /\ calls'[1].i = 1 /\ calls'[1].arrive = FALSE
  BY DEF Call
<1>5. OnStack(calls') = {x}
  <2> DEFINE s == calls'
             v == visited'
  <2>1. s \in Seq(Calls) /\ s # <<>> /\ Nesting(s, x, v) /\ s[1].kind = "routing" /\ s[1].node = x
    BY <1>1, <1>2, <1>4
  <2> HIDE DEF s, v
  <2>2. OnStack(s) = {x}
    BY <2>1, RootOnTop
  <2> QED
    BY <2>2 DEF s
<1>6. x \in From(mem', x)
  BY <1>2, FromTold, CycleAssumption
<1> DEFINE V == {x}
<1>7. Seeking(V, x)'
  BY <1>3, <1>4, <1>5, <1>6 DEF Seeking, Whole, Hanging
<1>8. PlainMarks(V, x)'
  BY <1>3 DEF PlainMarks
<1>9. CASE Width = 1
  <2>1. Down(V, x)'
    BY <1>1, <1>4, <1>5, <1>7, <1>8, <1>9 DEF Down
  <2> QED
    BY <1>1, <1>3, <2>1 DEF Searching
<1>10. CASE Width = 0
  <2>1. \A n : Succ(mem', n) = Null
    BY <1>10 DEF Succ
  <2>2. Closed(mem', V) /\ Misses(V, x)'
    BY <2>1, CycleAssumption DEF Closed, Misses
  <2>3. Up(V, x)'
    BY <1>4, <1>7, <1>10, <2>2 DEF Up
  <2> QED
    BY <1>1, <1>3, <2>3 DEF Searching
<1> QED
  BY <1>9, <1>10, CycleAssumption

(* The object at which the search, or a destruction, goes on to destroy.    *)
LEMMA Falls ==
    ASSUME SearchInv', Width <= 1, NEW x \in Node, calls' # <<>>, calls'[1] = Call("destroy", x),
           queue' = <<>>, batch' = <<>>, x \notin Alive(under_release'),
           Alive(under_release') \subseteq Used(mem') \cup From(mem', Succ(mem', x)),
           NEW V, V = Marked(visited'),
           \/ V = {} /\ Closed(mem', Alive(under_release'))
           \/ /\ x \in V /\ V \cap Used(mem') = {} /\ Closed(mem', V)
              /\ \A v \in V : can_arrive_root'[v]
    PROVE  Phase'
<1>1. calls'[1].kind = "destroy" /\ calls'[1].node = x /\ calls'[1].i = 1
  BY DEF Call
<1>2. Memory(mem')
  BY DEF SearchInv, TypeOK, Memory
<1>3. Ending'
  BY <1>1 DEF Ending
<1>4. CASE Width = 0
  <2>1. Succ(mem', x) = Null
    BY <1>4 DEF Succ
  <2>2. Alive(under_release') \subseteq Used(mem')
    BY <1>2, <2>1, NothingHangs
  <2>3. Ended'
    BY <1>1, <1>3, <1>4, <2>2 DEF Ended
  <2> QED
    BY <2>3 DEF Phase
<1>5. CASE Width = 1
  <2>1. Tearing(x)'
    BY <1>1, <1>3, <1>5 DEF Tearing, Hanging
  <2>2. V \in SUBSET Node
    BY DEF Marked
  <2>3. Chain' \/ Ring'
    BY <2>1, <2>2 DEF Chain, Ring, Whole
  <2> QED
    BY <2>3 DEF Phase
<1> QED
  BY <1>4, <1>5, CycleAssumption

(* meta::release of the one object                                          *)
LEMMA ReleaseKept == Calm /\ SearchInv' /\ ReleaseNext => Kept'
<1> SUFFICES ASSUME Calm, SearchInv', ReleaseNext PROVE Kept'
  OBVIOUS
<1>1. /\ calls = <<>> /\ batch # <<>> /\ batch' = Tail(batch)
      /\ UNCHANGED <<mem, owners, queue, om, sync, assigned>>
  BY DEF ReleaseNext
<1>2. PICK x \in Alive(under_release) :
          batch = <<x>> /\ queue = <<>> /\ Whole /\ Hanging(x) /\ Marked(visited) = {}
  <2>1. Taken
    BY <1>1 DEF Calm, Kept, Phase, Rest, Quiet, Dropped, Searching, Down, Up, Seeking, Chain, Ring,
                Tearing, Ending, Ended
  <2> QED
    BY <2>1 DEF Taken
<1>3. x \in Node /\ ~under_release[x] /\ ~IsVisited(x) /\ Head(batch) = x /\ batch' = <<>>
  BY <1>1, <1>2 DEF Alive, Marked, IsVisited
<1>4. /\ Memory(mem) /\ TypeOK /\ Alive(under_release) \subseteq Node
      /\ Used(mem) \subseteq Alive(under_release) /\ Width <= 1
  BY CalmFacts DEF Calm, Single
<1>5. owners[x] = Cardinality(Refs(mem, x))
  <2>1. Cardinality(Pushes(queue, x)) = 0 /\ Cardinality(Refs(mem, x)) \in Nat
    BY <1>2, PushesTold, RefCount
  <2> QED
    BY <2>1 DEF Calm, Kept, Counted
<1>6. \A th \in Thread : om'[th] = Idle
  BY <1>1, CalmFacts DEF Quiet
<1>7. \A n \in Node \ Alive(under_release) : Succ(mem, n) = Null
  BY <1>1 DEF Calm, Kept, Blank, Breaking
<1>8. Counted /\ UsedAlive /\ \A k \in {1} : ~(k > 1)
  BY DEF Calm, Kept
<1>9. CASE Release(x) /\ calls' = <<Call("destroy", x)>> /\ UNCHANGED searchVars /\ owners[x] = 0
  <2>1. Refs(mem, x) = {}
    BY <1>5, <1>9, RefsFinite
  <2>2. Closed(mem, Alive(under_release)) /\ Alive(under_release) \subseteq Used(mem) \cup From(mem, x)
    BY <1>2 DEF Whole, Hanging
  <2>3. Alive(under_release') = Alive(under_release) \ {x}
    BY <1>3, <1>4, <1>9, Fewer DEF TypeOK
  <2> DEFINE L == Alive(under_release)
             K == L \ {x}
  <2>4. x \notin Used(mem) /\ Closed(mem, K)
    BY <1>4, <2>1, <2>2, DyingAlone
  <2>5. Used(mem) \subseteq K /\ K \subseteq Used(mem) \cup From(mem, Succ(mem, x))
    BY <1>4, <2>2, <2>4, Dying
  <2>6. visited' = visited
    BY <1>9 DEF searchVars
  <2>7. Phase'
    <3>1. calls' # <<>> /\ calls'[1] = Call("destroy", x)
      BY <1>9
    <3>2. {} = Marked(visited')
      BY <1>2, <2>6
    <3>3. mem' = mem /\ queue' = <<>> /\ batch' = <<>>
      BY <1>1, <1>2, <1>3
    <3>4. x \notin Alive(under_release') /\ Closed(mem', Alive(under_release'))
          /\ Alive(under_release') \subseteq Used(mem') \cup From(mem', Succ(mem', x))
      BY <2>3, <2>4, <2>5, <3>3
    <3> QED
      BY <1>3, <1>4, <3>1, <3>2, <3>3, <3>4, Falls
  <2>8. DOMAIN calls' = {1} /\ calls'[1].kind = "destroy" /\ calls'[1].node = x /\ calls'[1].i = 1
    BY <1>9 DEF Call
  <2>9. Counted'
    BY <1>1, <1>8, <2>3 DEF Counted
  <2>10. UsedAlive'
    BY <1>1, <2>3, <2>5 DEF UsedAlive
  <2>11. Below(calls')
    BY <2>8 DEF Below
  <2>12. Blank'
    <3> SUFFICES ASSUME NEW n \in Node \ Alive(under_release'), Succ(mem', n) # Null
                 PROVE  Breaking(n)'
      BY DEF Blank
    <3>1. n = x
      BY <1>1, <1>7, <2>3
    <3>2. Width = 1
      BY <1>4, Arrows, <1>1
    <3>3. calls' # <<>>
      BY <1>9
    <3> QED
      BY <2>8, <3>1, <3>2, <3>3 DEF Breaking
  <2> QED
    BY <1>6, <2>7, <2>9, <2>10, <2>11, <2>12 DEF Kept, Loaded
<1>10. CASE StartSearch(x) /\ calls' = <<Call("routing", x)>> /\ UNCHANGED under_release /\ owners[x] # 0
  <2>1. owners[x] >= 1
    BY <1>3, <1>4, <1>10 DEF TypeOK
  <2>2. Searching'
    <3>1. calls' # <<>> /\ calls'[1] = Call("routing", x)
      BY <1>10
    <3>2. mem' = mem /\ queue' = <<>> /\ batch' = <<>> /\ owners' = owners
      BY <1>1, <1>2, <1>3
    <3>3. /\ x \in Alive(under_release') /\ owners'[x] >= 1 /\ Closed(mem', Alive(under_release'))
          /\ Alive(under_release') \subseteq Used(mem') \cup From(mem', x)
      BY <1>2, <1>10, <2>1, <3>2 DEF Whole, Hanging
    <3> QED
      BY <1>2, <1>3, <1>4, <1>10, <3>1, <3>2, <3>3, Begun
  <2>3. DOMAIN calls' = {1}
    BY <1>10
  <2>4. Counted' /\ UsedAlive'
    BY <1>1, <1>8, <1>10 DEF Counted, UsedAlive
  <2>5. Below(calls')
    BY <2>3 DEF Below
  <2>6. Blank'
    BY <1>1, <1>7, <1>10 DEF Blank
  <2> QED
    BY <1>6, <2>2, <2>4, <2>5, <2>6 DEF Kept, Loaded, Phase
<1> QED
  <2>1. \/ Release(x) /\ calls' = <<Call("destroy", x)>> /\ UNCHANGED searchVars /\ owners[x] = 0
        \/ StartSearch(x) /\ calls' = <<Call("routing", x)>> /\ UNCHANGED under_release /\ owners[x] # 0
    BY <1>3 DEF ReleaseNext
  <2> QED
    BY <1>9, <1>10, <2>1

------------------------------------------------------------------------------
(* The stack of calls after a step: who is on it, and who waits below.      *)
LEMMA TopOnStack ==
    ASSUME NEW s \in Seq(Calls), s # <<>>, s[1].kind = "routing"
    PROVE  s[1].node \in OnStack(s)
<1>1. 1 \in DOMAIN s /\ s[1] \in Calls
  BY Popping
<1> QED
  BY <1>1 DEF OnStack, Calls

LEMMA StackReplaced ==
    ASSUME NEW s \in Seq(Calls), s # <<>>, NEW a \in Calls, a.kind = s[1].kind, a.node = s[1].node,
           Below(s)
    PROVE  /\ OnStack(<<a>> \o Tail(s)) = OnStack(s) /\ Below(<<a>> \o Tail(s))
           /\ (<<a>> \o Tail(s))[1] = a /\ <<a>> \o Tail(s) # <<>>
<1> DEFINE t == <<a>> \o Tail(s)
<1>1. DOMAIN t = 1 .. Len(s) /\ DOMAIN s = 1 .. Len(s) /\ Len(s) \in Nat \ {0}
  BY Popping, Replacing
<1>2. t[1] = a /\ \A k \in 2 .. Len(s) : t[k] = s[k]
  BY Replacing
<1> HIDE DEF t
<1>3. \A k \in 1 .. Len(s) : t[k].kind = s[k].kind /\ t[k].node = s[k].node
  BY <1>1, <1>2
<1>4. OnStack(t) = OnStack(s)
  BY <1>1, <1>3 DEF OnStack
<1>5. Below(t)
  BY <1>1, <1>2 DEF Below
<1>6. t # <<>>
  BY <1>1
<1> QED
  BY <1>2, <1>4, <1>5, <1>6 DEF t

LEMMA StackPushed ==
    ASSUME NEW s \in Seq(Calls), s # <<>>, NEW a \in Calls, NEW b \in Calls,
           b.kind = s[1].kind, b.node = s[1].node, b.i > Width,
           b.kind = "routing" => ~b.arrive, Below(s)
    PROVE  /\ a.kind = "routing" => OnStack(<<a, b>> \o Tail(s)) = OnStack(s) \cup {a.node}
           /\ Below(<<a, b>> \o Tail(s))
           /\ (<<a, b>> \o Tail(s))[1] = a /\ <<a, b>> \o Tail(s) # <<>>
<1> DEFINE t == <<a, b>> \o Tail(s)
<1>1. DOMAIN t = 1 .. Len(s) + 1 /\ DOMAIN s = 1 .. Len(s) /\ Len(s) \in Nat \ {0}
  BY Popping, Pushing
<1>2. t[1] = a /\ t[2] = b /\ \A k \in 3 .. Len(s) + 1 : t[k] = s[k - 1]
  BY Pushing
<1> HIDE DEF t
<1>3. ASSUME NEW k \in 1 .. Len(s)
      PROVE  k + 1 \in DOMAIN t /\ t[k + 1].kind = s[k].kind /\ t[k + 1].node = s[k].node
  <2>1. CASE k = 1
    BY <1>1, <1>2, <2>1
  <2>2. CASE k # 1
    <3>1. k + 1 \in 3 .. Len(s) + 1 /\ (k + 1) - 1 = k
      BY <1>1, <2>2
    <3> QED
      BY <1>1, <1>2, <3>1
  <2> QED
    BY <2>1, <2>2
<1>4. \A j \in DOMAIN t : j = 1 \/ \E k \in 1 .. Len(s) : j = k + 1
  <2>1. ASSUME NEW j \in 1 .. Len(s) + 1, j # 1
        PROVE  j - 1 \in 1 .. Len(s) /\ j = (j - 1) + 1
    BY <1>1, <2>1
  <2> QED
    BY <1>1, <2>1
<1>5. ASSUME a.kind = "routing" PROVE OnStack(t) = OnStack(s) \cup {a.node}
  <2>1. a.node \in Node /\ 1 \in DOMAIN t
    BY <1>1 DEF Calls
  <2>2. ASSUME NEW n \in OnStack(s) PROVE n \in OnStack(t)
    <3>1. PICK k \in DOMAIN s : s[k].kind = "routing" /\ s[k].node = n
      BY DEF OnStack
    <3>2. n \in Node
      BY DEF OnStack
    <3> QED
      BY <1>1, <1>3, <3>1, <3>2 DEF OnStack
  <2>3. ASSUME NEW n \in OnStack(t), n # a.node PROVE n \in OnStack(s)
    <3>1. PICK j \in DOMAIN t : t[j].kind = "routing" /\ t[j].node = n
      BY DEF OnStack
    <3>2. n \in Node /\ j # 1
      BY <1>2, <2>3, <3>1 DEF OnStack
    <3>3. PICK k \in 1 .. Len(s) : j = k + 1
      BY <1>4, <3>2
    <3> QED
      BY <1>1, <1>3, <3>1, <3>2, <3>3 DEF OnStack
  <2>4. a.node \in OnStack(t)
    BY <1>2, <1>5, <2>1 DEF OnStack
  <2> QED
    BY <2>2, <2>3, <2>4
<1>6. Below(t)
  <2> SUFFICES ASSUME NEW j \in DOMAIN t, j > 1
               PROVE  t[j].i > Width /\ (t[j].kind = "routing" => ~t[j].arrive)
    BY DEF Below
  <2>1. CASE j = 2
    BY <1>2, <2>1
  <2>2. CASE j # 2
    <3>1. j \in 3 .. Len(s) + 1 /\ j - 1 \in DOMAIN s /\ j - 1 > 1
      BY <1>1, <2>2
    <3>2. t[j] = s[j - 1]
      BY <1>2, <3>1
    <3> QED
      BY <3>1, <3>2 DEF Below
  <2> QED
    BY <2>1, <2>2
<1>7. t # <<>>
  BY <1>1
<1> QED
  BY <1>2, <1>5, <1>6, <1>7 DEF t

LEMMA StackLess ==
    ASSUME NEW s \in Seq(Calls), s # <<>>, Below(s)
    PROVE  /\ OnStack(Tail(s)) \subseteq OnStack(s) /\ OnStack(s) \subseteq OnStack(Tail(s)) \cup {s[1].node}
           /\ Below(Tail(s))
           /\ Tail(s) # <<>> => /\ 2 \in DOMAIN s /\ Tail(s)[1] = s[2] /\ s[2].i > Width
                                /\ s[2].kind = "routing" => ~s[2].arrive
<1> DEFINE t == Tail(s)
<1>1. DOMAIN t = 1 .. Len(s) - 1 /\ DOMAIN s = 1 .. Len(s) /\ Len(s) \in Nat \ {0} /\ Len(t) = Len(s) - 1
  BY Popping
<1>2. \A k \in 1 .. Len(s) - 1 : t[k] = s[k + 1]
  BY Popping
<1>3. t # <<>> => Len(t) # 0
  BY <1>1
<1> HIDE DEF t
<1>4. \A k \in DOMAIN t : k + 1 \in DOMAIN s /\ k + 1 > 1
  BY <1>1
<1>5. \A j \in DOMAIN s : j = 1 \/ \E k \in DOMAIN t : j = k + 1
  <2>1. ASSUME NEW j \in 1 .. Len(s), j # 1
        PROVE  j - 1 \in 1 .. Len(s) - 1 /\ j = (j - 1) + 1
    BY <1>1, <2>1
  <2> QED
    BY <1>1, <2>1
<1>6. OnStack(t) \subseteq OnStack(s)
  BY <1>1, <1>2, <1>4 DEF OnStack
<1>7. ASSUME NEW n \in OnStack(s), n # s[1].node PROVE n \in OnStack(t)
  <2>1. PICK j \in DOMAIN s : s[j].kind = "routing" /\ s[j].node = n
    BY DEF OnStack
  <2>2. j # 1 /\ n \in Node
    BY <1>7, <2>1 DEF OnStack
  <2>3. PICK k \in DOMAIN t : j = k + 1
    BY <1>5, <2>2
  <2> QED
    BY <1>1, <1>2, <2>1, <2>2, <2>3 DEF OnStack
<1>8. Below(t)
  <2> SUFFICES ASSUME NEW k \in DOMAIN t, k > 1
               PROVE  t[k].i > Width /\ (t[k].kind = "routing" => ~t[k].arrive)
    BY DEF Below
  <2> QED
    BY <1>1, <1>2, <1>4 DEF Below
<1>9. ASSUME t # <<>> PROVE 2 \in DOMAIN s /\ t[1] = s[2]
  <2>1. 1 \in 1 .. Len(s) - 1 /\ 1 + 1 = 2
    BY <1>1, <1>3, <1>9
  <2> QED
    BY <1>1, <1>2, <2>1
<1>10. 2 \in DOMAIN s => s[2].i > Width /\ (s[2].kind = "routing" => ~s[2].arrive)
  BY DEF Below
<1> QED
  BY <1>6, <1>7, <1>8, <1>9, <1>10 DEF t

(* While a search is on, or when it is between two fields.                  *)
LEMMA SearchingFacts ==
    ASSUME Calm, calls # <<>>, Top.kind = "routing"
    PROVE  /\ Top = calls[1] /\ calls[1] \in Calls /\ ~Quiet
           /\ Below(calls) /\ Counted /\ UsedAlive /\ Nesting(calls, g_root, visited)
           /\ \A n \in Node \ Alive(under_release) : Succ(mem, n) = Null
           /\ \E V \in SUBSET Node, r \in Node :
                 V = Marked(visited) /\ r = g_root /\ (Down(V, r) \/ Up(V, r))
<1>1. TypeOK /\ Kept /\ Nesting(calls, g_root, visited)
  BY CalmFacts DEF Calm, SearchInv
<1>2. Top = calls[1] /\ calls[1] \in Calls
  BY <1>1, TopCall
<1>3. ~Quiet
  BY DEF Quiet
<1>4. Searching
  BY <1>1, <1>2, <1>3 DEF Kept, Phase, Rest, Dropped, Taken, Chain, Ring, Tearing, Ending, Ended
<1>5. \A n \in Node \ Alive(under_release) : Succ(mem, n) = Null
  BY <1>1, <1>2 DEF Kept, Blank, Breaking
<1> QED
  BY <1>1, <1>2, <1>3, <1>4, <1>5 DEF Kept, Searching

(* What a step of the search leaves alone.                                  *)
LEMMA SearchKeeps ==
    ASSUME Calm, calls # <<>>, Top.kind = "routing",
           UNCHANGED <<mem, owners, under_release, queue, batch, om, sync, assigned>>
    PROVE  Counted' /\ UsedAlive' /\ Blank' /\ Loaded'
<1>1. Counted /\ UsedAlive /\ ~Quiet /\ \A n \in Node \ Alive(under_release) : Succ(mem, n) = Null
  BY SearchingFacts
<1>2. \A th \in Thread : om[th] = Idle
  BY <1>1, CalmFacts
<1>3. Counted' /\ UsedAlive'
  BY <1>1 DEF Counted, UsedAlive
<1>4. Blank'
  BY <1>1 DEF Blank
<1>5. Loaded'
  BY <1>2 DEF Loaded
<1> QED
  BY <1>3, <1>4, <1>5

LEMMA RouteKept == Calm /\ SearchInv' /\ RouteField => Kept'
<1> SUFFICES ASSUME Calm, SearchInv', RouteField PROVE Kept'
  OBVIOUS
<1>1. /\ calls # <<>> /\ Top.kind = "routing" /\ Top.i <= Width
      /\ UNCHANGED <<mem, owners, under_release, queue, batch, om, sync, assigned>>
  BY DEF RouteField, heapVars
<1>2. /\ Top = calls[1] /\ calls[1] \in Calls /\ Below(calls)
      /\ calls \in Seq(Calls) /\ Memory(mem) /\ TypeOK
  BY <1>1, SearchingFacts, CalmFacts
<1>3. PICK V \in SUBSET Node, r \in Node : V = Marked(visited) /\ r = g_root /\ Down(V, r)
  <2>1. PICK V \in SUBSET Node, r \in Node :
            V = Marked(visited) /\ r = g_root /\ (Down(V, r) \/ Up(V, r))
    BY <1>1, SearchingFacts
  <2>2. calls[1].i \in Int /\ Width \in Int
    BY <1>2, CycleAssumption DEF Calls
  <2>3. ~Up(V, r)
    BY <1>1, <1>2, <2>2 DEF Up
  <2> QED
    BY <2>1, <2>3
<1> DEFINE t == calls[1]
           n == t.node
           next(a) == [Top EXCEPT !.i = @ + 1, !.arrive = @ \/ a]
           c == mem[<<Top.node, Top.i>>]
<1>4. Width = 1 /\ t.i = 1 /\ n \in Node /\ ~t.arrive /\ t.kind = "routing" /\ t \in Calls
  <2>1. t.i \in 1 .. Width + 1 /\ t.i <= Width /\ Width \in {0, 1} /\ n \in Node
    BY <1>1, <1>2, Arrows DEF Calls
  <2> QED
    BY <1>1, <1>2, <1>3, <2>1 DEF Down
<1>5. c = Succ(mem, n) /\ c \in Node \cup {Null} /\ Null \notin Node
  BY <1>2, <1>4, Arrows, CycleAssumption DEF Succ
<1>6. ASSUME NEW a \in BOOLEAN
      PROVE  /\ next(a) \in Calls /\ next(a).kind = "routing" /\ next(a).node = n
             /\ next(a).i > Width /\ next(a).arrive = a
  <2>1. next(a) \in Calls /\ next(a).kind = Top.kind /\ next(a).node = Top.node
    BY <1>1, <1>2, NextField
  <2>2. next(a).i = t.i + 1 /\ next(a).arrive = (t.arrive \/ a)
    BY <1>2, <1>4 DEF Calls
  <2> QED
    BY <1>2, <1>4, <2>1, <2>2
<1>7. n \in V /\ OnStack(calls) \subseteq V /\ V \subseteq OnStack(calls) /\ n \in OnStack(calls)
  <2>1. n \in OnStack(calls)
    BY <1>1, <1>2, <1>4, TopOnStack
  <2> QED
    BY <1>3, <2>1 DEF Down, Seeking
<1>8. /\ Seeking(V, r) /\ g_degree_dvalue = 0 /\ PlainMarks(V, r)
      /\ \A v \in V \ {n} : Succ(mem, v) \in V \ {r}
  BY <1>3 DEF Down
<1> HIDE DEF next, c, n
<1>9. ASSUME NEW a \in BOOLEAN, calls' = <<next(a)>> \o Tail(calls)
      PROVE  /\ OnStack(calls') = OnStack(calls) /\ Below(calls')
             /\ calls'[1] = next(a) /\ calls' # <<>>
  <2> DEFINE s == calls
             b == next(a)
  <2>1. s \in Seq(Calls) /\ s # <<>> /\ b \in Calls /\ b.kind = s[1].kind /\ b.node = s[1].node /\ Below(s)
    BY <1>1, <1>2, <1>4, <1>6 DEF n
  <2> HIDE DEF s, b
  <2>2. OnStack(<<b>> \o Tail(s)) = OnStack(s) /\ Below(<<b>> \o Tail(s))
        /\ (<<b>> \o Tail(s))[1] = b /\ <<b>> \o Tail(s) # <<>>
    BY <2>1, StackReplaced
  <2> QED
    BY <1>9, <2>2 DEF s, b
<1>10. Counted' /\ UsedAlive' /\ Blank' /\ Loaded'
  BY <1>1, SearchKeeps
(* coming back with an answer: what was visited is all there is             *)
<1>11. ASSUME NEW a \in BOOLEAN, calls' = <<next(a)>> \o Tail(calls),
              V = Marked(visited'), r = g_root', can_arrive_root' = can_arrive_root,
              Closed(mem, V), IF a THEN Arrives(V, r)' ELSE Misses(V, r)
       PROVE  Kept'
  <2>1. OnStack(calls') = OnStack(calls) /\ Below(calls') /\ calls'[1] = next(a) /\ calls' # <<>>
    BY <1>9, <1>11
  <2>2. /\ calls'[1].kind = "routing" /\ calls'[1].i > Width /\ calls'[1].arrive = a
    BY <1>6, <2>1
  <2>3. Seeking(V, r)'
    BY <1>1, <1>8, <1>11, <2>1, <2>2 DEF Seeking, Whole, Hanging
  <2>4. Up(V, r)'
    BY <1>1, <1>11, <2>2, <2>3 DEF Up, Misses
  <2>5. Searching'
    BY <1>11, <2>4 DEF Searching
  <2> QED
    BY <1>10, <2>1, <2>5 DEF Kept, Phase
<1>12. TRUE \in BOOLEAN /\ FALSE \in BOOLEAN
  OBVIOUS
<1>13. r \in V /\ can_arrive_root[r] /\ \A v \in Node : v \in V <=> IsVisited(v)
  BY <1>3, <1>8 DEF Seeking, Marked, IsVisited
<1>14. CASE c = Null /\ calls' = <<next(FALSE)>> \o Tail(calls) /\ UNCHANGED searchVars
  <2>1. Closed(mem, V) /\ Misses(V, r)
    BY <1>5, <1>8, <1>14 DEF Closed, Misses
  <2>2. V = Marked(visited') /\ r = g_root' /\ can_arrive_root' = can_arrive_root
    BY <1>3, <1>14 DEF searchVars
  <2> QED
    BY <1>11, <1>12, <1>14, <2>1, <2>2
<1>15. CASE c # Null /\ CanArrive(c) /\ g_degree_dvalue' = g_degree_dvalue - 1
            /\ calls' = <<next(TRUE)>> \o Tail(calls) /\ UNCHANGED <<visited, can_arrive_root, g_root>>
  <2>1. c \in V
    BY <1>5, <1>13, <1>15 DEF CanArrive
  <2>2. \A v \in V : Succ(mem, v) \in V
    BY <1>5, <1>8, <2>1
  <2>3. Closed(mem, V)
    BY <2>2 DEF Closed
  <2>4. OnStack(calls') = OnStack(calls)
    BY <1>9, <1>12, <1>15
  <2>5. Summed(V)' /\ V \ OnStack(calls') = {}
    <3>1. V \ OnStack(calls') = {}
      BY <1>7, <2>4
    <3>2. g_degree_dvalue' = -1
      BY <1>8, <1>15
    <3> QED
      BY <3>1, <3>2 DEF Summed
  <2>6. Arrives(V, r)'
    BY <1>1, <1>8, <1>15, <2>2, <2>5 DEF Arrives, PlainMarks
  <2>7. V = Marked(visited') /\ r = g_root' /\ can_arrive_root' = can_arrive_root
    BY <1>3, <1>15
  <2> QED
    BY <1>11, <1>12, <1>15, <2>3, <2>6, <2>7
<1>16. CASE c # Null /\ IsVisited(c) /\ ~CanArrive(c) /\ visited' = NewVisited(c)
            /\ calls' = <<next(FALSE)>> \o Tail(calls) /\ UNCHANGED <<can_arrive_root, g_root, g_degree_dvalue>>
  <2>1. c \in V /\ c # r
    BY <1>5, <1>13, <1>16 DEF CanArrive
  <2>2. Closed(mem, V) /\ Misses(V, r)
    BY <1>5, <1>8, <2>1 DEF Closed, Misses
  <2>3. V = Marked(visited')
    BY <1>2, <1>3, <1>13, <1>16, <2>1 DEF Marked, NewVisited, TypeOK
  <2>4. r = g_root' /\ can_arrive_root' = can_arrive_root
    BY <1>3, <1>16
  <2> QED
    BY <1>11, <1>12, <1>16, <2>2, <2>3, <2>4
<1>17. CASE c # Null /\ ~IsVisited(c) /\ visited' = NewVisited(c)
            /\ calls' = <<Call("routing", c), next(FALSE)>> \o Tail(calls)
            /\ UNCHANGED <<can_arrive_root, g_root, g_degree_dvalue>>
  <2>0. PICK W : W = V \cup {c}
    OBVIOUS
  <2>1. c \in Node /\ c \notin V /\ c # r
    BY <1>5, <1>13, <1>17
  <2>2. W = Marked(visited') /\ PlainMarks(W, r)'
    <3>1. visited' = [visited EXCEPT ![c] = 1]
      BY <1>17 DEF NewVisited
    <3>2. W = Marked(visited')
      BY <1>2, <1>3, <2>0, <2>1, <3>1 DEF Marked, TypeOK
    <3>3. PlainMarks(W, r)'
      <4>1. visited'[c] = 1 /\ \A v \in Node : v # c => visited'[v] = visited[v]
        BY <1>2, <2>1, <3>1 DEF TypeOK
      <4> QED
        BY <1>8, <1>13, <2>0, <2>1, <4>1 DEF PlainMarks
    <3> QED
      BY <3>2, <3>3
  <2>3. /\ OnStack(calls') = OnStack(calls) \cup {c} /\ Below(calls')
        /\ calls'[1] = Call("routing", c) /\ calls' # <<>>
    <3> DEFINE s == calls
               a == Call("routing", c)
               b == next(FALSE)
    <3>1. a \in Calls /\ a.kind = "routing" /\ a.node = c
      BY <2>1, NewCall
    <3>2. /\ s \in Seq(Calls) /\ s # <<>> /\ b \in Calls /\ b.kind = s[1].kind /\ b.node = s[1].node
          /\ b.i > Width /\ ~b.arrive /\ Below(s)
      BY <1>1, <1>2, <1>4, <1>6, <1>12 DEF n
    <3>3. calls' = <<a, b>> \o Tail(s)
      BY <1>17
    <3> HIDE DEF s, a, b
    <3>4. OnStack(<<a, b>> \o Tail(s)) = OnStack(s) \cup {a.node} /\ Below(<<a, b>> \o Tail(s))
          /\ (<<a, b>> \o Tail(s))[1] = a /\ <<a, b>> \o Tail(s) # <<>>
      BY <3>1, <3>2, StackPushed
    <3>5. OnStack(calls') = OnStack(s) \cup {c} /\ Below(calls') /\ calls'[1] = a /\ calls' # <<>>
      BY <3>1, <3>3, <3>4
    <3> QED
      BY <3>5 DEF s, a
  <2>4. /\ calls'[1].kind = "routing" /\ calls'[1].node = c /\ calls'[1].i = 1 /\ ~calls'[1].arrive
    BY <2>3 DEF Call
  <2>5. c \in From(mem, r)
    <3>1. Closed(mem, From(mem, r)) /\ n \in From(mem, r)
      BY <1>2, <1>7, <1>8, FromTold DEF Seeking
    <3> QED
      BY <1>5, <1>17, <3>1 DEF Closed
  <2>6. \A v \in W \ {r} : \E p \in W : Succ(mem, p) = v
    BY <1>5, <1>7, <1>8, <2>0 DEF Seeking
  <2>7. Seeking(W, r)'
    <3>1. queue' = <<>> /\ batch' = <<>> /\ calls' # <<>> /\ calls'[1].kind = "routing"
      BY <1>1, <1>8, <2>3, <2>4 DEF Seeking
    <3>2. r \in W /\ r \in Alive(under_release') /\ owners'[r] >= 1 /\ can_arrive_root'[r]
      BY <1>1, <1>8, <1>17, <2>0 DEF Seeking
    <3>3. Whole' /\ Hanging(r)'
      BY <1>1, <1>8 DEF Seeking, Whole, Hanging
    <3>4. W \subseteq From(mem', r) /\ OnStack(calls') \subseteq W
      BY <1>1, <1>7, <1>8, <2>0, <2>3, <2>5 DEF Seeking
    <3> QED
      BY <1>1, <2>6, <3>1, <3>2, <3>3, <3>4 DEF Seeking
  <2>8. \A v \in W \ {c} : Succ(mem, v) \in W \ {r}
    BY <1>5, <1>8, <2>0, <2>1
  <2>9. W \subseteq OnStack(calls')
    BY <1>7, <2>0, <2>3
  <2>10. g_degree_dvalue' = 0
    BY <1>8, <1>17
  <2>11. Down(W, r)'
    BY <1>1, <1>4, <2>2, <2>4, <2>7, <2>8, <2>9, <2>10 DEF Down
  <2>12. Searching'
    <3>1. W \in SUBSET Node /\ r = g_root'
      BY <1>3, <1>17, <2>0, <2>1
    <3> QED
      BY <2>2, <2>11, <3>1 DEF Searching
  <2> QED
    BY <1>10, <2>3, <2>12 DEF Kept, Phase
<1> QED
  BY <1>14, <1>15, <1>16, <1>17 DEF RouteField, next, c

(* A visited object below the root is alive, and owned.                     *)
LEMMA VisitedOwned ==
    ASSUME Calm, NEW V \in SUBSET Node, NEW r \in Node, Seeking(V, r)
    PROVE  /\ V \subseteq Alive(under_release)
           /\ \A v \in V : owners[v] = Cardinality(Refs(mem, v)) /\ owners[v] \in Nat
           /\ \A v \in V \ {r} : owners[v] >= 1
<1>1. Memory(mem) /\ TypeOK /\ Counted
  BY CalmFacts DEF Calm, Kept
<1>2. V \subseteq Alive(under_release)
  <2>1. From(mem, r) \subseteq Alive(under_release)
    BY <1>1, FromTold DEF Seeking, Whole
  <2> QED
    BY <2>1 DEF Seeking
<1>3. ASSUME NEW v \in V PROVE owners[v] = Cardinality(Refs(mem, v)) /\ owners[v] \in Nat
  <2>1. owners[v] = Cardinality(Refs(mem, v)) + Cardinality(Pushes(queue, v))
    BY <1>1, <1>2, <1>3 DEF Counted
  <2>2. queue = <<>>
    BY DEF Seeking
  <2>3. Cardinality(Pushes(queue, v)) = 0 /\ Cardinality(Refs(mem, v)) \in Nat
    BY <2>2, PushesTold, RefCount
  <2> QED
    BY <2>1, <2>3
<1>4. ASSUME NEW v \in V \ {r} PROVE owners[v] >= 1
  <2>1. PICK p \in V : Succ(mem, p) = v
    BY DEF Seeking
  <2>2. <<p, 1>> \in Refs(mem, v)
    BY <1>1, <2>1, ArrowIsRef
  <2>3. Cardinality(Refs(mem, v)) # 0
    BY <2>2, RefsFinite
  <2> QED
    BY <1>3, <2>3
<1> QED
  BY <1>2, <1>3, <1>4

(* The search of an object below the root is over.                          *)
LEMMA ReturnKept == Calm /\ SearchInv' /\ RouteReturn => Kept'
<1> SUFFICES ASSUME Calm, SearchInv', RouteReturn PROVE Kept'
  OBVIOUS
<1>1. /\ calls # <<>> /\ Top.kind = "routing" /\ Top.i > Width /\ Top.node # g_root
      /\ UNCHANGED <<mem, owners, under_release, queue, batch, om, sync, assigned>>
      /\ UNCHANGED <<visited, g_root>>
      /\ calls' = <<[calls[2] EXCEPT !.arrive = @ \/ Top.arrive]>> \o Tail(Tail(calls))
  BY DEF RouteReturn, heapVars
<1>2. /\ Top = calls[1] /\ calls[1] \in Calls /\ Below(calls) /\ Nesting(calls, g_root, visited)
      /\ calls \in Seq(Calls) /\ Memory(mem) /\ TypeOK
  BY <1>1, SearchingFacts, CalmFacts
<1>3. PICK V \in SUBSET Node, r \in Node : V = Marked(visited) /\ r = g_root /\ Up(V, r)
  <2>1. PICK V \in SUBSET Node, r \in Node :
            V = Marked(visited) /\ r = g_root /\ (Down(V, r) \/ Up(V, r))
    BY <1>1, SearchingFacts
  <2>2. calls[1].i \in Int /\ Width \in Int
    BY <1>2, CycleAssumption DEF Calls
  <2>3. ~Down(V, r)
    BY <1>1, <1>2, <2>2 DEF Down
  <2> QED
    BY <2>1, <2>3
<1> DEFINE s == Tail(calls)
           b == [calls[2] EXCEPT !.arrive = @ \/ Top.arrive]
<1>4. PICK n \in Node : n = calls[1].node /\ n # r
  BY <1>1, <1>2, <1>3 DEF Calls
<1>5. Routes(calls, 2) /\ 2 \in DOMAIN calls
  <2>1. 1 \in DOMAIN calls
    BY <1>1, <1>2, Popping
  <2>2. Routes(calls, 1 + 1)
    BY <1>1, <1>2, <2>1 DEF Nesting
  <2> QED
    BY <2>2 DEF Routes
<1>6. s \in Seq(Calls) /\ s # <<>> /\ s[1] = calls[2] /\ calls[2] \in Calls
  <2>1. /\ s \in Seq(Calls) /\ Len(s) = Len(calls) - 1 /\ Len(calls) \in Nat \ {0}
        /\ DOMAIN calls = 1 .. Len(calls) /\ \A k \in 1 .. Len(calls) - 1 : s[k] = calls[k + 1]
    BY <1>1, <1>2, Popping
  <2>2. Len(calls) >= 2
    BY <1>5, <2>1
  <2>3. s[1] = calls[1 + 1]
    BY <2>1, <2>2
  <2>4. s # <<>>
    <3> HIDE DEF s
    <3> QED
      BY <2>1, <2>2
  <2>5. calls[2] \in Calls
    BY <1>2, <1>5
  <2> QED
    BY <2>1, <2>3, <2>4, <2>5
<1>7. calls[2].kind = "routing" /\ calls[2].i > Width /\ ~calls[2].arrive
  BY <1>2, <1>5 DEF Below, Routes, Nesting
<1>8. /\ b \in Calls /\ b.kind = "routing" /\ b.node = calls[2].node /\ b.i > Width
      /\ b.arrive = calls[1].arrive
  <2>1. b \in Calls /\ b.kind = calls[2].kind /\ b.node = calls[2].node
    BY <1>2, <1>6, NextField DEF Calls
  <2>2. b.i = calls[2].i /\ b.arrive = (calls[2].arrive \/ calls[1].arrive)
    BY <1>2, <1>6 DEF Calls
  <2>3. calls[1].arrive \in BOOLEAN
    BY <1>2 DEF Calls
  <2> QED
    BY <1>7, <2>1, <2>2, <2>3
<1>9. /\ OnStack(s) \subseteq OnStack(calls) /\ OnStack(calls) \subseteq OnStack(s) \cup {n}
      /\ Below(s)
  BY <1>1, <1>2, <1>4, StackLess
<1>10. calls' = <<b>> \o Tail(s)
  BY <1>1
<1> HIDE DEF s, b
<1>11. OnStack(calls') = OnStack(s) /\ Below(calls') /\ calls'[1] = b /\ calls' # <<>>
  <2>1. b.kind = s[1].kind /\ b.node = s[1].node
    BY <1>6, <1>7, <1>8
  <2>2. OnStack(<<b>> \o Tail(s)) = OnStack(s) /\ Below(<<b>> \o Tail(s))
        /\ (<<b>> \o Tail(s))[1] = b /\ <<b>> \o Tail(s) # <<>>
    BY <1>6, <1>8, <1>9, <2>1, StackReplaced
  <2> QED
    BY <1>10, <2>2
<1>12. calls'[1].kind = "routing" /\ calls'[1].i > Width /\ calls'[1].arrive = calls[1].arrive
  BY <1>8, <1>11
<1>13. Seeking(V, r) /\ Closed(mem, V) /\ IF calls[1].arrive THEN Arrives(V, r) ELSE Misses(V, r)
  BY <1>3 DEF Up
<1>14. can_arrive_root' = IF calls[1].arrive THEN [can_arrive_root EXCEPT ![n] = TRUE] ELSE can_arrive_root
  BY <1>2, <1>4 DEF RouteReturn
<1>15. \A v \in Node : can_arrive_root[v] => can_arrive_root'[v]
  BY <1>2, <1>14 DEF TypeOK
<1>16. Seeking(V, r)'
  <2>1. queue' = <<>> /\ batch' = <<>> /\ owners'[r] >= 1 /\ r \in V /\ can_arrive_root[r]
    BY <1>1, <1>13 DEF Seeking
  <2>2. can_arrive_root'[r]
    BY <1>15, <2>1
  <2>3. OnStack(calls') \subseteq V
    BY <1>9, <1>11, <1>13 DEF Seeking
  <2> QED
    BY <1>1, <1>11, <1>12, <1>13, <2>1, <2>2, <2>3 DEF Seeking, Whole, Hanging
<1>17. IF calls'[1].arrive THEN Arrives(V, r)' ELSE Misses(V, r)'
  <2>1. CASE ~calls[1].arrive
    <3>1. Misses(V, r)'
      BY <1>1, <1>13, <2>1 DEF Misses
    <3> QED
      BY <1>12, <2>1, <3>1
  <2>2. CASE calls[1].arrive
    <3>1. Arrives(V, r)
      BY <1>13, <2>2
    <3>2. g_degree_dvalue' = g_degree_dvalue + owners[n] - visited[n]
      BY <1>2, <1>4, <2>2 DEF RouteReturn
    <3>3. n \in V
      BY <1>1, <1>2, <1>4, <1>13, TopOnStack DEF Seeking
    <3>4. visited[n] = 1 /\ owners[n] \in Nat /\ owners[n] >= 1
      BY <1>4, <1>13, <3>1, <3>3, VisitedOwned DEF Arrives, PlainMarks
    <3>5. g_degree_dvalue \in Int
      BY <1>2 DEF TypeOK
    <3>6. \A v \in V \ OnStack(calls') : v = n \/ v \in V \ OnStack(calls)
      BY <1>9, <1>11
    <3>7. Summed(V)'
      <4>0. Summed(V) /\ owners' = owners
        BY <1>1, <3>1 DEF Arrives
      <4>1. CASE owners[n] = 1
        <5>1. g_degree_dvalue' = g_degree_dvalue
          BY <3>2, <3>4, <3>5, <4>1
        <5> QED
          BY <3>6, <4>0, <4>1, <5>1 DEF Summed
      <4>2. CASE owners[n] # 1
        <5>1. g_degree_dvalue >= -1
          BY <3>5, <4>0 DEF Summed
        <5>2. g_degree_dvalue' > -1
          BY <3>2, <3>4, <3>5, <4>2, <5>1
        <5> QED
          BY <3>3, <4>0, <4>2, <5>2 DEF Summed
      <4> QED
        BY <4>1, <4>2
    <3>8. \A v \in V \ OnStack(calls') : can_arrive_root'[v]
      <4>1. can_arrive_root'[n]
        BY <1>2, <1>14, <2>2 DEF TypeOK
      <4>2. \A v \in V \ OnStack(calls) : can_arrive_root[v]
        BY <3>1 DEF Arrives
      <4> QED
        BY <1>15, <3>6, <4>1, <4>2
    <3>9. Arrives(V, r)'
      BY <1>1, <3>1, <3>7, <3>8 DEF Arrives, PlainMarks
    <3> QED
      BY <1>12, <2>2, <3>9
  <2> QED
    BY <2>1, <2>2
<1>18. Searching'
  <2>1. Up(V, r)'
    BY <1>1, <1>12, <1>13, <1>16, <1>17 DEF Up
  <2> QED
    BY <1>1, <1>3, <2>1 DEF Searching
<1> QED
  BY <1>1, <1>11, <1>18, SearchKeeps DEF Kept, Phase

(* A call of a root or of a destruction ends: the filter thread is done, or *)
(* destroys on.                                                             *)
LEMMA Finished ==
    ASSUME Calm, calls # <<>>, calls' = Tail(calls), queue = <<>>, batch = <<>>,
           UNCHANGED <<queue, batch, mem, under_release>>,
           \/ calls[1].kind = "destroy"
           \/ calls[1].kind = "routing" /\ calls[1].node = g_root,
           Alive(under_release) \subseteq Used(mem)
    PROVE  Phase' /\ Below(calls')
<1>1. calls \in Seq(Calls) /\ Below(calls) /\ Nesting(calls, g_root, visited)
  BY CalmFacts DEF Calm, Kept, SearchInv
<1>2. Below(calls')
  BY <1>1, StackLess
<1>3. CASE Tail(calls) = <<>>
  BY <1>2, <1>3 DEF Rest, Quiet, Phase
<1>4. CASE Tail(calls) # <<>>
  <2>1. 2 \in DOMAIN calls /\ calls'[1] = calls[2] /\ calls[2].i > Width
    BY <1>1, <1>4, StackLess
  <2>2. calls[2].kind = "destroy"
    <3>1. 1 \in DOMAIN calls /\ calls[2].kind \in {"routing", "destroy"}
      BY <1>1, <2>1, Popping, CallKinds
    <3>2. calls[1].kind = "routing" /\ calls[1].node = g_root => ~Routes(calls, 2)
      BY <1>1, <3>1 DEF Nesting
    <3>3. 2 > 1
      OBVIOUS
    <3> QED
      BY <1>1, <2>1, <3>1, <3>2, <3>3 DEF Nesting, Routes
  <2>3. Ended'
    BY <1>4, <2>1, <2>2 DEF Ended, Ending
  <2> QED
    BY <1>2, <2>3 DEF Phase
<1> QED
  BY <1>3, <1>4

(* The verdict is right: it is for destruction exactly when no variable     *)
(* reaches the root.                                                        *)
LEMMA VerdictRight ==
    ASSUME Calm, NEW V \in SUBSET Node, NEW r \in Node, V = Marked(visited), r = g_root,
           Up(V, r), calls[1].node = r
    PROVE  /\ calls[1].arrive /\ g_degree_dvalue + owners[r] - visited[r] = 0 => V \cap Used(mem) = {}
           /\ ~(calls[1].arrive /\ g_degree_dvalue + owners[r] - visited[r] = 0) => r \in Used(mem)
<1>1. Memory(mem) /\ TypeOK /\ calls \in Seq(Calls) /\ Nesting(calls, g_root, visited) /\ calls # <<>>
      /\ calls[1].kind = "routing"
  BY CalmFacts DEF Calm, SearchInv, Up, Seeking
<1>2. OnStack(calls) = {r}
  BY <1>1, RootOnTop
<1>3. Seeking(V, r) /\ Closed(mem, V) /\ IF calls[1].arrive THEN Arrives(V, r) ELSE Misses(V, r)
  BY DEF Up
<1>4. /\ V \subseteq Alive(under_release) /\ r \in V
      /\ \A v \in V : owners[v] = Cardinality(Refs(mem, v)) /\ owners[v] \in Nat
  BY <1>3, VisitedOwned DEF Seeking
<1>5. V = From(mem, r)
  <2>1. From(mem, r) \subseteq V
    BY <1>1, <1>3, <1>4, FromTold
  <2> QED
    BY <1>3, <2>1 DEF Seeking
<1>6. owners[r] >= 1 /\ g_degree_dvalue \in Int
  BY <1>1, <1>3 DEF Seeking, TypeOK
<1>7. ASSUME calls[1].arrive, g_degree_dvalue + owners[r] - visited[r] = 0
      PROVE  V \cap Used(mem) = {}
  <2>1. Arrives(V, r) /\ visited[r] = 0
    BY <1>3, <1>7 DEF Arrives, PlainMarks
  <2>2. g_degree_dvalue = -1 /\ owners[r] = 1
    BY <1>4, <1>6, <1>7, <2>1 DEF Arrives, Summed
  <2>3. \A v \in V \ {r} : owners[v] = 1
    BY <1>2, <2>1, <2>2 DEF Arrives, Summed
  <2>4. \A v \in V : Succ(mem, v) \in V /\ Cardinality(Refs(mem, v)) = 1
    BY <1>4, <2>1, <2>2, <2>3 DEF Arrives
  <2> QED
    BY <1>1, <2>4, RingIsLost
<1>8. ASSUME ~(calls[1].arrive /\ g_degree_dvalue + owners[r] - visited[r] = 0), r \notin Used(mem)
      PROVE  FALSE
  <2> DEFINE L == Alive(under_release)
  <2>1. L \in SUBSET Node /\ r \in L /\ L \subseteq Used(mem) \cup From(mem, r)
    BY <1>3, <1>4, CalmFacts DEF Seeking, Hanging
  <2>2. \A p \in Node \ L : Succ(mem, p) = Null
    BY <1>1, SearchingFacts, TopCall
  <2>3. \A v \in From(mem, r) \ {r} : \E p \in From(mem, r) : Succ(mem, p) = v
    BY <1>3, <1>5 DEF Seeking
  <2>4. Refs(mem, r) # {}
    BY <1>4, <1>6, RefsFinite
  <2>5. /\ \E p \in From(mem, r) : Succ(mem, p) = r
        /\ \A v \in From(mem, r) : Succ(mem, v) \in From(mem, r) /\ Cardinality(Refs(mem, v)) = 1
    <3> HIDE DEF L
    <3> QED
      BY <1>1, <1>8, <2>1, <2>2, <2>3, <2>4, LostIsRing
  <2>6. \A v \in V : owners[v] = 1
    BY <1>4, <1>5, <2>5
  <2>7. ~Misses(V, r)
    BY <1>5, <2>5 DEF Misses
  <2>8. Arrives(V, r) /\ calls[1].arrive
    BY <1>3, <2>7
  <2>9. g_degree_dvalue = -1 /\ visited[r] = 0 /\ owners[r] = 1
    BY <1>4, <2>6, <2>8 DEF Arrives, Summed, PlainMarks
  <2> QED
    BY <1>8, <2>8, <2>9
<1> QED
  BY <1>7, <1>8

LEMMA VerdictKept == Calm /\ SearchInv' /\ Verdict => Kept'
<1> SUFFICES ASSUME Calm, SearchInv', Verdict PROVE Kept'
  OBVIOUS
<1>1. /\ calls # <<>> /\ Top.kind = "routing" /\ Top.i > Width /\ Top.node = g_root
      /\ UNCHANGED <<mem, owners, visited, can_arrive_root, g_root, queue, batch, om, sync, assigned>>
  BY DEF Verdict
<1>2. /\ Top = calls[1] /\ calls[1] \in Calls /\ Below(calls) /\ Nesting(calls, g_root, visited)
      /\ calls \in Seq(Calls) /\ Memory(mem) /\ TypeOK /\ Width <= 1
      /\ \A n \in Node \ Alive(under_release) : Succ(mem, n) = Null
      /\ Used(mem) \subseteq Alive(under_release) /\ Alive(under_release) \subseteq Node
      /\ Counted /\ ~Quiet
  BY <1>1, SearchingFacts, CalmFacts DEF Calm, Single
<1>3. PICK V \in SUBSET Node, r \in Node : V = Marked(visited) /\ r = g_root /\ Up(V, r)
  <2>1. PICK V \in SUBSET Node, r \in Node :
            V = Marked(visited) /\ r = g_root /\ (Down(V, r) \/ Up(V, r))
    BY <1>1, SearchingFacts
  <2>2. calls[1].i \in Int /\ Width \in Int
    BY <1>2, CycleAssumption DEF Calls
  <2>3. ~Down(V, r)
    BY <1>1, <1>2, <2>2 DEF Down
  <2> QED
    BY <2>1, <2>3
<1> DEFINE lost == calls[1].arrive /\ g_degree_dvalue + owners[r] - visited[r] = 0
<1>4. (lost => V \cap Used(mem) = {}) /\ (~lost => r \in Used(mem))
  BY <1>1, <1>2, <1>3, VerdictRight
<1>5. /\ lost => Release(r) /\ calls' = <<Call("destroy", r)>> \o Tail(calls)
      /\ ~lost => Return /\ UNCHANGED under_release
  BY <1>2, <1>3 DEF Verdict
<1>6. /\ Seeking(V, r) /\ Closed(mem, V) /\ (calls[1].arrive => Arrives(V, r))
      /\ queue = <<>> /\ batch = <<>> /\ r \in V /\ r \in Alive(under_release) /\ Hanging(r)
  BY <1>3 DEF Up, Seeking
<1>7. \A th \in Thread : om[th] = Idle
  BY <1>2, CalmFacts
<1>8. CASE ~lost
  <2>1. UNCHANGED <<mem, owners, under_release, queue, batch, om, sync, assigned>> /\ calls' = Tail(calls)
    BY <1>1, <1>5, <1>8 DEF Return
  <2>2. Alive(under_release) \subseteq Used(mem)
    <3>1. From(mem, r) \subseteq Used(mem)
      BY <1>2, <1>4, <1>8, UsedTold, FromTold
    <3> QED
      BY <1>6, <3>1 DEF Hanging
  <2>3. Phase' /\ Below(calls')
    BY <1>1, <1>2, <1>3, <1>6, <2>1, <2>2, Finished
  <2> QED
    BY <1>1, <2>1, <2>3, SearchKeeps DEF Kept
<1>9. CASE lost
  <2>1. Release(r) /\ calls' = <<Call("destroy", r)>> \o Tail(calls) /\ V \cap Used(mem) = {}
    BY <1>4, <1>5, <1>9
  <2>2. Alive(under_release') = Alive(under_release) \ {r}
    BY <1>2, <2>1, Fewer DEF TypeOK
  <2>3. r \notin Used(mem)
    BY <1>6, <2>1
  <2>4. /\ Used(mem) \subseteq Alive(under_release')
        /\ Alive(under_release') \subseteq Used(mem) \cup From(mem, Succ(mem, r))
    <3> DEFINE L == Alive(under_release)
    <3>1. L \in SUBSET Node /\ r \in L /\ Used(mem) \subseteq L /\ L \subseteq Used(mem) \cup From(mem, r)
      BY <1>2, <1>6 DEF Hanging
    <3> HIDE DEF L
    <3>2. Used(mem) \subseteq L \ {r} /\ L \ {r} \subseteq Used(mem) \cup From(mem, Succ(mem, r))
      BY <1>2, <2>3, <3>1, Dying
    <3> QED
      BY <2>2, <3>2 DEF L
  <2>5. /\ Below(calls') /\ calls'[1] = Call("destroy", r) /\ calls' # <<>>
    <3> DEFINE s == calls
               a == Call("destroy", r)
    <3>1. a \in Calls /\ s \in Seq(Calls) /\ s # <<>> /\ Below(s)
      BY <1>1, <1>2, NewCall
    <3>2. calls' = <<a>> \o Tail(s)
      BY <2>1
    <3> HIDE DEF s, a
    <3>3. <<a>> \o Tail(s) # <<>> /\ (<<a>> \o Tail(s))[1] = a /\ Below(<<a>> \o Tail(s))
      <4>1. /\ Len(<<a>> \o Tail(s)) = Len(s) /\ <<a>> \o Tail(s) \in Seq(Calls)
            /\ (<<a>> \o Tail(s))[1] = a /\ \A k \in 2 .. Len(s) : (<<a>> \o Tail(s))[k] = s[k]
            /\ DOMAIN s = 1 .. Len(s) /\ Len(s) \in Nat \ {0}
        BY <3>1, Replacing, Popping
      <4> DEFINE u == <<a>> \o Tail(s)
      <4>2. DOMAIN u = 1 .. Len(s) /\ \A k \in 2 .. Len(s) : u[k] = s[k]
        BY <4>1
      <4>3. u # <<>>
        BY <4>1
      <4> HIDE DEF u
      <4>4. Below(u)
        BY <3>1, <4>1, <4>2 DEF Below
      <4> QED
        BY <4>1, <4>3, <4>4 DEF u
    <3> QED
      BY <3>2, <3>3 DEF a
  <2>6. \A v \in V : can_arrive_root[v]
    <3>1. OnStack(calls) = {r}
      BY <1>1, <1>2, <1>3, RootOnTop
    <3>2. Arrives(V, r) /\ can_arrive_root[r]
      BY <1>6, <1>9 DEF Seeking
    <3> QED
      BY <3>1, <3>2 DEF Arrives
  <2>7. Phase'
    <3>1. r \notin Alive(under_release') /\ calls' # <<>> /\ calls'[1] = Call("destroy", r)
      BY <2>2, <2>5
    <3>2. queue' = <<>> /\ batch' = <<>> /\ V = Marked(visited') /\ mem' = mem
          /\ can_arrive_root' = can_arrive_root
      BY <1>1, <1>3, <1>6
    <3>3. Alive(under_release') \subseteq Used(mem') \cup From(mem', Succ(mem', r))
      BY <2>4, <3>2
    <3>4. r \in V /\ V \cap Used(mem') = {} /\ Closed(mem', V) /\ \A v \in V : can_arrive_root'[v]
      BY <1>6, <2>1, <2>6, <3>2
    <3> QED
      BY <1>2, <3>1, <3>2, <3>3, <3>4, Falls
  <2>8. Counted'
    BY <1>1, <1>2, <2>2 DEF Counted
  <2>9. UsedAlive'
    BY <1>1, <2>4 DEF UsedAlive
  <2>10. Blank'
    <3> SUFFICES ASSUME NEW n \in Node \ Alive(under_release'), Succ(mem', n) # Null
                 PROVE  Breaking(n)'
      BY DEF Blank
    <3>1. n = r
      BY <1>1, <1>2, <2>2
    <3>2. Width = 1
      BY <1>1, <1>2, Arrows
    <3> QED
      BY <2>5, <3>1, <3>2 DEF Breaking, Call
  <2>11. Loaded'
    BY <1>1, <1>7 DEF Loaded
  <2> QED
    BY <2>5, <2>7, <2>8, <2>9, <2>10, <2>11 DEF Kept
<1> QED
  BY <1>8, <1>9

------------------------------------------------------------------------------
(* What holds when a field of a dying object is let go of.                  *)
LEMMA TearingFacts ==
    ASSUME Calm, calls # <<>>, Top.kind = "destroy", Top.i <= Width
    PROVE  \E n \in Node :
               /\ Top = calls[1] /\ calls[1] \in Calls /\ n = calls[1].node /\ calls[1].i = 1
               /\ Width = 1 /\ n \notin Alive(under_release) /\ n \notin Used(mem)
               /\ queue = <<>> /\ batch = <<>> /\ Below(calls) /\ Counted
               /\ Alive(under_release) \subseteq Used(mem) \cup From(mem, Succ(mem, n))
               /\ \A x \in Node \ Alive(under_release) : x # n => Succ(mem, x) = Null
               /\ \/ Marked(visited) = {} /\ Closed(mem, Alive(under_release))
                  \/ \E V \in SUBSET Node :
                        /\ V = Marked(visited) /\ n \in V
                        /\ V \cap Used(mem) = {} /\ Closed(mem, V) /\ \A v \in V : can_arrive_root[v]
<1>1. TypeOK /\ Kept /\ Memory(mem)
  BY CalmFacts DEF Calm
<1>2. Top = calls[1] /\ calls[1] \in Calls /\ calls[1].i \in 1 .. Width /\ Width \in {0, 1}
  BY <1>1, TopCall, Arrows, CycleAssumption
<1>3. Width = 1 /\ calls[1].i = 1
  BY <1>2
<1>4. Chain \/ Ring
  BY <1>1, <1>2, <1>3 DEF Kept, Phase, Rest, Quiet, Dropped, Taken, Searching, Down, Up, Seeking, Ended
<1>5. PICK n \in Node :
          /\ Tearing(n)
          /\ \/ Marked(visited) = {} /\ Closed(mem, Alive(under_release))
             \/ \E V \in SUBSET Node :
                   /\ V = Marked(visited) /\ n \in V
                   /\ V \cap Used(mem) = {} /\ Closed(mem, V) /\ \A v \in V : can_arrive_root[v]
  BY <1>4 DEF Chain, Ring, Whole
<1>6. /\ n = calls[1].node /\ n \notin Alive(under_release) /\ queue = <<>> /\ batch = <<>>
      /\ Alive(under_release) \subseteq Used(mem) \cup From(mem, Succ(mem, n))
  BY <1>5 DEF Tearing, Ending, Hanging
<1>7. n \notin Used(mem)
  BY <1>6, CalmFacts
<1>8. \A x \in Node \ Alive(under_release) : x # n => Succ(mem, x) = Null
  BY <1>1, <1>6 DEF Kept, Blank, Breaking
<1> QED
  BY <1>1, <1>2, <1>3, <1>5, <1>6, <1>7, <1>8 DEF Kept

(* The counters after the field was let go of                               *)
LEMMA CutCounted ==
    ASSUME Calm, NEW n \in Node, Width = 1, mem' = Cut(mem, n), queue' = queue, NEW x \in Node,
           x \in Alive(under_release), NEW y, y = Succ(mem, n)
    PROVE  /\ owners[x] - Same(y, x) = Cardinality(Refs(mem', x)) + Cardinality(Pushes(queue', x))
           /\ owners[x] \in Nat /\ Cardinality(Refs(mem', x)) \in Nat
           /\ Cardinality(Pushes(queue', x)) \in Nat /\ Same(y, x) \in {0, 1}
<1>1. Memory(mem) /\ TypeOK /\ Counted
  BY CalmFacts DEF Calm, Kept
<1>2. <<n, 1>> \in Ref /\ y = mem[<<n, 1>>] /\ mem \in [Ref -> Node \cup {Null}]
  BY <1>1, Arrows
<1>3. Assigned(mem, <<n, 1>>, Null, mem')
  BY <1>2 DEF Cut, Assigned
<1>4. Cardinality(Refs(mem', x)) = Cardinality(Refs(mem, x)) - Same(mem[<<n, 1>>], x) + Same(Null, x)
  <2> DEFINE c == <<n, 1>>
  <2>1. c \in Ref /\ Assigned(mem, c, Null, mem')
    BY <1>2, <1>3
  <2> HIDE DEF c
  <2>2. Cardinality(Refs(mem', x)) = Cardinality(Refs(mem, x)) - Same(mem[c], x) + Same(Null, x)
    BY <2>1, Redirected
  <2> QED
    BY <2>2 DEF c
<1>5. Same(Null, x) = 0 /\ Same(y, x) \in {0, 1}
  BY CycleAssumption DEF Same
<1>6. owners[x] = Cardinality(Refs(mem, x)) + Cardinality(Pushes(queue, x))
  BY <1>1 DEF Counted
<1>7. /\ Cardinality(Refs(mem, x)) \in Nat /\ Cardinality(Refs(mem', x)) \in Nat
      /\ Cardinality(Pushes(queue, x)) \in Nat /\ owners[x] \in Nat
  BY <1>1, RefCount, PushCount DEF TypeOK
<1> QED
  BY <1>2, <1>4, <1>5, <1>6, <1>7

(* A field of a dying object lets go: the ring goes on to die, or the chain *)
(* ends, or its next object does; or a search begins there.                 *)
LEMMA TearKept == Calm /\ SearchInv' /\ DestroyField => Kept'
<1> SUFFICES ASSUME Calm, SearchInv', DestroyField PROVE Kept'
  OBVIOUS
<1>1. /\ calls # <<>> /\ Top.kind = "destroy" /\ Top.i <= Width
      /\ UNCHANGED <<queue, batch, om, sync, assigned>>
  BY DEF DestroyField
<1>2. PICK n \in Node :
          /\ Top = calls[1] /\ calls[1] \in Calls /\ n = calls[1].node /\ calls[1].i = 1
          /\ Width = 1 /\ n \notin Alive(under_release) /\ n \notin Used(mem)
          /\ queue = <<>> /\ batch = <<>> /\ Below(calls) /\ Counted
          /\ Alive(under_release) \subseteq Used(mem) \cup From(mem, Succ(mem, n))
          /\ \A x \in Node \ Alive(under_release) : x # n => Succ(mem, x) = Null
          /\ \/ Marked(visited) = {} /\ Closed(mem, Alive(under_release))
             \/ \E V \in SUBSET Node :
                   /\ V = Marked(visited) /\ n \in V
                   /\ V \cap Used(mem) = {} /\ Closed(mem, V) /\ \A v \in V : can_arrive_root[v]
  BY <1>1, TearingFacts
<1>3. /\ Memory(mem) /\ TypeOK /\ calls \in Seq(Calls)
      /\ Alive(under_release) \in SUBSET Node /\ Used(mem) \subseteq Alive(under_release)
      /\ Null \notin Node
  BY CalmFacts, CycleAssumption
<1>4. PICK m : m = Succ(mem, n)
  OBVIOUS
<1>5. PICK L : L = Alive(under_release)
  OBVIOUS
<1>6. PICK b : b = [Top EXCEPT !.i = @ + 1]
  OBVIOUS
<1> DEFINE rest == <<b>> \o Tail(calls)
           dead == m = Null \/ m \notin L
<1>7. m \in Node \cup {Null} /\ mem[<<Top.node, Width + 1 - Top.i>>] = m
      /\ (m # Null => (under_release[m] <=> m \notin L))
  <2>1. Width + 1 - Top.i = 1 /\ Top.node = n
    BY <1>2
  <2>2. m \in Node \cup {Null} /\ m = mem[<<n, 1>>]
    BY <1>2, <1>3, <1>4, Arrows
  <2> QED
    BY <1>5, <2>1, <2>2 DEF Alive
<1>8. mem' = Cut(mem, n)
  <2>1. Width + 1 - Top.i = 1 /\ Top.node = n
    BY <1>2
  <2>2. mem' = [mem EXCEPT ![<<Top.node, Width + 1 - Top.i>>] = Null]
    BY DEF DestroyField
  <2> QED
    BY <2>1, <2>2 DEF Cut
<1>9. PICK k : k = mem'
  OBVIOUS
<1>10. /\ Memory(k) /\ (\A x \in Node : x # n => Succ(k, x) = Succ(mem, x)) /\ Succ(k, n) = Null
  BY <1>3, <1>8, <1>9, CutTold
<1>11. Used(k) = Used(mem) /\ Used(k) \subseteq L /\ L \subseteq Used(k) \cup From(k, m)
  <2>1. Used(k) = Used(mem)
    BY <1>2, <1>3, <1>8, <1>9, CutUnused
  <2>2. From(mem, m) \subseteq From(k, m)
    BY <1>3, <1>4, <1>8, <1>9, CutBefore
  <2> QED
    BY <1>2, <1>3, <1>4, <1>5, <2>1, <2>2
<1>12. \A x \in Node \ L : Succ(k, x) = Null
  BY <1>2, <1>5, <1>10
<1>13. /\ b \in Calls /\ b.kind = "destroy" /\ b.node = n /\ b.i = 2
  <2>1. b \in Calls /\ b.kind = Top.kind /\ b.node = Top.node
    <3>1. TRUE \in BOOLEAN
      OBVIOUS
    <3> QED
      BY <1>1, <1>2, <1>6, <3>1, NextField
  <2>2. b.i = 2
    BY <1>2, <1>6 DEF Calls
  <2> QED
    BY <1>1, <1>2, <2>1, <2>2
<1>14. \A th \in Thread : om'[th] = Idle
  BY <1>1, CalmFacts DEF Quiet
<1>15. Loaded'
  BY <1>14 DEF Loaded
<1>16. \A x \in L : /\ owners[x] - Same(m, x) = Cardinality(Refs(k, x)) + Cardinality(Pushes(queue', x))
                    /\ owners[x] \in Nat /\ Cardinality(Refs(k, x)) \in Nat
                    /\ Cardinality(Pushes(queue', x)) = 0 /\ Same(m, x) \in {0, 1}
  <2> SUFFICES ASSUME NEW x \in L
               PROVE  /\ owners[x] - Same(m, x) = Cardinality(Refs(k, x)) + Cardinality(Pushes(queue', x))
                      /\ owners[x] \in Nat /\ Cardinality(Refs(k, x)) \in Nat
                      /\ Cardinality(Pushes(queue', x)) = 0 /\ Same(m, x) \in {0, 1}
    OBVIOUS
  <2>1. x \in Node /\ x \in Alive(under_release)
    BY <1>3, <1>5
  <2>2. queue' = queue /\ queue' = <<>>
    BY <1>1, <1>2
  <2>3. Cardinality(Pushes(queue', x)) = 0
    BY <2>2, PushesTold
  <2>4. /\ owners[x] - Same(m, x) = Cardinality(Refs(mem', x)) + Cardinality(Pushes(queue', x))
        /\ owners[x] \in Nat /\ Cardinality(Refs(mem', x)) \in Nat /\ Same(m, x) \in {0, 1}
    BY <1>2, <1>4, <1>8, <2>1, <2>2, CutCounted
  <2> QED
    BY <1>9, <2>3, <2>4
<1>17. \/ dead /\ calls' = rest /\ UNCHANGED <<owners, under_release, searchVars>>
       \/ /\ ~dead /\ CanArrive(m) /\ Release(m) /\ calls' = <<Call("destroy", m)>> \o rest
          /\ UNCHANGED <<owners, searchVars>>
       \/ ~dead /\ IsVisited(m) /\ ~CanArrive(m)
       \/ /\ ~dead /\ ~IsVisited(m) /\ owners' = Decrease(m) /\ owners[m] = 1
          /\ Release(m) /\ calls' = <<Call("destroy", m)>> \o rest /\ UNCHANGED searchVars
       \/ /\ ~dead /\ ~IsVisited(m) /\ owners' = Decrease(m) /\ owners[m] # 1
          /\ StartSearch(m) /\ calls' = <<Call("routing", m)>> \o rest /\ UNCHANGED under_release
  <2>1. CASE dead
    <3>1. IF m = Null THEN TRUE ELSE under_release[m]
      BY <1>7, <2>1
    <3> QED
      BY <1>6, <1>7, <2>1, <3>1 DEF DestroyField
  <2>2. CASE ~dead
    <3>1. m # Null /\ ~under_release[m]
      BY <1>7, <2>2
    <3> QED
      BY <1>6, <1>7, <2>2, <3>1 DEF DestroyField
  <2> QED
    BY <2>1, <2>2
<1>18. ASSUME NEW a \in Calls, calls' = <<a>> \o rest
       PROVE  Below(calls') /\ calls'[1] = a /\ calls' # <<>>
  <2> DEFINE s == calls
  <2>1. /\ s \in Seq(Calls) /\ s # <<>> /\ b \in Calls /\ b.kind = s[1].kind /\ b.node = s[1].node
        /\ b.i > Width /\ (b.kind = "routing" => ~b.arrive) /\ Below(s)
    BY <1>1, <1>2, <1>3, <1>13
  <2> HIDE DEF s
  <2>2. calls' = <<a, b>> \o Tail(s)
    BY <1>18, <2>1, Pushing DEF s
  <2>3. /\ Below(<<a, b>> \o Tail(s)) /\ (<<a, b>> \o Tail(s))[1] = a
        /\ <<a, b>> \o Tail(s) # <<>>
    BY <2>1, StackPushed
  <2> QED
    BY <2>2, <2>3
(* what dies next                                                           *)
<1>19. ASSUME m \in L, Release(m), calls' = <<Call("destroy", m)>> \o rest, UNCHANGED searchVars,
              m \notin Used(k),
              \A x \in L \ {m} : owners'[x] = owners[x],
              \/ Marked(visited) = {} /\ Closed(k, L \ {m})
              \/ /\ m \in Marked(visited) /\ Marked(visited) \cap Used(k) = {}
                 /\ Closed(k, Marked(visited)) /\ \A v \in Marked(visited) : can_arrive_root[v]
       PROVE  Kept'
  <2>1. m \in Node
    BY <1>3, <1>5, <1>19
  <2>2. Call("destroy", m) \in Calls /\ Call("destroy", m).kind = "destroy" /\ Call("destroy", m).node = m
        /\ Call("destroy", m).i = 1
    BY <2>1, NewCall DEF Call
  <2>3. Below(calls') /\ calls'[1] = Call("destroy", m) /\ calls' # <<>>
    BY <1>18, <1>19, <2>2
  <2>4. Alive(under_release') = L \ {m}
    BY <1>3, <1>5, <1>19, <2>1, Fewer DEF TypeOK
  <2>5. Used(k) \subseteq L \ {m} /\ L \ {m} \subseteq Used(k) \cup From(k, Succ(k, m))
    BY <1>3, <1>5, <1>10, <1>11, <1>19, Dying
  <2>6. Phase'
    <3>1. PICK V : V = Marked(visited')
      OBVIOUS
    <3>2. V = Marked(visited) /\ can_arrive_root' = can_arrive_root
      BY <1>19, <3>1 DEF searchVars
    <3>3. queue' = <<>> /\ batch' = <<>> /\ Width <= 1
      BY <1>1, <1>2
    <3>4. m \notin Alive(under_release')
          /\ Alive(under_release') \subseteq Used(mem') \cup From(mem', Succ(mem', m))
      BY <1>9, <2>4, <2>5
    <3>5. \/ V = {} /\ Closed(mem', Alive(under_release'))
          \/ /\ m \in V /\ V \cap Used(mem') = {} /\ Closed(mem', V)
             /\ \A v \in V : can_arrive_root'[v]
      BY <1>9, <1>19, <2>4, <3>2
    <3> QED
      BY <2>1, <2>3, <3>1, <3>3, <3>4, <3>5, Falls
  <2>7. Counted'
    <3> SUFFICES ASSUME NEW x \in L \ {m}
                 PROVE  owners'[x] = Cardinality(Refs(mem', x)) + Cardinality(Pushes(queue', x))
      BY <2>4 DEF Counted
    <3>1. Same(m, x) = 0 /\ owners'[x] = owners[x]
      BY <1>19 DEF Same
    <3> QED
      BY <1>9, <1>16, <3>1
  <2>8. UsedAlive'
    BY <1>9, <2>4, <2>5 DEF UsedAlive
  <2>9. Blank'
    <3> SUFFICES ASSUME NEW x \in Node \ Alive(under_release'), Succ(mem', x) # Null
                 PROVE  Breaking(x)'
      BY DEF Blank
    <3>1. x = m
      BY <1>9, <1>12, <2>4
    <3> QED
      BY <1>2, <2>2, <2>3, <3>1 DEF Breaking
  <2> QED
    BY <1>15, <2>3, <2>6, <2>7, <2>8, <2>9 DEF Kept
<1>20. CASE dead /\ calls' = rest /\ UNCHANGED <<owners, under_release, searchVars>>
  <2>1. L \subseteq Used(k)
    <3>1. CASE m = Null
      BY <1>10, <1>11, <3>1, NothingHangs
    <3>2. CASE m # Null
      <4>1. m \in Node \ L
        BY <1>7, <1>20, <3>2
      <4>2. From(k, m) = {m} \cup From(k, Null)
        BY <1>10, <1>12, <4>1, FromStep
      <4>3. From(k, Null) = {}
        BY <1>10, FromTold
      <4> QED
        BY <1>11, <4>1, <4>2, <4>3
    <3> QED
      BY <3>1, <3>2
  <2>2. Below(calls') /\ calls'[1] = b /\ calls' # <<>>
    <3> DEFINE s == calls
    <3>1. s \in Seq(Calls) /\ s # <<>> /\ b.kind = s[1].kind /\ b.node = s[1].node /\ Below(s)
      BY <1>1, <1>2, <1>3, <1>13
    <3>2. calls' = <<b>> \o Tail(s)
      BY <1>20
    <3> HIDE DEF s
    <3>3. Below(<<b>> \o Tail(s)) /\ (<<b>> \o Tail(s))[1] = b /\ <<b>> \o Tail(s) # <<>>
      BY <1>13, <3>1, StackReplaced
    <3> QED
      BY <3>2, <3>3
  <2>3. Alive(under_release') = L /\ owners' = owners
    BY <1>5, <1>20
  <2>4. Ended'
    <3>1. Ending'
      BY <1>1, <1>2, <1>13, <2>2 DEF Ending
    <3> QED
      BY <1>2, <1>9, <1>13, <2>1, <2>2, <2>3, <3>1 DEF Ended
  <2>5. Counted'
    <3> SUFFICES ASSUME NEW x \in L
                 PROVE  owners'[x] = Cardinality(Refs(mem', x)) + Cardinality(Pushes(queue', x))
      BY <2>3 DEF Counted
    <3>1. x # m
      BY <1>3, <1>5, <1>20
    <3>2. Same(m, x) = 0
      BY <3>1 DEF Same
    <3> QED
      BY <1>9, <1>16, <2>3, <3>2
  <2>6. UsedAlive'
    BY <1>9, <1>11, <2>3 DEF UsedAlive
  <2>7. Blank'
    BY <1>9, <1>12, <2>3 DEF Blank
  <2> QED
    BY <1>15, <2>2, <2>4, <2>5, <2>6, <2>7 DEF Kept, Phase
<1>21. CASE Marked(visited) = {} /\ Closed(mem, Alive(under_release)) /\ ~dead
  <2>1. m \in L /\ m \in Node /\ ~IsVisited(m)
    BY <1>3, <1>5, <1>7, <1>21 DEF Marked, IsVisited
  <2>2. Closed(k, L)
    BY <1>2, <1>3, <1>5, <1>10, <1>21 DEF Closed
  <2>3. owners' = Decrease(m)
    BY <1>17, <1>21, <2>1 DEF CanArrive
  <2>4. owners'[m] = owners[m] - 1 /\ \A x \in L \ {m} : owners'[x] = owners[x]
    BY <1>3, <1>5, <2>1, <2>3 DEF Decrease, TypeOK
  <2>5. Same(m, m) = 1 /\ Cardinality(Refs(k, m)) = owners[m] - 1 /\ owners[m] \in Nat
        /\ Cardinality(Refs(k, m)) \in Nat
    <3>1. Same(m, m) = 1
      BY DEF Same
    <3> QED
      BY <1>16, <2>1, <3>1
  <2>6. CASE owners[m] = 1
    <3>1. Release(m) /\ calls' = <<Call("destroy", m)>> \o rest /\ UNCHANGED searchVars
      BY <1>17, <1>21, <2>1, <2>6 DEF CanArrive
    <3>2. Refs(k, m) = {}
      BY <2>5, <2>6, RefsFinite
    <3>3. m \notin Used(k) /\ Closed(k, L \ {m})
      BY <1>3, <1>5, <1>10, <2>1, <2>2, <3>2, DyingAlone
    <3> QED
      BY <1>19, <1>21, <2>1, <2>4, <3>1, <3>3
  <2>7. CASE owners[m] # 1
    <3>1. StartSearch(m) /\ calls' = <<Call("routing", m)>> \o rest /\ UNCHANGED under_release
      BY <1>17, <1>21, <2>1, <2>7 DEF CanArrive
    <3>2. Call("routing", m) \in Calls
      BY <2>1, NewCall
    <3>3. Below(calls') /\ calls'[1] = Call("routing", m) /\ calls' # <<>>
      BY <1>18, <3>1, <3>2
    <3>4. Alive(under_release') = L /\ owners'[m] >= 1
      BY <1>5, <2>4, <2>5, <2>7, <3>1
    <3>5. Searching'
      <4>1. queue' = <<>> /\ batch' = <<>> /\ Width <= 1
        BY <1>1, <1>2
      <4>2. /\ m \in Alive(under_release') /\ Closed(mem', Alive(under_release'))
            /\ Alive(under_release') \subseteq Used(mem') \cup From(mem', m)
        BY <1>9, <1>11, <2>1, <2>2, <3>4
      <4> QED
        BY <1>3, <1>21, <2>1, <3>1, <3>3, <3>4, <4>1, <4>2, Begun
    <3>6. Counted'
      <4> SUFFICES ASSUME NEW x \in L
                   PROVE  owners'[x] = Cardinality(Refs(mem', x)) + Cardinality(Pushes(queue', x))
        BY <3>4 DEF Counted
      <4>1. owners'[x] = owners[x] - Same(m, x)
        <5>1. CASE x = m
          BY <2>4, <2>5, <5>1
        <5>2. CASE x # m
          <6>1. Same(m, x) = 0
            BY <5>2 DEF Same
          <6> QED
            BY <1>16, <2>4, <5>2, <6>1
        <5> QED
          BY <5>1, <5>2
      <4> QED
        BY <1>9, <1>16, <4>1
    <3>7. UsedAlive'
      BY <1>9, <1>11, <3>4 DEF UsedAlive
    <3>8. Blank'
      BY <1>9, <1>12, <3>4 DEF Blank
    <3> QED
      BY <1>15, <3>3, <3>5, <3>6, <3>7, <3>8 DEF Kept, Phase
  <2> QED
    BY <2>6, <2>7
<1>22. ASSUME NEW V \in SUBSET Node, V = Marked(visited), n \in V, V \cap Used(mem) = {},
              Closed(mem, V), \A v \in V : can_arrive_root[v], ~dead
       PROVE  Kept'
  <2>1. m \in V /\ m \in L
    BY <1>4, <1>7, <1>22 DEF Closed
  <2>2. CanArrive(m)
    BY <1>22, <2>1 DEF CanArrive, IsVisited, Marked
  <2>3. /\ Release(m) /\ calls' = <<Call("destroy", m)>> \o rest /\ UNCHANGED <<owners, searchVars>>
    BY <1>17, <1>22, <2>2 DEF CanArrive
  <2>4. Closed(k, V)
    BY <1>10, <1>22 DEF Closed
  <2>5. m \notin Used(k) /\ V \cap Used(k) = {}
    BY <1>11, <1>22, <2>1
  <2>6. \A x \in L \ {m} : owners'[x] = owners[x]
    BY <2>3
  <2> QED
    BY <1>19, <1>22, <2>1, <2>3, <2>4, <2>5, <2>6
<1>23. CASE dead
  BY <1>17, <1>20, <1>23
<1> QED
  BY <1>2, <1>21, <1>22, <1>23

LEMMA TornKept == Calm /\ SearchInv' /\ DestroyReturn => Kept'
<1> SUFFICES ASSUME Calm, SearchInv', DestroyReturn PROVE Kept'
  OBVIOUS
<1>1. /\ calls # <<>> /\ Top.kind = "destroy" /\ Top.i > Width /\ calls' = Tail(calls)
      /\ UNCHANGED <<mem, owners, under_release, queue, batch, om, sync, assigned>>
  BY DEF DestroyReturn, Return, heapVars
<1>2. TypeOK /\ Kept /\ Top = calls[1] /\ calls[1].i \in Int /\ Width \in Int
  BY <1>1, CalmFacts, TopCall, CycleAssumption DEF Calm
<1>3. Ended
  BY <1>1, <1>2 DEF Kept, Phase, Rest, Quiet, Dropped, Taken, Searching, Down, Up, Seeking,
                    Chain, Ring, Tearing
<1>4. queue = <<>> /\ batch = <<>> /\ calls[1].kind = "destroy" /\ Alive(under_release) \subseteq Used(mem)
  BY <1>3 DEF Ended, Ending
<1>5. Phase' /\ Below(calls')
  BY <1>1, <1>4, Finished
<1>6. \A x \in Node \ Alive(under_release) : Succ(mem, x) = Null
  BY <1>1, <1>2 DEF Kept, Blank, Breaking
<1>7. \A th \in Thread : om[th] = Idle
  BY <1>1, CalmFacts DEF Quiet
<1>8. Counted' /\ UsedAlive' /\ Blank'
  BY <1>1, <1>2, <1>6 DEF Kept, Counted, UsedAlive, Blank
<1>9. Loaded'
  BY <1>1, <1>7 DEF Loaded
<1> QED
  BY <1>5, <1>8, <1>9 DEF Kept

------------------------------------------------------------------------------
(* The program: it only steps when the filter thread is done.               *)
LEMMA RestFacts ==
    ASSUME Calm, Quiet
    PROVE  /\ Alive(under_release) = Used(mem) /\ Below(calls) /\ Counted /\ UsedAlive /\ Blank /\ Loaded
           /\ \A x \in Node \ Alive(under_release) : Succ(mem, x) = Null
<1>1. Kept
  BY DEF Calm
<1>2. Rest
  BY <1>1 DEF Kept, Phase, Quiet, Rest, Dropped, Taken, Searching, Down, Up, Seeking, Chain, Ring,
              Tearing, Ending, Ended
<1>3. \A x \in Node \ Alive(under_release) : Succ(mem, x) = Null
  BY <1>1 DEF Kept, Blank, Breaking, Quiet
<1> QED
  BY <1>1, <1>2, <1>3, CalmFacts DEF Kept, Rest

Nameable(m, c) == c \in Variable \/ \E n \in Used(m) : c = <<n, 1>>

LEMMA NamedTold ==
    ASSUME Calm, NEW th \in Thread, NEW c \in Ref, c \in Named(th)
    PROVE  Nameable(mem, c) /\ mem[c] \in Used(mem) \cup {Null}
<1>1. Memory(mem)
  BY CalmFacts
<1>2. \A b \in Variable : mem[b] \in Used(mem) \cup {Null}
  BY <1>1, UsedTold
<1>3. CASE c \in {<<th, l>> : l \in Local}
  BY <1>2, <1>3 DEF Nameable, Variable
<1>4. CASE c \notin {<<th, l>> : l \in Local}
  <2>1. PICK l \in Local : mem[<<th, l>>] # Null /\ c \in Field(mem[<<th, l>>])
    BY <1>4 DEF Named
  <2> DEFINE n == mem[<<th, l>>]
  <2>2. n \in Used(mem)
    BY <1>2, <2>1 DEF Variable
  <2>3. PICK w \in 1 .. Width : c = <<n, w>>
    BY <2>1 DEF Field
  <2>4. Width = 1 /\ w = 1
    BY <1>1, <2>3, Arrows
  <2>5. mem[c] = Succ(mem, n)
    BY <2>3, <2>4 DEF Succ
  <2>6. Succ(mem, n) \in Used(mem) \cup {Null}
    BY <1>1, <2>2, UsedTold DEF Closed
  <2> QED
    BY <2>2, <2>3, <2>4, <2>5, <2>6 DEF Nameable
<1> QED
  BY <1>3, <1>4

LEMMA LoadKept ==
    ASSUME Calm, SearchInv', NEW th \in Thread, NEW dst \in Ref, NEW src \in Ref,
           AssignLoad(th, dst, src)
    PROVE  Kept'
<1>1. /\ UNCHANGED <<mem, owners, under_release, visited, queue, batch, calls, sync>>
      /\ om' = [om EXCEPT ![th] = [dst |-> dst, src |-> src, value |-> mem[src]]]
      /\ dst \in Named(th) /\ src \in Named(th)
  BY DEF AssignLoad, heapVars, searchVars
<1>2. Quiet /\ sync /\ \A a, b \in Thread : a = b
  BY DEF AssignLoad, Synced, Calm, Single
<1>3. Alive(under_release) = Used(mem) /\ Below(calls) /\ Counted /\ UsedAlive /\ Blank
  BY <1>2, RestFacts
<1>4. Nameable(mem, dst) /\ mem[src] \in Used(mem) \cup {Null}
  BY <1>1, NamedTold
<1>5. Quiet' /\ Rest'
  BY <1>1, <1>2, <1>3 DEF Quiet, Rest
<1>6. Loaded'
  <2> SUFFICES ASSUME NEW a \in Thread
               PROVE  /\ om'[a].dst \in Variable \/ \E n \in Used(mem) : om'[a].dst = <<n, 1>>
                      /\ om'[a].value \in Used(mem) \cup {Null}
    BY <1>1, <1>5 DEF Loaded
  <2>1. a = th
    BY <1>2
  <2>2. om'[a] = [dst |-> dst, src |-> src, value |-> mem[src]]
    BY <1>1, <2>1, CalmFacts DEF TypeOK
  <2> QED
    BY <1>4, <2>2 DEF Nameable
<1>7. Counted' /\ UsedAlive' /\ Below(calls') /\ Blank'
  BY <1>1, <1>3 DEF Counted, UsedAlive, Blank, Breaking
<1> QED
  BY <1>5, <1>6, <1>7 DEF Kept, Phase

(* Both halves of what a program does to a reference, at once.              *)
LEMMA SwapKept ==
    ASSUME Calm, Quiet, NEW dst \in Ref, NEW value \in Used(mem) \cup {Null}, Nameable(mem, dst),
           mem' = [mem EXCEPT ![dst] = value],
           queue' = IF mem[dst] = Null THEN queue ELSE Append(queue, mem[dst]),
           owners' = IF value = Null THEN owners ELSE Increase(value),
           UNCHANGED <<under_release, batch, calls>>, \A th \in Thread : om'[th] = Idle
    PROVE  Kept'
<1>1. /\ Memory(mem) /\ TypeOK /\ SearchInv /\ Used(mem) \subseteq Node
      /\ Alive(under_release) = Used(mem) /\ Below(calls) /\ Counted
      /\ \A x \in Node \ Alive(under_release) : Succ(mem, x) = Null
  BY CalmFacts, RestFacts DEF Calm
<1>2. PICK k : k = mem'
  OBVIOUS
<1>3. PICK old : old = mem[dst]
  OBVIOUS
<1>4. PICK L : L = Alive(under_release)
  OBVIOUS
<1>5. Assigned(mem, dst, value, k) /\ Memory(k)
  <2>1. mem \in [Ref -> Node \cup {Null}] /\ value \in Node \cup {Null}
    BY <1>1, Arrows
  <2> QED
    BY <1>1, <1>2, <2>1 DEF Assigned, Memory
<1>6. /\ old \in L \cup {Null} /\ Used(k) \subseteq L /\ Closed(k, L)
      /\ L \subseteq Used(k) \cup From(k, old)
  <2>1. dst \in Variable \/ \E n \in Used(mem) : dst = <<n, 1>>
    BY DEF Nameable
  <2>2. /\ mem[dst] \in Used(mem) \cup {Null}
        /\ Used(k) \subseteq Used(mem) /\ Closed(k, Used(mem))
        /\ Used(mem) \subseteq Used(k) \cup From(k, mem[dst])
    BY <1>1, <1>5, <2>1, Swapped
  <2> QED
    BY <1>1, <1>3, <1>4, <2>2
<1>7. \A n \in Node : owners'[n] = owners[n] + Cardinality(Refs(k, n)) - Cardinality(Refs(mem, n))
                          + Cardinality(Pushes(queue', n)) - Cardinality(Pushes(queue, n))
  <2> SUFFICES ASSUME NEW n \in Node
               PROVE  owners'[n] = owners[n] + Cardinality(Refs(k, n)) - Cardinality(Refs(mem, n))
                          + Cardinality(Pushes(queue', n)) - Cardinality(Pushes(queue, n))
    OBVIOUS
  <2>1. Cardinality(Refs(k, n)) = Cardinality(Refs(mem, n)) - Same(old, n) + Same(value, n)
    BY <1>3, <1>5, Redirected
  <2>2. queue \in Seq(Node) /\ Cardinality(Pushes(queue, n)) \in Nat /\ owners \in [Node -> Nat]
    BY <1>1, PushCount DEF TypeOK
  <2>3. Cardinality(Pushes(queue', n)) = Cardinality(Pushes(queue, n)) + Same(old, n)
    <3>1. CASE old = Null
      <4>1. Same(old, n) = 0 /\ queue' = queue
        BY <1>3, <3>1, CycleAssumption DEF Same
      <4> QED
        BY <2>2, <4>1
    <3>2. CASE old # Null
      <4>1. old \in Node /\ queue' = Append(queue, old)
        BY <1>1, <1>3, <1>4, <1>6, <3>2
      <4> QED
        BY <2>2, <4>1, PushedOn
    <3> QED
      BY <3>1, <3>2
  <2>4. owners'[n] = owners[n] + Same(value, n)
    BY <1>1, <2>2, CycleAssumption DEF Increase, Same
  <2>5. /\ owners[n] \in Nat /\ Cardinality(Refs(mem, n)) \in Nat
        /\ Same(value, n) \in {0, 1} /\ Same(old, n) \in {0, 1}
    BY <2>2, RefCount DEF Same
  <2> QED
    BY <2>1, <2>2, <2>3, <2>4, <2>5
<1>8. Counted'
  <2> SUFFICES ASSUME NEW n \in L
               PROVE  owners'[n] = Cardinality(Refs(mem', n)) + Cardinality(Pushes(queue', n))
    BY <1>4 DEF Counted
  <2>1. n \in Node /\ owners[n] = Cardinality(Refs(mem, n)) + Cardinality(Pushes(queue, n))
    BY <1>1, <1>4 DEF Counted
  <2>2. /\ Cardinality(Refs(mem, n)) \in Nat /\ Cardinality(Refs(k, n)) \in Nat
        /\ Cardinality(Pushes(queue, n)) \in Nat
    BY <1>1, RefCount, PushCount DEF TypeOK
  <2>3. Cardinality(Pushes(queue', n)) \in Nat
    <3>1. queue \in Seq(Node) /\ (old # Null => old \in Node)
      BY <1>1, <1>4, <1>6 DEF TypeOK
    <3>2. queue' \in Seq(Node)
      BY <1>3, <3>1
    <3> QED
      BY <3>2, PushCount
  <2>4. owners'[n] = owners[n] + Cardinality(Refs(k, n)) - Cardinality(Refs(mem, n))
                          + Cardinality(Pushes(queue', n)) - Cardinality(Pushes(queue, n))
    BY <1>7, <2>1
  <2>5. owners'[n] = Cardinality(Refs(k, n)) + Cardinality(Pushes(queue', n))
    BY <2>1, <2>2, <2>3, <2>4
  <2> QED
    BY <1>2, <2>5
<1>9. UsedAlive'
  BY <1>2, <1>4, <1>6 DEF UsedAlive
<1>10. Blank'
  <2> SUFFICES ASSUME NEW x \in Node \ L PROVE Succ(k, x) = Null
    BY <1>2, <1>4 DEF Blank
  <2>1. Succ(mem, x) = Null
    BY <1>1, <1>4
  <2>2. dst # <<x, 1>>
    BY <1>1, <1>4, Arrows DEF Nameable
  <2>3. Width = 1 => <<x, 1>> \in Ref
    BY <1>1, Arrows
  <2> QED
    BY <1>5, <2>1, <2>2, <2>3 DEF Succ, Assigned
<1>11. Phase'
  <2>1. CASE old = Null
    <3>1. L \subseteq Used(k)
      BY <1>5, <1>6, <2>1, NothingHangs
    <3>2. Quiet'
      BY <1>3, <2>1 DEF Quiet
    <3> QED
      BY <1>2, <1>4, <3>1, <3>2 DEF Rest, Phase
  <2>2. CASE old # Null
    <3>1. queue' = <<old>> /\ old \in L
      BY <1>3, <1>6, <2>2 DEF Quiet
    <3>2. batch' = <<>> /\ calls' = <<>>
      BY DEF Quiet
    <3>3. Dropped'
      BY <1>2, <1>4, <1>6, <3>1, <3>2 DEF Dropped, Whole, Hanging
    <3> QED
      BY <3>3 DEF Phase
  <2> QED
    BY <2>1, <2>2
<1>12. Below(calls') /\ Loaded'
  BY <1>1 DEF Loaded
<1> QED
  BY <1>8, <1>9, <1>10, <1>11, <1>12 DEF Kept

LEMMA AssignKept ==
    ASSUME Calm, SearchInv', NEW th \in Thread, AssignSwap(th)
    PROVE  Kept'
<1>1. PICK dst : dst = om[th].dst
  OBVIOUS
<1>2. PICK value : value = om[th].value
  OBVIOUS
<1>3. /\ om[th] # Idle /\ mem' = [mem EXCEPT ![dst] = value]
      /\ queue' = IF mem[dst] = Null THEN queue ELSE Append(queue, mem[dst])
      /\ owners' = IF value = Null THEN owners ELSE Increase(value)
      /\ om' = [om EXCEPT ![th] = Idle]
      /\ UNCHANGED <<under_release, batch, calls>>
  BY <1>1, <1>2 DEF AssignSwap
<1>4. /\ Quiet /\ Nameable(mem, dst) /\ value \in Used(mem) \cup {Null}
      /\ \A a, b \in Thread : a = b
  BY <1>1, <1>2, <1>3 DEF Calm, Kept, Loaded, Nameable, Single
<1>5. dst \in Ref /\ \A a \in Thread : om'[a] = Idle
  <2>1. om \in [Thread -> [dst : Ref, src : Ref, value : Node \cup {Null}] \cup {Idle}]
    BY CalmFacts DEF TypeOK
  <2> QED
    BY <1>1, <1>3, <1>4, <2>1
<1> QED
  BY <1>3, <1>4, <1>5, SwapKept

LEMMA ClearKept ==
    ASSUME Calm, SearchInv', NEW th \in Thread, NEW dst \in Ref, Clear(th, dst)
    PROVE  Kept'
<1>1. /\ mem[dst] # Null /\ mem' = [mem EXCEPT ![dst] = Null] /\ queue' = Append(queue, mem[dst])
      /\ om[th] = Idle /\ dst \in Named(th)
      /\ UNCHANGED <<owners, under_release, batch, calls, om>>
  BY DEF Clear
<1>2. Quiet /\ \A a, b \in Thread : a = b
  BY DEF Clear, Synced, Calm, Single
<1>3. Nameable(mem, dst) /\ \A a \in Thread : om'[a] = Idle
  BY <1>1, <1>2, NamedTold
<1>4. /\ queue' = IF mem[dst] = Null THEN queue ELSE Append(queue, mem[dst])
      /\ owners' = IF Null = Null THEN owners ELSE Increase(Null)
      /\ Null \in Used(mem) \cup {Null}
  BY <1>1
<1> QED
  BY <1>1, <1>2, <1>3, <1>4, SwapKept

------------------------------------------------------------------------------
LEMMA CalmStep == Calm /\ SearchInv' /\ [Next]_vars => Kept'
<1> SUFFICES ASSUME Calm, SearchInv', [Next]_vars PROVE Kept'
  OBVIOUS
<1>1. CASE Filter
  BY <1>1, TakeKept, ReleaseKept, RouteKept, ReturnKept, VerdictKept, TearKept, TornKept DEF Filter
<1>2. ASSUME NEW th \in Thread, NEW dst \in Ref, NEW src \in Ref, AssignLoad(th, dst, src)
      PROVE  Kept'
  BY <1>2, LoadKept
<1>3. ASSUME NEW th \in Thread, AssignSwap(th) PROVE Kept'
  BY <1>3, AssignKept
<1>4. ASSUME NEW th \in Thread, NEW dst \in Ref, Clear(th, dst) PROVE Kept'
  BY <1>4, ClearKept
<1>5. CASE UNCHANGED vars
  <2>1. /\ UNCHANGED <<mem, owners, under_release, visited, can_arrive_root, g_root, g_degree_dvalue>>
        /\ UNCHANGED <<queue, batch, calls, sync, om, assigned>>
    BY <1>5 DEF vars, heapVars, searchVars
  <2>2. Kept
    BY DEF Calm
  <2>3. Counted' /\ UsedAlive' /\ Below(calls') /\ Blank' /\ Loaded'
    BY <2>1, <2>2 DEF Kept, Counted, UsedAlive, Blank, Breaking, Loaded, Quiet
  <2>4. Rest \/ Dropped \/ Taken => Phase'
    BY <2>1 DEF Phase, Rest, Quiet, Dropped, Taken, Whole, Hanging
  <2>5. Searching => Phase'
    BY <2>1 DEF Phase, Searching, Down, Up, Seeking, Whole, Hanging, PlainMarks, Arrives, Summed, Misses
  <2>6. Chain \/ Ring \/ Ended => Phase'
    BY <2>1 DEF Phase, Chain, Ring, Ended, Ending, Tearing, Whole, Hanging
  <2> QED
    BY <2>2, <2>3, <2>4, <2>5, <2>6 DEF Kept, Phase
<1> QED
  BY <1>1, <1>2, <1>3, <1>4, <1>5 DEF Next

(* What is used is in use by a thread.                                      *)
LEMMA UsedIsInUse ==
    ASSUME Memory(mem)
    PROVE  Used(mem) = UNION {InUse(th) : th \in Thread}
<1> DEFINE kept(th) == {mem[<<th, l>>] : l \in Local}
           all == UNION {InUse(th) : th \in Thread}
<1>1. ASSUME NEW th \in Thread
      PROVE  /\ kept(th) \in SUBSET (Node \cup {Null}) /\ kept(th) \subseteq Held(mem)
             /\ InUse(th) = Reaches(mem, kept(th))
  <2>1. kept(th) \subseteq Held(mem)
    BY DEF Held, Variable
  <2> QED
    BY <2>1, Arrows DEF InUse
<1> HIDE DEF kept
<1>2. ASSUME NEW th \in Thread
      PROVE  Closed(mem, InUse(th)) /\ kept(th) \subseteq InUse(th) \cup {Null}
  BY <1>1, ReachesTold
<1>3. ASSUME NEW th \in Thread PROVE InUse(th) \subseteq Used(mem)
  <2>1. Closed(mem, Used(mem)) /\ Held(mem) \subseteq Used(mem) \cup {Null}
    <3>1. Closed(mem, Used(mem)) /\ \A c \in Variable : mem[c] \in Used(mem) \cup {Null}
      BY UsedTold
    <3> QED
      BY <3>1 DEF Held
  <2>2. kept(th) \subseteq Used(mem) \cup {Null}
    BY <1>1, <2>1
  <2> QED
    BY <1>1, <2>1, <2>2, ReachesTold
<1>4. Closed(mem, all)
  <2>1. all \subseteq Node
    BY <1>2 DEF Closed
  <2>2. ASSUME NEW n \in all PROVE Succ(mem, n) \in all \cup {Null}
    BY <1>2 DEF Closed
  <2> QED
    BY <2>1, <2>2 DEF Closed
<1>5. \A c \in Variable : mem[c] \in all \cup {Null}
  <2> SUFFICES ASSUME NEW th \in Thread, NEW l \in Local PROVE mem[<<th, l>>] \in all \cup {Null}
    BY DEF Variable
  <2>1. mem[<<th, l>>] \in kept(th)
    BY DEF kept
  <2> QED
    BY <1>2, <2>1
<1>6. all \subseteq Used(mem)
  BY <1>3
<1> HIDE DEF all
<1>7. Used(mem) \subseteq all
  BY <1>4, <1>5, UsedTold
<1> QED
  BY <1>6, <1>7 DEF all

LEMMA KeptFirst == Init /\ SearchInv /\ Single => Kept
<1> SUFFICES ASSUME Init, SearchInv, Single PROVE Kept
  OBVIOUS
<1>1. /\ queue = <<>> /\ batch = <<>> /\ calls = <<>> /\ om = [th \in Thread |-> Idle]
      /\ UNION {InUse(th) : th \in Thread} = Node
      /\ owners = [n \in Node |-> Cardinality({c \in Ref : mem[c] = n})]
      /\ under_release = [n \in Node |-> FALSE]
  BY DEF Init
<1>2. Memory(mem)
  BY DEF SearchInv, TypeOK, Single, Memory
<1>3. Alive(under_release) = Node
  BY <1>1 DEF Alive
<1>4. Used(mem) = Node
  BY <1>1, <1>2, UsedIsInUse
<1>5. Counted
  <2> SUFFICES ASSUME NEW n \in Node
               PROVE  owners[n] = Cardinality(Refs(mem, n)) + Cardinality(Pushes(queue, n))
    BY <1>3 DEF Counted
  <2>1. Cardinality(Pushes(queue, n)) = 0
    BY <1>1, PushesTold
  <2>2. owners[n] = Cardinality(Refs(mem, n))
    BY <1>1 DEF Refs
  <2>3. Cardinality(Refs(mem, n)) \in Nat
    BY RefCount
  <2> QED
    BY <2>1, <2>2, <2>3
<1>6. UsedAlive /\ Blank
  BY <1>3, <1>4 DEF UsedAlive, Blank
<1>7. Below(calls)
  BY <1>1 DEF Below
<1>8. Loaded
  BY <1>1 DEF Loaded
<1>9. Phase
  BY <1>1, <1>3, <1>4 DEF Phase, Rest, Quiet
<1> QED
  BY <1>5, <1>6, <1>7, <1>8, <1>9 DEF Kept

LEMMA CarefulIsSingle == TypeOK /\ Careful => Single
<1> SUFFICES ASSUME Careful, NEW a \in Thread, NEW b \in Thread, a # b PROVE FALSE
  BY DEF Careful, Single
<1>1. IsFiniteSet(Thread) /\ Cardinality(Thread) <= 1
  BY CycleAssumption DEF Careful
<1>2. {a, b} \subseteq Thread /\ Cardinality({a, b}) <= Cardinality(Thread) /\ Cardinality(Thread) \in Nat
  BY <1>1, FS_Subset, FS_CardinalityType
<1>3. IsFiniteSet({a}) /\ Cardinality({a}) = 1
  BY FS_Singleton
<1>4. {a, b} = {a} \cup {b} /\ b \notin {a}
  OBVIOUS
<1>5. Cardinality({a, b}) = 2
  BY <1>3, <1>4, FS_AddElement
<1> QED
  BY <1>1, <1>2, <1>5

LEMMA KeptIsExact == SearchInv /\ Single /\ Kept =>
    /\ NoDangling
    /\ Quiet => \A n \in Node : under_release[n] <=> \A th \in Thread : n \notin InUse(th)
<1> SUFFICES ASSUME Calm
             PROVE  /\ NoDangling
                    /\ Quiet => \A n \in Node : under_release[n] <=> \A th \in Thread : n \notin InUse(th)
  BY DEF Calm
<1>1. Memory(mem) /\ Used(mem) \subseteq Alive(under_release)
  BY CalmFacts
<1>2. Used(mem) = UNION {InUse(th) : th \in Thread}
  BY <1>1, UsedIsInUse
<1>3. NoDangling
  BY <1>1, <1>2 DEF NoDangling, Alive
<1>4. ASSUME Quiet, NEW n \in Node
      PROVE  under_release[n] <=> \A th \in Thread : n \notin InUse(th)
  <2>1. Alive(under_release) = Used(mem)
    BY <1>4, RestFacts
  <2> QED
    BY <1>2, <2>1 DEF Alive
<1> QED
  BY <1>3, <1>4

ExactInv == SearchInv /\ (Single => Kept)

LEMMA ExactInit == Init => ExactInv
BY SearchInit, KeptFirst DEF ExactInv

LEMMA SyncStays == [Next]_vars => (Single' <=> Single)
<1>1. [Next]_vars => sync' = sync
  BY DEF Next, Filter, TakeBatch, ReleaseNext, RouteField, RouteReturn, Verdict, DestroyField,
         DestroyReturn, AssignLoad, AssignSwap, Clear, vars
<1> QED
  BY <1>1 DEF Single

LEMMA ExactNext == ExactInv /\ [Next]_vars => ExactInv'
<1> SUFFICES ASSUME ExactInv, [Next]_vars PROVE ExactInv'
  OBVIOUS
<1>1. SearchInv'
  BY SearchNext DEF ExactInv
<1>2. Single' => Single
  BY SyncStays
<1>3. Single => Kept'
  BY <1>1, CalmStep DEF ExactInv, Calm
<1> QED
  BY <1>1, <1>2, <1>3 DEF ExactInv

(* A program of one thread that waits after each reference it drops, with   *)
(* objects of one field: what a variable can reach is never destroyed, and  *)
(* what none can reach, rings included, is destroyed when the filter thread *)
(* is done (gc/README.md:55; ref.hpp, can_release and routing).             *)
THEOREM SearchIsExact == Spec => []Exact
<1>1. ExactInv => Exact
  BY CarefulIsSingle, KeptIsExact DEF ExactInv, Exact, SearchInv
<1>2. Spec => []ExactInv
  <2>1. Init /\ [][Next]_vars => []ExactInv
    BY ExactInit, ExactNext, PTL
  <2> QED
    BY <2>1 DEF Spec
<1> QED
  BY <1>1, <1>2, PTL
==============================================================================
