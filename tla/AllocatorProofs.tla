---------------------------- MODULE AllocatorProofs ----------------------------
(****************************************************************************)
(* Both block allocators, for every size of a page, every number of lists   *)
(* and every set of pages: after any history of requests and frees the      *)
(* blocks tile the pages, free neighbours are joined, the bits and lengths  *)
(* at the ends of the blocks are true and the lists have every free block   *)
(* once, in the list of its length.  First the facts about tiled pages that *)
(* are the same for both, then PageHeap, then RtosMemory.                   *)
(****************************************************************************)
EXTENDS PageHeap, RtosMemory, FiniteSetTheorems, TLAPS

------------------------------------------------------------------------------
(* n \div b as the largest number of times that b fits into n.              *)
LEMMA DivMonotone ==
    ASSUME NEW b \in Nat \ {0}, NEW m \in Nat, NEW n \in Nat
    PROVE  /\ n \div b \in Nat
           /\ m <= n => m \div b <= n \div b
           /\ b <= n => 1 <= n \div b
<1>1. n \div b \in Nat /\ m \div b \in Nat
    OBVIOUS
<1>2. m <= n => m \div b <= n \div b
    BY <1>1
<1>3. b <= n => 1 <= n \div b
    BY <1>1
<1> QED
    BY <1>1, <1>2, <1>3

------------------------------------------------------------------------------
(* Rows of blocks.  A set of blocks <<page, first unit, length>> tiles the  *)
(* pages of P, of n units each: no two overlap, and every unit is in one.   *)

Tiled(B, P, n) ==
    /\ B \subseteq P \X (0 .. n - 1) \X (1 .. n)
    /\ \A b \in B : b[2] + b[3] <= n
    /\ \A a, b \in B : a[1] = b[1] /\ a # b => a[2] + a[3] <= b[2] \/ b[2] + b[3] <= a[2]
    /\ \A p \in P : \A u \in 0 .. n - 1 : \E b \in B : b[1] = p /\ b[2] <= u /\ u < b[2] + b[3]

(* A block is cut in two.                                                   *)
LEMMA TiledCut ==
    ASSUME NEW B, NEW P, NEW n \in Nat, NEW p, NEW u, NEW total, NEW k \in 1 .. total - 1,
           Tiled(B, P, n), <<p, u, total>> \in B
    PROVE  Tiled((B \ {<<p, u, total>>}) \cup {<<p, u, k>>, <<p, u + k, total - k>>}, P, n)
<1> DEFINE x == <<p, u, total>>
           y == <<p, u, k>>
           z == <<p, u + k, total - k>>
           C == (B \ {x}) \cup {y, z}
<1>1. p \in P /\ u \in 0 .. n - 1 /\ total \in 1 .. n /\ u + total <= n
    BY DEF Tiled
<1>2. C \subseteq P \X (0 .. n - 1) \X (1 .. n)
    BY <1>1 DEF Tiled
<1>3. \A b \in C : b[2] + b[3] <= n
    BY <1>1 DEF Tiled
<1>4. \A a, b \in C : a[1] = b[1] /\ a # b => a[2] + a[3] <= b[2] \/ b[2] + b[3] <= a[2]
  <2> SUFFICES ASSUME NEW a \in C, NEW b \in C, a[1] = b[1], a # b
               PROVE  a[2] + a[3] <= b[2] \/ b[2] + b[3] <= a[2]
      OBVIOUS
  <2>1. \A c \in B \ {x} : c[1] = p => c[2] + c[3] <= u \/ u + total <= c[2]
      BY DEF Tiled
  <2>2. \A c \in B : c[2] \in Nat /\ c[3] \in Nat
      BY DEF Tiled
  <2>3. CASE a \in B \ {x} /\ b \in B \ {x}
      BY <2>3 DEF Tiled
  <2>4. CASE a \in B \ {x} /\ b \in {y, z}
      BY <1>1, <2>1, <2>2, <2>4
  <2>5. CASE a \in {y, z} /\ b \in B \ {x}
      BY <1>1, <2>1, <2>2, <2>5
  <2>6. CASE a \in {y, z} /\ b \in {y, z}
      BY <1>1, <2>6
  <2> QED
      BY <2>3, <2>4, <2>5, <2>6
<1>5. ASSUME NEW q \in P, NEW v \in 0 .. n - 1
      PROVE  \E b \in C : b[1] = q /\ b[2] <= v /\ v < b[2] + b[3]
  <2>1. PICK c \in B : c[1] = q /\ c[2] <= v /\ v < c[2] + c[3]
      BY DEF Tiled
  <2>2. CASE c # x
      BY <2>1, <2>2
  <2>3. CASE c = x /\ v < u + k
    <3>1. y[1] = q /\ y[2] <= v /\ v < y[2] + y[3]
        BY <1>1, <2>1, <2>3
    <3>2. y \in C
        OBVIOUS
    <3> QED
        BY <3>1, <3>2
  <2>4. CASE c = x /\ u + k <= v
    <3>1. z[1] = q /\ z[2] <= v /\ v < z[2] + z[3]
        BY <1>1, <2>1, <2>4
    <3>2. z \in C
        OBVIOUS
    <3> QED
        BY <3>1, <3>2
  <2> QED
      BY <1>1, <2>2, <2>3, <2>4
<1> QED
    BY <1>2, <1>3, <1>4, <1>5 DEF Tiled

(* Two neighbours become one.                                               *)
LEMMA TiledJoin ==
    ASSUME NEW B, NEW P, NEW n \in Nat, NEW p, NEW u, NEW k, NEW m,
           Tiled(B, P, n), <<p, u, k>> \in B, <<p, u + k, m>> \in B
    PROVE  Tiled((B \ {<<p, u, k>>, <<p, u + k, m>>}) \cup {<<p, u, k + m>>}, P, n)
<1> DEFINE x == <<p, u, k + m>>
           y == <<p, u, k>>
           z == <<p, u + k, m>>
           C == (B \ {y, z}) \cup {x}
<1>1. /\ p \in P /\ u \in 0 .. n - 1 /\ k \in 1 .. n
      /\ u + k \in 0 .. n - 1 /\ m \in 1 .. n /\ u + k + m <= n
    BY DEF Tiled
<1>2. C \subseteq P \X (0 .. n - 1) \X (1 .. n)
    BY <1>1 DEF Tiled
<1>3. \A b \in C : b[2] + b[3] <= n
    BY <1>1 DEF Tiled
<1>4. \A a, b \in C : a[1] = b[1] /\ a # b => a[2] + a[3] <= b[2] \/ b[2] + b[3] <= a[2]
  <2> SUFFICES ASSUME NEW a \in C, NEW b \in C, a[1] = b[1], a # b
               PROVE  a[2] + a[3] <= b[2] \/ b[2] + b[3] <= a[2]
      OBVIOUS
  <2>1. \A c \in B \ {y} : c[1] = p => c[2] + c[3] <= u \/ u + k <= c[2]
      BY DEF Tiled
  <2>2. \A c \in B \ {z} : c[1] = p => c[2] + c[3] <= u + k \/ u + k + m <= c[2]
      BY DEF Tiled
  <2>3. \A c \in B : c[2] \in Nat /\ c[3] \in Nat \ {0}
      BY DEF Tiled
  <2>4. \A c \in B \ {y, z} : c[1] = p => c[2] + c[3] <= u \/ u + k + m <= c[2]
      BY <1>1, <2>1, <2>2, <2>3
  <2>5. CASE a \in B \ {y, z} /\ b \in B \ {y, z}
      BY <2>5 DEF Tiled
  <2>6. CASE a \in B \ {y, z} /\ b = x
      BY <1>1, <2>3, <2>4, <2>6
  <2>7. CASE a = x /\ b \in B \ {y, z}
      BY <1>1, <2>3, <2>4, <2>7
  <2> QED
      BY <2>5, <2>6, <2>7
<1>5. ASSUME NEW q \in P, NEW v \in 0 .. n - 1
      PROVE  \E b \in C : b[1] = q /\ b[2] <= v /\ v < b[2] + b[3]
  <2>1. PICK c \in B : c[1] = q /\ c[2] <= v /\ v < c[2] + c[3]
      BY DEF Tiled
  <2>2. CASE c \notin {y, z}
      BY <2>1, <2>2
  <2>3. CASE c \in {y, z}
    <3>1. x[1] = q /\ x[2] <= v /\ v < x[2] + x[3]
        BY <1>1, <2>1, <2>3
    <3>2. x \in C
        OBVIOUS
    <3> QED
        BY <3>1, <3>2
  <2> QED
      BY <2>2, <2>3
<1> QED
    BY <1>2, <1>3, <1>4, <1>5 DEF Tiled

(* A page comes as one block, and goes as one block.                        *)
LEMMA TiledMore ==
    ASSUME NEW B, NEW P, NEW n \in Nat \ {0}, NEW p, p \notin P, Tiled(B, P, n)
    PROVE  Tiled(B \cup {<<p, 0, n>>}, P \cup {p}, n)
<1> DEFINE x == <<p, 0, n>>
           C == B \cup {x}
<1>1. \A b \in B : b[1] # p
    BY DEF Tiled
<1>2. C \subseteq (P \cup {p}) \X (0 .. n - 1) \X (1 .. n)
    BY DEF Tiled
<1>3. \A b \in C : b[2] + b[3] <= n
    BY DEF Tiled
<1>4. \A a, b \in C : a[1] = b[1] /\ a # b => a[2] + a[3] <= b[2] \/ b[2] + b[3] <= a[2]
    BY <1>1 DEF Tiled
<1>5. ASSUME NEW q \in P \cup {p}, NEW v \in 0 .. n - 1
      PROVE  \E b \in C : b[1] = q /\ b[2] <= v /\ v < b[2] + b[3]
  <2>1. CASE q \in P
      BY <2>1 DEF Tiled
  <2>2. CASE q = p
    <3>1. x \in C /\ x[1] = q /\ x[2] <= v /\ v < x[2] + x[3]
        BY <2>2
    <3> QED
        BY <3>1
  <2> QED
      BY <2>1, <2>2
<1> QED
    BY <1>2, <1>3, <1>4, <1>5 DEF Tiled

LEMMA TiledLess ==
    ASSUME NEW B, NEW P, NEW n \in Nat \ {0}, NEW p, Tiled(B, P, n), <<p, 0, n>> \in B
    PROVE  /\ Tiled(B \ {<<p, 0, n>>}, P \ {p}, n)
           /\ \A b \in B : b[1] = p => b = <<p, 0, n>>
<1> DEFINE x == <<p, 0, n>>
           C == B \ {x}
<1>1. ASSUME NEW b \in B, b[1] = p, b # x
      PROVE  FALSE
  <2>1. b[2] + b[3] <= 0 \/ n <= b[2]
      BY <1>1 DEF Tiled
  <2>2. b[2] \in 0 .. n - 1 /\ b[3] \in 1 .. n
      BY DEF Tiled
  <2> QED
      BY <2>1, <2>2
<1>2. C \subseteq (P \ {p}) \X (0 .. n - 1) \X (1 .. n)
    BY <1>1 DEF Tiled
<1>3. \A b \in C : b[2] + b[3] <= n
    BY DEF Tiled
<1>4. \A a, b \in C : a[1] = b[1] /\ a # b => a[2] + a[3] <= b[2] \/ b[2] + b[3] <= a[2]
    BY DEF Tiled
<1>5. \A q \in P \ {p} : \A v \in 0 .. n - 1 :
        \E b \in C : b[1] = q /\ b[2] <= v /\ v < b[2] + b[3]
    BY DEF Tiled
<1> QED
    BY <1>1, <1>2, <1>3, <1>4, <1>5 DEF Tiled

(* Two blocks that share a unit are the same block.                         *)
LEMMA TiledSame ==
    ASSUME NEW B, NEW P, NEW n \in Nat, Tiled(B, P, n), NEW a \in B, NEW b \in B, a[1] = b[1],
           NEW v \in Int, a[2] <= v, v < a[2] + a[3], b[2] <= v, v < b[2] + b[3]
    PROVE  a = b
<1>1. a[2] \in Nat /\ a[3] \in Nat /\ b[2] \in Nat /\ b[3] \in Nat
    BY DEF Tiled
<1>2. a # b => a[2] + a[3] <= b[2] \/ b[2] + b[3] <= a[2]
    BY DEF Tiled
<1> QED
    BY <1>1, <1>2

------------------------------------------------------------------------------
(* What a page says of its blocks: U are in use, F are free.                *)

Shown(bits, U, P, n) ==
    \A p \in P : \A x \in -1 .. n :
        x \in bits[p] <=> \/ x = -1 \/ x = n
                          \/ \E b \in U : b[1] = p /\ (x = b[2] \/ x = b[2] + b[3] - 1)

Tagged(sizes, F) ==
    \A f \in F : f[3] >= 2 =>
        sizes[f[1]][f[2] + 1] = f[3] /\ sizes[f[1]][f[2] + f[3] - 1] = f[3]

Joined(F) == \A a, b \in F : a[1] = b[1] => a[2] + a[3] # b[2]

(* The bit of a unit of a free block is not set.                            *)
LEMMA FreeIsClear ==
    ASSUME NEW U, NEW F, NEW P, NEW n \in Nat, NEW bits, NEW f \in F, NEW v \in Int,
           Tiled(U \cup F, P, n), U \cap F = {}, Shown(bits, U, P, n),
           f[2] <= v, v < f[2] + f[3]
    PROVE  v \notin bits[f[1]]
<1>1. f[1] \in P /\ f[2] \in 0 .. n - 1 /\ f[3] \in 1 .. n /\ f[2] + f[3] <= n
    BY DEF Tiled
<1>2. v \in -1 .. n /\ v # -1 /\ v # n
    BY <1>1
<1>3. ASSUME NEW b \in U, b[1] = f[1], v = b[2] \/ v = b[2] + b[3] - 1
      PROVE  FALSE
  <2>1. b[2] \in Nat /\ b[3] \in Nat \ {0}
      BY DEF Tiled
  <2>2. b[2] <= v /\ v < b[2] + b[3]
      BY <1>3, <2>1
  <2>3. b = f
      BY <1>3, <2>2, TiledSame
  <2> QED
      BY <2>3
<1> QED
    BY <1>1, <1>2, <1>3 DEF Shown

(* The bits of a page that are set, and no others.                          *)
Tips(U, p) == UNION {{b[2], b[2] + b[3] - 1} : b \in {c \in U : c[1] = p}}
Exactly(bits, U, n, p) == bits[p] = {-1, n} \cup Tips(U, p)

LEMMA ShownExactly ==
    ASSUME NEW U, NEW F, NEW P, NEW n \in Nat, NEW bits, NEW p \in P,
           Tiled(U \cup F, P, n), Shown(bits, U, P, n), bits[p] \subseteq -1 .. n
    PROVE  Exactly(bits, U, n, p)
<1>1. \A x : x \in Tips(U, p) <=> \E b \in U : b[1] = p /\ (x = b[2] \/ x = b[2] + b[3] - 1)
    BY DEF Tips
<1>2. \A b \in U : b[2] \in -1 .. n /\ b[2] + b[3] - 1 \in -1 .. n
  <2>1. \A b \in U : b[2] \in 0 .. n - 1 /\ b[3] \in 1 .. n /\ b[2] + b[3] <= n
      BY DEF Tiled
  <2> QED
      BY <2>1
<1>3. ASSUME NEW x PROVE x \in bits[p] <=> x \in {-1, n} \cup Tips(U, p)
  <2>1. x \in {-1, n} \cup Tips(U, p) => x \in -1 .. n
      BY <1>1, <1>2
  <2> QED
      BY <1>1, <2>1 DEF Shown
<1> QED
    BY <1>3 DEF Exactly

(* The block that ends before u, and that begins at u.                      *)
LEMMA EndsBefore ==
    ASSUME NEW B, NEW P, NEW n \in Nat, Tiled(B, P, n), NEW b \in B, b[2] # 0
    PROVE  \E c \in B : c[1] = b[1] /\ c[2] + c[3] = b[2]
<1>1. b[1] \in P /\ b[2] \in 1 .. n - 1 /\ b[3] \in 1 .. n /\ b[2] - 1 \in 0 .. n - 1
    BY DEF Tiled
<1>2. PICK c \in B : c[1] = b[1] /\ c[2] <= b[2] - 1 /\ b[2] - 1 < c[2] + c[3]
    BY <1>1 DEF Tiled
<1>3. c[2] \in Nat /\ c[3] \in Nat
    BY DEF Tiled
<1>4. c # b
    BY <1>1, <1>2
<1>5. c[2] + c[3] <= b[2] \/ b[2] + b[3] <= c[2]
    BY <1>2, <1>4 DEF Tiled
<1>6. c[2] + c[3] = b[2]
    BY <1>1, <1>2, <1>3, <1>5
<1> QED
    BY <1>2, <1>6

LEMMA BeginsAfter ==
    ASSUME NEW B, NEW P, NEW n \in Nat, Tiled(B, P, n), NEW b \in B, b[2] + b[3] # n
    PROVE  \E c \in B : c[1] = b[1] /\ c[2] = b[2] + b[3]
<1>1. /\ b[1] \in P /\ b[2] \in 0 .. n - 1 /\ b[3] \in 1 .. n
      /\ b[2] + b[3] <= n /\ b[2] + b[3] \in 0 .. n - 1
    BY DEF Tiled
<1>2. PICK c \in B : c[1] = b[1] /\ c[2] <= b[2] + b[3] /\ b[2] + b[3] < c[2] + c[3]
    BY <1>1 DEF Tiled
<1>3. c[2] \in Nat /\ c[3] \in Nat
    BY DEF Tiled
<1>4. c # b
    BY <1>1, <1>2
<1>5. c[2] + c[3] <= b[2] \/ b[2] + b[3] <= c[2]
    BY <1>2, <1>4 DEF Tiled
<1>6. c[2] = b[2] + b[3]
    BY <1>1, <1>2, <1>3, <1>5
<1> QED
    BY <1>2, <1>6

(* The neighbours as free_core reads them (lines 321 to 397): the length of *)
(* the free block on either side, 0 if there is none.                       *)
LEMMA LeftTold ==
    ASSUME NEW U, NEW F, NEW P, NEW n \in Nat, NEW bits, NEW sizes, NEW p, NEW u, NEW k,
           Tiled(U \cup F, P, n), U \cap F = {}, Shown(bits, U, P, n), Tagged(sizes, F),
           Joined(F), <<p, u, k>> \in U,
           NEW left,
           left = IF u - 1 \in bits[p] THEN 0 ELSE IF u - 2 \in bits[p] THEN 1 ELSE sizes[p][u - 1]
    PROVE  \/ left = 0 /\ \A f \in F : f[1] = p => f[2] + f[3] # u
           \/ left \in 1 .. n /\ <<p, u - left, left>> \in F
<1> DEFINE me == <<p, u, k>>
<1>1. p \in P /\ u \in 0 .. n - 1 /\ k \in 1 .. n /\ u + k <= n
    BY DEF Tiled
<1>2. CASE u = 0
  <2>1. u - 1 \in bits[p]
      BY <1>1, <1>2 DEF Shown
  <2>2. \A f \in F : f[2] \in Nat /\ f[3] \in Nat \ {0}
      BY DEF Tiled
  <2> QED
      BY <1>2, <2>1, <2>2
<1>3. CASE u # 0
  <2>1. PICK c \in U \cup F : c[1] = p /\ c[2] + c[3] = u
    <3>1. me \in U \cup F /\ me[1] = p /\ me[2] = u
        OBVIOUS
    <3> QED
        BY <1>3, <3>1, EndsBefore
  <2>2. c[2] \in Nat /\ c[3] \in 1 .. n /\ c = <<c[1], c[2], c[3]>>
      BY DEF Tiled
  <2>3. \A f \in U \cup F : f[1] = p /\ f[2] + f[3] = u => f = c
    <3> SUFFICES ASSUME NEW f \in U \cup F, f[1] = p, f[2] + f[3] = u
                 PROVE  f = c
        OBVIOUS
    <3>1. f[2] \in Nat /\ f[3] \in 1 .. n
        BY DEF Tiled
    <3>2. f[2] <= u - 1 /\ u - 1 < f[2] + f[3] /\ c[2] <= u - 1 /\ u - 1 < c[2] + c[3] /\ u - 1 \in Int
        BY <1>1, <2>1, <2>2, <3>1
    <3> QED
        BY <2>1, <3>2, TiledSame
  <2>4. CASE c \in U
    <3>1. u - 1 \in bits[p]
        BY <1>1, <2>1, <2>2, <2>4 DEF Shown
    <3>2. c \notin F
        BY <2>4
    <3> QED
        BY <2>3, <3>1, <3>2
  <2>5. CASE c \in F
    <3>1. u - 1 \notin bits[p]
      <4>1. c[2] <= u - 1 /\ u - 1 < c[2] + c[3] /\ u - 1 \in Int
          BY <1>1, <2>1, <2>2
      <4> QED
          BY <2>1, <2>5, <4>1, FreeIsClear
    <3>2. CASE c[3] = 1
      <4>1. c[2] = u - 1 /\ c = <<p, u - 1, 1>>
          BY <1>1, <2>1, <2>2, <3>2
      <4>2. u - 2 \in bits[p]
        <5>1. CASE u = 1
            BY <1>1, <5>1 DEF Shown
        <5>2. CASE u # 1
          <6>1. PICK d \in U \cup F : d[1] = p /\ d[2] + d[3] = u - 1
            <7>1. c[2] # 0
                BY <1>1, <4>1, <5>2
            <7> QED
                BY <2>1, <4>1, <7>1, EndsBefore
          <6>2. d \notin F
              BY <2>1, <2>5, <4>1, <6>1 DEF Joined
          <6>3. d[2] \in Nat /\ d[3] \in 1 .. n
              BY DEF Tiled
          <6>4. u - 2 = d[2] + d[3] - 1 /\ u - 2 \in -1 .. n
              BY <1>1, <5>2, <6>1, <6>3
          <6> QED
              BY <1>1, <6>1, <6>2, <6>4 DEF Shown
        <5> QED
            BY <5>1, <5>2
      <4>3. left = 1
          BY <3>1, <4>2
      <4> QED
          BY <1>1, <2>5, <4>1, <4>3
    <3>3. CASE c[3] # 1
      <4>1. u - 2 \notin bits[p]
        <5>1. c[2] <= u - 2 /\ u - 2 < c[2] + c[3] /\ u - 2 \in Int
            BY <1>1, <2>1, <2>2, <3>3
        <5> QED
            BY <2>1, <2>5, <5>1, FreeIsClear
      <4>2. sizes[p][u - 1] = c[3]
        <5>1. c[3] >= 2
            BY <2>2, <3>3
        <5>2. sizes[c[1]][c[2] + c[3] - 1] = c[3]
            BY <2>5, <5>1 DEF Tagged
        <5>3. c[2] + c[3] - 1 = u - 1
            BY <1>1, <2>1, <2>2
        <5> QED
            BY <2>1, <5>2, <5>3
      <4>3. left = c[3]
          BY <3>1, <4>1, <4>2
      <4>4. c = <<p, u - left, left>>
          BY <1>1, <2>1, <2>2, <4>3
      <4> QED
          BY <2>2, <2>5, <4>3, <4>4
    <3> QED
        BY <3>2, <3>3
  <2> QED
      BY <2>4, <2>5
<1> QED
    BY <1>2, <1>3

LEMMA RightTold ==
    ASSUME NEW U, NEW F, NEW P, NEW n \in Nat, NEW bits, NEW sizes, NEW p, NEW u, NEW k, NEW e,
           Tiled(U \cup F, P, n), U \cap F = {}, Shown(bits, U, P, n), Tagged(sizes, F),
           Joined(F), <<p, u, k>> \in U, e = u + k,
           NEW right,
           right = IF e \in bits[p] THEN 0 ELSE IF e + 1 \in bits[p] THEN 1 ELSE sizes[p][e + 1]
    PROVE  \/ right = 0 /\ \A f \in F : f[1] = p => f[2] # e
           \/ right \in 1 .. n /\ <<p, e, right>> \in F
<1> DEFINE me == <<p, u, k>>
<1>1. p \in P /\ u \in 0 .. n - 1 /\ k \in 1 .. n /\ e <= n /\ e \in 1 .. n
    BY DEF Tiled
<1>2. CASE e = n
  <2>1. e \in bits[p]
      BY <1>1, <1>2 DEF Shown
  <2>2. \A f \in F : f[2] \in 0 .. n - 1
      BY DEF Tiled
  <2> QED
      BY <1>2, <2>1, <2>2
<1>3. CASE e # n
  <2>1. PICK c \in U \cup F : c[1] = p /\ c[2] = e
    <3>1. me \in U \cup F /\ me[1] = p /\ me[2] + me[3] # n
        BY <1>3
    <3> QED
        BY <3>1, BeginsAfter
  <2>2. c[2] \in Nat /\ c[3] \in 1 .. n /\ c = <<c[1], c[2], c[3]>> /\ c[2] + c[3] <= n
      BY DEF Tiled
  <2>3. \A f \in U \cup F : f[1] = p /\ f[2] = e => f = c
    <3> SUFFICES ASSUME NEW f \in U \cup F, f[1] = p, f[2] = e
                 PROVE  f = c
        OBVIOUS
    <3>1. f[2] \in Nat /\ f[3] \in 1 .. n
        BY DEF Tiled
    <3>2. f[2] <= e /\ e < f[2] + f[3] /\ c[2] <= e /\ e < c[2] + c[3] /\ e \in Int
        BY <1>1, <2>1, <2>2, <3>1
    <3> QED
        BY <2>1, <3>2, TiledSame
  <2>4. CASE c \in U
    <3>1. e \in bits[p]
        BY <1>1, <2>1, <2>2, <2>4 DEF Shown
    <3>2. c \notin F
        BY <2>4
    <3> QED
        BY <2>3, <3>1, <3>2
  <2>5. CASE c \in F
    <3>1. e \notin bits[p]
      <4>1. c[2] <= e /\ e < c[2] + c[3] /\ e \in Int
          BY <1>1, <2>1, <2>2
      <4> QED
          BY <2>1, <2>5, <4>1, FreeIsClear
    <3>2. CASE c[3] = 1
      <4>1. c = <<p, e, 1>>
          BY <2>1, <2>2, <3>2
      <4>2. e + 1 \in bits[p]
        <5>1. CASE e + 1 = n
            BY <1>1, <5>1 DEF Shown
        <5>2. CASE e + 1 # n
          <6>1. PICK d \in U \cup F : d[1] = p /\ d[2] = e + 1
            <7>1. c[2] + c[3] # n
                BY <4>1, <5>2
            <7> QED
                BY <2>1, <4>1, <7>1, BeginsAfter
          <6>2. d \notin F
              BY <2>1, <2>5, <4>1, <6>1 DEF Joined
          <6>3. e + 1 \in -1 .. n
              BY <1>1, <1>3
          <6> QED
              BY <1>1, <6>1, <6>2, <6>3 DEF Shown
        <5> QED
            BY <5>1, <5>2
      <4>3. right = 1
          BY <3>1, <4>2
      <4> QED
          BY <1>1, <2>5, <4>1, <4>3
    <3>3. CASE c[3] # 1
      <4>1. e + 1 \notin bits[p]
        <5>1. c[2] <= e + 1 /\ e + 1 < c[2] + c[3] /\ e + 1 \in Int
            BY <1>1, <2>1, <2>2, <3>3
        <5> QED
            BY <2>1, <2>5, <5>1, FreeIsClear
      <4>2. sizes[p][e + 1] = c[3]
        <5>1. c[3] >= 2
            BY <2>2, <3>3
        <5> QED
            BY <2>1, <2>5, <5>1 DEF Tagged
      <4>3. right = c[3]
          BY <3>1, <4>1, <4>2
      <4>4. c = <<p, e, right>>
          BY <2>1, <2>2, <4>3
      <4> QED
          BY <2>2, <2>5, <4>3, <4>4
    <3> QED
        BY <3>2, <3>3
  <2> QED
      BY <2>4, <2>5
<1> QED
    BY <1>2, <1>3

------------------------------------------------------------------------------
(* Lists without repetitions.                                               *)

Entries(s) == {s[i] : i \in DOMAIN s}
OnlyOnce(s) == \A i, j \in DOMAIN s : s[i] = s[j] => i = j

Without(s, x) ==
    LET at == {i \in DOMAIN s : s[i] = x}
    IN  [i \in 1 .. Len(s) - Cardinality(at) |-> IF \E j \in at : j <= i THEN s[i + 1] ELSE s[i]]

LEMMA EntriesAppend ==
    ASSUME NEW S, NEW s \in Seq(S), NEW x \in S, x \notin Entries(s), OnlyOnce(s)
    PROVE  /\ Append(s, x) \in Seq(S) /\ OnlyOnce(Append(s, x))
           /\ Entries(Append(s, x)) = Entries(s) \cup {x}
<1> DEFINE t == Append(s, x)
<1>1. /\ t \in Seq(S) /\ Len(t) = Len(s) + 1 /\ DOMAIN t = 1 .. Len(s) + 1
      /\ DOMAIN s = 1 .. Len(s) /\ Len(s) \in Nat
      /\ \A i \in 1 .. Len(s) : t[i] = s[i]
      /\ t[Len(s) + 1] = x
    OBVIOUS
<1> HIDE DEF t
<1>2. OnlyOnce(t)
    BY <1>1 DEF OnlyOnce, Entries
<1>3. ASSUME NEW y \in Entries(t)
      PROVE  y \in Entries(s) \cup {x}
  <2>1. PICK i \in DOMAIN t : y = t[i]
      BY <1>3 DEF Entries
  <2>2. CASE i = Len(s) + 1
      BY <1>1, <2>1, <2>2
  <2>3. CASE i # Len(s) + 1
    <3>1. i \in 1 .. Len(s)
        BY <1>1, <2>1, <2>3
    <3> QED
        BY <1>1, <2>1, <3>1 DEF Entries
  <2> QED
      BY <2>2, <2>3
<1>4. ASSUME NEW y \in Entries(s) \cup {x}
      PROVE  y \in Entries(t)
  <2>1. CASE y \in Entries(s)
    <3>1. PICK i \in DOMAIN s : y = s[i]
        BY <2>1 DEF Entries
    <3>2. i \in DOMAIN t /\ t[i] = y
        BY <1>1, <3>1
    <3> QED
        BY <3>2 DEF Entries
  <2>2. CASE y = x
      BY <1>1, <2>2 DEF Entries
  <2> QED
      BY <2>1, <2>2
<1>5. Entries(t) = Entries(s) \cup {x}
    BY <1>3, <1>4
<1> QED
    BY <1>1, <1>2, <1>5 DEF t

LEMMA EntriesTail ==
    ASSUME NEW S, NEW s \in Seq(S), s # <<>>, OnlyOnce(s)
    PROVE  /\ Tail(s) \in Seq(S) /\ OnlyOnce(Tail(s)) /\ Head(s) \in Entries(s)
           /\ Entries(Tail(s)) = Entries(s) \ {Head(s)}
<1> DEFINE t == Tail(s)
<1>1. /\ t \in Seq(S) /\ Len(t) = Len(s) - 1 /\ DOMAIN t = 1 .. Len(s) - 1
      /\ DOMAIN s = 1 .. Len(s) /\ Len(s) \in Nat \ {0}
      /\ \A i \in 1 .. Len(s) - 1 : t[i] = s[i + 1]
      /\ Head(s) = s[1]
    OBVIOUS
<1> HIDE DEF t
<1>2. OnlyOnce(t)
  <2> SUFFICES ASSUME NEW i \in DOMAIN t, NEW j \in DOMAIN t, t[i] = t[j]
               PROVE  i = j
      BY DEF OnlyOnce
  <2>1. i + 1 \in DOMAIN s /\ j + 1 \in DOMAIN s /\ s[i + 1] = s[j + 1]
      BY <1>1
  <2>2. i + 1 = j + 1
      BY <2>1 DEF OnlyOnce
  <2> QED
      BY <1>1, <2>2
<1>3. ASSUME NEW y \in Entries(t)
      PROVE  y \in Entries(s) \ {s[1]}
  <2>1. PICK i \in DOMAIN t : y = t[i]
      BY <1>3 DEF Entries
  <2>2. i + 1 \in DOMAIN s /\ s[i + 1] = y /\ i + 1 # 1 /\ 1 \in DOMAIN s
      BY <1>1, <2>1
  <2>3. y # s[1]
      BY <2>2 DEF OnlyOnce
  <2> QED
      BY <2>2, <2>3 DEF Entries
<1>4. ASSUME NEW y \in Entries(s) \ {s[1]}
      PROVE  y \in Entries(t)
  <2>1. PICK i \in DOMAIN s : y = s[i]
      BY <1>4 DEF Entries
  <2>2. i # 1 /\ i - 1 \in DOMAIN t /\ t[i - 1] = s[(i - 1) + 1] /\ (i - 1) + 1 = i
      BY <1>1, <1>4, <2>1
  <2> QED
      BY <2>1, <2>2 DEF Entries
<1>5. Entries(t) = Entries(s) \ {s[1]}
    BY <1>3, <1>4
<1>6. s[1] \in Entries(s)
    BY <1>1 DEF Entries
<1> QED
    BY <1>1, <1>2, <1>5, <1>6 DEF t

LEMMA EntriesWithout ==
    ASSUME NEW S, NEW s \in Seq(S), NEW x \in Entries(s), OnlyOnce(s)
    PROVE  /\ Without(s, x) \in Seq(S) /\ OnlyOnce(Without(s, x))
           /\ Entries(Without(s, x)) = Entries(s) \ {x}
<1> DEFINE t == Without(s, x)
<1>1. DOMAIN s = 1 .. Len(s) /\ Len(s) \in Nat /\ \A i \in 1 .. Len(s) : s[i] \in S
    OBVIOUS
<1>2. PICK h \in DOMAIN s : s[h] = x
    BY DEF Entries
<1>3. {i \in DOMAIN s : s[i] = x} = {h}
    BY <1>2 DEF OnlyOnce
<1>4. Cardinality({h}) = 1
    BY FS_Singleton
<1>5. t = [i \in 1 .. Len(s) - 1 |-> IF h <= i THEN s[i + 1] ELSE s[i]]
    BY <1>3, <1>4 DEF Without
<1>6. h \in 1 .. Len(s) /\ Len(s) - 1 \in Nat
    BY <1>1, <1>2
<1>7. t \in [1 .. Len(s) - 1 -> S]
    BY <1>1, <1>5, <1>6
<1>8. t \in Seq(S) /\ DOMAIN t = 1 .. Len(s) - 1
    BY <1>6, <1>7
<1>9. \A i \in 1 .. Len(s) - 1 : t[i] = IF h <= i THEN s[i + 1] ELSE s[i]
    BY <1>5
<1> HIDE DEF t
<1>10. OnlyOnce(t)
  <2> SUFFICES ASSUME NEW i \in DOMAIN t, NEW j \in DOMAIN t, t[i] = t[j]
               PROVE  i = j
      BY DEF OnlyOnce
  <2> DEFINE from(k) == IF h <= k THEN k + 1 ELSE k
  <2>1. from(i) \in DOMAIN s /\ from(j) \in DOMAIN s /\ s[from(i)] = t[i] /\ s[from(j)] = t[j]
      BY <1>1, <1>6, <1>8, <1>9
  <2>2. from(i) = from(j)
      BY <2>1 DEF OnlyOnce
  <2> QED
      BY <1>6, <1>8, <2>2
<1>11. ASSUME NEW y \in Entries(t)
       PROVE  y \in Entries(s) \ {x}
  <2>1. PICK i \in DOMAIN t : y = t[i]
      BY <1>11 DEF Entries
  <2>2. PICK k \in DOMAIN s : k # h /\ s[k] = y
      BY <1>1, <1>6, <1>8, <1>9, <2>1
  <2>3. y # x
      BY <1>2, <2>2 DEF OnlyOnce
  <2> QED
      BY <2>2, <2>3 DEF Entries
<1>12. ASSUME NEW y \in Entries(s) \ {x}
       PROVE  y \in Entries(t)
  <2>1. PICK k \in DOMAIN s : y = s[k]
      BY <1>12 DEF Entries
  <2>2. k # h
      BY <1>2, <1>12, <2>1
  <2>3. CASE k < h
    <3>1. k \in DOMAIN t /\ t[k] = y
        BY <1>1, <1>6, <1>8, <1>9, <2>1, <2>3
    <3> QED
        BY <3>1 DEF Entries
  <2>4. CASE h < k
    <3>1. k - 1 \in DOMAIN t /\ h <= k - 1 /\ (k - 1) + 1 = k
        BY <1>1, <1>6, <1>8, <2>1, <2>4
    <3>2. t[k - 1] = y
        BY <1>8, <1>9, <2>1, <3>1
    <3> QED
        BY <3>1, <3>2 DEF Entries
  <2> QED
      BY <1>1, <1>6, <2>1, <2>2, <2>3, <2>4
<1>13. Entries(t) = Entries(s) \ {x}
    BY <1>11, <1>12
<1> QED
    BY <1>8, <1>10, <1>13 DEF t

(* The free blocks F are in the lists, each in the one of its length.       *)
Listed(F, lists, where) ==
    \A l \in DOMAIN lists :
        /\ OnlyOnce(lists[l])
        /\ \A f \in F : where[f[3]] = l => <<f[1], f[2]>> \in Entries(lists[l])
        /\ \A x \in Entries(lists[l]) : \E f \in F : where[f[3]] = l /\ x = <<f[1], f[2]>>

LEMMA ListedMore ==
    ASSUME NEW F, NEW lists, NEW where, NEW p, NEW u, NEW k, NEW t,
           Listed(F, lists, where), where[k] \in DOMAIN lists, OnlyOnce(t),
           Entries(t) = Entries(lists[where[k]]) \cup {<<p, u>>}
    PROVE  Listed(F \cup {<<p, u, k>>}, [lists EXCEPT ![where[k]] = t], where)
<1> DEFINE new == [lists EXCEPT ![where[k]] = t]
           g == <<p, u, k>>
           G == F \cup {g}
<1>1. DOMAIN new = DOMAIN lists /\ new[where[k]] = t
    OBVIOUS
<1>2. \A l \in DOMAIN lists : l # where[k] => new[l] = lists[l]
    OBVIOUS
<1>3. g[1] = p /\ g[2] = u /\ g[3] = k
    OBVIOUS
<1> HIDE DEF new, g
<1>4. ASSUME NEW l \in DOMAIN lists
      PROVE  OnlyOnce(new[l])
    BY <1>1, <1>2 DEF Listed
<1>5. ASSUME NEW l \in DOMAIN lists, NEW f \in G, where[f[3]] = l
      PROVE  <<f[1], f[2]>> \in Entries(new[l])
  <2>1. f = g => l = where[k] /\ <<f[1], f[2]>> = <<p, u>>
      BY <1>3, <1>5
  <2> QED
      BY <1>1, <1>2, <1>5, <2>1 DEF Listed
<1>6. ASSUME NEW l \in DOMAIN lists, NEW x \in Entries(new[l])
      PROVE  \E f \in G : where[f[3]] = l /\ x = <<f[1], f[2]>>
  <2>1. CASE x \in Entries(lists[l])
      BY <2>1 DEF Listed
  <2>2. CASE x \notin Entries(lists[l])
    <3>1. l = where[k] /\ x = <<p, u>>
        BY <1>1, <1>2, <2>2
    <3> QED
        BY <1>3, <3>1
  <2> QED
      BY <2>1, <2>2
<1> QED
    BY <1>1, <1>4, <1>5, <1>6 DEF Listed, new, g

LEMMA ListedLess ==
    ASSUME NEW F, NEW lists, NEW where, NEW p, NEW u, NEW k, NEW t,
           Listed(F, lists, where), where[k] \in DOMAIN lists, OnlyOnce(t),
           <<p, u, k>> \in F, \A f \in F : f[1] = p /\ f[2] = u => f = <<p, u, k>>,
           Entries(t) = Entries(lists[where[k]]) \ {<<p, u>>}
    PROVE  Listed(F \ {<<p, u, k>>}, [lists EXCEPT ![where[k]] = t], where)
<1> DEFINE new == [lists EXCEPT ![where[k]] = t]
           g == <<p, u, k>>
           G == F \ {g}
<1>1. DOMAIN new = DOMAIN lists /\ new[where[k]] = t
    OBVIOUS
<1>2. \A l \in DOMAIN lists : l # where[k] => new[l] = lists[l]
    OBVIOUS
<1>3. g[1] = p /\ g[2] = u /\ g[3] = k /\ \A f \in F : f[1] = p /\ f[2] = u => f = g
    OBVIOUS
<1> HIDE DEF new, g
<1>4. ASSUME NEW l \in DOMAIN lists
      PROVE  OnlyOnce(new[l])
    BY <1>1, <1>2 DEF Listed
<1>5. ASSUME NEW l \in DOMAIN lists, NEW f \in G, where[f[3]] = l
      PROVE  <<f[1], f[2]>> \in Entries(new[l])
  <2>1. <<f[1], f[2]>> # <<p, u>>
      BY <1>3
  <2> QED
      BY <1>1, <1>2, <1>5, <2>1 DEF Listed
<1>6. ASSUME NEW l \in DOMAIN lists, NEW x \in Entries(new[l])
      PROVE  \E f \in G : where[f[3]] = l /\ x = <<f[1], f[2]>>
  <2>1. x \in Entries(lists[l]) /\ (l = where[k] => x # <<p, u>>)
      BY <1>1, <1>2, <1>6
  <2>2. PICK f \in F : where[f[3]] = l /\ x = <<f[1], f[2]>>
      BY <2>1 DEF Listed
  <2>3. f # g
      BY <1>3, <2>1, <2>2
  <2> QED
      BY <2>2, <2>3
<1> QED
    BY <1>1, <1>4, <1>5, <1>6 DEF Listed, new, g

ListsOver(I, S) == [I -> Seq(S)]
Longer(lists, l, x)  == [lists EXCEPT ![l] = Append(lists[l], x)]
Shorter(lists, l, x) == [lists EXCEPT ![l] = Without(lists[l], x)]
Popped(lists, l)       == [lists EXCEPT ![l] = Tail(lists[l])]

(* The lists after a block is filed, taken from its place, taken first.     *)
LEMMA AppendKeeps ==
    ASSUME NEW I, NEW S, NEW lists \in ListsOver(I, S), NEW where, NEW F, Listed(F, lists, where),
           NEW p, NEW u, NEW k, where[k] \in I, <<p, u>> \in S,
           \A f \in F : f[1] = p => f[2] # u
    PROVE  /\ Longer(lists, where[k], <<p, u>>) \in ListsOver(I, S)
           /\ Listed(F \cup {<<p, u, k>>}, Longer(lists, where[k], <<p, u>>), where)
<1> DEFINE new == Longer(lists, where[k], <<p, u>>)
           s == lists[where[k]]
           w == <<p, u>>
           t == Append(s, w)
<1>1. w \notin Entries(s)
  <2> SUFFICES ASSUME NEW f \in F, w = <<f[1], f[2]>>
               PROVE  FALSE
      BY DEF Listed, ListsOver
  <2> QED
      OBVIOUS
<1>2. s \in Seq(S) /\ OnlyOnce(s) /\ w \in S /\ DOMAIN lists = I
    BY DEF Listed, ListsOver
<1>3. new = [lists EXCEPT ![where[k]] = t]
    BY DEF Longer, Shorter
<1> HIDE DEF s, new
<1>4. t \in Seq(S) /\ OnlyOnce(t) /\ Entries(t) = Entries(s) \cup {w}
  <2> HIDE DEF w
  <2> QED
      BY <1>1, <1>2, EntriesAppend
<1> HIDE DEF t
<1>5. Listed(F \cup {<<p, u, k>>}, [lists EXCEPT ![where[k]] = t], where)
    BY <1>2, <1>4, ListedMore DEF s
<1> QED
    BY <1>2, <1>3, <1>4, <1>5 DEF ListsOver, new

LEMMA RemoveKeeps ==
    ASSUME NEW I, NEW S, NEW lists \in ListsOver(I, S), NEW where, NEW F, Listed(F, lists, where),
           NEW p, NEW u, NEW k, where[k] \in I, <<p, u, k>> \in F,
           \A f \in F : f[1] = p /\ f[2] = u => f = <<p, u, k>>
    PROVE  /\ Shorter(lists, where[k], <<p, u>>) \in ListsOver(I, S)
           /\ Listed(F \ {<<p, u, k>>}, Shorter(lists, where[k], <<p, u>>), where)
<1> DEFINE new == Shorter(lists, where[k], <<p, u>>)
           s == lists[where[k]]
           w == <<p, u>>
           t == Without(s, w)
<1>1. w \in Entries(s)
  <2>1. \A f \in F : where[f[3]] = where[k] => <<f[1], f[2]>> \in Entries(s)
      BY DEF Listed, ListsOver
  <2> QED
      BY <2>1
<1>2. s \in Seq(S) /\ OnlyOnce(s) /\ DOMAIN lists = I
    BY DEF Listed, ListsOver
<1>3. new = [lists EXCEPT ![where[k]] = t]
    BY DEF Longer, Shorter
<1> HIDE DEF s, new
<1>4. t \in Seq(S) /\ OnlyOnce(t) /\ Entries(t) = Entries(s) \ {w}
  <2> HIDE DEF w
  <2> QED
      BY <1>1, <1>2, EntriesWithout
<1> HIDE DEF t
<1>5. Listed(F \ {<<p, u, k>>}, [lists EXCEPT ![where[k]] = t], where)
    BY <1>2, <1>4, ListedLess DEF s
<1> QED
    BY <1>2, <1>3, <1>4, <1>5 DEF ListsOver, new

LEMMA TailKeeps ==
    ASSUME NEW I, NEW S, NEW lists \in ListsOver(I, S), NEW where, NEW F, Listed(F, lists, where),
           \A f \in F : f = <<f[1], f[2], f[3]>>,
           \A f, g \in F : f[1] = g[1] /\ f[2] = g[2] => f = g,
           NEW l \in I, lists[l] # <<>>
    PROVE  /\ Popped(lists, l) \in ListsOver(I, S)
           /\ \E f \in F : /\ where[f[3]] = l /\ Head(lists[l]) = <<f[1], f[2]>>
                          /\ Listed(F \ {f}, Popped(lists, l), where)
<1> DEFINE new == Popped(lists, l)
           s == lists[l]
           t == Tail(s)
<1>1. s \in Seq(S) /\ s # <<>> /\ OnlyOnce(s) /\ DOMAIN lists = I
    BY DEF Listed, ListsOver
<1>2. new = [lists EXCEPT ![l] = t]
    BY DEF Popped
<1> HIDE DEF s, new
<1>3. t \in Seq(S) /\ OnlyOnce(t) /\ Head(s) \in Entries(s) /\ Entries(t) = Entries(s) \ {Head(s)}
    BY <1>1, EntriesTail
<1> HIDE DEF t
<1>4. PICK f \in F : where[f[3]] = l /\ Head(s) = <<f[1], f[2]>>
    BY <1>1, <1>3 DEF Listed, s
<1>5. f = <<f[1], f[2], f[3]>> /\ \A g \in F : g[1] = f[1] /\ g[2] = f[2] => g = f
    OBVIOUS
<1>6. Listed(F \ {<<f[1], f[2], f[3]>>}, [lists EXCEPT ![where[f[3]]] = t], where)
  <2>1. <<f[1], f[2], f[3]>> \in F
        /\ \A g \in F : g[1] = f[1] /\ g[2] = f[2] => g = <<f[1], f[2], f[3]>>
      BY <1>5
  <2>2. where[f[3]] \in DOMAIN lists
      BY <1>1, <1>4
  <2>3. Entries(t) = Entries(lists[where[f[3]]]) \ {<<f[1], f[2]>>}
      BY <1>3, <1>4 DEF s
  <2> QED
      BY <1>3, <2>1, <2>2, <2>3, ListedLess
<1>7. new \in [I -> Seq(S)]
    BY <1>1, <1>2, <1>3 DEF ListsOver
<1> QED
    BY <1>1, <1>2, <1>4, <1>5, <1>6, <1>7 DEF s, new, ListsOver

------------------------------------------------------------------------------
(* A page and its two changes, whatever the names of the fields: a free     *)
(* block is cut and its front handed out, a block is given back and joined  *)
(* with its free neighbours.                                                *)

Inhabited(U, P) == \A p \in P : \E b \in U : b[1] = p

Paged(U, F, P, n, bits, sizes) ==
    /\ Tiled(U \cup F, P, n)
    /\ U \cap F = {}
    /\ Shown(bits, U, P, n)
    /\ Tagged(sizes, F)
    /\ Joined(F)

(* In the page p the lengths outside of the units u to u + k - 1 are kept.  *)
KeptOutside(row, old, n, u, k) ==
    \A v \in 0 .. n - 1 : v \notin u .. u + k - 1 => row[v] = old[v]

Rows(n) == [0 .. n - 1 -> 0 .. n]
WithTags(old, u, k) == IF k <= 1 THEN old ELSE [old EXCEPT ![u + 1] = k, ![u + k - 1] = k]

(* The lengths at both ends of a free block, written into a page.           *)
LEMMA TagRow ==
    ASSUME NEW n \in Nat, NEW old \in Rows(n), NEW u \in 0 .. n - 1, NEW k \in 1 .. n,
           u + k <= n
    PROVE  /\ WithTags(old, u, k) \in Rows(n)
           /\ KeptOutside(WithTags(old, u, k), old, n, u, k)
           /\ k >= 2 => WithTags(old, u, k)[u + 1] = k /\ WithTags(old, u, k)[u + k - 1] = k
<1> DEFINE row == WithTags(old, u, k)
<1>0. row = IF k <= 1 THEN old ELSE [old EXCEPT ![u + 1] = k, ![u + k - 1] = k]
    BY DEF WithTags
<1> HIDE DEF row
<1>1. CASE k <= 1
    BY <1>0, <1>1 DEF KeptOutside, row
<1>2. CASE ~(k <= 1)
  <2>1. row = [old EXCEPT ![u + 1] = k, ![u + k - 1] = k]
      BY <1>0, <1>2
  <2>2. u + 1 \in 0 .. n - 1 /\ u + k - 1 \in 0 .. n - 1 /\ k \in 0 .. n
      BY <1>2
  <2>3. ASSUME NEW v \in 0 .. n - 1, v \notin u .. u + k - 1
        PROVE  row[v] = old[v]
    <3>1. v # u + 1 /\ v # u + k - 1
        BY <1>2, <2>3
    <3> QED
        BY <2>1, <3>1 DEF Rows
  <2>4. row[u + 1] = k /\ row[u + k - 1] = k /\ row \in Rows(n)
      BY <2>1, <2>2 DEF Rows
  <2> QED
      BY <2>3, <2>4 DEF KeptOutside, row
<1> QED
    BY <1>1, <1>2

(* The row of lengths of a page where a free block of `total` units at u    *)
(* was cut: k units are handed out and overwritten, the rest is tagged.     *)
LEMMA CutRow ==
    ASSUME NEW n \in Nat, NEW old \in Rows(n), NEW over \in Rows(n), NEW u \in 0 .. n - 1,
           NEW total \in 1 .. n, u + total <= n, NEW k \in 1 .. total,
           KeptOutside(over, old, n, u, k), NEW row,
           total > k => row = WithTags(over, u + k, total - k), ~(total > k) => row = over
    PROVE  /\ row \in Rows(n) /\ KeptOutside(row, old, n, u, total)
           /\ total - k >= 2 => row[u + k + 1] = total - k /\ row[u + total - 1] = total - k
<1>1. CASE total > k
  <2> DEFINE m == total - k
             b == u + k
  <2>1. b \in 0 .. n - 1 /\ m \in 1 .. n /\ b + m <= n /\ b + m - 1 = u + total - 1
      BY <1>1
  <2>2. row = WithTags(over, b, m)
      BY <1>1
  <2> HIDE DEF m, b
  <2>3. /\ WithTags(over, b, m) \in Rows(n) /\ KeptOutside(WithTags(over, b, m), over, n, b, m)
        /\ m >= 2 => WithTags(over, b, m)[b + 1] = m /\ WithTags(over, b, m)[b + m - 1] = m
      BY <2>1, TagRow
  <2>4. /\ row \in Rows(n) /\ KeptOutside(row, over, n, b, m)
        /\ m >= 2 => row[b + 1] = m /\ row[b + m - 1] = m
      BY <2>2, <2>3
  <2>5. ASSUME NEW v \in 0 .. n - 1, v \notin u .. u + total - 1
        PROVE  row[v] = old[v]
    <3>1. v \notin u .. u + k - 1 /\ v \notin b .. b + m - 1
        BY <2>1, <2>5 DEF b, m
    <3> QED
        BY <2>4, <3>1 DEF KeptOutside
  <2> QED
      BY <2>1, <2>4, <2>5 DEF KeptOutside, b, m
<1>2. CASE ~(total > k)
  <2>1. row = over /\ ~(total - k >= 2)
      BY <1>2
  <2>2. \A v \in 0 .. n - 1 : v \notin u .. u + total - 1 => v \notin u .. u + k - 1
      OBVIOUS
  <2> QED
      BY <2>1, <2>2 DEF KeptOutside
<1> QED
    BY <1>1, <1>2
LEMMA TaggedKept ==
    ASSUME NEW F, NEW B, NEW P, NEW n \in Nat, NEW sizes, NEW row, NEW p \in DOMAIN sizes,
           NEW u, NEW k, Tiled(B, P, n), F \subseteq B, Tagged(sizes, F),
           <<p, u, k>> \in B, <<p, u, k>> \notin F, KeptOutside(row, sizes[p], n, u, k)
    PROVE  Tagged([sizes EXCEPT ![p] = row], F)
<1> DEFINE new == [sizes EXCEPT ![p] = row]
           x == <<p, u, k>>
<1>1. \A q : q # p => new[q] = sizes[q]
    OBVIOUS
<1>2. new[p] = row
    OBVIOUS
<1> HIDE DEF new
<1> SUFFICES ASSUME NEW f \in F, f[3] >= 2
             PROVE  new[f[1]][f[2] + 1] = f[3] /\ new[f[1]][f[2] + f[3] - 1] = f[3]
    BY DEF Tagged, new
<1>3. sizes[f[1]][f[2] + 1] = f[3] /\ sizes[f[1]][f[2] + f[3] - 1] = f[3]
    BY DEF Tagged
<1>4. CASE f[1] # p
    BY <1>1, <1>3, <1>4
<1>5. CASE f[1] = p
  <2>1. f[2] \in 0 .. n - 1 /\ f[3] \in 1 .. n /\ f[2] + f[3] <= n
      BY DEF Tiled
  <2>2. u \in 0 .. n - 1 /\ k \in 1 .. n
      BY DEF Tiled
  <2>3. f[2] + f[3] <= u \/ u + k <= f[2]
    <3>1. f \in B /\ x \in B /\ f # x /\ x[1] = p
        OBVIOUS
    <3> QED
        BY <1>5, <3>1 DEF Tiled
  <2>4. /\ f[2] + 1 \in 0 .. n - 1 /\ f[2] + 1 \notin u .. u + k - 1
        /\ f[2] + f[3] - 1 \in 0 .. n - 1 /\ f[2] + f[3] - 1 \notin u .. u + k - 1
      BY <2>1, <2>2, <2>3
  <2>5. row[f[2] + 1] = sizes[p][f[2] + 1] /\ row[f[2] + f[3] - 1] = sizes[p][f[2] + f[3] - 1]
      BY <2>4 DEF KeptOutside
  <2> QED
      BY <1>2, <1>3, <1>5, <2>5
<1> QED
    BY <1>4, <1>5

LEMMA PagedCut ==
    ASSUME NEW U, NEW F, NEW P, NEW n \in Nat, NEW bits, NEW sizes, NEW row,
           NEW p \in DOMAIN bits, p \in DOMAIN sizes, NEW u, NEW total, NEW k \in 1 .. total,
           <<p, u, total>> \notin U \cup F,
           Tiled(U \cup F \cup {<<p, u, total>>}, P, n), U \cap F = {}, Shown(bits, U, P, n),
           Tagged(sizes, F), Joined(F \cup {<<p, u, total>>}),
           KeptOutside(row, sizes[p], n, u, total),
           NEW R,
           R = IF total > k THEN {<<p, u + k, total - k>>} ELSE {},
           total - k >= 2 => row[u + k + 1] = total - k /\ row[u + total - 1] = total - k
    PROVE  Paged(U \cup {<<p, u, k>>}, F \cup R, P, n,
                 [bits EXCEPT ![p] = bits[p] \cup {u, u + k - 1}], [sizes EXCEPT ![p] = row])
<1> DEFINE x == <<p, u, total>>
           y == <<p, u, k>>
           z == <<p, u + k, total - k>>
           V == U \cup {y}
           G == F \cup R
           B == U \cup F \cup {x}
           nbits == [bits EXCEPT ![p] = bits[p] \cup {u, u + k - 1}]
           nsizes == [sizes EXCEPT ![p] = row]
<1>1. /\ p \in P /\ u \in 0 .. n - 1 /\ total \in 1 .. n /\ u + total <= n
      /\ k \in 1 .. n
  <2>1. x \in B
      OBVIOUS
  <2> QED
      BY <2>1 DEF Tiled
<1>2. Tiled(V \cup G, P, n)
  <2>1. CASE total = k
    <3>1. V \cup G = B
        BY <2>1
    <3> QED
        BY <3>1
  <2>2. CASE total # k
    <3>1. total > k /\ k \in 1 .. total - 1
        BY <1>1, <2>2
    <3>2. V \cup G = (B \ {x}) \cup {y, z}
        BY <3>1
    <3>3. Tiled((B \ {x}) \cup {y, z}, P, n)
        BY <3>1, TiledCut
    <3> QED
        BY <3>2, <3>3
  <2> QED
      BY <2>1, <2>2
<1>3. ASSUME NEW b \in U \cup F, b[1] = p
      PROVE  b[2] \in Nat /\ b[3] \in Nat \ {0} /\ (b[2] + b[3] <= u \/ u + total <= b[2])
  <2>1. b \in B /\ x \in B /\ b # x /\ x[1] = p
      OBVIOUS
  <2> QED
      BY <1>3, <2>1 DEF Tiled
<1>4. R \subseteq {z} /\ (R # {} => total > k)
    OBVIOUS
<1>5. y[1] = p /\ y[2] = u /\ y[3] = k /\ z[1] = p /\ z[2] = u + k /\ z[3] = total - k
      /\ x[1] = p /\ x[2] = u /\ x[3] = total
    OBVIOUS
<1>9. Joined(F \cup {x})
    OBVIOUS
<1> HIDE DEF x, y, z
<1>6. V \cap G = {}
  <2>1. y \notin F
      BY <1>1, <1>3, <1>5
  <2>2. z \in R => z \notin U
      BY <1>1, <1>3, <1>4, <1>5
  <2>3. y # z
      BY <1>1, <1>5
  <2> QED
      BY <1>4, <2>1, <2>2, <2>3
<1>7. Shown(nbits, V, P, n)
  <2>1. nbits[p] = bits[p] \cup {u, u + k - 1} /\ \A q : q # p => nbits[q] = bits[q]
      OBVIOUS
  <2> HIDE DEF nbits
  <2> SUFFICES ASSUME NEW q \in P, NEW v \in -1 .. n
               PROVE  v \in nbits[q] <=> \/ v = -1 \/ v = n
                                         \/ \E b \in V : b[1] = q /\ (v = b[2] \/ v = b[2] + b[3] - 1)
      BY DEF Shown, nbits
  <2>2. v \in bits[q] <=> \/ v = -1 \/ v = n
                          \/ \E b \in U : b[1] = q /\ (v = b[2] \/ v = b[2] + b[3] - 1)
      BY DEF Shown
  <2>3. CASE q # p
      BY <1>5, <2>1, <2>2, <2>3
  <2>4. CASE q = p
      BY <1>5, <2>1, <2>2, <2>4
  <2> QED
      BY <2>3, <2>4
<1>8. Tagged(nsizes, G)
  <2>1. Tagged(nsizes, F)
      BY TaggedKept DEF x
  <2>2. nsizes[p] = row
      OBVIOUS
  <2> HIDE DEF nsizes
  <2>3. z[3] >= 2 => nsizes[z[1]][z[2] + 1] = z[3] /\ nsizes[z[1]][z[2] + z[3] - 1] = z[3]
    <3>1. u + k + (total - k) - 1 = u + total - 1
        BY <1>1
    <3> QED
        BY <1>5, <2>2, <3>1
  <2> QED
      BY <1>4, <2>1, <2>3 DEF Tagged
<1>10. Joined(G)
  <2> SUFFICES ASSUME NEW a \in G, NEW b \in G, a[1] = b[1], a[2] + a[3] = b[2]
               PROVE  FALSE
      BY DEF Joined
  <2>1. a \notin F \/ b \notin F
      BY DEF Joined
  <2>2. CASE a = z /\ b = z
      BY <1>1, <1>4, <1>5, <2>1, <2>2
  <2>3. CASE a \in F /\ b = z
      BY <1>1, <1>3, <1>4, <1>5, <2>3
  <2>4. CASE a = z /\ b \in F
    <3>1. x[2] + x[3] = b[2] /\ b[1] = x[1]
        BY <1>1, <1>5, <2>4
    <3> QED
        BY <1>9, <2>4, <3>1 DEF Joined
  <2> QED
      BY <1>4, <2>1, <2>2, <2>3, <2>4
<1> QED
    BY <1>2, <1>6, <1>7, <1>8, <1>10 DEF Paged, y

(* V in use, G free, and one free block of `size` units at `begin`: a page  *)
(* of its own, which goes, or a part of one.                                *)
JoinedAt(U, V, G, P, n, bits, sizes, p, u, k, begin, size) ==
    /\ begin \in 0 .. n - 1 /\ size \in 1 .. n /\ begin + size <= n
    /\ \A f \in G : f[1] = p => f[2] # begin
    /\ size = n => \A nbits, nsizes :
         (\A q \in P \ {p} : nbits[q] = bits[q] /\ nsizes[q] = sizes[q])
             => Paged(V, G, P \ {p}, n, nbits, nsizes)
    /\ \A row :
         /\ KeptOutside(row, sizes[p], n, begin, size)
         /\ size >= 2 => row[begin + 1] = size /\ row[begin + size - 1] = size
         => Paged(V, G \cup {<<p, begin, size>>}, P, n,
                  [bits EXCEPT ![p] = bits[p] \ {u, u + k - 1}], [sizes EXCEPT ![p] = row])
    /\ Inhabited(U, P) => /\ size = n => Inhabited(V, P \ {p})
                          /\ size # n => Inhabited(V, P)

(* The block given back, with what is free before it (left units) and after *)
(* it (right units).                                                        *)
LEMMA PagedJoin ==
    ASSUME NEW U, NEW F, NEW P, NEW n \in Nat, NEW bits, NEW sizes,
           NEW p \in DOMAIN bits, p \in DOMAIN sizes, NEW u, NEW k,
           Paged(U, F, P, n, bits, sizes), <<p, u, k>> \in U,
           NEW left, NEW right,
           \/ left = 0 /\ \A f \in F : f[1] = p => f[2] + f[3] # u
           \/ left \in 1 .. n /\ <<p, u - left, left>> \in F,
           \/ right = 0 /\ \A f \in F : f[1] = p => f[2] # u + k
           \/ right \in 1 .. n /\ <<p, u + k, right>> \in F,
           NEW V, V = U \ {<<p, u, k>>},
           NEW G, G = (F \ (IF left = 0 THEN {} ELSE {<<p, u - left, left>>}))
                        \ (IF right = 0 THEN {} ELSE {<<p, u + k, right>>}),
           NEW size, size = left + k + right
    PROVE  JoinedAt(U, V, G, P, n, bits, sizes, p, u, k, u - left, size)
<1> DEFINE me == <<p, u, k>>
           l  == <<p, u - left, left>>
           r  == <<p, u + k, right>>
           x  == <<p, u - left, size>>
           B  == U \cup F
           C  == V \cup G \cup {x}
           m  == <<p, u - left, left + k>>
<1>1. /\ p \in P /\ u \in 0 .. n - 1 /\ k \in 1 .. n /\ u + k <= n
      /\ Tiled(B, P, n) /\ U \cap F = {} /\ Joined(F) /\ Shown(bits, U, P, n)
      /\ Tagged(sizes, F)
  <2>1. Tiled(B, P, n) /\ me \in B
      BY DEF Paged
  <2>2. p \in P /\ u \in 0 .. n - 1 /\ k \in 1 .. n /\ u + k <= n
      BY <2>1 DEF Tiled
  <2> QED
      BY <2>1, <2>2 DEF Paged
<1>2. left \in 0 .. n /\ right \in 0 .. n
    BY <1>1
<1>3. left # 0 => l \in F
    OBVIOUS
<1>4. right # 0 => r \in F
    OBVIOUS
<1>5. u - left >= 0 /\ u + k + right <= n
  <2>1. left # 0 => u - left >= 0
      BY <1>1, <1>3 DEF Tiled
  <2>2. right # 0 => u + k + right <= n
      BY <1>1, <1>4 DEF Tiled
  <2> QED
      BY <1>1, <1>2, <2>1, <2>2
<1>6. u - left \in 0 .. n - 1 /\ size \in 1 .. n /\ u - left + size <= n
    BY <1>1, <1>2, <1>5
<1>7. \A b \in B : b[1] \in P /\ b[2] \in Nat /\ b[3] \in Nat \ {0} /\ b = <<b[1], b[2], b[3]>>
    BY <1>1 DEF Tiled
<1>8. /\ me[1] = p /\ me[2] = u /\ me[3] = k /\ l[1] = p /\ l[2] = u - left /\ l[3] = left
      /\ r[1] = p /\ r[2] = u + k /\ r[3] = right /\ x[1] = p /\ x[2] = u - left /\ x[3] = size
    OBVIOUS
<1>9. me \in U /\ me \notin F /\ V = U \ {me}
    BY <1>1
<1>10. G = (F \ (IF left = 0 THEN {} ELSE {l})) \ (IF right = 0 THEN {} ELSE {r})
    OBVIOUS
(* everything else in the page lies outside of the joined block             *)
<1>11. ASSUME NEW b \in V \cup G, b[1] = p
       PROVE  b[2] + b[3] <= u - left \/ u - left + size <= b[2]
  <2>1. b \in B /\ b # me /\ (left # 0 => b # l) /\ (right # 0 => b # r)
      BY <1>1, <1>3, <1>4, <1>9, <1>10
  <2>2. b[2] + b[3] <= u \/ u + k <= b[2]
      BY <1>1, <1>8, <1>9, <1>11, <2>1 DEF Tiled
  <2>3. left # 0 => b[2] + b[3] <= u - left \/ u - left + left <= b[2]
      BY <1>1, <1>3, <1>8, <1>11, <2>1 DEF Tiled
  <2>4. right # 0 => b[2] + b[3] <= u + k \/ u + k + right <= b[2]
      BY <1>1, <1>4, <1>8, <1>11, <2>1 DEF Tiled
  <2>5. b[2] \in Nat /\ b[3] \in Nat \ {0}
      BY <1>7, <2>1
  <2> QED
      BY <1>1, <1>2, <2>2, <2>3, <2>4, <2>5
<1>12. x \notin V \cup G
  <2>1. x \in V \cup G => x[2] + x[3] <= u - left \/ u - left + size <= x[2]
      BY <1>8, <1>11
  <2> QED
      BY <1>6, <1>8, <2>1
<1>13. Tiled(C, P, n)
  <2> DEFINE B1 == IF left = 0 THEN B ELSE (B \ {l, me}) \cup {m}
  <2>1. Tiled(B1, P, n) /\ m \in B1
    <3>1. CASE left = 0
      <4>1. m = me
          BY <1>1, <3>1
      <4> QED
          BY <1>1, <1>9, <3>1, <4>1
    <3>2. CASE left # 0
      <4>1. u - left + left = u
          BY <1>1, <1>2
      <4>2. l \in B /\ <<p, (u - left) + left, k>> \in B
          BY <1>3, <1>9, <3>2, <4>1
      <4>3. Tiled((B \ {l, <<p, (u - left) + left, k>>}) \cup {m}, P, n)
          BY <1>1, <4>2, TiledJoin
      <4> QED
          BY <3>2, <4>1, <4>3
    <3> QED
        BY <3>1, <3>2
  <2>2. CASE right = 0
    <3>1. size = left + k
        BY <1>1, <1>2, <2>2
    <3>2. m \notin V \cup G
        BY <1>12, <3>1
    <3>3. C = B1
      <4>1. CASE left = 0
        <5>1. m = me /\ G = F
            BY <1>1, <1>10, <2>2, <4>1
        <5> QED
            BY <1>9, <3>1, <4>1, <5>1
      <4>2. CASE left # 0
        <5>1. G = F \ {l} /\ l \notin U /\ l # me
            BY <1>1, <1>3, <1>9, <1>10, <2>2, <4>2
        <5> QED
            BY <1>9, <3>1, <4>2, <5>1
      <4> QED
          BY <4>1, <4>2
    <3> QED
        BY <2>1, <3>3
  <2>3. CASE right # 0
    <3>1. (u - left) + (left + k) = u + k /\ (left + k) + right = size
        BY <1>1, <1>2
    <3>2. r \in F /\ r # me /\ r \notin U /\ r # l /\ r # m
        BY <1>1, <1>2, <1>4, <1>8, <1>9, <2>3
    <3>3. r \in B1
        BY <3>2
    <3>4. Tiled((B1 \ {m, <<p, (u - left) + (left + k), right>>}) \cup {<<p, u - left, (left + k) + right>>}, P, n)
        BY <2>1, <3>1, <3>3, TiledJoin
    <3>5. C = (B1 \ {m, r}) \cup {x}
      <4>1. CASE left = 0
        <5>1. m = me /\ G = F \ {r}
            BY <1>1, <1>10, <2>3, <4>1
        <5> QED
            BY <1>9, <3>2, <4>1, <5>1
      <4>2. CASE left # 0
        <5>1. G = (F \ {l}) \ {r} /\ l \notin U /\ l # me
            BY <1>1, <1>3, <1>9, <1>10, <2>3, <4>2
        <5>2. m \notin B \ {l, me}
          <6>1. m[1] = p /\ m[2] = u - left /\ m[3] = left + k
              OBVIOUS
          <6>2. m \in B => m = l
            <7>1. m[2] <= u - left /\ u - left < m[2] + m[3] /\ l[2] <= u - left /\ u - left < l[2] + l[3]
                  /\ u - left \in Int
                BY <1>1, <1>2, <1>8, <4>2, <6>1
            <7> QED
                BY <1>1, <1>3, <1>8, <4>2, <6>1, <7>1, TiledSame
          <6> QED
              BY <6>2
        <5> QED
            BY <1>9, <3>2, <4>2, <5>1, <5>2
      <4> QED
          BY <4>1, <4>2
    <3> QED
        BY <3>1, <3>4, <3>5
  <2> QED
      BY <2>2, <2>3
<1>14. V \cap G = {} /\ V \subseteq U /\ G \subseteq F
    BY <1>1, <1>9, <1>10
<1>15. \A f \in G : f[1] = p => f[2] # u - left
  <2> SUFFICES ASSUME NEW f \in G, f[1] = p, f[2] = u - left
               PROVE  FALSE
      OBVIOUS
  <2>1. f[3] \in Nat \ {0}
      BY <1>7, <1>14
  <2> QED
      BY <1>1, <1>2, <1>6, <1>11, <2>1
<1> HIDE DEF me, l, r, x, m
<1>16. ASSUME size = n, NEW nbits, NEW nsizes,
              \A q \in P \ {p} : nbits[q] = bits[q] /\ nsizes[q] = sizes[q]
       PROVE  Paged(V, G, P \ {p}, n, nbits, nsizes)
  <2>1. x = <<p, 0, n>>
      BY <1>1, <1>2, <1>6, <1>16 DEF x
  <2>2. Tiled(C \ {x}, P \ {p}, n) /\ \A b \in C : b[1] = p => b = x
    <3>1. n \in Nat \ {0} /\ x \in C /\ <<p, 0, n>> \in C
        BY <1>1, <2>1
    <3> HIDE DEF C
    <3>2. Tiled(C \ {<<p, 0, n>>}, P \ {p}, n)
        BY <1>13, <3>1, TiledLess
    <3>3. ASSUME NEW b \in C, b[1] = p
          PROVE  b = <<p, 0, n>>
        BY <1>13, <3>1, <3>3, TiledLess
    <3> QED
        BY <1>13, <2>1, <3>1, <3>2, <3>3
  <2>3. C \ {x} = V \cup G
      BY <1>12
  <2>4. \A b \in V \cup G : b[1] # p
      BY <1>12, <2>2
  <2>5. Shown(nbits, V, P \ {p}, n)
      BY <1>1, <1>8, <1>9, <1>16 DEF Shown
  <2>6. Tagged(nsizes, G)
    <3>1. \A f \in G : f[1] \in P \ {p}
        BY <1>7, <1>14, <2>4
    <3> QED
        BY <1>1, <1>14, <1>16, <3>1 DEF Tagged
  <2>7. Joined(G)
      BY <1>1, <1>14 DEF Joined
  <2> QED
      BY <1>14, <2>2, <2>3, <2>5, <2>6, <2>7 DEF Paged
<1>17. ASSUME NEW a \in F, a[1] = p, a[2] + a[3] = u - left
      PROVE  FALSE
  <2>1. CASE left = 0
    <3>1. u - left = u
        BY <1>1, <2>1
    <3> QED
        BY <1>1, <1>2, <1>17, <2>1, <3>1
  <2>2. CASE left # 0
      BY <1>1, <1>3, <1>8, <1>17, <2>2 DEF Joined
  <2> QED
      BY <2>1, <2>2
<1>18. ASSUME NEW b \in F, b[1] = p, b[2] = u - left + size
      PROVE  FALSE
  <2>1. CASE right = 0
    <3>1. u - left + size = u + k
        BY <1>1, <1>2, <2>1
    <3> QED
        BY <1>1, <1>2, <1>18, <2>1, <3>1
  <2>2. CASE right # 0
    <3>1. u - left + size = u + k + right
        BY <1>1, <1>2
    <3> QED
        BY <1>1, <1>4, <1>8, <1>18, <2>2, <3>1 DEF Joined
  <2> QED
      BY <2>1, <2>2
<1>19. ASSUME NEW row, KeptOutside(row, sizes[p], n, u - left, size),
              size >= 2 => row[u - left + 1] = size /\ row[u - left + size - 1] = size
       PROVE  Paged(V, G \cup {x}, P, n,
                    [bits EXCEPT ![p] = bits[p] \ {u, u + k - 1}], [sizes EXCEPT ![p] = row])
  <2> DEFINE H == G \cup {x}
             nbits == [bits EXCEPT ![p] = bits[p] \ {u, u + k - 1}]
             nsizes == [sizes EXCEPT ![p] = row]
  <2>1. V \cup H = C
      OBVIOUS
  <2>2. V \cap H = {}
      BY <1>12, <1>14
  <2>3. Shown(nbits, V, P, n)
    <3>1. nbits[p] = bits[p] \ {u, u + k - 1} /\ \A q : q # p => nbits[q] = bits[q]
        OBVIOUS
    <3> HIDE DEF nbits
    <3> SUFFICES ASSUME NEW q \in P, NEW v \in -1 .. n
                 PROVE  v \in nbits[q] <=> \/ v = -1 \/ v = n
                                           \/ \E b \in V : b[1] = q /\ (v = b[2] \/ v = b[2] + b[3] - 1)
        BY DEF Shown, nbits
    <3>2. v \in bits[q] <=> \/ v = -1 \/ v = n
                            \/ \E b \in U : b[1] = q /\ (v = b[2] \/ v = b[2] + b[3] - 1)
        BY <1>1 DEF Shown
    <3>3. CASE q # p
        BY <1>8, <1>9, <3>1, <3>2, <3>3
    <3>4. CASE q = p /\ v \in {u, u + k - 1}
      <4>1. v \notin nbits[q] /\ v # -1 /\ v # n
          BY <1>1, <3>1, <3>4
      <4>2. ASSUME NEW b \in V, b[1] = q, v = b[2] \/ v = b[2] + b[3] - 1
            PROVE  FALSE
        <5>1. b \in B /\ b[2] \in Nat /\ b[3] \in Nat \ {0} /\ b # me /\ me \in B
            BY <1>7, <1>9, <1>14
        <5>2. b[2] <= v /\ v < b[2] + b[3] /\ me[2] <= v /\ v < me[2] + me[3] /\ v \in Int
            BY <1>1, <1>8, <3>4, <4>2, <5>1
        <5>3. b[1] = me[1]
            BY <1>8, <3>4, <4>2
        <5> QED
            BY <1>1, <5>1, <5>2, <5>3, TiledSame
      <4> QED
          BY <4>1, <4>2
    <3>5. CASE q = p /\ v \notin {u, u + k - 1}
        BY <1>8, <1>9, <3>1, <3>2, <3>5
    <3> QED
        BY <3>3, <3>4, <3>5
  <2>4. Tagged(nsizes, H)
    <3>1. Tagged(sizes, G)
        BY <1>1, <1>14 DEF Tagged
    <3>2. Tagged(nsizes, G)
        BY <1>12, <1>13, <3>1, <1>19, TaggedKept DEF x
    <3>3. nsizes[p] = row
        OBVIOUS
    <3> HIDE DEF nsizes
    <3>4. x[3] >= 2 => nsizes[x[1]][x[2] + 1] = x[3] /\ nsizes[x[1]][x[2] + x[3] - 1] = x[3]
        BY <1>8, <1>19, <3>3
    <3> QED
        BY <3>2, <3>4 DEF Tagged
  <2>5. Joined(H)
    <3> SUFFICES ASSUME NEW a \in H, NEW b \in H, a[1] = b[1], a[2] + a[3] = b[2]
                 PROVE  FALSE
        BY DEF Joined
    <3>1. CASE a = x /\ b = x
        BY <1>1, <1>2, <1>6, <1>8, <3>1
    <3>2. CASE a \in G /\ b = x
        BY <1>8, <1>14, <1>17, <3>2
    <3>3. CASE a = x /\ b \in G
        BY <1>8, <1>14, <1>18, <3>3
    <3>4. CASE a \in G /\ b \in G
        BY <1>1, <1>14, <3>4 DEF Joined
    <3> QED
        BY <3>1, <3>2, <3>3, <3>4
  <2> QED
      BY <1>13, <2>1, <2>2, <2>3, <2>4, <2>5 DEF Paged
<1>20. ASSUME Inhabited(U, P)
       PROVE  (size = n => Inhabited(V, P \ {p})) /\ (size # n => Inhabited(V, P))
  <2> SUFFICES ASSUME NEW q \in P, q = p => size # n
               PROVE  \E b \in V : b[1] = q
      BY DEF Inhabited
  <2>1. CASE q # p
      BY <1>1, <1>8, <1>9, <1>20, <2>1 DEF Inhabited
  <2>2. CASE q = p /\ u - left # 0
    <3>1. PICK c \in C : c[1] = x[1] /\ c[2] + c[3] = x[2]
        BY <1>8, <1>13, <2>2, EndsBefore
    <3>2. c # x
        BY <1>6, <1>8, <3>1
    <3>3. c \notin G
        BY <1>8, <1>14, <1>17, <3>1
    <3> QED
        BY <1>8, <2>2, <3>1, <3>2, <3>3
  <2>3. CASE q = p /\ u - left = 0
    <3>1. PICK c \in C : c[1] = x[1] /\ c[2] = x[2] + x[3]
      <4>1. x[2] + x[3] # n
          BY <1>6, <1>8, <2>3
      <4> QED
          BY <1>13, <4>1, BeginsAfter
    <3>2. c # x
        BY <1>6, <1>8, <3>1
    <3>3. c \notin G
        BY <1>8, <1>14, <1>18, <3>1
    <3> QED
        BY <1>8, <2>3, <3>1, <3>2, <3>3
  <2> QED
      BY <2>1, <2>2, <2>3
<1> QED
    BY <1>6, <1>15, <1>16, <1>19, <1>20 DEF x, JoinedAt

------------------------------------------------------------------------------
(* The heap of a thread                                                     *)

Slots   == Small \cup Plus
Lengths == 1 .. BlocksPerPage
Where   == [k \in Lengths |-> ListOf(k)]

LEMMA WhereIs ==
    ASSUME NEW k \in Lengths
    PROVE  /\ Where[k] = ListOf(k) /\ Where[k] \in Slots
           /\ Where[k] \in Small => k = Where[k][2] + 1
           /\ Where[k] \notin Small => 2 <= k /\ Where[k] \in Plus /\ Boundary <= k - 1
                                       /\ Where[k][2] = (k - 1) \div Boundary - 1
<1>1. Where[k] = ListOf(k)
    BY DEF Where
<1>2. Boundary \in Nat \ {0} /\ BlocksPerPage \in Nat \ {0} /\ k \in 1 .. BlocksPerPage
    BY HeapAssumption DEF Lengths
<1>3. CASE k - 1 < Boundary
  <2>1. ListOf(k) = <<"small", k - 1>>
      BY <1>3 DEF ListOf
  <2>2. k - 1 \in 0 .. Boundary - 1
      BY <1>2, <1>3
  <2> QED
      BY <1>1, <1>2, <2>1, <2>2 DEF Small, Slots
<1>4. CASE ~(k - 1 < Boundary)
  <2>1. ListOf(k) = <<"plus", (k - 1) \div Boundary - 1>>
      BY <1>4 DEF ListOf
  <2>2. k - 1 \in Nat /\ Boundary <= k - 1 /\ k - 1 <= BlocksPerPage /\ BlocksPerPage \in Nat
      BY <1>2, <1>4
  <2>3. /\ (k - 1) \div Boundary \in Nat /\ 1 <= (k - 1) \div Boundary
        /\ BlocksPerPage \div Boundary \in Nat
        /\ (k - 1) \div Boundary <= BlocksPerPage \div Boundary
      BY <1>2, <2>2, DivMonotone
  <2>4. (k - 1) \div Boundary - 1 \in 0 .. BlocksPerPage \div Boundary
      BY <2>3
  <2> HIDE <2>3
  <2>5. ListOf(k) \in Plus
      BY <2>1, <2>4 DEF Plus
  <2>6. ListOf(k) \notin Small
      BY <2>1 DEF Small
  <2> QED
      BY <1>1, <1>2, <2>1, <2>2, <2>5, <2>6 DEF Slots
<1> QED
    BY <1>3, <1>4

(* There is a set of free blocks that together with those in use tiles the  *)
(* pages and that the lists, the bitmaps and the lengths agree with.        *)
HeapInv ==
    /\ HeapTypeOK
    /\ \E F \in SUBSET (Page \X Unit \X Lengths) :
        Paged(in_use, F, pages, BlocksPerPage, bmp, blocks) /\ Listed(F, free_list, Where)
    /\ Inhabited(in_use, pages)

(* It is what is found in the lists.                                        *)
LEMMA FreeAreListed ==
    ASSUME HeapTypeOK, NEW F \in SUBSET (Page \X Unit \X Lengths), Tagged(blocks, F),
           Listed(F, free_list, Where)
    PROVE  FreeBlocks = F
<1> DEFINE length(l, node) == IF l \in Small THEN l[2] + 1 ELSE blocks[node[1]][node[2] + 1]
<1>1. DOMAIN free_list = Slots
    BY DEF HeapTypeOK, Slots
<1>2. ASSUME NEW f \in F, NEW l, l = Where[f[3]]
      PROVE  l \in Slots /\ length(l, <<f[1], f[2]>>) = f[3]
  <2>1. f[3] \in Lengths
      OBVIOUS
  <2> QED
      BY <1>2, <2>1, WhereIs DEF Tagged
<1>3. ASSUME NEW f \in F
      PROVE  f \in FreeBlocks
  <2> DEFINE l == Where[f[3]]
  <2>1. <<f[1], f[2]>> \in Entries(free_list[l])
      BY <1>1, <1>2 DEF Listed
  <2>2. f = <<f[1], f[2], f[3]>>
      OBVIOUS
  <2>3. PICK i \in DOMAIN free_list[l] : free_list[l][i] = <<f[1], f[2]>>
      BY <2>1 DEF Entries
  <2> QED
      BY <1>2, <2>2, <2>3 DEF FreeBlocks, Slots
<1>4. ASSUME NEW b \in FreeBlocks
      PROVE  b \in F
  <2>1. PICK l \in Slots : b \in {<<node[1], node[2], length(l, node)>> :
                                      node \in {free_list[l][i] : i \in DOMAIN free_list[l]}}
      BY DEF FreeBlocks, Slots
  <2>2. PICK i \in DOMAIN free_list[l] :
            b = <<free_list[l][i][1], free_list[l][i][2], length(l, free_list[l][i])>>
      BY <2>1
  <2>3. free_list[l][i] \in Entries(free_list[l])
      BY DEF Entries
  <2>4. PICK f \in F : Where[f[3]] = l /\ free_list[l][i] = <<f[1], f[2]>>
      BY <1>1, <2>3 DEF Listed
  <2>5. b = <<f[1], f[2], f[3]>>
      BY <1>2, <2>2, <2>4
  <2>6. f = <<f[1], f[2], f[3]>>
      OBVIOUS
  <2> QED
      BY <2>5, <2>6
<1> QED
    BY <1>3, <1>4

(* append and remove (lines 604 to 668).                                    *)
LEMMA AppendFreeKeeps ==
    ASSUME NEW lists \in [Slots -> Seq(Page \X Unit)], NEW F, Listed(F, lists, Where),
           NEW p \in Page, NEW u \in Unit, NEW k \in Lengths,
           \A f \in F : f[1] = p => f[2] # u
    PROVE  /\ AppendFree(lists, p, u, k) \in [Slots -> Seq(Page \X Unit)]
           /\ Listed(F \cup {<<p, u, k>>}, AppendFree(lists, p, u, k), Where)
<1>1. Where[k] = ListOf(k) /\ Where[k] \in Slots /\ <<p, u>> \in Page \X Unit
    BY WhereIs
<1>2. AppendFree(lists, p, u, k) = Longer(lists, Where[k], <<p, u>>)
    BY <1>1 DEF AppendFree, Longer
<1> DEFINE S == Page \X Unit
           new == AppendFree(lists, p, u, k)
<1>3. lists \in ListsOver(Slots, S) /\ <<p, u>> \in S /\ new = Longer(lists, Where[k], <<p, u>>)
    BY <1>1, <1>2 DEF ListsOver
<1> HIDE DEF S, new
<1>4. new \in ListsOver(Slots, S) /\ Listed(F \cup {<<p, u, k>>}, new, Where)
    BY <1>1, <1>3, AppendKeeps
<1> QED
    BY <1>4 DEF S, new, ListsOver

LEMMA RemoveFreeKeeps ==
    ASSUME NEW lists \in [Slots -> Seq(Page \X Unit)], NEW F, Listed(F, lists, Where),
           NEW p, NEW u, NEW k \in Lengths, <<p, u, k>> \in F,
           \A f \in F : f[1] = p /\ f[2] = u => f = <<p, u, k>>
    PROVE  /\ RemoveFree(lists, p, u, k) \in [Slots -> Seq(Page \X Unit)]
           /\ Listed(F \ {<<p, u, k>>}, RemoveFree(lists, p, u, k), Where)
<1>1. Where[k] = ListOf(k) /\ Where[k] \in Slots
    BY WhereIs
<1>2. RemoveFree(lists, p, u, k) = Shorter(lists, Where[k], <<p, u>>)
    BY <1>1 DEF RemoveFree, Shorter, Without
<1> DEFINE S == Page \X Unit
           new == RemoveFree(lists, p, u, k)
<1>3. lists \in ListsOver(Slots, S) /\ new = Shorter(lists, Where[k], <<p, u>>)
    BY <1>1, <1>2 DEF ListsOver
<1> HIDE DEF S, new
<1>4. new \in ListsOver(Slots, S) /\ Listed(F \ {<<p, u, k>>}, new, Where)
    BY <1>1, <1>3, RemoveKeeps
<1> QED
    BY <1>4 DEF S, new, ListsOver

LEMMA SplitKeeps ==
    ASSUME HeapTypeOK, NEW p \in Page, NEW u \in Unit, NEW total \in Lengths,
           NEW require \in 1 .. total, NEW bits \in SUBSET (Unit \cup Sentinels),
           NEW lists \in [Slots -> Seq(Page \X Unit)],
           Split(p, u, total, require, blocks[p], bits, lists), NEW P \in SUBSET Page, pages' = P,
           NEW F \in SUBSET (Page \X Unit \X Lengths), <<p, u, total>> \notin in_use \cup F,
           Tiled(in_use \cup F \cup {<<p, u, total>>}, P, BlocksPerPage), in_use \cap F = {},
           Shown([bmp EXCEPT ![p] = bits], in_use, P, BlocksPerPage), Tagged(blocks, F),
           Joined(F \cup {<<p, u, total>>}), Inhabited(in_use, P \ {p}), Listed(F, lists, Where)
    PROVE  HeapInv'
<1> DEFINE x   == <<p, u, total>>
           n   == BlocksPerPage
           y   == <<p, u, require>>
           z   == <<p, u + require, total - require>>
           R   == IF total > require THEN {z} ELSE {}
           old == [bmp EXCEPT ![p] = bits]
           over == Overwrite(blocks[p], u, require)
           row == IF total > require THEN SetRest(over, u + require, total - require) ELSE over
<1>1. n \in Nat /\ n # 0 /\ Unit = 0 .. n - 1 /\ Lengths = 1 .. n
    BY HeapAssumption DEF Unit, Lengths
<1>2. u \in 0 .. n - 1 /\ total \in 1 .. n /\ require \in 1 .. n /\ u + total <= n
  <2>1. x \in in_use \cup F \cup {x}
      OBVIOUS
  <2> QED
      BY <1>1, <2>1 DEF Tiled
<1>3. blocks[p] \in [Unit -> 0 .. n] /\ bmp \in [Page -> SUBSET (Unit \cup Sentinels)]
      /\ blocks \in [Page -> [Unit -> 0 .. n]]
    BY DEF HeapTypeOK
<1>4. over \in [Unit -> 0 .. n] /\ \A v \in Unit : v \notin u .. u + require - 1 => over[v] = blocks[p][v]
    BY <1>1, <1>3 DEF Overwrite
<1> HIDE DEF over
<1>5. /\ row \in [Unit -> 0 .. n]
      /\ KeptOutside(row, blocks[p], n, u, total)
      /\ total - require >= 2 =>
            row[u + require + 1] = total - require /\ row[u + total - 1] = total - require
  <2>1. blocks[p] \in Rows(n) /\ over \in Rows(n)
      BY <1>1, <1>3, <1>4 DEF Rows
  <2>2. KeptOutside(over, blocks[p], n, u, require)
      BY <1>1, <1>4 DEF KeptOutside
  <2>3. /\ total > require => row = WithTags(over, u + require, total - require)
        /\ ~(total > require) => row = over
      BY DEF SetRest, WithTags
  <2> HIDE DEF row
  <2>4. /\ row \in Rows(n) /\ KeptOutside(row, blocks[p], n, u, total)
        /\ total - require >= 2 =>
              row[u + require + 1] = total - require /\ row[u + total - 1] = total - require
      BY <1>1, <1>2, <2>1, <2>2, <2>3, CutRow
  <2> QED
      BY <1>1, <2>4 DEF Rows
<1>6. /\ bmp' = [old EXCEPT ![p] = old[p] \cup {u, u + require - 1}]
      /\ blocks' = [blocks EXCEPT ![p] = row]
      /\ in_use' = in_use \cup {y}
      /\ free_list' = IF total > require
                      THEN AppendFree(lists, p, u + require, total - require) ELSE lists
    BY <1>3 DEF Split, Marked, over
<1>7. p \in DOMAIN old /\ p \in DOMAIN blocks
    BY <1>3
<1> HIDE DEF row, old
<1>8. Paged(in_use', F \cup R, P, n, bmp', blocks')
  <2>1. Shown(old, in_use, P, n)
      BY DEF old
  <2>2. Paged(in_use \cup {<<p, u, require>>}, F \cup R, P, n,
              [old EXCEPT ![p] = old[p] \cup {u, u + require - 1}], [blocks EXCEPT ![p] = row])
      BY <1>1, <1>5, <1>7, <2>1, PagedCut
  <2> QED
      BY <1>6, <2>2
<1>9. F \cup R \in SUBSET (Page \X Unit \X Lengths)
  <2>1. total > require => u + require \in Unit /\ total - require \in Lengths
      BY <1>1, <1>2
  <2> QED
      BY <2>1
<1>10. Listed(F \cup R, free_list', Where) /\ free_list' \in [Slots -> Seq(Page \X Unit)]
  <2>1. CASE total > require
    <3>1. total - require \in Lengths /\ u + require \in Unit
        BY <1>1, <1>2, <2>1
    <3>2. ASSUME NEW f \in F, f[1] = p, f[2] = u + require
          PROVE  FALSE
      <4>1. f # x /\ f \in in_use \cup F \cup {x} /\ x \in in_use \cup F \cup {x} /\ x[1] = p
            /\ x[2] = u /\ x[3] = total
          OBVIOUS
      <4>2. f[2] + f[3] <= u \/ u + total <= f[2]
          BY <3>2, <4>1 DEF Tiled
      <4>3. f[3] \in Lengths
          OBVIOUS
      <4> QED
          BY <1>1, <1>2, <2>1, <3>2, <4>2, <4>3
    <3>3. R = {z} /\ free_list' = AppendFree(lists, p, u + require, total - require)
        BY <1>6, <2>1
    <3> HIDE DEF R
    <3> QED
        BY <3>1, <3>2, <3>3, AppendFreeKeeps
  <2>2. CASE ~(total > require)
      BY <1>6, <2>2
  <2> QED
      BY <2>1, <2>2
<1>11. HeapTypeOK'
  <2>1. bmp' \in [Page -> SUBSET (Unit \cup Sentinels)]
    <3>1. old \in [Page -> SUBSET (Unit \cup Sentinels)]
        BY <1>3 DEF old
    <3>2. u \in Unit /\ u + require - 1 \in Unit
        BY <1>1, <1>2
    <3>3. old[p] \cup {u, u + require - 1} \in SUBSET (Unit \cup Sentinels)
        BY <3>1, <3>2
    <3> QED
        BY <1>6, <3>1, <3>3
  <2>2. blocks' \in [Page -> [Unit -> 0 .. n]]
      BY <1>3, <1>5, <1>6
  <2>3. in_use' \subseteq Page \X Unit \X (1 .. n)
      BY <1>2, <1>6 DEF HeapTypeOK
  <2> QED
      BY <1>10, <2>1, <2>2, <2>3 DEF HeapTypeOK, Slots
<1>12. Inhabited(in_use', pages')
  <2>1. y \in in_use' /\ y[1] = p /\ in_use \subseteq in_use'
      BY <1>6
  <2> HIDE DEF y
  <2> QED
      BY <2>1 DEF Inhabited
<1> QED
    BY <1>8, <1>9, <1>10, <1>11, <1>12 DEF HeapInv

(* A free block is the only one at its place.                               *)
LEMMA FreeAlone ==
    ASSUME NEW U, NEW F, NEW P, NEW n \in Nat, Tiled(U \cup F, P, n), NEW f \in F, NEW g \in F,
           f[1] = g[1], f[2] = g[2]
    PROVE  f = g
<1>1. f \in U \cup F /\ g \in U \cup F
    OBVIOUS
<1>2. f[2] \in Nat /\ f[3] \in Nat \ {0} /\ g[3] \in Nat \ {0}
    BY DEF Tiled
<1>3. f[2] \in Int /\ f[2] <= f[2] /\ f[2] < f[2] + f[3] /\ g[2] <= f[2] /\ f[2] < g[2] + g[3]
    BY <1>2
<1> QED
    BY <1>1, <1>3, TiledSame

LEMMA TakeOutKeeps ==
    ASSUME HeapInv, NEW l \in Slots, NEW require \in Lengths, free_list[l] # <<>>,
           l \in Small => require - 1 <= l[2],
           l \notin Small => (require - 1) \div Boundary <= l[2],
           TakeOut(l, require)
    PROVE  HeapInv'
<1> DEFINE n == BlocksPerPage
           p == Head(free_list[l])[1]
           u == Head(free_list[l])[2]
           lists == [free_list EXCEPT ![l] = Tail(free_list[l])]
<1>1. PICK F \in SUBSET (Page \X Unit \X Lengths) :
          Paged(in_use, F, pages, n, bmp, blocks) /\ Listed(F, free_list, Where)
    BY DEF HeapInv
<1>2. /\ Tiled(in_use \cup F, pages, n) /\ in_use \cap F = {} /\ Shown(bmp, in_use, pages, n)
      /\ Tagged(blocks, F) /\ Joined(F) /\ Inhabited(in_use, pages)
    BY <1>1 DEF Paged, HeapInv
<1>3. HeapTypeOK /\ free_list \in [Slots -> Seq(Page \X Unit)] /\ pages \in SUBSET Page
    BY DEF HeapInv, HeapTypeOK, Slots
<1>4. n \in Nat \ {0} /\ Unit = 0 .. n - 1 /\ Lengths = 1 .. n /\ Boundary \in Nat \ {0}
    BY HeapAssumption DEF Unit, Lengths
<1>5. /\ lists \in [Slots -> Seq(Page \X Unit)]
      /\ \E f \in F : /\ Where[f[3]] = l /\ Head(free_list[l]) = <<f[1], f[2]>>
                      /\ Listed(F \ {f}, lists, Where)
  <2>1. \A f, g \in F : f[1] = g[1] /\ f[2] = g[2] => f = g
      BY <1>2, <1>4, FreeAlone
  <2>2. \A f \in F : f = <<f[1], f[2], f[3]>>
      OBVIOUS
  <2> DEFINE S == Page \X Unit
  <2>3. free_list \in ListsOver(Slots, S) /\ lists = Popped(free_list, l)
      BY <1>3 DEF ListsOver, Popped
  <2> HIDE DEF lists, S
  <2>4. /\ lists \in ListsOver(Slots, S)
        /\ \E f \in F : /\ Where[f[3]] = l /\ Head(free_list[l]) = <<f[1], f[2]>>
                        /\ Listed(F \ {f}, lists, Where)
      BY <1>1, <2>1, <2>2, <2>3, TailKeeps
  <2> QED
      BY <2>4 DEF S, ListsOver
<1>6. PICK f \in F : /\ Where[f[3]] = l /\ Head(free_list[l]) = <<f[1], f[2]>>
                     /\ Listed(F \ {f}, lists, Where)
    BY <1>5
<1>7. /\ f = <<f[1], f[2], f[3]>> /\ p = f[1] /\ u = f[2] /\ f[1] \in Page /\ f[2] \in Unit
      /\ f[3] \in Lengths
    BY <1>6
<1>8. f[3] = IF l \in Small THEN l[2] + 1 ELSE blocks[p][u + 1]
    BY <1>2, <1>6, <1>7, WhereIs DEF Tagged
<1>9. require \in 1 .. f[3]
  <2>1. CASE l \in Small
    <3>1. l[2] \in Int
        BY <1>4, <2>1 DEF Small
    <3>2. f[3] = l[2] + 1 /\ require - 1 <= l[2]
        BY <1>8, <2>1
    <3> QED
        BY <1>4, <1>7, <3>1, <3>2
  <2>2. CASE l \notin Small
    <3>1. Boundary <= f[3] - 1 /\ l[2] = (f[3] - 1) \div Boundary - 1
        BY <1>6, <1>7, <2>2, WhereIs
    <3>2. require - 1 \in Nat /\ f[3] - 1 \in Nat
        BY <1>4, <1>7
    <3>3. f[3] - 1 <= require - 1 => (f[3] - 1) \div Boundary <= (require - 1) \div Boundary
        BY <1>4, <3>2, DivMonotone
    <3>4. (require - 1) \div Boundary \in Nat /\ (f[3] - 1) \div Boundary \in Nat
        BY <1>4, <3>2, DivMonotone
    <3>5. (require - 1) \div Boundary <= l[2]
        BY <2>2
    <3>6. ~(f[3] - 1 <= require - 1)
        BY <3>1, <3>3, <3>4, <3>5
    <3> QED
        BY <1>4, <1>7, <3>6
  <2> QED
      BY <2>1, <2>2
<1>10. Split(f[1], f[2], f[3], require, blocks[f[1]], bmp[f[1]], lists) /\ pages' = pages
    BY <1>7, <1>8 DEF TakeOut
<1> DEFINE G == F \ {f}
<1>11. Listed(G, lists, Where) /\ lists \in [Slots -> Seq(Page \X Unit)]
    BY <1>5, <1>6
<1> HIDE DEF lists
<1>12. /\ G \in SUBSET (Page \X Unit \X Lengths) /\ <<f[1], f[2], f[3]>> \notin in_use \cup G
       /\ in_use \cup G \cup {<<f[1], f[2], f[3]>>} = in_use \cup F
       /\ G \cup {<<f[1], f[2], f[3]>>} = F
    BY <1>2, <1>7
<1>13. in_use \cap G = {} /\ Tagged(blocks, G) /\ Inhabited(in_use, pages \ {f[1]})
    BY <1>2 DEF Tagged, Inhabited
<1>14. [bmp EXCEPT ![f[1]] = bmp[f[1]]] = bmp /\ bmp[f[1]] \in SUBSET (Unit \cup Sentinels)
    BY <1>3, <1>7 DEF HeapTypeOK
<1> HIDE DEF G
<1>15. Shown([bmp EXCEPT ![f[1]] = bmp[f[1]]], in_use, pages, n)
    BY <1>2, <1>14
<1>16. Tiled(in_use \cup G \cup {<<f[1], f[2], f[3]>>}, pages, n)
    BY <1>2, <1>12
<1>17. Joined(G \cup {<<f[1], f[2], f[3]>>})
    BY <1>2, <1>12
<1> QED
    BY <1>3, <1>7, <1>9, <1>10, <1>11, <1>12, <1>13, <1>14, <1>15, <1>16, <1>17, SplitKeeps

LEMMA AllocKeeps ==
    ASSUME HeapInv, NEW require \in Lengths,
           AllocSmall(require) \/ AllocPlus(require) \/ AllocPage(require)
    PROVE  HeapInv'
<1>1. CASE AllocSmall(require)
  <2>1. PICK l \in Small : IsClosest("small", l[2], require - 1) /\ TakeOut(l, require)
      BY <1>1 DEF AllocSmall
  <2>2. l = <<"small", l[2]>>
      BY DEF Small
  <2>3. free_list[l] # <<>> /\ require - 1 <= l[2] /\ l \in Slots
    <3>1. l[2] \in Int /\ require \in Int
        BY HeapAssumption DEF Small, Lengths
    <3> QED
        BY <2>1, <2>2, <3>1 DEF IsClosest, Slots
  <2> QED
      BY <2>1, <2>3, TakeOutKeeps
<1>2. CASE AllocPlus(require)
  <2>1. PICK l \in Plus :
            IsClosest("plus", l[2], (require - 1) \div Boundary) /\ TakeOut(l, require)
      BY <1>2 DEF AllocPlus
  <2>2. l = <<"plus", l[2]>> /\ l \notin Small
      BY DEF Plus, Small
  <2>3. free_list[l] # <<>> /\ (require - 1) \div Boundary <= l[2] /\ l \in Slots
      BY <2>1, <2>2 DEF IsClosest, Slots
  <2> QED
      BY <2>1, <2>2, <2>3, TakeOutKeeps
<1>3. CASE AllocPage(require)
  <2> DEFINE n == BlocksPerPage
  <2>1. PICK p \in Page \ pages :
            /\ pages' = pages \cup {p}
            /\ Split(p, 0, n, require, blocks[p], Sentinels, free_list)
      BY <1>3 DEF AllocPage
  <2> DEFINE x == <<p, 0, n>>
  <2>2. PICK F \in SUBSET (Page \X Unit \X Lengths) :
            Paged(in_use, F, pages, n, bmp, blocks) /\ Listed(F, free_list, Where)
      BY DEF HeapInv
  <2>3. /\ Tiled(in_use \cup F, pages, n) /\ in_use \cap F = {} /\ Shown(bmp, in_use, pages, n)
        /\ Tagged(blocks, F) /\ Joined(F) /\ Inhabited(in_use, pages)
      BY <2>2 DEF Paged, HeapInv
  <2>4. /\ HeapTypeOK /\ free_list \in [Slots -> Seq(Page \X Unit)]
        /\ bmp \in [Page -> SUBSET (Unit \cup Sentinels)]
        /\ pages \cup {p} \in SUBSET Page
      BY DEF HeapInv, HeapTypeOK, Slots
  <2>5. n \in Nat \ {0} /\ Unit = 0 .. n - 1 /\ Lengths = 1 .. n
      BY HeapAssumption DEF Unit, Lengths
  <2>6. 0 \in Unit /\ n \in Lengths /\ require \in 1 .. n
      BY <2>5
  <2>7. \A b \in in_use \cup F : b[1] \in pages /\ b[1] # p
      BY <2>1, <2>3 DEF Tiled
  <2>8. <<p, 0, n>> \notin in_use \cup F
      BY <2>7
  <2>9. Tiled(in_use \cup F \cup {<<p, 0, n>>}, pages \cup {p}, n)
      BY <2>1, <2>3, <2>5, TiledMore
  <2>10. Shown([bmp EXCEPT ![p] = Sentinels], in_use, pages \cup {p}, n)
    <3> DEFINE new == [bmp EXCEPT ![p] = Sentinels]
    <3>1. new[p] = {-1, n} /\ \A q : q # p => new[q] = bmp[q]
        BY <2>4 DEF Sentinels
    <3> HIDE DEF new
    <3> SUFFICES ASSUME NEW q \in pages \cup {p}, NEW v \in -1 .. n
                 PROVE  v \in new[q] <=> \/ v = -1 \/ v = n
                                         \/ \E b \in in_use : b[1] = q /\ (v = b[2] \/ v = b[2] + b[3] - 1)
        BY DEF Shown, new
    <3>2. CASE q = p
        BY <2>7, <3>1, <3>2
    <3>3. CASE q # p
        BY <2>3, <3>1, <3>3 DEF Shown
    <3> QED
        BY <3>2, <3>3
  <2>11. Joined(F \cup {<<p, 0, n>>})
    <3> SUFFICES ASSUME NEW a \in F \cup {x}, NEW b \in F \cup {x}, a[1] = b[1], a[2] + a[3] = b[2]
                 PROVE  FALSE
        BY DEF Joined
    <3>1. x[1] = p /\ x[2] = 0 /\ x[3] = n
        OBVIOUS
    <3> HIDE DEF x
    <3>2. CASE a \in F /\ b \in F
        BY <2>3, <3>2 DEF Joined
    <3>3. CASE a = x /\ b = x
        BY <2>5, <3>1, <3>3
    <3> QED
        BY <2>7, <3>1, <3>2, <3>3
  <2>12. Inhabited(in_use, (pages \cup {p}) \ {p})
      BY <2>3 DEF Inhabited
  <2>13. Sentinels \in SUBSET (Unit \cup Sentinels)
      OBVIOUS
  <2> QED
      BY <2>1, <2>2, <2>3, <2>4, <2>6, <2>8, <2>9, <2>10, <2>11, <2>12, <2>13, SplitKeeps
<1> QED
    BY <1>1, <1>2, <1>3

LEMMA FreeKeeps ==
    ASSUME HeapInv, NEW p, NEW u, NEW length, Free(p, u, length)
    PROVE  HeapInv'
<1> DEFINE n == BlocksPerPage
           e     == u + length
           left  == LeftFree(p, u)
           right == RightFree(p, u + length)
           size  == left + length + right
           V     == in_use \ {<<p, u, length>>}
<1>1. PICK F \in SUBSET (Page \X Unit \X Lengths) :
          Paged(in_use, F, pages, n, bmp, blocks) /\ Listed(F, free_list, Where)
    BY DEF HeapInv
<1>2. /\ Tiled(in_use \cup F, pages, n) /\ in_use \cap F = {} /\ Shown(bmp, in_use, pages, n)
      /\ Tagged(blocks, F) /\ Joined(F) /\ Inhabited(in_use, pages)
    BY <1>1 DEF Paged, HeapInv
<1>3. /\ HeapTypeOK /\ free_list \in [Slots -> Seq(Page \X Unit)] /\ pages \in SUBSET Page
      /\ bmp \in [Page -> SUBSET (Unit \cup Sentinels)]
      /\ blocks \in [Page -> [Unit -> 0 .. n]]
      /\ in_use \subseteq Page \X Unit \X (1 .. n)
    BY DEF HeapInv, HeapTypeOK, Slots
<1>4. n \in Nat \ {0} /\ Unit = 0 .. n - 1 /\ Lengths = 1 .. n /\ Boundary \in Nat \ {0}
    BY HeapAssumption DEF Unit, Lengths
<1>5. <<p, u, length>> \in in_use /\ in_use' = V
    BY DEF Free
<1>6. p \in Page /\ u \in Unit /\ length \in 1 .. n
    BY <1>3, <1>5
<1>7. \/ left = 0 /\ \A f \in F : f[1] = p => f[2] + f[3] # u
      \/ left \in 1 .. n /\ <<p, u - left, left>> \in F
  <2>1. left = IF u - 1 \in bmp[p] THEN 0 ELSE IF u - 2 \in bmp[p] THEN 1 ELSE blocks[p][u - 1]
      BY DEF LeftFree, Get
  <2> HIDE DEF left
  <2> QED
      BY <1>2, <1>4, <1>5, <2>1, LeftTold
<1>8. \/ right = 0 /\ \A f \in F : f[1] = p => f[2] # u + length
      \/ right \in 1 .. n /\ <<p, u + length, right>> \in F
  <2>1. right = IF e \in bmp[p] THEN 0 ELSE IF e + 1 \in bmp[p] THEN 1 ELSE blocks[p][e + 1]
      BY DEF RightFree, Get
  <2>2. e = u + length
      OBVIOUS
  <2> HIDE DEF right, e
  <2>3. \/ right = 0 /\ \A f \in F : f[1] = p => f[2] # e
        \/ right \in 1 .. n /\ <<p, e, right>> \in F
      BY <1>2, <1>4, <1>5, <2>1, <2>2, RightTold
  <2> QED
      BY <2>2, <2>3
<1> DEFINE begin   == u - left
           l       == <<p, begin, left>>
           r       == <<p, u + length, right>>
           F1      == F \ (IF left = 0 THEN {} ELSE {<<p, u - left, left>>})
           G       == F1 \ (IF right = 0 THEN {} ELSE {<<p, u + length, right>>})
           noLeft  == IF left = 0 THEN free_list ELSE RemoveFree(free_list, p, begin, left)
           noRight == IF right = 0 THEN noLeft ELSE RemoveFree(noLeft, p, u + length, right)
<1>9. JoinedAt(in_use, V, G, pages, n, bmp, blocks, p, u, length, begin, size)
  <2>1. p \in DOMAIN bmp /\ p \in DOMAIN blocks
      BY <1>3, <1>6
  <2>2. V = in_use \ {<<p, u, length>>} /\ size = left + length + right
      OBVIOUS
  <2>3. G = (F \ (IF left = 0 THEN {} ELSE {<<p, u - left, left>>}))
               \ (IF right = 0 THEN {} ELSE {<<p, u + length, right>>})
      OBVIOUS
  <2> HIDE DEF left, right, V, G, size, F1
  <2> QED
      BY <1>1, <1>4, <1>5, <1>7, <1>8, <2>1, <2>2, <2>3, PagedJoin
<1>10. ASSUME NEW f \in F, NEW g \in F, f[1] = g[1], f[2] = g[2]
       PROVE  f = g
    BY <1>2, <1>4, <1>10, FreeAlone
<1>11. Listed(F1, noLeft, Where) /\ noLeft \in [Slots -> Seq(Page \X Unit)] /\ F1 \subseteq F
  <2>1. CASE left = 0
      BY <1>1, <1>3, <2>1
  <2>2. CASE left # 0
    <3>1. l \in F /\ left \in Lengths
        BY <1>4, <1>7, <2>2
    <3>2. \A f \in F : f[1] = p /\ f[2] = begin => f = l
      <4>1. l[1] = p /\ l[2] = begin
          OBVIOUS
      <4> HIDE DEF l
      <4> QED
          BY <1>10, <3>1, <4>1
    <3>3. F1 = F \ {l} /\ noLeft = RemoveFree(free_list, p, begin, left)
        BY <2>2
    <3> HIDE DEF F1, noLeft, left, begin
    <3> QED
        BY <1>1, <1>3, <3>1, <3>2, <3>3, RemoveFreeKeeps
  <2> QED
      BY <2>1, <2>2
<1>12. Listed(G, noRight, Where) /\ noRight \in [Slots -> Seq(Page \X Unit)] /\ G \subseteq F
  <2>1. CASE right = 0
      BY <1>11, <2>1
  <2>2. CASE right # 0
    <3>1. r \in F /\ right \in Lengths
        BY <1>4, <1>8, <2>2
    <3>2. r \in F1
      <4>1. left # 0 => l # r
        <5>1. left # 0 => begin # e
            BY <1>4, <1>6, <1>7
        <5> QED
            BY <5>1
      <4> QED
          BY <3>1, <4>1
    <3>3. \A f \in F1 : f[1] = p /\ f[2] = e => f = r
      <4>1. r[1] = p /\ r[2] = e
          OBVIOUS
      <4> HIDE DEF r, e
      <4> QED
          BY <1>10, <1>11, <3>1, <4>1
    <3>4. G = F1 \ {r} /\ noRight = RemoveFree(noLeft, p, e, right)
        BY <2>2
    <3> HIDE DEF F1, G, noLeft, noRight, right, e
    <3> QED
        BY <1>11, <3>1, <3>2, <3>3, <3>4, RemoveFreeKeeps DEF e
  <2> QED
      BY <2>1, <2>2
<1>13. /\ size = n =>
            /\ pages' = pages \ {p}
            /\ bmp' = [bmp EXCEPT ![p] = {}]
            /\ blocks' = [blocks EXCEPT ![p] = [unit \in Unit |-> 0]]
            /\ free_list' = noRight
       /\ size # n =>
            /\ pages' = pages
            /\ bmp' = [bmp EXCEPT ![p] = bmp[p] \ {u, u + length - 1}]
            /\ blocks' = [blocks EXCEPT ![p] = SetRest(blocks[p], begin, size)]
            /\ free_list' = AppendFree(noRight, p, begin, size)
    BY DEF Free, Unmarked
<1>14. V \subseteq Page \X Unit \X (1 .. n) /\ G \in SUBSET (Page \X Unit \X Lengths)
    BY <1>3, <1>12
<1> HIDE DEF left, right, size, begin, V, G, F1, noLeft, noRight
<1>15. begin \in 0 .. n - 1 /\ size \in 1 .. n /\ begin + size <= n /\ \A f \in G : f[1] = p => f[2] # begin
    BY <1>9 DEF JoinedAt
<1>16. (size = n => Inhabited(V, pages \ {p})) /\ (size # n => Inhabited(V, pages))
    BY <1>2, <1>9 DEF JoinedAt
<1>17. CASE size = n
  <2>1. \A q \in pages \ {p} : bmp'[q] = bmp[q] /\ blocks'[q] = blocks[q]
      BY <1>3, <1>13, <1>17
  <2>2. Paged(V, G, pages', n, bmp', blocks')
    <3>1. ASSUME NEW nbits, NEW nsizes,
                 \A q \in pages \ {p} : nbits[q] = bmp[q] /\ nsizes[q] = blocks[q]
          PROVE  Paged(V, G, pages \ {p}, n, nbits, nsizes)
        BY <1>9, <1>17, <3>1 DEF JoinedAt
    <3>2. Paged(V, G, pages \ {p}, n, bmp', blocks')
        BY <2>1, <3>1
    <3>3. pages' = pages \ {p}
        BY <1>13, <1>17
    <3> QED
        BY <3>2, <3>3
  <2>3. HeapTypeOK'
    <3>1. bmp' \in [Page -> SUBSET (Unit \cup Sentinels)]
        BY <1>3, <1>13, <1>17
    <3>2. blocks' \in [Page -> [Unit -> 0 .. n]]
      <4>1. [unit \in Unit |-> 0] \in [Unit -> 0 .. n]
          BY <1>4
      <4>2. blocks' = [blocks EXCEPT ![p] = [unit \in Unit |-> 0]]
          BY <1>13, <1>17
      <4> HIDE DEF n
      <4> QED
          BY <1>3, <4>1, <4>2
    <3> QED
        BY <1>3, <1>5, <1>12, <1>13, <1>14, <1>17, <3>1, <3>2 DEF HeapTypeOK, Slots
  <2> QED
      BY <1>5, <1>12, <1>13, <1>14, <1>16, <1>17, <2>2, <2>3 DEF HeapInv
<1>18. CASE size # n
  <2> DEFINE row == SetRest(blocks[p], begin, size)
             x == <<p, begin, size>>
  <2>1. /\ row \in [Unit -> 0 .. n]
        /\ KeptOutside(row, blocks[p], n, begin, size)
        /\ size >= 2 => row[begin + 1] = size /\ row[begin + size - 1] = size
    <3>1. blocks[p] \in Rows(n)
        BY <1>3, <1>4, <1>6 DEF Rows
    <3>2. row = WithTags(blocks[p], begin, size)
        BY DEF SetRest, WithTags
    <3> HIDE DEF row
    <3>3. /\ row \in Rows(n)
          /\ KeptOutside(row, blocks[p], n, begin, size)
          /\ size >= 2 => row[begin + 1] = size /\ row[begin + size - 1] = size
        BY <1>4, <1>15, <3>1, <3>2, TagRow
    <3> QED
        BY <1>4, <3>3 DEF Rows
  <2> HIDE DEF row
  <2>2. Paged(V, G \cup {x}, pages, n, bmp', blocks')
    <3>1. bmp' = [bmp EXCEPT ![p] = bmp[p] \ {u, u + length - 1}] /\ blocks' = [blocks EXCEPT ![p] = row]
        BY <1>13, <1>18 DEF row
    <3>2. Paged(V, G \cup {x}, pages, n, [bmp EXCEPT ![p] = bmp[p] \ {u, u + length - 1}],
                [blocks EXCEPT ![p] = row])
        BY <1>9, <1>18, <2>1 DEF JoinedAt
    <3> QED
        BY <3>1, <3>2
  <2>3. begin \in Unit /\ size \in Lengths
      BY <1>4, <1>15
  <2>4. /\ AppendFree(noRight, p, begin, size) \in [Slots -> Seq(Page \X Unit)]
        /\ Listed(G \cup {x}, AppendFree(noRight, p, begin, size), Where)
      BY <1>6, <1>15, <1>12, <2>3, AppendFreeKeeps
  <2>5. HeapTypeOK'
    <3>1. bmp' \in [Page -> SUBSET (Unit \cup Sentinels)]
        BY <1>3, <1>13, <1>18
    <3>2. blocks' \in [Page -> [Unit -> 0 .. n]]
        BY <1>3, <1>13, <1>18, <2>1 DEF row
    <3> QED
        BY <1>3, <1>5, <1>13, <1>14, <1>18, <2>4, <3>1, <3>2 DEF HeapTypeOK, Slots
  <2>6. G \cup {x} \in SUBSET (Page \X Unit \X Lengths)
      BY <1>6, <1>14, <2>3
  <2> QED
      BY <1>5, <1>13, <1>16, <1>18, <2>2, <2>4, <2>5, <2>6 DEF HeapInv
<1> QED
    BY <1>17, <1>18

------------------------------------------------------------------------------
(* The heap without pages.                                                  *)
LEMMA HeapStarts == HeapInit => HeapInv
<1> SUFFICES ASSUME HeapInit PROVE HeapInv
    OBVIOUS
<1>1. BlocksPerPage \in Nat \ {0} /\ Unit = 0 .. BlocksPerPage - 1
    BY HeapAssumption DEF Unit
<1>2. HeapTypeOK
  <2>1. [unit \in Unit |-> 0] \in [Unit -> 0 .. BlocksPerPage]
      BY <1>1
  <2>2. blocks \in [Page -> [Unit -> 0 .. BlocksPerPage]]
      BY <2>1 DEF HeapInit
  <2>3. free_list \in [Small \cup Plus -> Seq(Page \X Unit)]
      BY DEF HeapInit
  <2> QED
      BY <2>2, <2>3 DEF HeapInit, HeapTypeOK
<1>3. Paged(in_use, {}, pages, BlocksPerPage, bmp, blocks)
    BY DEF HeapInit, Paged, Tiled, Shown, Tagged, Joined
<1>4. Listed({}, free_list, Where)
  <2>1. \A l \in DOMAIN free_list : free_list[l] = <<>>
      BY DEF HeapInit
  <2>2. OnlyOnce(<<>>) /\ Entries(<<>>) = {}
      BY DEF OnlyOnce, Entries
  <2> QED
      BY <2>1, <2>2 DEF Listed
<1>5. {} \in SUBSET (Page \X Unit \X Lengths) /\ Inhabited(in_use, pages)
    BY DEF HeapInit, Inhabited
<1> QED
    BY <1>2, <1>3, <1>4, <1>5 DEF HeapInv

LEMMA HeapStepKeeps == HeapInv /\ [HeapNext]_heapVars => HeapInv'
<1> SUFFICES ASSUME HeapInv, [HeapNext]_heapVars PROVE HeapInv'
    OBVIOUS
<1>1. ASSUME NEW require \in 1 .. BlocksPerPage,
             AllocSmall(require) \/ AllocPlus(require) \/ AllocPage(require)
      PROVE  HeapInv'
    BY <1>1, AllocKeeps DEF Lengths
<1>2. ASSUME NEW block \in in_use, Free(block[1], block[2], block[3])
      PROVE  HeapInv'
    BY <1>2, FreeKeeps
<1>3. CASE UNCHANGED heapVars
    BY <1>3 DEF heapVars, HeapInv, HeapTypeOK
<1> QED
    BY <1>1, <1>2, <1>3 DEF HeapNext

THEOREM HeapInvariant == HeapSpec => []HeapInv
BY HeapStarts, HeapStepKeeps, PTL DEF HeapSpec

(* What the invariant says of the blocks found in the lists.                *)
LEMMA HeapShape ==
    ASSUME HeapInv
    PROVE  /\ Paged(in_use, FreeBlocks, pages, BlocksPerPage, bmp, blocks)
           /\ Listed(FreeBlocks, free_list, Where)
           /\ FreeBlocks \subseteq Page \X Unit \X Lengths
<1>1. PICK F \in SUBSET (Page \X Unit \X Lengths) :
        Paged(in_use, F, pages, BlocksPerPage, bmp, blocks) /\ Listed(F, free_list, Where)
    BY DEF HeapInv
<1>2. FreeBlocks = F
    BY <1>1, FreeAreListed DEF HeapInv, Paged
<1> QED
    BY <1>1, <1>2

LEMMA TilingHolds == HeapInv => Tiling
<1> SUFFICES ASSUME HeapInv PROVE Tiling
    OBVIOUS
<1> DEFINE B == in_use \cup FreeBlocks
<1>1. Tiled(B, pages, BlocksPerPage) /\ BlocksPerPage \in Nat /\ Unit = 0 .. BlocksPerPage - 1
    BY HeapShape, HeapAssumption DEF Paged, Unit
<1> HIDE DEF B
<1>2. ASSUME NEW p \in pages, NEW u \in Unit
      PROVE  Cardinality({b \in B : b[1] = p /\ u \in Units(b)}) = 1
  <2>1. PICK c \in B : c[1] = p /\ c[2] <= u /\ u < c[2] + c[3]
      BY <1>1 DEF Tiled
  <2>2. \A b \in B : b[2] \in Int /\ b[3] \in Int
      BY <1>1 DEF Tiled
  <2>3. \A b \in B : u \in Units(b) <=> b[2] <= u /\ u < b[2] + b[3]
      BY <1>1, <2>2 DEF Units
  <2>4. u \in Int
      BY <1>1
  <2>5. ASSUME NEW b \in B, b[1] = p, u \in Units(b)
        PROVE  b = c
      BY <1>1, <2>1, <2>3, <2>4, <2>5, TiledSame
  <2>6. {b \in B : b[1] = p /\ u \in Units(b)} = {c}
      BY <2>1, <2>3, <2>5
  <2> QED
      BY <2>6, FS_Singleton
<1>3. \A b \in B : b[1] \in pages /\ b[2] + b[3] <= BlocksPerPage
    BY <1>1 DEF Tiled
<1> QED
    BY <1>2, <1>3 DEF Tiling, B

LEMMA CoalescedHolds == HeapInv => Coalesced
<1>1. HeapInv => Joined(FreeBlocks) /\ Inhabited(in_use, pages)
    BY HeapShape DEF Paged, HeapInv
<1> QED
    BY <1>1 DEF Coalesced, Joined, Inhabited

LEMMA BoundariesHold == HeapInv => BoundariesTold
<1> SUFFICES ASSUME HeapInv PROVE BoundariesTold
    OBVIOUS
<1>1. /\ Shown(bmp, in_use, pages, BlocksPerPage) /\ Tagged(blocks, FreeBlocks)
      /\ BlocksPerPage \in Nat \ {0} /\ Unit = 0 .. BlocksPerPage - 1
      /\ Sentinels = {-1, BlocksPerPage}
      /\ Tiled(in_use \cup FreeBlocks, pages, BlocksPerPage)
    BY HeapShape, HeapAssumption DEF Paged, Unit, Sentinels
<1>2. ASSUME NEW p \in pages
      PROVE  bmp[p] = Sentinels \cup UNION {{b[2], b[2] + b[3] - 1} : b \in {c \in in_use : c[1] = p}}
  <2>1. bmp[p] \subseteq -1 .. BlocksPerPage
    <3>1. bmp[p] \subseteq Unit \cup Sentinels
        BY DEF HeapInv, HeapTypeOK
    <3> QED
        BY <1>1, <3>1
  <2>2. /\ BlocksPerPage \in Nat /\ Shown(bmp, in_use, pages, BlocksPerPage)
        /\ Tiled(in_use \cup FreeBlocks, pages, BlocksPerPage)
      BY <1>1
  <2>3. Exactly(bmp, in_use, BlocksPerPage, p)
      BY <2>1, <2>2, ShownExactly
  <2> QED
      BY <1>1, <2>3 DEF Exactly, Tips
<1> QED
    BY <1>1, <1>2 DEF BoundariesTold, Tagged

LEMMA FiledHolds == HeapInv => Filed
<1> SUFFICES ASSUME HeapInv PROVE Filed
    OBVIOUS
<1>1. Listed(FreeBlocks, free_list, Where) /\ Tagged(blocks, FreeBlocks)
      /\ FreeBlocks \subseteq Page \X Unit \X Lengths
    BY HeapShape DEF Paged
<1>2. DOMAIN free_list = Small \cup Plus
    BY DEF HeapInv, HeapTypeOK
<1>3. ASSUME NEW l \in Small \cup Plus
      PROVE  OnlyOnce(free_list[l])
    BY <1>1, <1>2 DEF Listed
<1>4. ASSUME NEW l \in Plus, NEW i \in DOMAIN free_list[l]
      PROVE  ListOf(blocks[free_list[l][i][1]][free_list[l][i][2] + 1]) = l
  <2>1. free_list[l][i] \in Entries(free_list[l])
      BY DEF Entries
  <2>2. PICK f \in FreeBlocks : Where[f[3]] = l /\ free_list[l][i] = <<f[1], f[2]>>
      BY <1>1, <1>2, <2>1 DEF Listed
  <2>3. f[3] \in Lengths
      BY <1>1
  <2>4. l \notin Small
      BY DEF Small, Plus
  <2>5. f[3] >= 2 /\ ListOf(f[3]) = l
      BY <2>2, <2>3, <2>4, WhereIs DEF Lengths
  <2>6. blocks[f[1]][f[2] + 1] = f[3]
      BY <1>1, <2>5 DEF Tagged
  <2> QED
      BY <2>2, <2>5, <2>6
<1> QED
    BY <1>3, <1>4 DEF Filed, OnlyOnce

(* However blocks are split and joined: the blocks in use and those in the  *)
(* lists tile the pages, free neighbours are joined and empty pages gone,   *)
(* the bitmaps and the lengths show where blocks begin and end, and a list  *)
(* has the blocks of its lengths, each once.                                *)
THEOREM HeapIsSound == HeapSpec => []HeapSound
<1>1. HeapInv => HeapSound
    BY TilingHolds, CoalescedHolds, BoundariesHold, FiledHolds DEF HeapSound
<1> QED
    BY <1>1, HeapInvariant, PTL

(* The variables of the heap keep their types; the lengths written into the *)
(* pages are lengths of blocks.                                             *)
THEOREM HeapTypeCorrect == HeapSpec => []HeapTypeOK
<1>1. HeapInv => HeapTypeOK
    BY DEF HeapInv
<1> QED
    BY <1>1, HeapInvariant, PTL

------------------------------------------------------------------------------
(* The allocator for microcontrollers                                       *)

Extents    == 1 .. RegionBlocks
WhereFiled == [k \in Extents |-> SlotOf(k)]

(* The types as they are as long as every block handed out fitted.          *)
RtosTight ==
    /\ mounted \subseteq Region
    /\ ends \in [Region -> SUBSET (RtosUnit \cup Edge)]
    /\ tags \in [Region -> [RtosUnit -> 0 .. RegionBlocks]]
    /\ slot \in [SlotId -> Seq(Region \X RtosUnit)]
    /\ taken \subseteq Region \X RtosUnit \X Request
    /\ mistaken = FALSE

LEMMA SlotIs ==
    ASSUME NEW k \in Extents
    PROVE  /\ WhereFiled[k] = SlotOf(k) /\ WhereFiled[k] \in SlotId
           /\ WhereFiled[k][1] = 0 => k = WhereFiled[k][2] + 1 /\ k <= SlotCount
           /\ WhereFiled[k][1] = 1 => SlotCount < k /\ WhereFiled[k][2] = (k - 2) \div SlotCount
<1>1. WhereFiled[k] = SlotOf(k)
    BY DEF WhereFiled
<1>2. SlotCount \in Nat \ {0} /\ RegionBlocks \in Nat /\ RegionBlocks <= SlotCount * SlotCount
      /\ k \in 1 .. RegionBlocks /\ SlotCount * SlotCount \in Nat
    BY RegionAssumption DEF Extents
<1>3. CASE k - 1 < SlotCount
  <2>1. SlotOf(k) = <<0, k - 1>> /\ k - 1 \in 0 .. SlotCount - 1 /\ k <= SlotCount
      BY <1>2, <1>3 DEF SlotOf
  <2> QED
      BY <1>1, <1>2, <2>1 DEF SlotId
<1>4. CASE ~(k - 1 < SlotCount)
  <2>1. SlotOf(k) = <<1, (k - 2) \div SlotCount>>
      BY <1>4 DEF SlotOf
  <2> DEFINE q == (k - 2) \div SlotCount
  <2>2. SlotCount < k
      BY <1>2, <1>4
  <2>3. k - 2 \in Nat
      BY <1>2, <2>2
  <2>4. q \in Nat /\ q * SlotCount <= k - 2
      BY <1>2, <2>3
  <2> HIDE DEF q
  <2>5. q < SlotCount
    <3>1. SlotCount <= q => SlotCount * SlotCount <= q * SlotCount
        BY <1>2, <2>4
    <3>2. q * SlotCount \in Nat
        BY <1>2, <2>4
    <3> HIDE <2>4
    <3>3. ~(SlotCount <= q)
        BY <1>2, <2>4, <3>1, <3>2
    <3> QED
        BY <1>2, <2>4, <3>3
  <2>6. q \in 0 .. SlotCount - 1 /\ SlotOf(k) = <<1, q>>
      BY <1>2, <2>1, <2>4, <2>5 DEF q
  <2>7. SlotOf(k) \in SlotId
      BY <2>6 DEF SlotId
  <2> QED
      BY <1>1, <2>2, <2>6, <2>7 DEF q
<1> QED
    BY <1>3, <1>4

(* A free block in a list that alloc looks at for a safe length is at least *)
(* that long.                                                               *)
LEMMA SafeFits ==
    ASSUME NEW length \in Request, SafeRequest(length), NEW k \in Extents, NEW level \in {0, 1},
           NEW i \in Int, SlotOf(k) = <<level, i>>,
           (IF level = 0 THEN length - 1 ELSE (length - 1) \div SlotCount) <= i
    PROVE  length \in 2 .. k
<1>1. SlotCount \in Nat \ {0} /\ length \in Nat /\ length > 1 /\ k \in Nat
      /\ (length > SlotCount => length <= SlotCount * ((length - 1) \div SlotCount) + 2)
    BY RegionAssumption DEF SafeRequest, Extents
<1>2. WhereFiled[k] = <<level, i>>
    BY SlotIs
<1>3. CASE level = 0
  <2>1. k = i + 1 /\ length - 1 <= i
      BY <1>2, <1>3, SlotIs
  <2> QED
      BY <1>1, <2>1
<1>4. CASE level = 1
  <2>1. SlotCount < k /\ i = (k - 2) \div SlotCount
      BY <1>2, <1>4, SlotIs
  <2> DEFINE m == (length - 1) \div SlotCount
  <2>2. m <= i
      BY <1>4
  <2>3. m \in Nat /\ k - 2 \in Nat
      BY <1>1, <2>1
  <2>4. i \in Nat /\ SlotCount * i <= k - 2
      BY <1>1, <2>1, <2>3
  <2>5. length > SlotCount => length <= SlotCount * m + 2
      BY <1>1
  <2> HIDE DEF m
  <2>6. SlotCount * m <= SlotCount * i /\ SlotCount * m \in Nat /\ SlotCount * i \in Nat
      BY <1>1, <2>2, <2>3, <2>4
  <2>7. length <= k
      BY <1>1, <2>1, <2>3, <2>4, <2>5, <2>6
  <2> QED
      BY <1>1, <2>7
<1> QED
    BY <1>3, <1>4

(* A page is mounted, as one free block.                                    *)
LEMMA PagedMore ==
    ASSUME NEW U, NEW F, NEW P, NEW n \in Nat \ {0}, NEW bits, NEW sizes, NEW row,
           NEW p \in DOMAIN bits, p \in DOMAIN sizes, p \notin P, Paged(U, F, P, n, bits, sizes),
           n >= 2 => row[1] = n /\ row[n - 1] = n
    PROVE  Paged(U, F \cup {<<p, 0, n>>}, P \cup {p}, n,
                 [bits EXCEPT ![p] = {-1, n}], [sizes EXCEPT ![p] = row])
<1> DEFINE x == <<p, 0, n>>
           G == F \cup {x}
           nbits == [bits EXCEPT ![p] = {-1, n}]
           nsizes == [sizes EXCEPT ![p] = row]
<1>1. /\ Tiled(U \cup F, P, n) /\ U \cap F = {} /\ Shown(bits, U, P, n)
      /\ Tagged(sizes, F) /\ Joined(F)
    BY DEF Paged
<1>2. x[1] = p /\ x[2] = 0 /\ x[3] = n
    OBVIOUS
<1>3. \A b \in U \cup F : b[1] \in P /\ b[1] # p
    BY <1>1 DEF Tiled
<1>4. /\ nbits[p] = {-1, n} /\ \A q \in P : nbits[q] = bits[q]
      /\ nsizes[p] = row /\ \A q \in P : nsizes[q] = sizes[q]
    OBVIOUS
<1>5. Tiled(U \cup G, P \cup {p}, n)
  <2>1. U \cup G = (U \cup F) \cup {<<p, 0, n>>}
      OBVIOUS
  <2> HIDE DEF G
  <2> QED
      BY <1>1, <2>1, TiledMore
<1> HIDE DEF x, nbits, nsizes
<1>6. U \cap G = {}
    BY <1>1, <1>2, <1>3
<1>7. Shown(nbits, U, P \cup {p}, n)
  <2> SUFFICES ASSUME NEW q \in P \cup {p}, NEW v \in -1 .. n
               PROVE  v \in nbits[q] <=> \/ v = -1 \/ v = n
                                         \/ \E b \in U : b[1] = q /\ (v = b[2] \/ v = b[2] + b[3] - 1)
      BY DEF Shown
  <2>1. CASE q = p
      BY <1>3, <1>4, <2>1
  <2>2. CASE q # p
      BY <1>1, <1>4, <2>2 DEF Shown
  <2> QED
      BY <2>1, <2>2
<1>8. Tagged(nsizes, G)
  <2> SUFFICES ASSUME NEW f \in G, f[3] >= 2
               PROVE  nsizes[f[1]][f[2] + 1] = f[3] /\ nsizes[f[1]][f[2] + f[3] - 1] = f[3]
      BY DEF Tagged
  <2>1. CASE f \in F
      BY <1>1, <1>3, <1>4, <2>1 DEF Tagged
  <2>2. CASE f = x
    <3>1. f[2] + 1 = 1 /\ f[2] + f[3] - 1 = n - 1
        BY <1>2, <2>2
    <3> QED
        BY <1>2, <1>4, <2>2, <3>1
  <2> QED
      BY <2>1, <2>2
<1>9. Joined(G)
  <2> SUFFICES ASSUME NEW a \in G, NEW b \in G, a[1] = b[1], a[2] + a[3] = b[2]
               PROVE  FALSE
      BY DEF Joined
  <2>1. CASE a \in F /\ b \in F
      BY <1>1, <2>1 DEF Joined
  <2>2. CASE a = x /\ b = x
      BY <1>2, <2>2
  <2> QED
      BY <1>2, <1>3, <2>1, <2>2
<1> QED
    BY <1>5, <1>6, <1>7, <1>8, <1>9 DEF Paged, G, x, nbits, nsizes

(* As for the heap of a thread, save that pages may be without a block in   *)
(* use.                                                                     *)
RtosInv ==
    /\ RtosTight
    /\ \E F \in SUBSET (Region \X RtosUnit \X Extents) :
        Paged(taken, F, mounted, RegionBlocks, ends, tags) /\ Listed(F, slot, WhereFiled)

LEMMA FreeAreFiled ==
    ASSUME RtosTight, NEW F \in SUBSET (Region \X RtosUnit \X Extents), Tagged(tags, F),
           Listed(F, slot, WhereFiled)
    PROVE  RtosFree = F
<1> DEFINE length(s, b) == IF s = <<0, 0>> THEN 1 ELSE tags[b[1]][b[2] + 1]
<1>1. DOMAIN slot = SlotId
    BY DEF RtosTight
<1>2. ASSUME NEW f \in F, NEW s, s = WhereFiled[f[3]]
      PROVE  s \in SlotId /\ length(s, <<f[1], f[2]>>) = f[3]
  <2>1. f[3] \in Extents /\ SlotCount \in Nat
      BY RegionAssumption
  <2>2. s \in SlotId /\ (s[1] = 0 => f[3] = s[2] + 1) /\ (s[1] = 1 => SlotCount < f[3])
      BY <1>2, <2>1, SlotIs
  <2>3. s = <<s[1], s[2]>> /\ s[1] \in {0, 1} /\ s[2] \in Nat
      BY <2>1, <2>2 DEF SlotId
  <2>4. CASE s = <<0, 0>>
      BY <2>2, <2>4
  <2>5. CASE s # <<0, 0>>
    <3>1. f[3] >= 2
      <4>1. CASE s[1] = 0
        <5>1. s[2] # 0
            BY <2>3, <2>5, <4>1
        <5> QED
            BY <2>2, <2>3, <4>1, <5>1
      <4>2. CASE s[1] = 1
        <5>1. f[3] \in Nat /\ SlotCount \in Nat \ {0} /\ SlotCount < f[3]
            BY <2>1, <2>2, <4>2, RegionAssumption DEF Extents
        <5> QED
            BY <5>1
      <4> QED
          BY <2>3, <4>1, <4>2
    <3> QED
        BY <2>2, <2>5, <3>1 DEF Tagged
  <2> QED
      BY <2>2, <2>4, <2>5
<1>3. ASSUME NEW f \in F
      PROVE  f \in RtosFree
  <2> DEFINE s == WhereFiled[f[3]]
  <2>1. <<f[1], f[2]>> \in Entries(slot[s])
      BY <1>1, <1>2 DEF Listed
  <2>2. f = <<f[1], f[2], f[3]>>
      OBVIOUS
  <2>3. <<f[1], f[2]>> \in FreeIn(s)
      BY <2>1 DEF Entries, FreeIn
  <2> QED
      BY <1>2, <2>2, <2>3 DEF RtosFree
<1>4. ASSUME NEW b \in RtosFree
      PROVE  b \in F
  <2>1. PICK s \in SlotId : b \in {<<x[1], x[2], length(s, x)>> : x \in FreeIn(s)}
      BY DEF RtosFree
  <2>2. PICK x \in FreeIn(s) : b = <<x[1], x[2], length(s, x)>>
      BY <2>1
  <2>3. x \in Entries(slot[s])
      BY DEF Entries, FreeIn
  <2>4. PICK f \in F : WhereFiled[f[3]] = s /\ x = <<f[1], f[2]>>
      BY <1>1, <2>3 DEF Listed
  <2>5. b = <<f[1], f[2], f[3]>>
      BY <1>2, <2>2, <2>4
  <2>6. f = <<f[1], f[2], f[3]>>
      OBVIOUS
  <2> QED
      BY <2>5, <2>6
<1> QED
    BY <1>3, <1>4

LEMMA FileFreeKeeps ==
    ASSUME NEW lists \in [SlotId -> Seq(Region \X RtosUnit)], NEW F, Listed(F, lists, WhereFiled),
           NEW p \in Region, NEW u \in RtosUnit, NEW k \in Extents,
           \A f \in F : f[1] = p => f[2] # u
    PROVE  /\ FileFree(lists, p, u, k) \in [SlotId -> Seq(Region \X RtosUnit)]
           /\ Listed(F \cup {<<p, u, k>>}, FileFree(lists, p, u, k), WhereFiled)
<1>1. WhereFiled[k] = SlotOf(k) /\ WhereFiled[k] \in SlotId /\ <<p, u>> \in Region \X RtosUnit
    BY SlotIs
<1> DEFINE S == Region \X RtosUnit
           new == FileFree(lists, p, u, k)
<1>2. lists \in ListsOver(SlotId, S) /\ <<p, u>> \in S /\ new = Longer(lists, WhereFiled[k], <<p, u>>)
    BY <1>1 DEF ListsOver, FileFree, Longer
<1> HIDE DEF S, new
<1>3. new \in ListsOver(SlotId, S) /\ Listed(F \cup {<<p, u, k>>}, new, WhereFiled)
    BY <1>1, <1>2, AppendKeeps
<1> QED
    BY <1>3 DEF S, new, ListsOver

(* Nothing is taken out for a neighbour that is not free (length 0).        *)
LEMMA UnfileKeeps ==
    ASSUME NEW lists \in [SlotId -> Seq(Region \X RtosUnit)], NEW F, Listed(F, lists, WhereFiled),
           NEW p, NEW u, NEW k, k = 0 \/ (k \in Extents /\ <<p, u, k>> \in F),
           k # 0 => \A f \in F : f[1] = p /\ f[2] = u => f = <<p, u, k>>
    PROVE  /\ Unfile(lists, p, u, k) \in [SlotId -> Seq(Region \X RtosUnit)]
           /\ Listed(F \ (IF k = 0 THEN {} ELSE {<<p, u, k>>}), Unfile(lists, p, u, k), WhereFiled)
<1>1. CASE k = 0
    BY <1>1 DEF Unfile
<1>2. CASE k # 0
  <2>1. WhereFiled[k] = SlotOf(k) /\ WhereFiled[k] \in SlotId
      BY <1>2, SlotIs
  <2> DEFINE S == Region \X RtosUnit
             new == Unfile(lists, p, u, k)
  <2>2. lists \in ListsOver(SlotId, S) /\ new = Shorter(lists, WhereFiled[k], <<p, u>>)
      BY <1>2, <2>1 DEF ListsOver, Unfile, Shorter, Without
  <2> HIDE DEF S, new
  <2>3. new \in ListsOver(SlotId, S) /\ Listed(F \ {<<p, u, k>>}, new, WhereFiled)
      BY <1>2, <2>1, <2>2, RemoveKeeps
  <2> QED
      BY <1>2, <2>3 DEF S, new, ListsOver
<1> QED
    BY <1>1, <1>2

LEMMA MountKeeps ==
    ASSUME RtosInv, NEW p \in Region, Mount(p)
    PROVE  RtosInv'
<1> DEFINE n == RegionBlocks
           row == SetTags(tags[p], 0, n)
           x == <<p, 0, n>>
<1>1. PICK F \in SUBSET (Region \X RtosUnit \X Extents) :
          Paged(taken, F, mounted, n, ends, tags) /\ Listed(F, slot, WhereFiled)
    BY DEF RtosInv
<1>2. n \in Nat \ {0} /\ RtosUnit = 0 .. n - 1 /\ Extents = 1 .. n
    BY RegionAssumption DEF RtosUnit, Extents
<1>3. RtosTight /\ tags[p] \in Rows(n) /\ p \in DOMAIN ends /\ p \in DOMAIN tags
    BY <1>2 DEF RtosInv, RtosTight, Rows
<1>4. row \in Rows(n) /\ (n >= 2 => row[1] = n /\ row[n - 1] = n)
  <2>1. row = WithTags(tags[p], 0, n)
      BY DEF SetTags, WithTags
  <2> DEFINE z == 0
  <2>2. z \in 0 .. n - 1 /\ n \in 1 .. n /\ z + n <= n
      BY <1>2
  <2>3. n >= 2 => row[z + 1] = n /\ row[z + n - 1] = n
    <3> HIDE DEF row, z
    <3> QED
        BY <1>2, <1>3, <2>1, <2>2, TagRow DEF z
  <2>4. row \in Rows(n)
    <3> HIDE DEF row, z
    <3> QED
        BY <1>2, <1>3, <2>1, <2>2, TagRow DEF z
  <2>5. z + 1 = 1 /\ z + n - 1 = n - 1
      BY <1>2
  <2> QED
      BY <2>3, <2>4, <2>5
<1>5. /\ p \notin mounted /\ mounted' = mounted \cup {p} /\ taken' = taken
      /\ mistaken' = mistaken /\ ends' = [ends EXCEPT ![p] = {-1, n}] /\ tags' = [tags EXCEPT ![p] = row]
      /\ slot' = FileFree(slot, p, 0, n)
    BY DEF Mount, Edge
<1> HIDE DEF row
<1>6. Paged(taken', F \cup {x}, mounted', n, ends', tags')
  <2>1. Paged(taken, F \cup {<<p, 0, n>>}, mounted \cup {p}, n,
              [ends EXCEPT ![p] = {-1, n}], [tags EXCEPT ![p] = row])
      BY <1>1, <1>2, <1>3, <1>4, <1>5, PagedMore
  <2> QED
      BY <1>5, <2>1
<1>7. 0 \in RtosUnit /\ n \in Extents
    BY <1>2
<1>8. \A f \in F : f[1] # p
    BY <1>1, <1>5 DEF Paged, Tiled
<1>9. /\ slot' \in [SlotId -> Seq(Region \X RtosUnit)] /\ Listed(F \cup {x}, slot', WhereFiled)
  <2>1. slot \in [SlotId -> Seq(Region \X RtosUnit)]
      BY <1>3 DEF RtosTight
  <2> QED
      BY <1>1, <1>5, <1>7, <1>8, <2>1, FileFreeKeeps
<1>10. RtosTight'
  <2>1. ends' \in [Region -> SUBSET (RtosUnit \cup Edge)]
      BY <1>3, <1>5 DEF RtosTight, Edge
  <2>2. tags' \in [Region -> [RtosUnit -> 0 .. n]]
      BY <1>2, <1>3, <1>4, <1>5 DEF RtosTight, Rows
  <2> QED
      BY <1>3, <1>5, <1>9, <2>1, <2>2 DEF RtosTight
<1>11. F \cup {x} \in SUBSET (Region \X RtosUnit \X Extents)
    BY <1>7
<1> QED
    BY <1>6, <1>9, <1>10, <1>11 DEF RtosInv

(* The list that alloc takes from: one for the length asked for or a longer *)
(* one, and not empty.                                                      *)
LEMMA TakenFrom ==
    ASSUME NEW length \in Request, Take(length)
    PROVE  \E level \in {0, 1}, i \in 0 .. SlotCount - 1 :
             /\ (IF level = 0 THEN length - 1 ELSE (length - 1) \div SlotCount) <= i
             /\ <<level, i>> \in SlotId /\ slot[<<level, i>>] # <<>>
             /\ RtosTakeOut(<<level, i>>, length)
<1> DEFINE lv   == IF Fitting(0, length) # {} THEN 0 ELSE 1
           from == IF lv = 0 THEN length - 1 ELSE (length - 1) \div SlotCount
<1>1. PICK k \in Fitting(lv, length) : RtosTakeOut(<<lv, k>>, length)
    BY DEF Take
<1>2. SlotCount \in Nat \ {0} /\ length - 1 \in Nat
    BY RegionAssumption
<1>3. from \in Nat
    BY <1>2, DivMonotone
<1>4. k \in from .. SlotCount - 1 /\ slot[<<lv, k>>] # <<>> /\ lv \in {0, 1}
    BY <1>1 DEF Fitting
<1> HIDE DEF lv
<1>5. from <= k /\ k \in 0 .. SlotCount - 1
  <2> HIDE DEF from
  <2> QED
      BY <1>2, <1>3, <1>4
<1>6. <<lv, k>> \in SlotId
    BY <1>4, <1>5 DEF SlotId
<1> QED
    BY <1>1, <1>4, <1>5, <1>6

(* The first block of a list is a free block, and its length is the one it  *)
(* carries, or 1 in the list for single units.                              *)
LEMMA FirstIs ==
    ASSUME RtosInv, NEW s \in SlotId, slot[s] # <<>>
    PROVE  \E f \in Region \X RtosUnit \X Extents :
             /\ WhereFiled[f[3]] = s /\ Head(slot[s]) = <<f[1], f[2]>> /\ FirstLength(s) = f[3]
             /\ s # <<0, 0>> => f[3] >= 2 /\ tags[f[1]][f[2] + 1] = f[3]
<1>1. PICK F \in SUBSET (Region \X RtosUnit \X Extents) :
          Paged(taken, F, mounted, RegionBlocks, ends, tags) /\ Listed(F, slot, WhereFiled)
    BY DEF RtosInv
<1>2. s \in DOMAIN slot /\ slot[s] \in Seq(Region \X RtosUnit)
    BY DEF RtosInv, RtosTight
<1>3. Head(slot[s]) \in Entries(slot[s])
  <2>1. 1 \in DOMAIN slot[s] /\ slot[s][1] = Head(slot[s])
      BY <1>2
  <2> QED
      BY <2>1 DEF Entries
<1>4. PICK f \in F : WhereFiled[f[3]] = s /\ Head(slot[s]) = <<f[1], f[2]>>
    BY <1>1, <1>2, <1>3 DEF Listed
<1>5. f[3] \in Extents /\ Extents \subseteq Nat /\ SlotCount \in Nat \ {0}
    BY RegionAssumption DEF Extents
<1>6. f[3] >= 2 => tags[f[1]][f[2] + 1] = f[3]
    BY <1>1 DEF Paged, Tagged
<1>7. (s[1] = 0 => f[3] = s[2] + 1) /\ (s[1] = 1 => SlotCount < f[3])
    BY <1>4, <1>5, SlotIs
<1>8. CASE s = <<0, 0>>
  <2>1. f[3] = 1
      BY <1>5, <1>7, <1>8
  <2>2. FirstLength(s) = 1
      BY <1>8 DEF FirstLength
  <2> QED
      BY <1>4, <1>8, <2>1, <2>2
<1>9. CASE s # <<0, 0>>
  <2>1. PICK level \in {0, 1}, i \in 0 .. SlotCount - 1 : s = <<level, i>>
      BY DEF SlotId
  <2>2. level = 0 => f[3] = i + 1 /\ i # 0
      BY <1>7, <1>9, <2>1
  <2>3. level = 1 => SlotCount < f[3]
      BY <1>7, <2>1
  <2>4. f[3] >= 2
    <3>1. f[3] \in Nat
        BY <1>5
    <3>2. SlotCount \in Nat /\ SlotCount >= 1
        BY RegionAssumption
    <3>3. i \in Nat
        BY <3>2
    <3> QED
        BY <2>1, <2>2, <2>3, <3>1, <3>2, <3>3
  <2> QED
      BY <1>4, <1>6, <1>9, <2>4 DEF FirstLength
<1> QED
    BY <1>8, <1>9

(* alloc, where the block found fits what was asked for                     *)
LEMMA TakeKeeps ==
    ASSUME RtosInv, NEW length \in Request, Take(length), ~mistaken'
    PROVE  RtosInv'
<1> DEFINE n == RegionBlocks
<1>1. PICK F \in SUBSET (Region \X RtosUnit \X Extents) :
          Paged(taken, F, mounted, n, ends, tags) /\ Listed(F, slot, WhereFiled)
    BY DEF RtosInv
<1>2. /\ Tiled(taken \cup F, mounted, n) /\ taken \cap F = {} /\ Shown(ends, taken, mounted, n)
      /\ Tagged(tags, F) /\ Joined(F)
    BY <1>1 DEF Paged
<1>3. /\ RtosTight /\ slot \in [SlotId -> Seq(Region \X RtosUnit)]
      /\ ends \in [Region -> SUBSET (RtosUnit \cup Edge)]
      /\ tags \in [Region -> [RtosUnit -> 0 .. n]]
      /\ taken \subseteq Region \X RtosUnit \X Request
    BY DEF RtosInv, RtosTight
<1>4. n \in Nat \ {0} /\ RtosUnit = 0 .. n - 1 /\ Extents = 1 .. n /\ Request \subseteq 1 .. n
      /\ SlotCount \in Nat \ {0}
    BY RegionAssumption DEF RtosUnit, Extents
<1>5. PICK level \in {0, 1}, i \in 0 .. SlotCount - 1 :
        /\ (IF level = 0 THEN length - 1 ELSE (length - 1) \div SlotCount) <= i
        /\ <<level, i>> \in SlotId /\ slot[<<level, i>>] # <<>>
        /\ RtosTakeOut(<<level, i>>, length)
    BY TakenFrom
<1> DEFINE s == <<level, i>>
           lists == [slot EXCEPT ![s] = Tail(slot[s])]
           p == Head(slot[s])[1]
           u == Head(slot[s])[2]
<1>6. /\ lists \in [SlotId -> Seq(Region \X RtosUnit)]
      /\ \E f \in F : /\ WhereFiled[f[3]] = s /\ Head(slot[s]) = <<f[1], f[2]>>
                      /\ Listed(F \ {f}, lists, WhereFiled)
  <2>1. \A f, g \in F : f[1] = g[1] /\ f[2] = g[2] => f = g
      BY <1>2, <1>4, FreeAlone
  <2>2. \A f \in F : f = <<f[1], f[2], f[3]>>
      OBVIOUS
  <2> DEFINE S == Region \X RtosUnit
  <2>3. slot \in ListsOver(SlotId, S) /\ lists = Popped(slot, s)
      BY <1>3 DEF ListsOver, Popped
  <2>4. s \in SlotId /\ slot[s] # <<>>
      BY <1>5
  <2> HIDE DEF lists, S, s
  <2>5. /\ lists \in ListsOver(SlotId, S)
        /\ \E f \in F : /\ WhereFiled[f[3]] = s /\ Head(slot[s]) = <<f[1], f[2]>>
                        /\ Listed(F \ {f}, lists, WhereFiled)
      BY <1>1, <2>1, <2>2, <2>3, <2>4, TailKeeps
  <2> QED
      BY <2>5 DEF S, ListsOver
<1>7. PICK f \in F : /\ WhereFiled[f[3]] = s /\ Head(slot[s]) = <<f[1], f[2]>>
                     /\ Listed(F \ {f}, lists, WhereFiled)
    BY <1>6
<1>8. /\ f = <<f[1], f[2], f[3]>> /\ p = f[1] /\ u = f[2] /\ f[1] \in Region /\ f[2] \in RtosUnit
      /\ f[3] \in Extents
    BY <1>7
<1>9. f[2] + f[3] <= n
    BY <1>2, <1>8 DEF Tiled
<1>10. length \in 1 .. f[3] /\ (IF length = 1 THEN 1 ELSE tags[f[1]][f[2] + 1]) = f[3]
  <2>1. ~Misfit(s, length)
      BY <1>5 DEF RtosTakeOut
  <2>2. PICK g \in Region \X RtosUnit \X Extents :
            /\ WhereFiled[g[3]] = s /\ Head(slot[s]) = <<g[1], g[2]>> /\ FirstLength(s) = g[3]
            /\ s # <<0, 0>> => g[3] >= 2 /\ tags[g[1]][g[2] + 1] = g[3]
      BY <1>5, FirstIs
  <2>3. g[1] = f[1] /\ g[2] = f[2]
      BY <1>7, <2>2
  <2>4. length \in Nat /\ length >= 1 /\ f[3] \in Nat /\ g[3] \in Nat
      BY <1>4, <1>8, <2>2
  <2>5. ~(g[3] < length) /\ ~(length = 1 /\ g[3] > 1)
      BY <2>1, <2>2 DEF Misfit
  <2>6. CASE s = <<0, 0>>
    <3>1. f[3] = 1 /\ g[3] = 1
        BY <1>7, <1>8, <2>2, <2>6, SlotIs
    <3> QED
        BY <2>4, <2>5, <3>1
  <2>7. CASE s # <<0, 0>>
    <3>1. f[3] >= 2
      <4>1. level = 0 => f[3] = i + 1 /\ i # 0
          BY <1>7, <1>8, <2>7, SlotIs
      <4>2. level = 1 => SlotCount < f[3]
          BY <1>7, <1>8, SlotIs
      <4> QED
          BY <1>4, <1>5, <1>8, <4>1, <4>2
    <3>2. tags[f[1]][f[2] + 1] = f[3]
        BY <1>2, <3>1 DEF Tagged
    <3>3. g[3] = f[3]
        BY <2>2, <2>3, <2>7, <3>2
    <3> QED
        BY <2>4, <2>5, <3>1, <3>2, <3>3
  <2> QED
      BY <2>6, <2>7
<1> DEFINE total == f[3]
           rest  == total - length
           over  == Scribble(tags[f[1]], f[2], length)
           row   == IF total > length THEN WithTags(over, f[2] + length, rest) ELSE over
           R     == IF total > length THEN {<<f[1], f[2] + length, rest>>} ELSE {}
           y     == <<f[1], f[2], length>>
           G     == F \ {f}
<1>11. /\ taken' = taken \cup {y} /\ mounted' = mounted /\ mistaken' = FALSE
       /\ ends' = [ends EXCEPT ![f[1]] = ends[f[1]] \cup {f[2], f[2] + length - 1}]
       /\ slot' = IF total > length THEN FileFree(lists, f[1], f[2] + length, rest) ELSE lists
       /\ tags' = [tags EXCEPT ![f[1]] = row]
  <2>1. /\ RtosTakeOut(s, length) /\ (IF length = 1 THEN 1 ELSE tags[f[1]][f[2] + 1]) = f[3]
        /\ Head(slot[s])[1] = f[1] /\ Head(slot[s])[2] = f[2]
        /\ f[3] \in Nat /\ length \in Nat /\ length <= f[3]
      BY <1>4, <1>5, <1>8, <1>9, <1>10
  <2> DEFINE c == Rest(f[1], f[2], f[3], length)
  <2>5. mistaken' = FALSE
      BY <1>5 DEF RtosTakeOut, Misfit
  <2>2. /\ taken' = taken \cup {y} /\ mounted' = mounted
        /\ ends' = MarkInUse(f[1], f[2], length)
        /\ slot' = IF c[3] = 0 THEN lists ELSE FileFree(lists, f[1], c[2], c[3])
        /\ tags' = [tags EXCEPT ![f[1]] = SetTags(over, c[2], c[3])]
    <3> HIDE DEF s, total, rest, row
    <3> QED
        BY <2>1 DEF RtosTakeOut
  <2>3. CASE total > length
    <3>1. c = <<f[1], f[2] + length, rest>> /\ rest # 0
        BY <2>1, <2>3 DEF Rest
    <3>2. SetTags(over, f[2] + length, rest) = row
        BY <2>1, <2>3 DEF SetTags, WithTags
    <3> HIDE DEF row, rest, over, lists, c
    <3> QED
        BY <2>2, <2>3, <2>5, <3>1, <3>2 DEF MarkInUse
  <2>4. CASE ~(total > length)
    <3>1. c = <<f[1], f[2], 0>>
        BY <2>1, <2>4 DEF Rest
    <3>2. SetTags(over, f[2], 0) = row
        BY <2>1, <2>4 DEF SetTags
    <3> HIDE DEF row, over, lists, c
    <3> QED
        BY <2>2, <2>4, <2>5, <3>1, <3>2 DEF MarkInUse
  <2> QED
      BY <2>3, <2>4
<1>12. /\ row \in Rows(n) /\ KeptOutside(row, tags[f[1]], n, f[2], total)
       /\ rest >= 2 => row[f[2] + length + 1] = rest /\ row[f[2] + total - 1] = rest
  <2>1. tags[f[1]] \in Rows(n)
      BY <1>3, <1>4, <1>8 DEF Rows
  <2>2. over \in Rows(n) /\ KeptOutside(over, tags[f[1]], n, f[2], length)
      BY <1>4, <2>1 DEF Rows, Scribble, KeptOutside
  <2>3. f[2] \in 0 .. n - 1 /\ total \in 1 .. n /\ f[2] + total <= n /\ length \in 1 .. total
      BY <1>4, <1>8, <1>9, <1>10
  <2>4. /\ total > length => row = WithTags(over, f[2] + length, total - length)
        /\ ~(total > length) => row = over
      OBVIOUS
  <2>5. n \in Nat
      BY <1>4
  <2> HIDE DEF over, row, total
  <2>6. /\ row \in Rows(n) /\ KeptOutside(row, tags[f[1]], n, f[2], total)
        /\ total - length >= 2 =>
              row[f[2] + length + 1] = total - length /\ row[f[2] + total - 1] = total - length
      BY <2>1, <2>2, <2>3, <2>4, <2>5, CutRow
  <2> QED
      BY <2>6
<1>13. f[1] \in DOMAIN ends /\ f[1] \in DOMAIN tags
    BY <1>3, <1>8
<1>14. /\ <<f[1], f[2], total>> \notin taken \cup G /\ taken \cap G = {} /\ Tagged(tags, G)
       /\ taken \cup G \cup {<<f[1], f[2], total>>} = taken \cup F
       /\ G \cup {<<f[1], f[2], total>>} = F
    BY <1>2, <1>8 DEF Tagged
<1>15. length \in 1 .. total
    BY <1>10
<1> HIDE DEF row, over, lists, G
<1>16. Paged(taken', G \cup R, mounted', n, ends', tags')
  <2>1. Tiled(taken \cup G \cup {<<f[1], f[2], total>>}, mounted, n)
      BY <1>2, <1>14
  <2>2. Joined(G \cup {<<f[1], f[2], total>>})
      BY <1>2, <1>14
  <2>3. R = IF total > length THEN {<<f[1], f[2] + length, total - length>>} ELSE {}
      OBVIOUS
  <2>4. total - length >= 2 =>
          row[f[2] + length + 1] = total - length /\ row[f[2] + total - 1] = total - length
      BY <1>12
  <2> HIDE DEF R, rest
  <2>5. Paged(taken \cup {<<f[1], f[2], length>>}, G \cup R, mounted, n,
              [ends EXCEPT ![f[1]] = ends[f[1]] \cup {f[2], f[2] + length - 1}],
              [tags EXCEPT ![f[1]] = row])
      BY <1>2, <1>4, <1>12, <1>13, <1>14, <1>15, <2>1, <2>2, <2>3, <2>4, PagedCut
  <2> QED
      BY <1>11, <2>5
<1>17. total > length => f[2] + length \in RtosUnit /\ rest \in Extents
    BY <1>4, <1>8, <1>9, <1>10
<1>18. G \cup R \in SUBSET (Region \X RtosUnit \X Extents)
    BY <1>8, <1>17 DEF G
<1>19. Listed(G \cup R, slot', WhereFiled) /\ slot' \in [SlotId -> Seq(Region \X RtosUnit)]
  <2>1. Listed(G, lists, WhereFiled) /\ lists \in [SlotId -> Seq(Region \X RtosUnit)]
      BY <1>6, <1>7 DEF G
  <2>2. CASE total > length
    <3>1. ASSUME NEW g \in G, g[1] = f[1], g[2] = f[2] + length
          PROVE  FALSE
      <4>1. g # f /\ g \in taken \cup F /\ f \in taken \cup F /\ g \in F
          BY DEF G
      <4>2. g[2] + g[3] <= f[2] \/ f[2] + f[3] <= g[2]
          BY <1>2, <3>1, <4>1 DEF Tiled
      <4>3. g[3] \in Extents
          BY <4>1
      <4> QED
          BY <1>4, <1>8, <1>9, <2>2, <3>1, <4>2, <4>3
    <3>2. R = {<<f[1], f[2] + length, rest>>} /\ slot' = FileFree(lists, f[1], f[2] + length, rest)
        BY <1>11, <2>2
    <3>3. f[1] \in Region /\ f[2] + length \in RtosUnit /\ rest \in Extents
        BY <1>8, <1>17, <2>2
    <3>4. \A g \in G : g[1] = f[1] => g[2] # f[2] + length
        BY <3>1
    <3> HIDE DEF R, rest
    <3> QED
        BY <2>1, <3>2, <3>3, <3>4, FileFreeKeeps
  <2>3. CASE ~(total > length)
      BY <1>11, <2>1, <2>3
  <2> QED
      BY <2>2, <2>3
<1>20. RtosTight'
  <2>1. ends' \in [Region -> SUBSET (RtosUnit \cup Edge)]
    <3>1. f[2] \in RtosUnit /\ f[2] + length - 1 \in RtosUnit
        BY <1>4, <1>8, <1>9, <1>10
    <3>2. ends[f[1]] \cup {f[2], f[2] + length - 1} \in SUBSET (RtosUnit \cup Edge)
        BY <1>3, <1>8, <3>1
    <3> QED
        BY <1>3, <1>11, <3>2
  <2>2. tags' \in [Region -> [RtosUnit -> 0 .. n]]
      BY <1>3, <1>4, <1>11, <1>12 DEF Rows
  <2>3. taken' \subseteq Region \X RtosUnit \X Request
      BY <1>3, <1>8, <1>11
  <2> QED
      BY <1>3, <1>11, <1>19, <2>1, <2>2, <2>3 DEF RtosTight
<1> QED
    BY <1>16, <1>18, <1>19, <1>20 DEF RtosInv

(* free                                                                     *)
LEMMA GiveBackKeeps ==
    ASSUME RtosInv, NEW p, NEW u, NEW length, GiveBack(p, u, length)
    PROVE  RtosInv'
<1> DEFINE n == RegionBlocks
           e     == u + length
           left  == FreeLeftOf(p, u)
           right == FreeRightOf(p, u + length)
           size  == left + length + right
           V     == taken \ {<<p, u, length>>}
<1>1. PICK F \in SUBSET (Region \X RtosUnit \X Extents) :
          Paged(taken, F, mounted, n, ends, tags) /\ Listed(F, slot, WhereFiled)
    BY DEF RtosInv
<1>2. /\ Tiled(taken \cup F, mounted, n) /\ taken \cap F = {} /\ Shown(ends, taken, mounted, n)
      /\ Tagged(tags, F) /\ Joined(F)
    BY <1>1 DEF Paged
<1>3. /\ RtosTight /\ slot \in [SlotId -> Seq(Region \X RtosUnit)]
      /\ ends \in [Region -> SUBSET (RtosUnit \cup Edge)]
      /\ tags \in [Region -> [RtosUnit -> 0 .. n]]
      /\ taken \subseteq Region \X RtosUnit \X Request
    BY DEF RtosInv, RtosTight
<1>4. n \in Nat \ {0} /\ RtosUnit = 0 .. n - 1 /\ Extents = 1 .. n /\ Request \subseteq 1 .. n
    BY RegionAssumption DEF RtosUnit, Extents
<1>5. <<p, u, length>> \in taken /\ taken' = V /\ mounted' = mounted /\ mistaken' = mistaken
    BY DEF GiveBack
<1>6. p \in Region /\ u \in RtosUnit /\ length \in 1 .. n
    BY <1>3, <1>4, <1>5
<1>7. \/ left = 0 /\ \A f \in F : f[1] = p => f[2] + f[3] # u
      \/ left \in 1 .. n /\ <<p, u - left, left>> \in F
  <2>1. left = IF u - 1 \in ends[p] THEN 0 ELSE IF u - 2 \in ends[p] THEN 1 ELSE tags[p][u - 1]
      BY DEF FreeLeftOf
  <2> HIDE DEF left
  <2> QED
      BY <1>2, <1>4, <1>5, <2>1, LeftTold
<1>8. \/ right = 0 /\ \A f \in F : f[1] = p => f[2] # u + length
      \/ right \in 1 .. n /\ <<p, u + length, right>> \in F
  <2>1. right = IF e \in ends[p] THEN 0 ELSE IF e + 1 \in ends[p] THEN 1 ELSE tags[p][e + 1]
      BY DEF FreeRightOf
  <2>2. e = u + length
      OBVIOUS
  <2> HIDE DEF right, e
  <2>3. \/ right = 0 /\ \A f \in F : f[1] = p => f[2] # e
        \/ right \in 1 .. n /\ <<p, e, right>> \in F
      BY <1>2, <1>4, <1>5, <2>1, <2>2, RightTold
  <2> QED
      BY <2>2, <2>3
<1> DEFINE begin   == u - left
           l       == <<p, begin, left>>
           r       == <<p, e, right>>
           x       == <<p, begin, size>>
           F1      == F \ (IF left = 0 THEN {} ELSE {<<p, u - left, left>>})
           G       == F1 \ (IF right = 0 THEN {} ELSE {<<p, u + length, right>>})
           noLeft  == Unfile(slot, p, begin, left)
           noRight == Unfile(noLeft, p, e, right)
           row     == SetTags(tags[p], begin, size)
<1>9. JoinedAt(taken, V, G, mounted, n, ends, tags, p, u, length, begin, size)
  <2>1. p \in DOMAIN ends /\ p \in DOMAIN tags
      BY <1>3, <1>6
  <2>2. V = taken \ {<<p, u, length>>} /\ size = left + length + right
      OBVIOUS
  <2>3. G = (F \ (IF left = 0 THEN {} ELSE {<<p, u - left, left>>}))
               \ (IF right = 0 THEN {} ELSE {<<p, u + length, right>>})
      OBVIOUS
  <2> HIDE DEF left, right, V, G, size, F1
  <2> QED
      BY <1>1, <1>4, <1>5, <1>7, <1>8, <2>1, <2>2, <2>3, PagedJoin
<1>10. ASSUME NEW f \in F, NEW g \in F, f[1] = g[1], f[2] = g[2]
       PROVE  f = g
    BY <1>2, <1>4, <1>10, FreeAlone
<1>11. Listed(F1, noLeft, WhereFiled) /\ noLeft \in [SlotId -> Seq(Region \X RtosUnit)]
       /\ F1 \subseteq F
  <2>1. left = 0 \/ (left \in Extents /\ l \in F)
    <3>1. left # 0 => left \in 1 .. n /\ l \in F
        BY <1>7
    <3> HIDE DEF left, l
    <3> QED
        BY <1>4, <3>1
  <2>2. left # 0 => \A f \in F : f[1] = p /\ f[2] = begin => f = l
    <3>1. l[1] = p /\ l[2] = begin
        OBVIOUS
    <3> HIDE DEF l
    <3> QED
        BY <1>10, <2>1, <3>1
  <2>3. F1 = F \ (IF left = 0 THEN {} ELSE {<<p, begin, left>>})
      OBVIOUS
  <2> HIDE DEF F1, left, begin
  <2> QED
      BY <1>1, <1>3, <2>1, <2>2, <2>3, UnfileKeeps
<1>12. Listed(G, noRight, WhereFiled) /\ noRight \in [SlotId -> Seq(Region \X RtosUnit)]
       /\ G \subseteq F
  <2>1. right = 0 \/ (right \in Extents /\ r \in F1)
    <3>1. left # 0 => begin # e
        BY <1>4, <1>6, <1>7
    <3>2. left # 0 => l # r
        BY <3>1
    <3>3. right # 0 => right \in 1 .. n /\ r \in F
        BY <1>8
    <3>4. r \in F => r \in F1
        BY <3>2
    <3> HIDE DEF right, r, F1
    <3> QED
        BY <1>4, <3>3, <3>4
  <2>2. right # 0 => \A f \in F1 : f[1] = p /\ f[2] = e => f = r
    <3>1. r[1] = p /\ r[2] = e
        OBVIOUS
    <3> HIDE DEF r, e
    <3> QED
        BY <1>10, <1>11, <2>1, <3>1
  <2>3. G = F1 \ (IF right = 0 THEN {} ELSE {<<p, e, right>>})
      OBVIOUS
  <2> HIDE DEF F1, G, right, e, noLeft
  <2>4. Listed(G, noRight, WhereFiled) /\ noRight \in [SlotId -> Seq(Region \X RtosUnit)]
      BY <1>11, <2>1, <2>2, <2>3, UnfileKeeps
  <2> QED
      BY <1>11, <2>3, <2>4
<1>13. /\ ends' = [ends EXCEPT ![p] = ends[p] \ {u, u + length - 1}]
       /\ tags' = [tags EXCEPT ![p] = row]
       /\ slot' = FileFree(noRight, p, begin, size)
    BY DEF GiveBack, MarkFree
<1>14. V \subseteq Region \X RtosUnit \X Request
       /\ G \in SUBSET (Region \X RtosUnit \X Extents)
    BY <1>3, <1>12
<1>15. begin \in 0 .. n - 1 /\ size \in 1 .. n /\ begin + size <= n
       /\ \A f \in G : f[1] = p => f[2] # begin
  <2> HIDE DEF left, right, size, begin, V, G, F1
  <2> QED
      BY <1>9 DEF JoinedAt
<1>16. begin \in RtosUnit /\ size \in Extents
    BY <1>4, <1>15
<1> HIDE DEF left, right, size, begin, V, G, F1, noLeft, noRight
<1>17. /\ row \in Rows(n) /\ KeptOutside(row, tags[p], n, begin, size)
       /\ size >= 2 => row[begin + 1] = size /\ row[begin + size - 1] = size
  <2>1. tags[p] \in Rows(n)
      BY <1>3, <1>4, <1>6 DEF Rows
  <2>2. row = WithTags(tags[p], begin, size)
      BY DEF SetTags, WithTags
  <2> HIDE DEF row
  <2> QED
      BY <1>4, <1>15, <2>1, <2>2, TagRow
<1> HIDE DEF row
<1>18. Paged(taken', G \cup {x}, mounted', n, ends', tags')
  <2>1. Paged(V, G \cup {x}, mounted, n, [ends EXCEPT ![p] = ends[p] \ {u, u + length - 1}],
              [tags EXCEPT ![p] = row])
      BY <1>9, <1>17 DEF JoinedAt
  <2> QED
      BY <1>5, <1>13, <2>1
<1>19. Listed(G \cup {x}, slot', WhereFiled) /\ slot' \in [SlotId -> Seq(Region \X RtosUnit)]
    BY <1>6, <1>12, <1>13, <1>15, <1>16, FileFreeKeeps
<1>20. RtosTight'
  <2>1. ends' \in [Region -> SUBSET (RtosUnit \cup Edge)]
      BY <1>3, <1>13
  <2>2. tags' \in [Region -> [RtosUnit -> 0 .. n]]
      BY <1>3, <1>4, <1>13, <1>17 DEF Rows
  <2> QED
      BY <1>3, <1>5, <1>14, <1>19, <2>1, <2>2 DEF RtosTight
<1>21. G \cup {x} \in SUBSET (Region \X RtosUnit \X Extents)
    BY <1>6, <1>14, <1>16
<1> QED
    BY <1>18, <1>19, <1>20, <1>21 DEF RtosInv

LEMMA RtosStarts == RtosInit => RtosInv
<1> SUFFICES ASSUME RtosInit PROVE RtosInv
    OBVIOUS
<1>1. RegionBlocks \in Nat \ {0} /\ RtosUnit = 0 .. RegionBlocks - 1
    BY RegionAssumption DEF RtosUnit
<1>2. RtosTight
  <2>1. [u \in RtosUnit |-> 0] \in [RtosUnit -> 0 .. RegionBlocks]
      BY <1>1
  <2>2. tags \in [Region -> [RtosUnit -> 0 .. RegionBlocks]]
      BY <2>1 DEF RtosInit
  <2>3. slot \in [SlotId -> Seq(Region \X RtosUnit)]
      BY DEF RtosInit
  <2> QED
      BY <2>2, <2>3 DEF RtosInit, RtosTight
<1>3. Paged(taken, {}, mounted, RegionBlocks, ends, tags)
    BY DEF RtosInit, Paged, Tiled, Shown, Tagged, Joined
<1>4. Listed({}, slot, WhereFiled)
  <2>1. \A s \in DOMAIN slot : slot[s] = <<>>
      BY DEF RtosInit
  <2>2. OnlyOnce(<<>>) /\ Entries(<<>>) = {}
      BY DEF OnlyOnce, Entries
  <2> QED
      BY <2>1, <2>2 DEF Listed
<1> QED
    BY <1>2, <1>3, <1>4 DEF RtosInv

(* The marks of blocks that fit are marks of units and of the sentinels.    *)
LEMMA TightIsTyped == RtosTight => RtosTypeOK
<1>1. RtosUnit \cup Edge \subseteq -1 .. 2 * RegionBlocks
    BY RegionAssumption DEF RtosUnit, Edge
<1> QED
    BY <1>1 DEF RtosTight, RtosTypeOK

(* A take whose block leaves no rest to put back changes no more than the   *)
(* list it came from and its marks.                                         *)
LeavesNoRest(s, length, p, u) ==
    /\ RtosTakeOut(s, length) /\ Head(slot[s])[1] = p /\ Head(slot[s])[2] = u
    /\ Rest(p, u, IF length = 1 THEN 1 ELSE tags[p][u + 1], length)[3] = 0

(* The step of such a take.                                                 *)
LEMMA NoRest ==
    ASSUME NEW s, NEW length, NEW p, NEW u, LeavesNoRest(s, length, p, u)
    PROVE  /\ taken' = taken \cup {<<p, u, length>>} /\ mounted' = mounted
           /\ ends' = [ends EXCEPT ![p] = ends[p] \cup {u, u + length - 1}]
           /\ slot' = [slot EXCEPT ![s] = Tail(slot[s])]
           /\ tags' = [tags EXCEPT ![p] = Scribble(tags[p], u, length)]
<1> DEFINE c    == Rest(p, u, IF length = 1 THEN 1 ELSE tags[p][u + 1], length)
           over == Scribble(tags[p], u, length)
<1>1. /\ taken' = taken \cup {<<p, u, length>>} /\ mounted' = mounted
      /\ ends' = MarkInUse(p, u, length)
      /\ slot' = IF c[3] = 0 THEN [slot EXCEPT ![s] = Tail(slot[s])]
                ELSE FileFree([slot EXCEPT ![s] = Tail(slot[s])], p, c[2], c[3])
      /\ tags' = [tags EXCEPT ![p] = SetTags(over, c[2], c[3])]
    BY DEF RtosTakeOut, LeavesNoRest
<1>2. SetTags(over, c[2], 0) = over
    BY DEF SetTags
<1>3. c[3] = 0
    BY DEF LeavesNoRest
<1> QED
    BY <1>1, <1>2, <1>3 DEF MarkInUse

(* A block that does not fit leaves no rest, and the types are kept.        *)
LEMMA TakeTyped ==
    ASSUME RtosInv, NEW length \in Request, Take(length)
    PROVE  RtosTypeOK'
<1>1. CASE ~mistaken'
  <2>1. (RtosTight => RtosTypeOK)'
      BY TightIsTyped, PTL
  <2> QED
      BY <1>1, <2>1, TakeKeeps DEF RtosInv
<1>2. CASE mistaken'
  <2>1. PICK level \in {0, 1}, i \in 0 .. SlotCount - 1 :
          /\ (IF level = 0 THEN length - 1 ELSE (length - 1) \div SlotCount) <= i
          /\ <<level, i>> \in SlotId /\ slot[<<level, i>>] # <<>>
          /\ RtosTakeOut(<<level, i>>, length)
      BY TakenFrom
  <2> DEFINE s == <<level, i>>
  <2>2. PICK f \in Region \X RtosUnit \X Extents :
          /\ WhereFiled[f[3]] = s /\ Head(slot[s]) = <<f[1], f[2]>> /\ FirstLength(s) = f[3]
          /\ s # <<0, 0>> => f[3] >= 2 /\ tags[f[1]][f[2] + 1] = f[3]
      BY <2>1, FirstIs
  <2> DEFINE p == f[1]
             u == f[2]
             n == RegionBlocks
             over == Scribble(tags[p], u, length)
             real == IF length = 1 THEN 1 ELSE tags[p][u + 1]
  <2>4. /\ p \in Region /\ u \in RtosUnit /\ f[3] \in 1 .. n /\ n \in Nat /\ n >= 1
        /\ length \in 1 .. n /\ RtosUnit = 0 .. n - 1 /\ SlotCount \in Nat
      BY RegionAssumption DEF Extents, RtosUnit
  <2>5. s = <<0, 0>> => length = 1
    <3>1. s = <<0, 0>> => level = 0 /\ i = 0
        OBVIOUS
    <3> QED
        BY <2>1, <2>4, <3>1
  <2>7. f[3] < length \/ (length = 1 /\ f[3] > 1)
      BY <1>2, <2>1, <2>2 DEF RtosTakeOut, Misfit
  <2>8. Rest(p, u, real, length)[3] = 0
    <3>1. CASE length = 1
        BY <3>1 DEF Rest
    <3>2. CASE length # 1 /\ s # <<0, 0>>
      <4>1. real = f[3] /\ ~(real > length)
          BY <2>2, <2>4, <2>7, <3>2
      <4> HIDE DEF real
      <4> QED
          BY <4>1 DEF Rest
    <3> QED
        BY <2>5, <3>1, <3>2
  <2>9. /\ taken' = taken \cup {<<p, u, length>>} /\ mounted' = mounted
        /\ ends' = [ends EXCEPT ![p] = ends[p] \cup {u, u + length - 1}]
        /\ slot' = [slot EXCEPT ![s] = Tail(slot[s])]
        /\ tags' = [tags EXCEPT ![p] = over]
    <3>1. Head(slot[s])[1] = p /\ Head(slot[s])[2] = u
        BY <2>2
    <3>2. RtosTakeOut(s, length)
        BY <2>1
    <3>3. Rest(p, u, IF length = 1 THEN 1 ELSE tags[p][u + 1], length)[3] = 0
        BY <2>8
    <3>4. LeavesNoRest(s, length, p, u)
        BY <3>1, <3>2, <3>3 DEF LeavesNoRest
    <3> HIDE DEF s, p, u
    <3> QED
        BY <3>4, NoRest
  <2>10. mistaken' \in BOOLEAN
      BY <2>1 DEF RtosTakeOut, Misfit
  <2>11. /\ ends \in [Region -> SUBSET (RtosUnit \cup Edge)] /\ mounted \subseteq Region
         /\ tags \in [Region -> [RtosUnit -> 0 .. n]] /\ taken \subseteq Region \X RtosUnit \X Request
         /\ slot \in [SlotId -> Seq(Region \X RtosUnit)]
      BY DEF RtosInv, RtosTight
  <2>12. ends' \in [Region -> SUBSET (-1 .. 2 * n)]
    <3>1. RtosUnit \cup Edge \subseteq -1 .. 2 * n
        BY <2>4 DEF Edge
    <3>2. u \in -1 .. 2 * n /\ u + length - 1 \in -1 .. 2 * n
        BY <2>4
    <3> QED
        BY <2>9, <2>11, <3>1, <3>2
  <2>13. over \in [RtosUnit -> 0 .. n]
      BY <2>4, <2>11 DEF Scribble
  <2>14. tags' \in [Region -> [RtosUnit -> 0 .. n]]
    <3> HIDE DEF over
    <3> QED
        BY <2>9, <2>11, <2>13
  <2>15. slot' \in [SlotId -> Seq(Region \X RtosUnit)]
    <3>1. Tail(slot[s]) \in Seq(Region \X RtosUnit)
        BY <2>1, <2>11
    <3> QED
        BY <2>9, <2>11, <3>1
  <2>16. taken' \subseteq Region \X RtosUnit \X Request
      BY <2>4, <2>9, <2>11
  <2> QED
      BY <2>9, <2>10, <2>11, <2>12, <2>14, <2>15, <2>16 DEF RtosTypeOK
<1> QED
    BY <1>1, <1>2

(* The invariant: what is sound stays so up to the first misfit, and the    *)
(* types after it.                                                          *)
RtosGood == RtosTypeOK /\ (~mistaken => RtosInv)

THEOREM RtosInvariant == RtosSpec => []RtosGood
<1>1. RtosInit => RtosGood
    BY RtosStarts, TightIsTyped DEF RtosGood, RtosInv
<1>2. RtosGood /\ [RtosNext]_rtosVars => RtosGood'
  <2> SUFFICES ASSUME RtosGood, [RtosNext]_rtosVars PROVE RtosGood'
      OBVIOUS
  <2>1. RtosInv' => RtosGood'
    <3>1. (RtosTight => RtosTypeOK)'
        BY TightIsTyped, PTL
    <3> QED
        BY <3>1 DEF RtosGood, RtosInv
  <2>2. CASE UNCHANGED rtosVars
      BY <2>2 DEF rtosVars, RtosGood, RtosInv, RtosTight, RtosTypeOK
  <2>3. ASSUME RtosNext PROVE RtosInv
      BY <2>3 DEF RtosNext, RtosGood
  <2>4. ASSUME RtosNext, NEW p \in Region, Mount(p) PROVE RtosGood'
      BY <2>1, <2>3, <2>4, MountKeeps
  <2>5. ASSUME RtosNext, NEW length \in Request, Take(length) PROVE RtosGood'
      BY <2>3, <2>5, TakeKeeps, TakeTyped DEF RtosGood
  <2>6. ASSUME RtosNext, NEW b \in taken, GiveBack(b[1], b[2], b[3]) PROVE RtosGood'
      BY <2>1, <2>3, <2>6, GiveBackKeeps
  <2> QED
      BY <2>2, <2>4, <2>5, <2>6 DEF RtosNext
<1> QED
    BY <1>1, <1>2, PTL DEF RtosSpec

(* Two blocks that share no unit.                                           *)
LEMMA ExtentsApart ==
    ASSUME NEW a, NEW b, a[2] \in Int, a[3] \in Int, b[2] \in Int, b[3] \in Int,
           a[1] = b[1] => a[2] + a[3] <= b[2] \/ b[2] + b[3] <= a[2]
    PROVE  Extent(a) \cap Extent(b) = {}
<1> SUFFICES ASSUME NEW x \in Extent(a), x \in Extent(b) PROVE FALSE
    OBVIOUS
<1>1. PICK u \in a[2] .. a[2] + a[3] - 1 : x = <<a[1], u>>
    BY DEF Extent
<1>2. PICK v \in b[2] .. b[2] + b[3] - 1 : x = <<b[1], v>>
    BY DEF Extent
<1>3. a[1] = b[1] /\ u = v
    BY <1>1, <1>2
<1> QED
    BY <1>1, <1>2, <1>3

LEMMA RtosPagesHold ==
    ASSUME RtosInv
    PROVE  /\ RtosBlocksApart
           /\ UNION {Extent(b) : b \in taken \cup RtosFree} = mounted \X RtosUnit
           /\ \A a, b \in RtosFree : a[1] = b[1] => a[2] + a[3] # b[2]
           /\ \A p \in mounted : ends[p] =
                Edge \cup UNION {{b[2], b[2] + b[3] - 1} : b \in {c \in taken : c[1] = p}}
           /\ \A b \in RtosFree : b[3] > 1 => tags[b[1]][b[2] + b[3] - 1] = b[3]
           /\ \A s \in SlotId : IsInjective(slot[s]) /\ \A b \in RtosFree :
                <<b[1], b[2]>> \in FreeIn(s) => SlotOf(b[3]) = s
<1> DEFINE n == RegionBlocks
           B == taken \cup RtosFree
<1>1. /\ Paged(taken, RtosFree, mounted, n, ends, tags) /\ Listed(RtosFree, slot, WhereFiled)
      /\ RtosFree \subseteq Region \X RtosUnit \X Extents
  <2>1. PICK F \in SUBSET (Region \X RtosUnit \X Extents) :
            Paged(taken, F, mounted, n, ends, tags) /\ Listed(F, slot, WhereFiled)
      BY DEF RtosInv
  <2>2. RtosFree = F
      BY <2>1, FreeAreFiled DEF RtosInv, Paged
  <2> QED
      BY <2>1, <2>2
<1>2. /\ Tiled(B, mounted, n) /\ Shown(ends, taken, mounted, n)
      /\ Tagged(tags, RtosFree) /\ Joined(RtosFree)
    BY <1>1 DEF Paged
<1>3. n \in Nat \ {0} /\ RtosUnit = 0 .. n - 1 /\ Extents = 1 .. n /\ Edge = {-1, n}
    BY RegionAssumption DEF RtosUnit, Extents, Edge
<1>4. \A b \in B : /\ b[1] \in mounted /\ b[2] \in 0 .. n - 1 /\ b[3] \in 1 .. n
                   /\ b[2] + b[3] <= n
    BY <1>2 DEF Tiled
<1>5. taken \subseteq B /\ RtosFree \subseteq B
    OBVIOUS
<1> HIDE DEF B
<1>6. RtosBlocksApart
  <2>1. ASSUME NEW a \in B, NEW b \in B, a # b
        PROVE  Extent(a) \cap Extent(b) = {}
    <3>1. a[1] = b[1] => a[2] + a[3] <= b[2] \/ b[2] + b[3] <= a[2]
        BY <1>2, <2>1 DEF Tiled
    <3>2. a[2] \in Int /\ a[3] \in Int /\ b[2] \in Int /\ b[3] \in Int
        BY <1>3, <1>4
    <3> QED
        BY <3>1, <3>2, ExtentsApart
  <2> QED
      BY <1>4, <1>5, <2>1 DEF RtosBlocksApart, B
<1>7. UNION {Extent(b) : b \in B} = mounted \X RtosUnit
  <2>1. ASSUME NEW b \in B, NEW y \in Extent(b)
        PROVE  y \in mounted \X RtosUnit
    <3>1. PICK v \in b[2] .. b[2] + b[3] - 1 : y = <<b[1], v>>
        BY DEF Extent
    <3>2. v \in RtosUnit
        BY <1>3, <1>4
    <3> QED
        BY <1>4, <3>1, <3>2
  <2>2. ASSUME NEW y \in mounted \X RtosUnit
        PROVE  \E b \in B : y \in Extent(b)
    <3>1. PICK b \in B : b[1] = y[1] /\ b[2] <= y[2] /\ y[2] < b[2] + b[3]
        BY <1>2, <1>3 DEF Tiled
    <3>2. y[2] \in b[2] .. b[2] + b[3] - 1 /\ y = <<b[1], y[2]>>
        BY <1>3, <1>4, <3>1
    <3> QED
        BY <3>2 DEF Extent
  <2> QED
      BY <2>1, <2>2
<1>8. \A p \in mounted : ends[p] =
        Edge \cup UNION {{b[2], b[2] + b[3] - 1} : b \in {c \in taken : c[1] = p}}
  <2> SUFFICES ASSUME NEW p \in mounted
               PROVE  ends[p] = Edge \cup
                        UNION {{b[2], b[2] + b[3] - 1} : b \in {c \in taken : c[1] = p}}
      OBVIOUS
  <2>1. ends[p] \subseteq -1 .. n
    <3>1. ends[p] \subseteq RtosUnit \cup Edge
        BY DEF RtosInv, RtosTight
    <3> QED
        BY <1>3, <3>1
  <2>2. n \in Nat /\ Shown(ends, taken, mounted, n) /\ Tiled(taken \cup RtosFree, mounted, n)
      BY <1>2, <1>3 DEF B
  <2>3. Exactly(ends, taken, n, p)
      BY <2>1, <2>2, ShownExactly
  <2> QED
      BY <1>3, <2>3 DEF Exactly, Tips
<1>9. \A b \in RtosFree : b[3] > 1 => tags[b[1]][b[2] + b[3] - 1] = b[3]
  <2>1. \A b \in RtosFree : b[3] > 1 => b[3] >= 2
      BY <1>3, <1>4, <1>5
  <2> QED
      BY <1>2, <2>1 DEF Tagged
<1>10. ASSUME NEW s \in SlotId
       PROVE  IsInjective(slot[s]) /\ \A b \in RtosFree :
                <<b[1], b[2]>> \in FreeIn(s) => SlotOf(b[3]) = s
  <2>1. s \in DOMAIN slot
      BY DEF RtosInv, RtosTight
  <2>2. IsInjective(slot[s])
      BY <1>1, <2>1 DEF Listed, OnlyOnce, IsInjective
  <2>3. ASSUME NEW b \in RtosFree, <<b[1], b[2]>> \in FreeIn(s)
        PROVE  SlotOf(b[3]) = s
    <3>1. <<b[1], b[2]>> \in Entries(slot[s])
        BY <2>3 DEF FreeIn, Entries
    <3>2. PICK f \in RtosFree : WhereFiled[f[3]] = s /\ <<b[1], b[2]>> = <<f[1], f[2]>>
        BY <1>1, <2>1, <3>1 DEF Listed
    <3>3. f = b
      <4>1. f[1] = b[1] /\ f[2] = b[2]
          BY <3>2
      <4>2. Tiled(taken \cup RtosFree, mounted, n) /\ n \in Nat
          BY <1>2, <1>3 DEF B
      <4> QED
          BY <4>1, <4>2, FreeAlone
    <3> QED
        BY <1>1, <3>2, <3>3, SlotIs
  <2> QED
      BY <2>2, <2>3
<1> QED
    BY <1>2, <1>6, <1>7, <1>8, <1>9, <1>10 DEF Joined, B

(* After any history of requests of any lengths, up to the first block that *)
(* does not fit what was asked for, the blocks tile the mounted pages, free *)
(* neighbours are joined, the marks and the lengths at the ends of the      *)
(* blocks agree and every free block is once in the list of its length.     *)
THEOREM RtosIsSound == RtosSpec => []RtosPagesSound
<1>1. RtosGood => RtosPagesSound
    BY RtosPagesHold DEF RtosPagesSound, RtosGood
<1> QED
    BY <1>1, RtosInvariant, PTL

(* The variables keep their types, after such a block as well.              *)
THEOREM RtosTypeCorrect == RtosSpec => []RtosTypeOK
<1>1. RtosGood => RtosTypeOK
    BY DEF RtosGood
<1> QED
    BY <1>1, RtosInvariant, PTL

(* alloc finds a block that is long enough for a safe length.               *)
LEMMA SafeTake ==
    ASSUME RtosInv, NEW length \in Request, SafeRequest(length), Take(length)
    PROVE  ~mistaken'
<1>1. PICK level \in {0, 1}, i \in 0 .. SlotCount - 1 :
        /\ (IF level = 0 THEN length - 1 ELSE (length - 1) \div SlotCount) <= i
        /\ slot[<<level, i>>] # <<>> /\ RtosTakeOut(<<level, i>>, length)
    BY TakenFrom
<1> DEFINE s == <<level, i>>
<1>2. PICK f \in Region \X RtosUnit \X Extents : WhereFiled[f[3]] = s /\ FirstLength(s) = f[3]
    BY <1>1, FirstIs DEF SlotId
<1>3. SlotOf(f[3]) = <<level, i>> /\ f[3] \in Extents
    BY <1>2, SlotIs
<1>4. length \in 2 .. f[3]
  <2>1. i \in Int
      OBVIOUS
  <2> QED
      BY <1>1, <1>3, <2>1, SafeFits
<1>5. ~Misfit(s, length)
    BY <1>2, <1>3, <1>4 DEF Misfit, Extents
<1> QED
    BY <1>1, <1>5 DEF RtosTakeOut

(* A program whose requests are all safe never gets a block that does not   *)
(* fit.                                                                     *)
THEOREM SafeNeverMistaken ==
    ASSUME \A length \in Request : SafeRequest(length)
    PROVE  RtosSpec => []NeverMistaken
<1>1. RtosInit => ~mistaken
    BY DEF RtosInit
<1>2. RtosGood /\ ~mistaken /\ [RtosNext]_rtosVars => ~mistaken'
  <2> SUFFICES ASSUME RtosGood, ~mistaken, [RtosNext]_rtosVars PROVE ~mistaken'
      OBVIOUS
  <2>1. ASSUME NEW length \in Request, Take(length) PROVE ~mistaken'
      BY <2>1, SafeTake DEF RtosGood
  <2>2. ASSUME NEW p \in Region, Mount(p) PROVE ~mistaken'
      BY <2>2 DEF Mount
  <2>3. ASSUME NEW b \in taken, GiveBack(b[1], b[2], b[3]) PROVE ~mistaken'
      BY <2>3 DEF GiveBack
  <2>4. CASE UNCHANGED rtosVars
      BY <2>4 DEF rtosVars
  <2> QED
      BY <2>1, <2>2, <2>3, <2>4 DEF RtosNext
<1> QED
    BY <1>1, <1>2, RtosInvariant, PTL DEF RtosSpec, NeverMistaken
==============================================================================
