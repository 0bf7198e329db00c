--------------------------- MODULE AlgorithmsProofs ---------------------------
(****************************************************************************)
(* Components of MCAlgorithms, for every value of their constants.          *)
(* LogicSim, for every set of circuits: no gate waits twice or is           *)
(* forgotten, and a gate at rest has written what its inputs say.           *)
(* File, for any number of handles, names and descriptors: what an open     *)
(* handle holds is its own.                                                 *)
(* Chrono, for every day whose year fits its field: the conversions between *)
(* dates and day numbers are exact and inverse to each other; the split by  *)
(* 400, 100, 4 and 1 years is followed case by case.                        *)
(****************************************************************************)
EXTENDS LogicSim, File, Chrono, FiniteSetTheorems, TLAPS

------------------------------------------------------------------------------
(* Circuits                                                                 *)

(* A list without repetitions, and the gates on it.                         *)
Listed(s, W) ==
    /\ \A i, j \in DOMAIN s : s[i] = s[j] => i = j
    /\ \A g : g \in W <=> \E i \in DOMAIN s : s[i] = g

LEMMA ListedFirst ==
    ASSUME NEW G, NEW a \in Seq(G), NEW p \in Seq(G), NEW W, Listed(a \o p, W), a # <<>>
    PROVE  Head(a) \in G /\ Listed(Tail(a) \o p, W \ {Head(a)}) /\ Tail(a) \in Seq(G)
<1> DEFINE s == a \o p
           t == Tail(a) \o p
<1>1. /\ s \in Seq(G) /\ Len(s) = Len(a) + Len(p) /\ Len(a) \in Nat \ {0} /\ Len(p) \in Nat
      /\ Tail(a) \in Seq(G) /\ Len(Tail(a)) = Len(a) - 1 /\ t \in Seq(G) /\ Len(t) = Len(s) - 1
      /\ Head(a) \in G /\ Head(a) = s[1]
  OBVIOUS
<1>2. \A i \in 1 .. Len(t) : t[i] = s[i + 1]
  <2> SUFFICES ASSUME NEW i \in 1 .. Len(t) PROVE t[i] = s[i + 1]
    OBVIOUS
  <2>1. CASE i <= Len(a) - 1
    BY <1>1, <2>1
  <2>2. CASE i > Len(a) - 1
    BY <1>1, <2>2
  <2> QED
    BY <1>1, <2>1, <2>2
<1>3. DOMAIN s = 1 .. Len(s) /\ DOMAIN t = 1 .. Len(t)
  BY <1>1
<1>4. /\ \A i, j \in DOMAIN s : s[i] = s[j] => i = j
      /\ \A g : g \in W <=> \E i \in DOMAIN s : s[i] = g
  BY DEF Listed
<1> HIDE DEF s, t
<1>9. /\ \A i \in DOMAIN t : i \in Int /\ i + 1 \in DOMAIN s /\ i + 1 # 1 /\ t[i] = s[i + 1]
      /\ 1 \in DOMAIN s
  BY <1>1, <1>2, <1>3
<1>5. \A i, j \in DOMAIN t : t[i] = t[j] => i = j
  <2> SUFFICES ASSUME NEW i \in DOMAIN t, NEW j \in DOMAIN t, t[i] = t[j] PROVE i = j
    OBVIOUS
  <2>1. i + 1 = j + 1
    BY <1>4, <1>9
  <2> QED
    BY <1>9, <2>1
<1>6. ASSUME NEW i \in DOMAIN t PROVE t[i] \in W \ {s[1]}
  BY <1>4, <1>9
<1>7. ASSUME NEW g \in W, g # s[1] PROVE \E i \in DOMAIN t : t[i] = g
  <2>1. PICK j \in DOMAIN s : s[j] = g
    BY <1>4
  <2>2. j - 1 \in DOMAIN t /\ t[j - 1] = s[j]
    BY <1>1, <1>2, <1>3, <1>7, <2>1
  <2> QED
    BY <2>1, <2>2
<1>8. Listed(t, W \ {s[1]})
  BY <1>5, <1>6, <1>7 DEF Listed
<1> QED
  BY <1>1, <1>8 DEF s, t

LEMMA ListedLast ==
    ASSUME NEW G, NEW a \in Seq(G), NEW p \in Seq(G), NEW W, Listed(a \o p, W), NEW h \in G, h \notin W
    PROVE  Listed(a \o Append(p, h), W \cup {h}) /\ Append(p, h) \in Seq(G)
<1> DEFINE s == a \o p
           t == a \o Append(p, h)
<1>1. /\ s \in Seq(G) /\ Len(s) \in Nat /\ Append(p, h) \in Seq(G) /\ t = Append(s, h)
  OBVIOUS
<1>2. Len(t) = Len(s) + 1 /\ t[Len(s) + 1] = h /\ \A i \in 1 .. Len(s) : t[i] = s[i]
  BY <1>1
<1>3. DOMAIN s = 1 .. Len(s) /\ DOMAIN t = 1 .. Len(s) + 1
  BY <1>1, <1>2
<1>4. /\ \A i, j \in DOMAIN s : s[i] = s[j] => i = j
      /\ \A g : g \in W <=> \E i \in DOMAIN s : s[i] = g
  BY DEF Listed
<1> HIDE DEF s, t
<1>5. \A i, j \in DOMAIN t : t[i] = t[j] => i = j
  BY <1>1, <1>2, <1>3, <1>4
<1>6. ASSUME NEW i \in DOMAIN t PROVE t[i] \in W \cup {h}
  BY <1>1, <1>2, <1>3, <1>4
<1>7. ASSUME NEW g \in W \cup {h} PROVE \E i \in DOMAIN t : t[i] = g
  <2>1. CASE g = h
    BY <1>1, <1>2, <1>3, <2>1
  <2>2. CASE g \in W
    <3>1. PICK j \in DOMAIN s : s[j] = g
      BY <1>4, <2>2
    <3> QED
      BY <1>1, <1>2, <1>3, <3>1
  <2> QED
    BY <2>1, <2>2
<1>8. Listed(t, W \cup {h})
  BY <1>5, <1>6, <1>7 DEF Listed
<1> QED
  BY <1>1, <1>8 DEF s, t

(* The gates that wait are those with their flag set.                       *)
Flagged(flags) == {g \in Gates(net) : flags[g]}
Answered(n, image, flags, done) ==
    \A g \in done : ~flags[g] /\ Drives(n, g) => image[n.to[g]] = Answer(n, image, g)
SimInv ==
    /\ SimTypeOK
    /\ Listed(que_active \o que_pile, {g \in Gates(net) : in_queue[g]})
    /\ Answered(net, img, in_queue, evaluated)

LEMMA ListedIsInjective ==
    ASSUME NEW s, NEW n, s \in Seq(n), NEW W, Listed(s, W)
    PROVE  IsInjective(s) /\ \A g : g \in W <=> Contains(s, g)
<1>1. DOMAIN s = 1 .. Len(s)
  OBVIOUS
<1> QED
  BY <1>1 DEF Listed, IsInjective, Contains

LEMMA AnswerTyped ==
    ASSUME NEW n \in Nets, NEW image \in [Ports(n) -> State], NEW g \in Gates(n), Drives(n, g)
    PROVE  /\ Answer(n, image, g) \in State
           /\ n.to[g] \in Ports(n)
<1>1. n.kind[g] \in {"enand", "eand", "enor", "eor", "enot"} /\ n.to[g] \in Ports(n)
  BY NetsAssumption DEF Drives
<1>2. CASE n.kind[g] = "enot"
  <2>1. <<g, "a">> \in Ports(n)
    BY DEF Ports, Inputs
  <2> QED
    BY <1>1, <1>2, <2>1 DEF Answer, enot, State
<1>3. CASE n.kind[g] # "enot"
  <2>1. <<g, "a">> \in Ports(n) /\ <<g, "b">> \in Ports(n)
    BY <1>1, <1>3 DEF Ports, Inputs
  <2>2. \A d, e, o \in {"L", "H"} :
          Gate2(image[<<g, "a">>], image[<<g, "b">>], d, e, o) \in State
    BY <2>1 DEF Gate2, State
  <2> QED
    BY <1>1, <1>3, <2>2 DEF Answer, enand, eand, enor, eor
<1> QED
  BY <1>1, <1>2, <1>3

(* What a gate answers hangs on its own inputs.                             *)
LEMMA AnswerSame ==
    ASSUME NEW n \in Nets, NEW old, NEW new, NEW g \in Gates(n), Drives(n, g),
           \A p \in Ports(n) : p[1] = g => new[p] = old[p]
    PROVE  Answer(n, new, g) = Answer(n, old, g)
<1>1. n.kind[g] \in {"enand", "eand", "enor", "eor", "enot"}
  BY NetsAssumption DEF Drives
<1>2. CASE n.kind[g] = "enot"
  <2>1. <<g, "a">> \in Ports(n)
    BY DEF Ports, Inputs
  <2>2. new[<<g, "a">>] = old[<<g, "a">>]
    BY <2>1
  <2> QED
    BY <1>1, <1>2, <2>2 DEF Answer
<1>3. CASE n.kind[g] # "enot"
  <2>1. <<g, "a">> \in Ports(n) /\ <<g, "b">> \in Ports(n)
    BY <1>1, <1>3 DEF Ports, Inputs
  <2>2. new[<<g, "a">>] = old[<<g, "a">>] /\ new[<<g, "b">>] = old[<<g, "b">>]
    BY <2>1
  <2> QED
    BY <1>1, <1>3, <2>2 DEF Answer
<1> QED
  BY <1>2, <1>3

(* Writing an input, for a gate that has just left the queue or for none.   *)
LEMMA WriteKeeps ==
    ASSUME NEW flags, NEW done, NEW p \in Ports(net), NEW v \in State, WriteInput(p, v, flags),
           net \in Nets, img \in [Ports(net) -> State], flags \in [Gates(net) -> BOOLEAN],
           NEW active \in Seq(Gates(net)), que_pile \in Seq(Gates(net)), done \subseteq Gates(net),
           Listed(active \o que_pile, {g \in Gates(net) : flags[g]}),
           \A g \in done : ~flags[g] /\ Drives(net, g) =>
               IF net.to[g] = p THEN v = Answer(net, img, g) ELSE img[net.to[g]] = Answer(net, img, g)
    PROVE  /\ img' \in [Ports(net) -> State] /\ in_queue' \in [Gates(net) -> BOOLEAN]
           /\ que_pile' \in Seq(Gates(net))
           /\ Listed(active \o que_pile', {g \in Gates(net) : in_queue'[g]})
           /\ Answered(net, img', in_queue', done)
<1>1. p[1] \in Gates(net)
  BY DEF Ports
<1>2. CASE img[p] = v
  <2>1. in_queue' = flags /\ img' = img /\ que_pile' = que_pile
    BY <1>2 DEF WriteInput
  <2>2. Answered(net, img, flags, done)
    BY <1>2 DEF Answered
  <2> QED
    BY <2>1, <2>2
<1>3. CASE img[p] # v
  <2>1. /\ img' = [img EXCEPT ![p] = v]
        /\ in_queue' = [flags EXCEPT ![p[1]] = TRUE]
        /\ que_pile' = IF flags[p[1]] THEN que_pile ELSE Append(que_pile, p[1])
    BY <1>3 DEF WriteInput
  <2>2. img' \in [Ports(net) -> State] /\ in_queue' \in [Gates(net) -> BOOLEAN]
    BY <1>1, <2>1
  <2>3. que_pile' \in Seq(Gates(net)) /\ Listed(active \o que_pile', {g \in Gates(net) : in_queue'[g]})
    <3>1. CASE flags[p[1]]
      <4>1. {g \in Gates(net) : in_queue'[g]} = {g \in Gates(net) : flags[g]} /\ que_pile' = que_pile
        BY <1>1, <2>1, <3>1
      <4> QED
        BY <4>1
    <3>2. CASE ~flags[p[1]]
      <4>1. {g \in Gates(net) : in_queue'[g]} = {g \in Gates(net) : flags[g]} \cup {p[1]}
        BY <1>1, <2>1, <3>2
      <4>2. que_pile' = Append(que_pile, p[1]) /\ p[1] \notin {g \in Gates(net) : flags[g]}
        BY <2>1, <3>2
      <4>3. PICK h \in Gates(net) : h = p[1]
        BY <1>1
      <4>4. PICK W : W = {g \in Gates(net) : flags[g]}
        OBVIOUS
      <4>5. Listed(active \o que_pile, W) /\ h \notin W /\ que_pile \in Seq(Gates(net))
        BY <4>2, <4>3, <4>4
      <4>6. Listed(active \o Append(que_pile, h), W \cup {h}) /\ Append(que_pile, h) \in Seq(Gates(net))
        BY <4>5, ListedLast
      <4> QED
        BY <4>1, <4>2, <4>3, <4>4, <4>6
    <3> QED
      BY <3>1, <3>2
  <2>4. Answered(net, img', in_queue', done)
    <3> SUFFICES ASSUME NEW g \in done, ~in_queue'[g], Drives(net, g)
                 PROVE  img'[net.to[g]] = Answer(net, img', g)
      BY DEF Answered
    <3>1. g \in Gates(net) /\ g # p[1] /\ ~flags[g]
      BY <1>1, <2>1
    <3>2. net.to[g] \in Ports(net)
      BY <3>1, NetsAssumption
    <3>3. \A q \in Ports(net) : q[1] = g => img'[q] = img[q]
      BY <2>1, <3>1
    <3>4. Answer(net, img', g) = Answer(net, img, g)
      BY <3>1, <3>3, AnswerSame
    <3>5. img'[net.to[g]] = IF net.to[g] = p THEN v ELSE img[net.to[g]]
      BY <2>1, <3>2
    <3> QED
      BY <3>1, <3>4, <3>5
  <2> QED
    BY <2>2, <2>3, <2>4
<1> QED
  BY <1>2, <1>3

LEMMA SimStarts == SimInit => SimInv
<1> SUFFICES ASSUME SimInit PROVE SimInv
  OBVIOUS
<1>1. SimTypeOK
  BY DEF SimInit, SimTypeOK, State
<1>2. que_active \o que_pile = <<>> /\ {g \in Gates(net) : in_queue[g]} = {} /\ evaluated = {}
  BY DEF SimInit
<1>3. Listed(<<>>, {})
  BY DEF Listed
<1> QED
  BY <1>1, <1>2, <1>3 DEF SimInv, Answered

LEMMA SimStep == SimInv /\ [SimNext]_simVars => SimInv'
<1> SUFFICES ASSUME SimInv, [SimNext]_simVars PROVE SimInv'
  OBVIOUS
<1> DEFINE waits == {g \in Gates(net) : in_queue[g]}
<1>0. /\ SimTypeOK /\ Listed(que_active \o que_pile, waits) /\ Answered(net, img, in_queue, evaluated)
      /\ net \in Nets /\ img \in [Ports(net) -> State] /\ in_queue \in [Gates(net) -> BOOLEAN]
      /\ que_active \in Seq(Gates(net)) /\ que_pile \in Seq(Gates(net)) /\ evaluated \subseteq Gates(net)
  BY DEF SimInv, SimTypeOK
<1>1. CASE Drive
  <2>1. UNCHANGED <<net, que_active, evaluated>>
    BY <1>1 DEF Drive
  <2>2. PICK p \in Ports(net) \ Driven(net), v \in State : WriteInput(p, v, in_queue)
    BY <1>1 DEF Drive
  <2>3. \A g \in evaluated : Drives(net, g) => net.to[g] # p
    BY <1>0, <2>2 DEF Driven
  <2>4. \A g \in evaluated : ~in_queue[g] /\ Drives(net, g) =>
            IF net.to[g] = p THEN v = Answer(net, img, g) ELSE img[net.to[g]] = Answer(net, img, g)
    BY <1>0, <2>3 DEF Answered
  <2>5. /\ img' \in [Ports(net) -> State] /\ in_queue' \in [Gates(net) -> BOOLEAN]
        /\ que_pile' \in Seq(Gates(net))
        /\ Listed(que_active \o que_pile', {g \in Gates(net) : in_queue'[g]})
        /\ Answered(net, img', in_queue', evaluated)
    BY <1>0, <2>2, <2>4, WriteKeeps
  <2> QED
    BY <1>0, <2>1, <2>5 DEF SimInv, SimTypeOK
<1>2. CASE Swap
  <2>1. /\ que_active = <<>> /\ que_active' = que_pile /\ que_pile' = <<>>
        /\ UNCHANGED <<net, img, in_queue, evaluated>>
    BY <1>2 DEF Swap
  <2>2. que_active' \o que_pile' = que_active \o que_pile
    BY <1>0, <2>1
  <2> QED
    BY <1>0, <2>1, <2>2 DEF SimInv, SimTypeOK
<1>3. CASE Spread
  <2> DEFINE g == Head(que_active)
             flags == [in_queue EXCEPT ![g] = FALSE]
             done == evaluated \cup {g}
  <2>1. /\ que_active # <<>> /\ que_active' = Tail(que_active) /\ evaluated' = done /\ net' = net
        /\ IF Drives(net, g) THEN WriteInput(net.to[g], Answer(net, img, g), flags)
           ELSE in_queue' = flags /\ UNCHANGED <<img, que_pile>>
    BY <1>3 DEF Spread
  <2>2. /\ g \in Gates(net) /\ Listed(que_active' \o que_pile, waits \ {g})
        /\ que_active' \in Seq(Gates(net))
    BY <1>0, <2>1, ListedFirst
  <2>3. flags \in [Gates(net) -> BOOLEAN] /\ waits \ {g} = {h \in Gates(net) : flags[h]}
    BY <1>0, <2>2
  <2>4. done \subseteq Gates(net)
    BY <1>0, <2>2
  <2>5. \A h \in done : ~flags[h] /\ Drives(net, h) =>
            IF h = g THEN TRUE ELSE img[net.to[h]] = Answer(net, img, h)
    BY <1>0, <2>2 DEF Answered
  <2>6. CASE Drives(net, g)
    <3>1. Answer(net, img, g) \in State /\ net.to[g] \in Ports(net)
      BY <1>0, <2>2, <2>6, AnswerTyped
    <3>2. \A h \in done : ~flags[h] /\ Drives(net, h) =>
              IF net.to[h] = net.to[g] THEN Answer(net, img, g) = Answer(net, img, h)
              ELSE img[net.to[h]] = Answer(net, img, h)
      <4>1. \A h \in done : Drives(net, h) /\ net.to[h] = net.to[g] => h = g
        BY <1>0, <2>2, <2>4, <2>6, NetsAssumption
      <4> QED
        BY <2>5, <4>1
    <3> HIDE DEF g, flags, done
    <3>3. PICK p \in Ports(net), v \in State : p = net.to[g] /\ v = Answer(net, img, g)
      BY <3>1
    <3>4. WriteInput(p, v, flags)
      BY <2>1, <2>6, <3>3
    <3>5. \A h \in done : ~flags[h] /\ Drives(net, h) =>
              IF net.to[h] = p THEN v = Answer(net, img, h) ELSE img[net.to[h]] = Answer(net, img, h)
      BY <3>2, <3>3
    <3>6. PICK active \in Seq(Gates(net)) : active = que_active'
      BY <2>2
    <3>7. Listed(active \o que_pile, {h \in Gates(net) : flags[h]})
      BY <2>2, <2>3, <3>6
    <3>8. /\ img' \in [Ports(net) -> State] /\ in_queue' \in [Gates(net) -> BOOLEAN]
          /\ que_pile' \in Seq(Gates(net))
          /\ Listed(active \o que_pile', {h \in Gates(net) : in_queue'[h]})
          /\ Answered(net, img', in_queue', done)
      BY <1>0, <2>3, <2>4, <3>4, <3>5, <3>7, WriteKeeps
    <3> QED
      BY <1>0, <2>1, <2>2, <2>4, <3>6, <3>8 DEF SimInv, SimTypeOK
  <2>7. CASE ~Drives(net, g)
    <3>1. in_queue' = flags /\ UNCHANGED <<img, que_pile>>
      BY <2>1, <2>7
    <3>2. Answered(net, img, flags, done)
      BY <2>5, <2>7 DEF Answered
    <3> QED
      BY <1>0, <2>1, <2>2, <2>3, <2>4, <3>1, <3>2 DEF SimInv, SimTypeOK
  <2> QED
    BY <2>6, <2>7
<1>4. CASE UNCHANGED simVars
  BY <1>0, <1>4 DEF simVars, SimInv, SimTypeOK
<1> QED
  BY <1>1, <1>2, <1>3, <1>4 DEF SimNext

(* In every circuit, with feedback or without, a gate waits in the queues   *)
(* at most once and exactly while its flag is set, and one that ran and     *)
(* does not wait has written what its inputs say now, whoever changed them  *)
(* in the middle of a tick (elogic.hpp:118-140, 166-171).                   *)
THEOREM CircuitSettles == SimSpec => [](SimTypeOK /\ Settled)
<1>1. SimInv => SimTypeOK /\ Settled
  <2> SUFFICES ASSUME SimInv PROVE SimTypeOK /\ Settled
    OBVIOUS
  <2> DEFINE s == que_active \o que_pile
             W == {g \in Gates(net) : in_queue[g]}
  <2>1. SimTypeOK /\ Listed(s, W) /\ Answered(net, img, in_queue, evaluated) /\ s \in Seq(Gates(net))
    BY DEF SimInv, SimTypeOK
  <2> HIDE DEF s
  <2>2. IsInjective(s) /\ \A g : g \in W <=> Contains(s, g)
    BY <2>1, ListedIsInjective
  <2> QED
    BY <2>1, <2>2 DEF Settled, Answered, s
<1> QED
  BY <1>1, SimStarts, SimStep, PTL DEF SimSpec

------------------------------------------------------------------------------
(* Natural numbers                                                          *)
LEMMA Descent ==
    ASSUME NEW k \in Nat, NEW T \in SUBSET (1 .. k), k \in T, \A j \in T : j - 1 \in T
    PROVE  FALSE
<1> DEFINE f == [j \in T |-> j - 1]
<1>1. IsFiniteSet(T)
  <2>1. IsFiniteSet(1 .. k)
    BY FS_Interval
  <2> QED
    BY <2>1, FS_Subset
<1>2. f \in Injection(T, T)
  <2>1. f \in [T -> T]
    OBVIOUS
  <2>2. IsInjective(f)
    BY DEF IsInjective
  <2> HIDE DEF f
  <2> QED
    BY <2>1, <2>2 DEF Injection
<1>3. f \in Surjection(T, T)
  BY <1>1, <1>2, FS_Injection
<1>4. PICK j \in T : f[j] = k
  <2> HIDE DEF f
  <2> QED
    BY <1>3 DEF Surjection
<1> QED
  BY <1>4

LEMMA Upwards ==
    ASSUME NEW S, 0 \in S, \A j \in Nat : j \in S => j + 1 \in S, NEW n \in Nat
    PROVE  n \in S
<1> SUFFICES ASSUME n \notin S PROVE FALSE
  OBVIOUS
<1> DEFINE T == {j \in 1 .. n : j \notin S}
<1>1. n \in T /\ T \in SUBSET (1 .. n)
  OBVIOUS
<1>2. ASSUME NEW j \in T PROVE j - 1 \in T
  OBVIOUS
<1> HIDE DEF T
<1> QED
  BY <1>1, <1>2, Descent

LEMMA LeastIn ==
    ASSUME NEW S \in SUBSET Nat, S # {}
    PROVE  LeastOf(S) \in S
<1>1. \E m \in S : \A o \in S : m <= o
  <2> SUFFICES ASSUME \A m \in S : \E o \in S : o < m PROVE FALSE
    OBVIOUS
  <2> DEFINE R == {j \in Nat : \A m \in S : m > j}
  <2>1. 0 \in R
    OBVIOUS
  <2>2. ASSUME NEW j \in Nat, j \in R PROVE j + 1 \in R
    BY <2>2
  <2>3. PICK n \in S : TRUE
    OBVIOUS
  <2>4. n \notin R
    BY <2>3
  <2> HIDE DEF R
  <2> QED
    BY <2>1, <2>2, <2>3, <2>4, Upwards
<1> QED
  BY <1>1 DEF LeastOf

------------------------------------------------------------------------------
(* Files                                                                    *)
Stored == UNION {[1 .. n -> Datum] : n \in 0 .. MaxContent}
Held   == {fd[h] : h \in Handle} \ {NoFile}

FileInv ==
    /\ FileTypeOK /\ open_files \in [Descriptors -> OpenEntry \cup {NoFile}]
    /\ DescriptorsApart /\ NamesApart

LEMMA StoredTold ==
    ASSUME NEW s
    PROVE  s \in Stored <=> s \in Seq(Datum) /\ Len(s) \in 0 .. MaxContent
<1>1. ASSUME s \in Stored PROVE s \in Seq(Datum) /\ Len(s) \in 0 .. MaxContent
  <2>1. PICK n \in 0 .. MaxContent : s \in [1 .. n -> Datum]
    BY <1>1 DEF Stored
  <2> QED
    BY <2>1, FileAssumption
<1>2. ASSUME s \in Seq(Datum), Len(s) \in 0 .. MaxContent PROVE s \in Stored
  <2>1. s \in [1 .. Len(s) -> Datum]
    BY <1>2
  <2> QED
    BY <1>2, <2>1 DEF Stored
<1> QED
  BY <1>1, <1>2

LEMMA FileFacts ==
    ASSUME FileInv
    PROVE  /\ names \in [Path -> 1 .. Contents \cup {NoFile}] /\ data \in [1 .. Contents -> Stored]
           /\ folders \subseteq Folder \cup {TopFolder} /\ TopFolder \in folders
           /\ \A p \in Path : names[p] # NoFile => p.folder \in folders
           /\ fd \in [Handle -> Descriptors \cup {NoFile}] /\ path \in [Handle -> Path \cup {Unnamed}]
           /\ open_files \in [Descriptors -> OpenEntry \cup {NoFile}] /\ system \in System
           /\ NoFile \notin Descriptors /\ NoFile \notin 1 .. Contents /\ NoFile \notin OpenEntry
           /\ \A d \in Opened : d \in Descriptors /\ open_files[d] \in OpenEntry
           /\ Opened \subseteq Descriptors
           /\ \A h \in Handle : fd[h] # NoFile =>
                 fd[h] \in Opened /\ \A g \in Handle : g # h => fd[g] # fd[h]
           /\ \A p, q \in Path : p # q /\ names[p] # NoFile => names[p] # names[q]
BY FileAssumption DEF FileInv, FileTypeOK, Stored, DescriptorsApart, NamesApart, Opened

(* What a step has to leave; the rest of FileInv is about the entries.      *)
Kept(n, d, f, o, held, given) ==
    /\ n \in [Path -> 1 .. Contents \cup {NoFile}] /\ d \in [1 .. Contents -> Stored]
    /\ f \subseteq Folder \cup {TopFolder} /\ TopFolder \in f
    /\ \A p \in Path : n[p] # NoFile => p.folder \in f
    /\ o \in [Descriptors -> OpenEntry \cup {NoFile}]
    /\ held \in [Handle -> Descriptors \cup {NoFile}] /\ given \in [Handle -> Path \cup {Unnamed}]
    /\ \A h \in Handle : held[h] # NoFile =>
          o[held[h]] # NoFile /\ \A g \in Handle : g # h => held[g] # held[h]
    /\ \A p, q \in Path : p # q /\ n[p] # NoFile => n[p] # n[q]

LEMMA KeptNow == FileInv => Kept(names, data, folders, open_files, fd, path)
<1> SUFFICES ASSUME FileInv PROVE Kept(names, data, folders, open_files, fd, path)
  OBVIOUS
<1> QED
  BY FileFacts DEF Kept, Opened

LEMMA KeptNext ==
    ASSUME system' \in System, Kept(names', data', folders', open_files', fd', path')
    PROVE  FileInv'
<1>1. \A d \in Opened' : open_files'[d] \in OpenEntry
  BY DEF Kept, Opened
<1>2. FileTypeOK'
  BY <1>1 DEF Kept, FileTypeOK, Stored, OpenEntry
<1>3. DescriptorsApart' /\ NamesApart'
  BY DEF Kept, DescriptorsApart, NamesApart, Opened
<1> QED
  BY <1>2, <1>3 DEF FileInv, Kept

LEMMA EmptyStored == <<>> \in Stored
<1>1. <<>> \in Seq(Datum) /\ Len(<<>>) \in 0 .. MaxContent
  BY FileAssumption
<1> QED
  BY <1>1, StoredTold

LEMMA FileStarts == FileInit => FileInv
<1> SUFFICES ASSUME FileInit PROVE FileInv
  OBVIOUS
<1>1. Opened = {} /\ TopFolder \in folders
  BY DEF FileInit, Opened
<1>2. FileTypeOK
  BY <1>1, EmptyStored, FileAssumption DEF FileInit, FileTypeOK, Stored
<1>3. DescriptorsApart /\ NamesApart /\ open_files \in [Descriptors -> OpenEntry \cup {NoFile}]
  BY DEF FileInit, DescriptorsApart, NamesApart
<1> QED
  BY <1>2, <1>3 DEF FileInv

LEMMA OpenKeeps ==
    ASSUME FileInv, NEW h \in Handle, NEW p \in Path, NEW mode \in {"r", "w", "rw"}, Open(h, p, mode)
    PROVE  FileInv'
<1>1. /\ folders' = MadeFor(p, mode) /\ path' = [path EXCEPT ![h] = p] /\ system' = system
      /\ IF CanOpen(p, folders') THEN OpenDone(h, p, mode)
         ELSE fd' = Shut(h) /\ UNCHANGED <<names, data, open_files>>
  BY DEF Open
<1>2. /\ folders \subseteq folders' /\ folders' \subseteq Folder \cup {TopFolder} /\ TopFolder \in folders'
      /\ path' \in [Handle -> Path \cup {Unnamed}]
  <2>1. p.folder \in Folder
    BY DEF Folder
  <2> QED
    BY <1>1, <2>1, FileFacts DEF MadeFor
<1>3. CASE ~CanOpen(p, folders')
  <2>1. fd' = [fd EXCEPT ![h] = NoFile] /\ UNCHANGED <<names, data, open_files>>
    BY <1>1, <1>3 DEF Shut
  <2>2. Kept(names', data', folders', open_files', fd', path')
    BY <1>2, <2>1, FileFacts DEF Kept, Opened
  <2> QED
    BY <1>1, <2>2, FileFacts, KeptNext
<1>4. CASE CanOpen(p, folders')
  <2> DEFINE d == LeastOf(Descriptors \ Opened)
             c == IF Exists(p) THEN names[p] ELSE LeastOf(FreshContents)
  <2>1. /\ Descriptors \ Opened # {}
        /\ Exists(p) \/ (p.folder \in folders' /\ FreshContents # {})
    BY <1>4 DEF CanOpen
  <2>2. /\ open_files' = [open_files EXCEPT ![d] = [content |-> c, at |-> 0, mode |-> mode]]
        /\ names' = [names EXCEPT ![p] = c]
        /\ data' = IF Exists(p) THEN data ELSE [data EXCEPT ![c] = <<>>]
        /\ fd' = [fd EXCEPT ![h] = d]
    BY <1>1, <1>4 DEF OpenDone
  <2>3. d \in Descriptors \ Opened
    <3>1. Descriptors \ Opened \in SUBSET Nat
      BY FileAssumption
    <3> QED
      BY <2>1, <3>1, LeastIn
  <2>4. /\ c \in 1 .. Contents /\ (p.folder \in folders')
        /\ \A q \in Path : q # p => names[q] # c
    <3>1. CASE Exists(p)
      BY <1>2, <3>1, FileFacts DEF Exists
    <3>2. CASE ~Exists(p)
      <4>1. FreshContents \in SUBSET Nat
        BY FileAssumption DEF FreshContents
      <4>2. c \in FreshContents
        BY <2>1, <3>2, <4>1, LeastIn
      <4> QED
        BY <2>1, <3>2, <4>2 DEF FreshContents, InUse
    <3> QED
      BY <3>1, <3>2
  <2> HIDE DEF d, c
  <2>5. data' \in [1 .. Contents -> Stored]
    <3> QED
      BY <2>2, <2>4, EmptyStored, FileFacts
  <2>6. names' \in [Path -> 1 .. Contents \cup {NoFile}] /\ \A q \in Path : names'[q] = IF q = p THEN c ELSE names[q]
    BY <2>2, <2>4, FileFacts
  <2>7. /\ open_files' \in [Descriptors -> OpenEntry \cup {NoFile}] /\ open_files'[d] # NoFile
        /\ \A e \in Descriptors : e # d => open_files'[e] = open_files[e]
    <3>1. [content |-> c, at |-> 0, mode |-> mode] \in OpenEntry
      BY <2>4 DEF OpenEntry
    <3> QED
      BY <2>2, <2>3, <3>1, FileFacts
  <2>8. /\ fd' \in [Handle -> Descriptors \cup {NoFile}]
        /\ \A g \in Handle : fd'[g] = IF g = h THEN d ELSE fd[g]
        /\ \A g \in Handle : fd[g] # d
    BY <2>2, <2>3, FileFacts
  <2>9. \A g \in Handle : fd'[g] # NoFile =>
            open_files'[fd'[g]] # NoFile /\ \A k \in Handle : k # g => fd'[k] # fd'[g]
    BY <2>7, <2>8, FileFacts DEF Opened
  <2>10. \A q \in Path : names'[q] # NoFile => q.folder \in folders'
    BY <1>2, <2>4, <2>6, FileFacts
  <2>11. \A q, r \in Path : q # r /\ names'[q] # NoFile => names'[q] # names'[r]
    BY <2>4, <2>6, FileFacts
  <2>12. Kept(names', data', folders', open_files', fd', path')
    BY <1>2, <2>5, <2>6, <2>7, <2>8, <2>9, <2>10, <2>11 DEF Kept
  <2> QED
    BY <1>1, <2>12, FileFacts, KeptNext
<1> QED
  BY <1>3, <1>4

(* An open descriptor moves.                                                *)
LEMMA MovesKeep ==
    ASSUME FileInv, NEW d \in Opened, NEW to \in Nat, open_files' = [open_files EXCEPT ![d].at = to],
           data' \in [1 .. Contents -> Stored], UNCHANGED <<system, names, folders, fd, path>>
    PROVE  FileInv'
<1>1. open_files[d] \in OpenEntry /\ d \in Descriptors
  BY FileFacts
<1>2. open_files' = [open_files EXCEPT ![d] = [open_files[d] EXCEPT !.at = to]]
  OBVIOUS
<1>3. [open_files[d] EXCEPT !.at = to] \in OpenEntry
  BY <1>1 DEF OpenEntry
<1>4. /\ open_files' \in [Descriptors -> OpenEntry \cup {NoFile}]
      /\ \A e \in Descriptors : open_files[e] # NoFile => open_files'[e] # NoFile
  BY <1>1, <1>2, <1>3, FileFacts
<1>5. Kept(names', data', folders', open_files', fd', path')
  BY <1>4, FileFacts DEF Kept, Opened
<1> QED
  BY <1>5, FileFacts, KeptNext

LEMMA HandlesKeep ==
    ASSUME FileInv, UNCHANGED <<system, names, data, folders, open_files>>,
           fd' \in [Handle -> Descriptors \cup {NoFile}], path' \in [Handle -> Path \cup {Unnamed}],
           \A h \in Handle : fd'[h] # NoFile =>
               /\ \E g \in Handle : fd[g] = fd'[h]
               /\ \A g \in Handle : g # h => fd'[g] # fd'[h]
    PROVE  FileInv'
<1>1. \A h \in Handle : fd[h] # NoFile => open_files[fd[h]] # NoFile
  BY FileFacts DEF Opened
<1>2. Kept(names', data', folders', open_files', fd', path')
  BY <1>1, FileFacts DEF Kept
<1> QED
  BY <1>2, FileFacts, KeptNext

LEMMA NamesKeep ==
    ASSUME FileInv, UNCHANGED <<system, open_files, fd, path>>, data' \in [1 .. Contents -> Stored],
           folders' \subseteq Folder \cup {TopFolder}, TopFolder \in folders',
           names' \in [Path -> 1 .. Contents \cup {NoFile}],
           \A p \in Path : names'[p] # NoFile => p.folder \in folders',
           \A p, q \in Path : p # q /\ names'[p] # NoFile => names'[p] # names'[q]
    PROVE  FileInv'
<1>1. \A h \in Handle : fd[h] # NoFile => open_files[fd[h]] # NoFile
  BY FileFacts DEF Opened
<1>2. Kept(names', data', folders', open_files', fd', path')
  BY <1>1, FileFacts DEF Kept
<1> QED
  BY <1>2, FileFacts, KeptNext

(* What write puts into a content.                                          *)
LEMMA OverwrittenStored ==
    ASSUME NEW items \in Stored, NEW at \in Nat, at <= Len(items), NEW s \in Seq(Datum),
           at + Len(s) <= MaxContent
    PROVE  Overwritten(items, at, s) \in Stored
<1>1. items \in Seq(Datum) /\ Len(items) \in 0 .. MaxContent
  BY StoredTold
<1>2. /\ SubSeq(items, 1, at) \in Seq(Datum) /\ Len(SubSeq(items, 1, at)) = at
  BY <1>1
<1>3. PICK from \in Nat : from = at + Len(s) + 1
  OBVIOUS
<1>4. /\ SubSeq(items, from, Len(items)) \in Seq(Datum)
      /\ Len(SubSeq(items, from, Len(items))) = IF from <= Len(items) THEN Len(items) - from + 1 ELSE 0
  BY <1>1, <1>3
<1>5. PICK a \in Seq(Datum), b \in Seq(Datum) :
          /\ a = SubSeq(items, 1, at) /\ b = SubSeq(items, from, Len(items))
          /\ Len(a) = at /\ Len(b) = IF from <= Len(items) THEN Len(items) - from + 1 ELSE 0
  BY <1>2, <1>4
<1>6a. a \o s \in Seq(Datum) /\ Len(a \o s) = Len(a) + Len(s)
  OBVIOUS
<1>6. PICK c \in Seq(Datum) : c = a \o s /\ Len(c) = Len(a) + Len(s)
  BY <1>6a
<1>7. c \o b \in Seq(Datum) /\ Len(c \o b) = Len(c) + Len(b)
  OBVIOUS
<1>8. PICK n \in Nat, k \in Nat, l \in Nat : n = Len(items) /\ k = Len(s) /\ l = Len(b)
  BY <1>1
<1>9. n <= MaxContent /\ at + k <= MaxContent /\ l = IF at + k + 1 <= n THEN n - (at + k) ELSE 0
  BY <1>1, <1>3, <1>5, <1>8, FileAssumption
<1>10. at + k + l \in 0 .. MaxContent
  <2>1. n \in Nat /\ k \in Nat /\ l \in Nat /\ at \in Nat /\ MaxContent \in Nat
    BY FileAssumption
  <2>2. at <= n
    BY <1>8
  <2> QED
    BY <2>1, <2>2, <1>9
<1>11. Len(c \o b) \in 0 .. MaxContent
  BY <1>5, <1>6, <1>7, <1>8, <1>10
<1>12. Overwritten(items, at, s) = c \o b
  BY <1>3, <1>5, <1>6 DEF Overwritten
<1> QED
  BY <1>7, <1>11, <1>12, StoredTold

LEMMA CalmHandles ==
    ASSUME FileInv, NEW h \in Handle,
           \/ CloseHandle(h) \/ Destroy(h) \/ \E g \in Handle : Assign(h, g)
    PROVE  FileInv'
<1>1. CASE CloseHandle(h)
  <2>1. fd' = [fd EXCEPT ![h] = NoFile] /\ UNCHANGED <<system, names, data, folders, open_files, path>>
    BY <1>1 DEF CloseHandle, Shut
  <2> QED
    BY <2>1, FileFacts, HandlesKeep
<1>2. CASE Destroy(h)
  <2>1. /\ fd' = [fd EXCEPT ![h] = NoFile] /\ path' = [path EXCEPT ![h] = Unnamed]
        /\ UNCHANGED <<system, names, data, folders, open_files>>
    BY <1>2 DEF Destroy, Shut
  <2> QED
    BY <2>1, FileFacts, HandlesKeep
<1>3. ASSUME NEW g \in Handle, Assign(h, g) PROVE FileInv'
  <2>1. /\ fd' = [fd EXCEPT ![h] = fd[g], ![g] = NoFile] /\ path' = [path EXCEPT ![h] = path[g]] /\ h # g
        /\ UNCHANGED <<system, names, data, folders, open_files>>
    BY <1>3 DEF Assign, TakenOver
  <2>2. \A k \in Handle : fd'[k] = IF k = g THEN NoFile ELSE IF k = h THEN fd[g] ELSE fd[k]
    BY <2>1, FileFacts
  <2>3. fd' \in [Handle -> Descriptors \cup {NoFile}] /\ path' \in [Handle -> Path \cup {Unnamed}]
    BY <2>1, FileFacts
  <2>4. \A k \in Handle : fd'[k] # NoFile =>
            /\ \E l \in Handle : fd[l] = fd'[k]
            /\ \A l \in Handle : l # k => fd'[l] # fd'[k]
    BY <2>2, FileFacts
  <2> QED
    BY <2>1, <2>3, <2>4, HandlesKeep
<1> QED
  BY <1>1, <1>2, <1>3

LEMMA ReadsKeep ==
    ASSUME FileInv, NEW h \in Handle, NEW n \in 1 .. MaxContent, ReadItems(h, n)
    PROVE  FileInv'
<1> DEFINE e == open_files[fd[h]]
           left == Len(data[e.content]) - e.at
           got == IF e.mode = "w" \/ left < 0 THEN 0 ELSE IF left < n THEN left ELSE n
<1>1. /\ fd[h] # NoFile /\ open_files' = [open_files EXCEPT ![fd[h]].at = @ + got]
      /\ UNCHANGED <<system, names, data, folders, fd, path>>
  BY DEF ReadItems
<1>2. fd[h] \in Opened /\ e.at \in Nat /\ e.content \in 1 .. Contents
  BY <1>1, FileFacts DEF OpenEntry
<1>3. Len(data[e.content]) \in Nat
  BY <1>2, FileFacts, StoredTold
<1>4. PICK to \in Nat : to = e.at + got
  BY <1>2, <1>3
<1> HIDE DEF got
<1>5. open_files' = [open_files EXCEPT ![fd[h]].at = to]
  BY <1>1, <1>4
<1> QED
  BY <1>1, <1>2, <1>5, FileFacts, MovesKeep

LEMMA WritesKeep ==
    ASSUME FileInv, NEW h \in Handle, NEW v \in Datum, WriteItems(h, <<v>>)
    PROVE  FileInv'
<1>1. <<v>> \in Seq(Datum) /\ Len(<<v>>) = 1
  OBVIOUS
<1>0. PICK s \in Seq(Datum) : s = <<v>> /\ Len(s) \in Nat
  BY <1>1
<1> DEFINE e == open_files[fd[h]]
<1>2. /\ fd[h] # NoFile /\ e.at <= Len(data[e.content]) /\ e.at + Len(s) <= MaxContent
      /\ data' = [data EXCEPT ![e.content] = Overwritten(@, e.at, s)]
      /\ open_files' = [open_files EXCEPT ![fd[h]].at = @ + Len(s)]
      /\ UNCHANGED <<system, names, folders, fd, path>>
  BY <1>0 DEF WriteItems
<1>3. fd[h] \in Opened /\ e.at \in Nat /\ e.content \in 1 .. Contents
  BY <1>2, FileFacts DEF OpenEntry
<1>4. data[e.content] \in Stored
  BY <1>3, FileFacts
<1>5. Overwritten(data[e.content], e.at, s) \in Stored
  BY <1>2, <1>3, <1>4, OverwrittenStored
<1>6. data' \in [1 .. Contents -> Stored]
  BY <1>2, <1>3, <1>5, FileFacts
<1>7. PICK to \in Nat : to = e.at + Len(s)
  BY <1>0, <1>3
<1>8. open_files' = [open_files EXCEPT ![fd[h]].at = to]
  BY <1>2, <1>7
<1> QED
  BY <1>2, <1>3, <1>6, <1>8, MovesKeep

LEMMA SeeksKeep ==
    ASSUME FileInv, NEW h \in Handle, NEW to, fd[h] # NoFile, SetPosition(h, to)
    PROVE  FileInv'
<1>1. /\ to \in 0 .. MaxContent /\ open_files' = [open_files EXCEPT ![fd[h]].at = to]
      /\ UNCHANGED <<system, names, data, folders, fd, path>>
  BY DEF SetPosition
<1>2. to \in Nat /\ fd[h] \in Opened
  BY <1>1, FileFacts, FileAssumption
<1> QED
  BY <1>1, <1>2, FileFacts, MovesKeep

LEMMA RenamesKeep ==
    ASSUME FileInv, NEW p \in Path,
           \/ RemoveFile(p) \/ \E q \in Path : MoveFile(p, q) \/ MoveForcedly(p, q)
    PROVE  FileInv'
<1>1. CASE RemoveFile(p)
  <2>1. names' = [names EXCEPT ![p] = NoFile] /\ UNCHANGED <<system, data, folders, open_files, fd, path>>
    BY <1>1 DEF RemoveFile, Renames
  <2> QED
    BY <2>1, FileFacts, NamesKeep
<1>2. ASSUME NEW q \in Path, MoveFile(p, q) \/ MoveForcedly(p, q) PROVE FileInv'
  <2>1. /\ names' = [names EXCEPT ![q] = names[p], ![p] = NoFile] /\ q.folder \in folders /\ p # q
        /\ UNCHANGED <<system, data, folders, open_files, fd, path>>
    BY <1>2 DEF MoveFile, MoveForcedly, Renames, Reaches
  <2>2. /\ names' \in [Path -> 1 .. Contents \cup {NoFile}]
        /\ \A r \in Path : names'[r] = IF r = p THEN NoFile ELSE IF r = q THEN names[p] ELSE names[r]
    BY <2>1, FileFacts
  <2>3. \A r \in Path : names'[r] # NoFile => r.folder \in folders'
    BY <2>1, <2>2, FileFacts
  <2>4. \A r, t \in Path : r # t /\ names'[r] # NoFile => names'[r] # names'[t]
    BY <2>2, FileFacts
  <2> QED
    BY <2>1, <2>2, <2>3, <2>4, FileFacts, NamesKeep
<1> QED
  BY <1>1, <1>2

LEMMA CopiesKeep ==
    ASSUME FileInv, NEW p \in Path, NEW q \in Path, CopyTo(p, q)
    PROVE  FileInv'
<1> DEFINE c == IF names[q] = NoFile THEN LeastOf(FreshContents) ELSE names[q]
<1>1. /\ names[p] # NoFile /\ q.folder \in folders /\ (names[q] = NoFile => FreshContents # {})
      /\ names' = [names EXCEPT ![q] = c] /\ data' = [data EXCEPT ![c] = data[names[p]]]
      /\ UNCHANGED <<system, folders, open_files, fd, path>>
  BY DEF CopyTo, Exists, Reaches
<1>2. c \in 1 .. Contents /\ \A r \in Path : r # q => names[r] # c
  <2>1. CASE names[q] = NoFile
    <3>1. FreshContents \in SUBSET Nat
      BY FileAssumption DEF FreshContents
    <3>2. c \in FreshContents
      BY <1>1, <2>1, <3>1, LeastIn
    <3> QED
      BY <3>2 DEF FreshContents, InUse
  <2>2. CASE names[q] # NoFile
    BY <2>2, FileFacts
  <2> QED
    BY <2>1, <2>2
<1> HIDE DEF c
<1>3. data[names[p]] \in Stored
  BY <1>1, FileFacts
<1>4. data' \in [1 .. Contents -> Stored]
  BY <1>1, <1>2, <1>3, FileFacts
<1>5. /\ names' \in [Path -> 1 .. Contents \cup {NoFile}]
      /\ \A r \in Path : names'[r] = IF r = q THEN c ELSE names[r]
  BY <1>1, <1>2, FileFacts
<1>6. \A r \in Path : names'[r] # NoFile => r.folder \in folders'
  BY <1>1, <1>5, FileFacts
<1>7. \A r, t \in Path : r # t /\ names'[r] # NoFile => names'[r] # names'[t]
  BY <1>2, <1>5, FileFacts
<1> QED
  BY <1>1, <1>4, <1>5, <1>6, <1>7, FileFacts, NamesKeep

LEMMA FoldersKeep ==
    ASSUME FileInv, NEW f \in Folder, CreateFolder(f) \/ RemoveFolder(f)
    PROVE  FileInv'
<1>1. CASE CreateFolder(f)
  <2>1. folders' = folders \cup {f} /\ UNCHANGED <<system, names, data, open_files, fd, path>>
    BY <1>1 DEF CreateFolder
  <2> QED
    BY <2>1, FileFacts, NamesKeep
<1>2. CASE RemoveFolder(f)
  <2>1. /\ f # TopFolder /\ folders' = folders \ {f} /\ UNCHANGED <<system, data, open_files, fd, path>>
        /\ names' = [p \in Path |-> IF p \in FilesIn(f) THEN NoFile ELSE names[p]]
    BY <1>2 DEF RemoveFolder
  <2>2. /\ names' \in [Path -> 1 .. Contents \cup {NoFile}]
        /\ \A p \in Path : names'[p] # NoFile => names'[p] = names[p] /\ p.folder # f
    BY <2>1, FileFacts DEF FilesIn
  <2> QED
    BY <2>1, <2>2, FileFacts, NamesKeep
<1> QED
  BY <1>1, <1>2

LEMMA FileStep == FileInv /\ [FileNext]_fileVars => FileInv'
<1> SUFFICES ASSUME FileInv, [FileNext]_fileVars PROVE FileInv'
  OBVIOUS
<1>1. ASSUME NEW h \in Handle, CloseHandle(h) \/ Destroy(h) \/ \E g \in Handle : Assign(h, g)
      PROVE  FileInv'
  BY <1>1, CalmHandles
<1>2. ASSUME NEW h \in Handle, NEW p \in Path, NEW mode \in {"r", "w", "rw"}, Open(h, p, mode)
      PROVE  FileInv'
  BY <1>2, OpenKeeps
<1>3. ASSUME NEW h \in Handle, NEW mode \in {"r", "w"}, Reopen(h, mode) PROVE FileInv'
  <2>1. path[h] \in Path /\ Open(h, path[h], mode)
    BY <1>3, FileFacts DEF Reopen
  <2> QED
    BY <2>1, OpenKeeps
<1>4. ASSUME NEW h \in Handle, NEW n \in 1 .. MaxContent, ReadItems(h, n) PROVE FileInv'
  BY <1>4, ReadsKeep
<1>5. ASSUME NEW h \in Handle, NEW v \in Datum, WriteItems(h, <<v>>) PROVE FileInv'
  BY <1>5, WritesKeep
<1>6. ASSUME NEW h \in Handle, NEW offset, Seek(h, offset) \/ Backward(h, offset) PROVE FileInv'
  <2>1. fd[h] # NoFile /\ \E to : SetPosition(h, to)
    BY <1>6 DEF Seek, Backward
  <2> QED
    BY <2>1, SeeksKeep
<1>7. ASSUME NEW p \in Path, RemoveFile(p) \/ \E q \in Path : MoveFile(p, q) \/ MoveForcedly(p, q)
      PROVE  FileInv'
  BY <1>7, RenamesKeep
<1>8. ASSUME NEW p \in Path, NEW q \in Path, CopyTo(p, q) PROVE FileInv'
  BY <1>8, CopiesKeep
<1>9. ASSUME NEW f \in Folder, CreateFolder(f) \/ RemoveFolder(f) PROVE FileInv'
  BY <1>9, FoldersKeep
<1>10. CASE UNCHANGED fileVars
  BY <1>10 DEF fileVars, FileInv, FileTypeOK, DescriptorsApart, NamesApart, Opened
<1>11. CASE FileNext
  <2>1. \A h \in Handle : Forward(h, 1) => Backward(h, -1)
    BY DEF Forward
  <2> QED
    BY <1>1, <1>2, <1>3, <1>4, <1>5, <1>6, <1>7, <1>8, <1>9, <1>11, <2>1 DEF FileNext
<1> QED
  BY <1>10, <1>11

(* For any number of handles, names and descriptors, on both systems: a     *)
(* handle that is not closed holds an open descriptor, which no other       *)
(* handle holds (file.hpp: open, close, the move constructor, operator=),   *)
(* and no two names lead to the same content.                               *)
THEOREM FilesStayApart == FileSpec => [](FileTypeOK /\ DescriptorsApart /\ NamesApart)
<1>1. FileInv => FileTypeOK /\ DescriptorsApart /\ NamesApart
  BY DEF FileInv
<1> QED
  BY <1>1, FileStarts, FileStep, PTL DEF FileSpec

------------------------------------------------------------------------------
(* Dates                                                                    *)

(* A year behind q groups of 400, r of 100, s of 4 years and t single ones. *)
Years(q, r, s, t) == 400 * q + 100 * r + 4 * s + t
YearIs(y, q, r, s, t) ==
    q \in Nat /\ r \in 0 .. 3 /\ s \in 0 .. 24 /\ t \in 0 .. 3 /\ y = Years(q, r, s, t) + 1
Days(q, r, s, t)  == 146097 * q + 36524 * r + 1461 * s + 365 * t

DayAt(first, y, m, x) == first + Sums(y)[m] + x - 1

HasDay(y, m, x) == m \in 1 .. 12 /\ x \in 1 .. DaysOfMonth(y, m)

LEMMA GroupsOf ==
    ASSUME NEW y \in Nat
    PROVE  \E q \in Nat, r \in 0 .. 3, s \in 0 .. 24, t \in 0 .. 3 : y = Years(q, r, s, t)
<1>1. PICK q \in Nat, a \in 0 .. 399 : y = 400 * q + a
  <2>1. y \div 400 \in Nat /\ y % 400 \in 0 .. 399 /\ y = 400 * (y \div 400) + (y % 400)
    OBVIOUS
  <2> QED
    BY <2>1
<1>2. PICK r \in 0 .. 3, b \in 0 .. 99 : a = 100 * r + b
  <2>1. a \div 100 \in 0 .. 3 /\ a % 100 \in 0 .. 99 /\ a = 100 * (a \div 100) + (a % 100)
    OBVIOUS
  <2> QED
    BY <2>1
<1>3. PICK s \in 0 .. 24, t \in 0 .. 3 : b = 4 * s + t
  <2>1. b \div 4 \in 0 .. 24 /\ b % 4 \in 0 .. 3 /\ b = 4 * (b \div 4) + (b % 4)
    OBVIOUS
  <2> QED
    BY <2>1
<1>4. y = Years(q, r, s, t)
  BY <1>1, <1>2, <1>3 DEF Years
<1> QED
  BY <1>4

(* The leap year of a group of 4 is its last, but for three of the          *)
(* hundredth years in 400.                                                  *)
LEMMA LeapLast ==
    ASSUME NEW q \in Nat, NEW r \in 0 .. 3, NEW s \in 0 .. 24, NEW t \in 0 .. 3
    PROVE  IsLeap(Years(q, r, s, t) + 1) <=> t = 3 /\ ~(s = 24 /\ r # 3)
<1> DEFINE y == Years(q, r, s, t) + 1
<1>1. y \in Nat /\ y = 400 * q + 100 * r + 4 * s + t + 1
  BY DEF Years
<1>2. y % 4 = 0 <=> t = 3
  <2>1. CASE t = 3
    <3>1. y = 4 * (100 * q + 25 * r + s + 1) /\ 100 * q + 25 * r + s + 1 \in Nat
      BY <1>1, <2>1
    <3> QED
      BY <2>1, <3>1
  <2>2. CASE t # 3
    <3>1. y = 4 * (100 * q + 25 * r + s) + (t + 1) /\ 100 * q + 25 * r + s \in Nat /\ t + 1 \in 1 .. 3
      BY <1>1, <2>2
    <3> QED
      BY <2>2, <3>1
  <2> QED
    BY <2>1, <2>2
<1>3. y % 100 = 0 <=> s = 24 /\ t = 3
  <2>1. CASE s = 24 /\ t = 3
    <3>1. y = 100 * (4 * q + r + 1) /\ 4 * q + r + 1 \in Nat
      BY <1>1, <2>1
    <3> QED
      BY <2>1, <3>1
  <2>2. CASE ~(s = 24 /\ t = 3)
    <3>1. y = 100 * (4 * q + r) + (4 * s + t + 1) /\ 4 * q + r \in Nat /\ 4 * s + t + 1 \in 1 .. 99
      BY <1>1, <2>2
    <3> QED
      BY <2>2, <3>1
  <2> QED
    BY <2>1, <2>2
<1>4. ASSUME s = 24, t = 3 PROVE y % 400 = 0 <=> r = 3
  <2>1. CASE r = 3
    <3>1. y = 400 * (q + 1)
      BY <1>1, <1>4, <2>1
    <3> QED
      BY <2>1, <3>1
  <2>2. CASE r # 3
    <3>1. y = 400 * q + 100 * (r + 1) /\ 100 * (r + 1) \in 1 .. 399
      BY <1>1, <1>4, <2>2
    <3> QED
      BY <2>2, <3>1
  <2> QED
    BY <2>1, <2>2
<1> HIDE DEF y
<1> QED
  BY <1>2, <1>3, <1>4 DEF IsLeap, y

LEMMA YearBegins ==
    ASSUME NEW q, NEW r, NEW s, NEW t, NEW d, YearIs(d.year, q, r, s, t)
    PROVE  DayNumber(d) = DayAt(Days(q, r, s, t), d.year, d.month, d.day)
<1> DEFINE y == d.year - 1
<1>1. y = 400 * q + (100 * r + 4 * s + t) /\ 100 * r + 4 * s + t \in 0 .. 399 /\ y \in Nat
  BY DEF YearIs, Years
<1>0. q \in Nat /\ r \in 0 .. 3 /\ s \in 0 .. 24 /\ t \in 0 .. 3
  BY DEF YearIs
<1>2. y \div 400 = q /\ y % 400 = 100 * r + (4 * s + t) /\ 4 * s + t \in 0 .. 99
  BY <1>0, <1>1
<1>3. (y % 400) \div 100 = r /\ (y % 400) % 100 = 4 * s + t
  BY <1>0, <1>2
<1>4. ((y % 400) % 100) \div 4 = s
  BY <1>0, <1>3
<1>5. DayNumber(d) = y * 365 + q * 97 + r * 24 + s + Sums(d.year)[d.month] + d.day - 1
  BY <1>2, <1>3, <1>4 DEF DayNumber
<1>6. y * 365 + q * 97 + r * 24 + s = Days(q, r, s, t)
  BY <1>0, <1>1 DEF Days
<1> QED
  BY <1>5, <1>6 DEF DayAt

(* The tables of months.                                                    *)
LEMMA TableOf ==
    ASSUME NEW y
    PROVE  /\ Sums(y) \in [1 .. 13 -> 0 .. 366] /\ Sums(y)[1] = 0
           /\ Sums(y)[13] = IF IsLeap(y) THEN 366 ELSE 365
           /\ Sums(y)[12] = IF IsLeap(y) THEN 335 ELSE 334
           /\ \A m \in 1 .. 12 :
                 /\ DaysOfMonth(y, m) \in 28 .. 31 /\ DaysOfMonth(y, 12) = 31
                 /\ Sums(y)[m + 1] = Sums(y)[m] + DaysOfMonth(y, m)
<1>1. CASE IsLeap(y)
  <2>1. /\ Sums(y) \in [1 .. 13 -> 0 .. 366] /\ Sums(y)[1] = 0 /\ Sums(y)[13] = 366 /\ Sums(y)[12] = 335
    BY <1>1 DEF Sums, SumLeap
  <2>2. ASSUME NEW m \in 1 .. 12
        PROVE  /\ DaysOfMonth(y, m) \in 28 .. 31 /\ DaysOfMonth(y, 12) = 31
               /\ Sums(y)[m + 1] = Sums(y)[m] + DaysOfMonth(y, m)
    <3>1. m = 1 \/ m = 2 \/ m = 3 \/ m = 4 \/ m = 5 \/ m = 6 \/ m = 7 \/ m = 8 \/ m = 9 \/ m = 10 \/ m = 11 \/ m = 12
      OBVIOUS
    <3> QED
      BY <1>1, <3>1 DEF Sums, SumLeap, DaysOfMonth, MonthLeap
  <2> QED
    BY <1>1, <2>1, <2>2
<1>2. CASE ~IsLeap(y)
  <2>1. /\ Sums(y) \in [1 .. 13 -> 0 .. 366] /\ Sums(y)[1] = 0 /\ Sums(y)[13] = 365 /\ Sums(y)[12] = 334
    BY <1>2 DEF Sums, SumNormal
  <2>2. ASSUME NEW m \in 1 .. 12
        PROVE  /\ DaysOfMonth(y, m) \in 28 .. 31 /\ DaysOfMonth(y, 12) = 31
               /\ Sums(y)[m + 1] = Sums(y)[m] + DaysOfMonth(y, m)
    <3>1. m = 1 \/ m = 2 \/ m = 3 \/ m = 4 \/ m = 5 \/ m = 6 \/ m = 7 \/ m = 8 \/ m = 9 \/ m = 10 \/ m = 11 \/ m = 12
      OBVIOUS
    <3> QED
      BY <1>2, <3>1 DEF Sums, SumNormal, DaysOfMonth, MonthNormal
  <2> QED
    BY <1>2, <2>1, <2>2
<1> QED
  BY <1>1, <1>2

(* The guess of a month by 31 days is one too low, right or one too high,   *)
(* and never above the twelfth.                                             *)
MonthGuessed(y, p) ==
    LET k == p \div 31
    IN  IF p > Sums(y)[k + 2] THEN k + 1 ELSE IF p > Sums(y)[k + 1] THEN k ELSE k - 1

LEMMA MonthFound ==
    ASSUME NEW y, NEW p \in 1 .. 364
    PROVE  /\ MonthGuessed(y, p) \in 0 .. 11
           /\ p - Sums(y)[MonthGuessed(y, p) + 1] \in 1 .. DaysOfMonth(y, MonthGuessed(y, p) + 1)
<1>1. p \div 31 \in 0 .. 11 /\ p \in 31 * (p \div 31) .. 31 * (p \div 31) + 30
  OBVIOUS
<1>2. PICK k \in 0 .. 11 : k = p \div 31 /\ p \in 31 * k .. 31 * k + 30
  BY <1>1
<1>3. MonthGuessed(y, p) = IF p > Sums(y)[k + 2] THEN k + 1 ELSE IF p > Sums(y)[k + 1] THEN k ELSE k - 1
  BY <1>2 DEF MonthGuessed
<1>4. k = 0 \/ k = 1 \/ k = 2 \/ k = 3 \/ k = 4 \/ k = 5 \/ k = 6 \/ k = 7 \/ k = 8 \/ k = 9 \/ k = 10 \/ k = 11
  OBVIOUS
<1>5. CASE IsLeap(y)
  BY <1>2, <1>3, <1>4, <1>5 DEF Sums, SumLeap, DaysOfMonth, MonthLeap
<1>6. CASE ~IsLeap(y)
  BY <1>2, <1>3, <1>4, <1>6 DEF Sums, SumNormal, DaysOfMonth, MonthNormal
<1> QED
  BY <1>5, <1>6

LEMMA MonthsCounted ==
    ASSUME NEW d, d.month \in 1 .. 12
    PROVE  DaysBefore(d) = Sums(d.year)[d.month]
<1> DEFINE F(f) == [m \in 1 .. 12 |-> IF m = 1 THEN 0 ELSE f[m - 1] + DaysOfMonth(d.year, m - 1)]
           w    == [m \in 1 .. 12 |-> Sums(d.year)[m]]
           f    == CHOOSE g : g = F(g)
<1>1. w = F(w)
  <2>1. ASSUME NEW m \in 1 .. 12
        PROVE  w[m] = IF m = 1 THEN 0 ELSE w[m - 1] + DaysOfMonth(d.year, m - 1)
    <3>1. CASE m = 1
      BY <3>1, TableOf
    <3>2. CASE m # 1
      <4>1. m - 1 \in 1 .. 12 /\ (m - 1) + 1 = m
        BY <3>2
      <4>2. Sums(d.year)[(m - 1) + 1] = Sums(d.year)[m - 1] + DaysOfMonth(d.year, m - 1)
        BY <4>1, TableOf
      <4> QED
        BY <3>2, <4>1, <4>2
    <3> QED
      BY <3>1, <3>2
  <2> QED
    BY <2>1
<1>2. f = F(f)
  BY <1>1
<1>3. /\ \A m \in 1 .. 12 : f[m] = IF m = 1 THEN 0 ELSE f[m - 1] + DaysOfMonth(d.year, m - 1)
      /\ DaysBefore(d) = f[d.month]
  <2>1. DaysBefore(d) = f[d.month]
    BY DEF DaysBefore
  <2> QED
    BY <1>2, <2>1
<1> HIDE DEF f, F, w
<1>4. \A m \in 1 .. 12 : m # 1 /\ f[m - 1] = Sums(d.year)[m - 1] => f[m] = Sums(d.year)[m]
  <2> SUFFICES ASSUME NEW m \in 1 .. 12, m # 1, f[m - 1] = Sums(d.year)[m - 1] PROVE f[m] = Sums(d.year)[m]
    OBVIOUS
  <2>1. m - 1 \in 1 .. 12 /\ (m - 1) + 1 = m
    OBVIOUS
  <2>2. Sums(d.year)[(m - 1) + 1] = Sums(d.year)[m - 1] + DaysOfMonth(d.year, m - 1)
    BY <2>1, TableOf
  <2> QED
    BY <1>3, <2>1, <2>2
<1>5. f[1] = Sums(d.year)[1]
  BY <1>3, TableOf
<1>6. f[2] = Sums(d.year)[2]
  BY <1>4, <1>5
<1>7. f[3] = Sums(d.year)[3]
  BY <1>4, <1>6
<1>8. f[4] = Sums(d.year)[4]
  BY <1>4, <1>7
<1>9. f[5] = Sums(d.year)[5]
  BY <1>4, <1>8
<1>10. f[6] = Sums(d.year)[6]
  BY <1>4, <1>9
<1>11. f[7] = Sums(d.year)[7]
  BY <1>4, <1>10
<1>12. f[8] = Sums(d.year)[8]
  BY <1>4, <1>11
<1>13. f[9] = Sums(d.year)[9]
  BY <1>4, <1>12
<1>14. f[10] = Sums(d.year)[10]
  BY <1>4, <1>13
<1>15. f[11] = Sums(d.year)[11]
  BY <1>4, <1>14
<1>16. f[12] = Sums(d.year)[12]
  BY <1>4, <1>15
<1> QED
  BY <1>3, <1>5, <1>6, <1>7, <1>8, <1>9, <1>10, <1>11, <1>12, <1>13, <1>14, <1>15, <1>16

IsDate(d) == d \in [year : Nat, month : 1 .. 12, day : 1 .. 31] /\ IsValid(d)

(* A day of the month m that is in the calendar, and its number.            *)
LEMMA DayOf ==
    ASSUME NEW q, NEW r, NEW s, NEW t, NEW y, YearIs(y, q, r, s, t), NEW m, NEW x, HasDay(y, m, x)
    PROVE  IsDate(Date(y, m, x)) /\ DayNumber(Date(y, m, x)) = DayAt(Days(q, r, s, t), y, m, x)
<1>1. y \in Nat /\ y > 0
  BY DEF Years, YearIs
<1>2. x \in 1 .. 31 /\ m \in 1 .. 12
  BY TableOf DEF HasDay
<1>3. IsDate(Date(y, m, x))
  BY <1>1, <1>2 DEF IsDate, IsValid, Date, HasDay
<1>4. PICK d : d = Date(y, m, x)
  OBVIOUS
<1>5. d.year = y /\ d.month = m /\ d.day = x
  BY <1>4 DEF Date
<1>6. DayNumber(d) = DayAt(Days(q, r, s, t), d.year, d.month, d.day)
  BY <1>5, YearBegins
<1> QED
  BY <1>3, <1>4, <1>5, <1>6

(* The last two days of the year y.                                         *)
Ends(y, q, r, s, t, x) ==
    /\ IsDate(Date(y, 12, x))
    /\ DayNumber(Date(y, 12, x))
          = Days(q, r, s, t) + (IF t = 3 /\ ~(s = 24 /\ r # 3) THEN 335 ELSE 334) + x - 1

LEMMA DecemberOf ==
    ASSUME NEW q, NEW r, NEW s, NEW t, NEW y, YearIs(y, q, r, s, t), NEW x, x = 30 \/ x = 31
    PROVE  Ends(y, q, r, s, t, x)
<1>1. DaysOfMonth(y, 12) = 31 /\ Sums(y)[12] = IF IsLeap(y) THEN 335 ELSE 334
  BY TableOf
<1>2. IsLeap(y) <=> t = 3 /\ ~(s = 24 /\ r # 3)
  BY LeapLast DEF YearIs
<1>3. PICK m \in 1 .. 12 : m = 12
  OBVIOUS
<1>4. HasDay(y, m, x)
  BY <1>1, <1>3 DEF HasDay
<1>5. IsDate(Date(y, m, x)) /\ DayNumber(Date(y, m, x)) = DayAt(Days(q, r, s, t), y, m, x)
  BY <1>4, DayOf
<1> QED
  BY <1>1, <1>2, <1>3, <1>5 DEF DayAt, Ends

(* A number split the way operator final_date_t splits it.                  *)
SplitInto(v, q, r, p3, s, p5, t, p7) ==
    /\ q \in Nat /\ r \in 0 .. 4 /\ s \in 0 .. 24 /\ t \in 0 .. 4
    /\ p3 \in Nat /\ p3 < 36524 /\ p5 \in 0 .. 1460 /\ p7 \in 0 .. 364
    /\ v = 146097 * q + 36524 * r + p3 /\ p3 = 1461 * s + p5 /\ p5 = 365 * t + p7
    /\ (r = 4 => p3 = 0)

(* The groups of 400, 100, 4 and 1 years before a day, and the days left.   *)
Of400(n)  == (n + 1) \div 146097
Of100(n)  == ((n + 1) % 146097) \div 36524
After100(n) == ((n + 1) % 146097) % 36524
Of4(n)  == After100(n) \div 1461
After4(n) == After100(n) % 1461
Of1(n) == After4(n) \div 365
After1(n) == After4(n) % 365

LEMMA DivMod ==
    ASSUME NEW v \in Nat, NEW k \in Nat, k > 0
    PROVE  v \div k \in Nat /\ v % k \in Nat /\ v % k < k /\ v = k * (v \div k) + (v % k)
BY SMT

LEMMA SplitDays ==
    ASSUME NEW n \in Nat
    PROVE  SplitInto(n + 1, Of400(n), Of100(n), After100(n), Of4(n), After4(n), Of1(n), After1(n))
<1> DEFINE p1 == (n + 1) % 146097
<1>0. n + 1 \in Nat
  OBVIOUS
<1>1. Of400(n) \in Nat /\ p1 \in Nat /\ p1 < 146097 /\ n + 1 = 146097 * Of400(n) + p1
  BY <1>0, DivMod, SMT DEF Of400
<1> HIDE DEF p1
<1>2. Of100(n) \in 0 .. 4 /\ After100(n) \in Nat /\ After100(n) < 36524 /\ p1 = 36524 * Of100(n) + After100(n)
  BY <1>1, DivMod, SMT DEF Of100, After100, p1
<1>3. Of4(n) \in 0 .. 24 /\ After4(n) \in 0 .. 1460 /\ After100(n) = 1461 * Of4(n) + After4(n)
  BY <1>2, SMT DEF Of4, After4
<1>4a. 365 \in Nat /\ 365 > 0
  OBVIOUS
<1>4. Of1(n) \in 0 .. 4 /\ After1(n) \in 0 .. 364 /\ After4(n) = 365 * Of1(n) + After1(n)
  BY <1>3, <1>4a, DivMod, SMT DEF Of1, After1
<1> QED
  BY <1>1, <1>2, <1>3, <1>4, SMT DEF SplitInto

(* The three ways out of the conversion.                                    *)
LEMMA GroupEnds ==
    ASSUME NEW n \in Nat, NEW q, NEW r, NEW p3, NEW s, NEW p5, NEW t, NEW p7,
           SplitInto(n + 1, q, r, p3, s, p5, t, p7), p5 = 0, NEW x, x = IF r # 4 THEN 31 ELSE 30
    PROVE  /\ IsDate(Date(400 * q + 100 * r + 4 * s, 12, x))
           /\ DayNumber(Date(400 * q + 100 * r + 4 * s, 12, x)) = n
<1> DEFINE y == 400 * q + 100 * r + 4 * s
<1>1. /\ q \in Nat /\ r \in 0 .. 4 /\ s \in 0 .. 24 /\ x \in 30 .. 31
      /\ n + 1 = 146097 * q + 36524 * r + 1461 * s /\ (r = 4 => s = 0)
  BY SMT DEF SplitInto
<1>2. CASE r = 4
  <2>1. YearIs(y, q, 3, 24, 3)
    BY <1>1, <1>2, SMT DEF YearIs, Years
  <2>2. Ends(y, q, 3, 24, 3, x)
    BY <1>1, <2>1, DecemberOf, SMT
  <2> QED
    BY <1>1, <1>2, <2>2, SMT DEF Days, Ends
<1>3. CASE r # 4 /\ s # 0
  <2>1. YearIs(y, q, r, s - 1, 3)
    BY <1>1, <1>3, SMT DEF YearIs, Years
  <2>2. Ends(y, q, r, s - 1, 3, x)
    BY <1>1, <2>1, DecemberOf, SMT
  <2> QED
    BY <1>1, <1>3, <2>2, SMT DEF Days, Ends
<1>4. CASE r # 4 /\ s = 0 /\ r # 0
  <2>1. YearIs(y, q, r - 1, 24, 3)
    BY <1>1, <1>4, SMT DEF YearIs, Years
  <2>2. Ends(y, q, r - 1, 24, 3, x)
    BY <1>1, <2>1, DecemberOf, SMT
  <2> QED
    BY <1>1, <1>4, <2>2, SMT DEF Days, Ends
<1>5. CASE r = 0 /\ s = 0
  <2>1. YearIs(y, q - 1, 3, 24, 3)
    BY <1>1, <1>5, SMT DEF YearIs, Years
  <2>2. Ends(y, q - 1, 3, 24, 3, x)
    BY <1>1, <2>1, DecemberOf, SMT
  <2> QED
    BY <1>1, <1>5, <2>2, SMT DEF Days, Ends
<1> QED
  BY <1>2, <1>3, <1>4, <1>5, SMT

LEMMA YearEnds ==
    ASSUME NEW n \in Nat, NEW q, NEW r, NEW p3, NEW s, NEW p5, NEW t, NEW p7,
           SplitInto(n + 1, q, r, p3, s, p5, t, p7), p5 # 0, p7 = 0, NEW x, x = IF t # 4 THEN 31 ELSE 30
    PROVE  /\ IsDate(Date(400 * q + 100 * r + 4 * s + t, 12, x))
           /\ DayNumber(Date(400 * q + 100 * r + 4 * s + t, 12, x)) = n
<1> DEFINE y == 400 * q + 100 * r + 4 * s + t
<1>1. /\ q \in Nat /\ r \in 0 .. 3 /\ s \in 0 .. 24 /\ t \in 1 .. 4 /\ x \in 30 .. 31
      /\ n + 1 = 146097 * q + 36524 * r + 1461 * s + 365 * t /\ (t = 4 => s # 24)
  BY SMT DEF SplitInto
<1>2. YearIs(y, q, r, s, t - 1)
  BY <1>1, SMT DEF YearIs, Years
<1>3. Ends(y, q, r, s, t - 1, x)
  BY <1>1, <1>2, DecemberOf, SMT
<1> QED
  BY <1>1, <1>3, SMT DEF Days, Ends

LEMMA WithinYear ==
    ASSUME NEW n \in Nat, NEW q, NEW r, NEW p3, NEW s, NEW p5, NEW t, NEW p7,
           SplitInto(n + 1, q, r, p3, s, p5, t, p7), p5 # 0, p7 # 0,
           NEW y, y = 400 * q + 100 * r + 4 * s + t + 1, NEW m, m = MonthGuessed(y, p7)
    PROVE  /\ IsDate(Date(y, m + 1, p7 - Sums(y)[m + 1]))
           /\ DayNumber(Date(y, m + 1, p7 - Sums(y)[m + 1])) = n
<1>1. /\ q \in Nat /\ r \in 0 .. 3 /\ s \in 0 .. 24 /\ t \in 0 .. 3 /\ p7 \in 1 .. 364
      /\ n + 1 = 146097 * q + 36524 * r + 1461 * s + 365 * t + p7
  BY SMT DEF SplitInto
<1>2. YearIs(y, q, r, s, t)
  BY <1>1, SMT DEF Years, YearIs
<1>3. m \in 0 .. 11 /\ p7 - Sums(y)[m + 1] \in 1 .. DaysOfMonth(y, m + 1)
  BY <1>1, MonthFound, SMTT(30)
<1>4. PICK k \in 1 .. 12 : k = m + 1
  BY <1>3, SMT
<1>5. Sums(y)[k] \in Int
  BY TableOf, SMT
<1>6. PICK x : x = p7 - Sums(y)[k]
  OBVIOUS
<1>7. HasDay(y, k, x)
  BY <1>3, <1>4, <1>6, SMT DEF HasDay
<1>8. IsDate(Date(y, k, x)) /\ DayNumber(Date(y, k, x)) = DayAt(Days(q, r, s, t), y, k, x)
  BY <1>1, <1>2, <1>7, DayOf, SMT
<1>9. DayAt(Days(q, r, s, t), y, k, x) = n
  BY <1>1, <1>5, <1>6, SMT DEF Days, DayAt
<1> QED
  BY <1>4, <1>6, <1>8, <1>9, SMT

LEMMA NumberToDate ==
    ASSUME NEW n \in Nat
    PROVE  IsDate(DateOf(n)) /\ DayNumber(DateOf(n)) = n
<1>1. PICK q, r, p3, s, p5, t, p7 :
              /\ SplitInto(n + 1, q, r, p3, s, p5, t, p7)
              /\ q = Of400(n) /\ r = Of100(n) /\ p3 = After100(n) /\ s = Of4(n) /\ p5 = After4(n)
              /\ t = Of1(n) /\ p7 = After1(n)
  BY SplitDays
<1>2. q \in Nat /\ r \in 0 .. 4 /\ s \in 0 .. 24 /\ t \in 0 .. 4
  BY <1>1 DEF SplitInto
<1>3. /\ q * 400 = 400 * q /\ r * 100 = 100 * r /\ s * 4 = 4 * s
      /\ (r * 100 # 400) = (r # 4)
  BY <1>2
<1> DEFINE y == 400 * q + 100 * r + 4 * s + t + 1
           m == MonthGuessed(y, p7)
<1>4. DateOf(n) = IF p5 = 0 THEN Date(400 * q + 100 * r + 4 * s, 12, IF r # 4 THEN 31 ELSE 30)
                  ELSE IF p7 = 0 THEN Date(400 * q + 100 * r + 4 * s + t, 12, IF t # 4 THEN 31 ELSE 30)
                  ELSE Date(y, m + 1, p7 - Sums(y)[m + 1])
  BY <1>1, <1>3, SMT DEF DateOf, MonthGuessed, Of400, Of100, After100, Of4, After4, Of1, After1
<1> HIDE DEF y, m
<1>5. CASE p5 = 0
  BY <1>1, <1>4, <1>5, GroupEnds
<1>6. CASE p5 # 0 /\ p7 = 0
  BY <1>1, <1>4, <1>6, YearEnds
<1>7. CASE p5 # 0 /\ p7 # 0
  BY <1>1, <1>4, <1>7, WithinYear DEF y, m
<1> QED
  BY <1>5, <1>6, <1>7

(* The next year, and the days between.                                     *)
LEMMA NextYear ==
    ASSUME NEW q, NEW r, NEW s, NEW t, NEW y, YearIs(y, q, r, s, t)
    PROVE  \E a, b, c, e : /\ YearIs(y + 1, a, b, c, e)
                           /\ Days(a, b, c, e) = Days(q, r, s, t) + (IF IsLeap(y) THEN 366 ELSE 365)
<1>1. /\ q \in Nat /\ r \in 0 .. 3 /\ s \in 0 .. 24 /\ t \in 0 .. 3 /\ y = Years(q, r, s, t) + 1
      /\ y = 400 * q + 100 * r + 4 * s + t + 1
  BY DEF YearIs, Years
<1>2. IsLeap(y) <=> t = 3 /\ ~(s = 24 /\ r # 3)
  BY <1>1, LeapLast
<1>3. CASE t # 3
  <2>1. YearIs(y + 1, q, r, s, t + 1) /\ Days(q, r, s, t + 1) = Days(q, r, s, t) + 365
    BY <1>1, <1>3 DEF YearIs, Years, Days
  <2> QED
    BY <1>2, <1>3, <2>1
<1>4. CASE t = 3 /\ s # 24
  <2>1. YearIs(y + 1, q, r, s + 1, 0) /\ Days(q, r, s + 1, 0) = Days(q, r, s, t) + 366
    BY <1>1, <1>4 DEF YearIs, Years, Days
  <2> QED
    BY <1>2, <1>4, <2>1
<1>5. CASE t = 3 /\ s = 24 /\ r # 3
  <2>1. YearIs(y + 1, q, r + 1, 0, 0) /\ Days(q, r + 1, 0, 0) = Days(q, r, s, t) + 365
    BY <1>1, <1>5 DEF YearIs, Years, Days
  <2> QED
    BY <1>2, <1>5, <2>1
<1>6. CASE t = 3 /\ s = 24 /\ r = 3
  <2>1. YearIs(y + 1, q + 1, 0, 0, 0) /\ Days(q + 1, 0, 0, 0) = Days(q, r, s, t) + 366
    BY <1>1, <1>6 DEF YearIs, Years, Days
  <2> QED
    BY <1>2, <1>6, <2>1
<1> QED
  BY <1>3, <1>4, <1>5, <1>6

(* Where a date stands.                                                     *)
LEMMA DateTold ==
    ASSUME NEW d, IsDate(d)
    PROVE  /\ d.year \in Nat /\ d.year > 0 /\ d.month \in 1 .. 12 /\ d.day \in 1 .. 31
           /\ HasDay(d.year, d.month, d.day) /\ d.day <= DaysOfMonth(d.year, d.month)
           /\ d = Date(d.year, d.month, d.day)
BY DEF IsDate, IsValid, HasDay, Date

LEMMA Placed ==
    ASSUME NEW d, IsDate(d)
    PROVE  \E q, r, s, t : /\ YearIs(d.year, q, r, s, t)
                           /\ DayNumber(d) = DayAt(Days(q, r, s, t), d.year, d.month, d.day)
<1>1. PICK y \in Nat : d.year = y + 1
  <2>1. d.year - 1 \in Nat /\ d.year = (d.year - 1) + 1
    BY DateTold
  <2> QED
    BY <2>1
<1>2. PICK q \in Nat, r \in 0 .. 3, s \in 0 .. 24, t \in 0 .. 3 : y = Years(q, r, s, t)
  BY GroupsOf
<1>3. YearIs(d.year, q, r, s, t)
  BY <1>1, <1>2 DEF YearIs
<1> QED
  BY <1>3, YearBegins

LEMMA DaysTyped ==
    ASSUME NEW q, NEW r, NEW s, NEW t, NEW y, YearIs(y, q, r, s, t)
    PROVE  Days(q, r, s, t) \in Nat /\ Days(q, r, s, t) >= 365 * (y - 1) /\ (y > 1 => Days(q, r, s, t) > 0)
<1>1. /\ q \in Nat /\ r \in 0 .. 3 /\ s \in 0 .. 24 /\ t \in 0 .. 3
      /\ y = 400 * q + 100 * r + 4 * s + t + 1
  BY DEF YearIs, Years
<1> QED
  BY <1>1 DEF Days

LEMMA NumberTyped ==
    ASSUME NEW d, IsDate(d)
    PROVE  DayNumber(d) \in Nat /\ DayNumber(d) >= 365 * (d.year - 1)
<1>1. PICK q, r, s, t : /\ YearIs(d.year, q, r, s, t)
                        /\ DayNumber(d) = DayAt(Days(q, r, s, t), d.year, d.month, d.day)
  BY Placed
<1>2. Sums(d.year)[d.month] \in Nat /\ d.day \in 1 .. 31 /\ d.year \in Nat
  BY DateTold, TableOf
<1>3. Days(q, r, s, t) \in Nat /\ Days(q, r, s, t) >= 365 * (d.year - 1)
  BY <1>1, DaysTyped
<1>4. DayNumber(d) = Days(q, r, s, t) + Sums(d.year)[d.month] + d.day - 1
  BY <1>1 DEF DayAt
<1> QED
  BY <1>2, <1>3, <1>4

LEMMA DayAfter ==
    ASSUME NEW d, IsDate(d)
    PROVE  IsDate(TomorrowOf(d)) /\ DayNumber(TomorrowOf(d)) = DayNumber(d) + 1
<1>1. PICK q, r, s, t : /\ YearIs(d.year, q, r, s, t)
                        /\ DayNumber(d) = DayAt(Days(q, r, s, t), d.year, d.month, d.day)
  BY Placed
<1>2. PICK y, m, x : y = d.year /\ m = d.month /\ x = d.day /\ d = Date(y, m, x)
  BY DateTold
<1>3. y \in Nat /\ m \in 1 .. 12 /\ x \in 1 .. 31 /\ x <= DaysOfMonth(y, m) /\ DaysOfMonth(y, m) \in 28 .. 31
  BY <1>2, DateTold, TableOf
<1>4. PICK first \in Nat : first = Days(q, r, s, t)
  BY <1>1, DaysTyped
<1>5. Sums(y)[m] \in Nat
  BY <1>3, TableOf
<1>6. DayNumber(d) = first + Sums(y)[m] + x - 1
  BY <1>1, <1>2, <1>4 DEF DayAt
<1>7. CASE x + 1 <= DaysOfMonth(y, m)
  <2>1. TomorrowOf(d) = Date(y, m, x + 1)
    BY <1>2, <1>7 DEF TomorrowOf, Date
  <2>2. HasDay(y, m, x + 1)
    BY <1>3, <1>7 DEF HasDay
  <2>3. /\ IsDate(Date(y, m, x + 1)) 
        /\ DayNumber(Date(y, m, x + 1)) = DayAt(Days(q, r, s, t), y, m, x + 1)
    BY <1>1, <1>2, <2>2, DayOf
  <2>4. DayAt(Days(q, r, s, t), y, m, x + 1) = DayNumber(d) + 1
    BY <1>3, <1>4, <1>5, <1>6 DEF DayAt
  <2> QED
    BY <2>1, <2>3, <2>4
<1>8. CASE x + 1 > DaysOfMonth(y, m) /\ m + 1 <= 12
  <2>1. TomorrowOf(d) = Date(y, m + 1, 1) /\ x = DaysOfMonth(y, m)
    BY <1>2, <1>3, <1>8 DEF TomorrowOf, Date
  <2>2. PICK k \in 1 .. 12 : k = m + 1
    BY <1>3, <1>8
  <2>3. HasDay(y, k, 1)
    <3>1. DaysOfMonth(y, k) \in 28 .. 31
      BY <2>2, TableOf
    <3> QED
      BY <2>2, <3>1 DEF HasDay
  <2>4. IsDate(Date(y, k, 1)) /\ DayNumber(Date(y, k, 1)) = DayAt(Days(q, r, s, t), y, k, 1)
    BY <1>1, <1>2, <2>3, DayOf
  <2>5. Sums(y)[k] = Sums(y)[m] + DaysOfMonth(y, m)
    BY <1>3, <2>2, TableOf
  <2>6. DayAt(Days(q, r, s, t), y, k, 1) = DayNumber(d) + 1
    BY <1>3, <1>4, <1>5, <1>6, <2>1, <2>5 DEF DayAt
  <2> QED
    BY <2>1, <2>2, <2>4, <2>6
<1>9. CASE x + 1 > DaysOfMonth(y, m) /\ m + 1 > 12
  <2>1. TomorrowOf(d) = Date(y + 1, 1, 1) /\ x = DaysOfMonth(y, m) /\ m = 12
    BY <1>2, <1>3, <1>9 DEF TomorrowOf, Date
  <2>2. PICK z : z = y + 1
    OBVIOUS
  <2>3a. YearIs(y, q, r, s, t)
    BY <1>1, <1>2
  <2>3b. PICK a, b, c, e : /\ YearIs(y + 1, a, b, c, e)
                          /\ Days(a, b, c, e) = Days(q, r, s, t) + (IF IsLeap(y) THEN 366 ELSE 365)
    BY <2>3a, NextYear
  <2>3. YearIs(z, a, b, c, e) /\ Days(a, b, c, e) = first + (IF IsLeap(y) THEN 366 ELSE 365)
    BY <1>4, <2>2, <2>3b
  <2>4. PICK k \in 1 .. 12 : k = 1
    OBVIOUS
  <2>5. HasDay(z, k, k)
    <3>1. DaysOfMonth(z, k) \in 28 .. 31
      BY TableOf
    <3> QED
      BY <2>4, <3>1 DEF HasDay
  <2>6. IsDate(Date(z, k, k)) /\ DayNumber(Date(z, k, k)) = DayAt(Days(a, b, c, e), z, k, k)
    BY <2>3, <2>5, DayOf
  <2>7. Sums(z)[k] = 0 /\ Sums(y)[m] + 31 = (IF IsLeap(y) THEN 366 ELSE 365) /\ x = 31
    BY <2>1, <2>4, TableOf
  <2>8. DayAt(Days(a, b, c, e), z, k, k) = DayNumber(d) + 1
    BY <1>4, <1>5, <1>6, <2>3, <2>4, <2>7 DEF DayAt
  <2> QED
    BY <2>1, <2>2, <2>4, <2>6, <2>8
<1> QED
  BY <1>3, <1>7, <1>8, <1>9

LEMMA DayBefore ==
    ASSUME NEW d, IsDate(d), DayNumber(d) > 0
    PROVE  IsDate(YesterdayOf(d)) /\ DayNumber(YesterdayOf(d)) = DayNumber(d) - 1
<1>1. PICK y, m, x : y = d.year /\ m = d.month /\ x = d.day /\ d = Date(y, m, x)
  BY DateTold
<1>2. y \in Nat /\ y > 0 /\ m \in 1 .. 12 /\ x \in 1 .. 31 /\ x <= DaysOfMonth(y, m) /\ DaysOfMonth(y, m) \in 28 .. 31
  BY <1>1, DateTold, TableOf
<1>3. IsDate(YesterdayOf(d)) /\ TomorrowOf(YesterdayOf(d)) = d
  <2>1. CASE x > 1
    <3>1. YesterdayOf(d) = Date(y, m, x - 1)
      BY <1>1, <2>1 DEF YesterdayOf, Date
    <3>2. IsDate(Date(y, m, x - 1))
      BY <1>2, <2>1 DEF IsDate, IsValid, Date
    <3>3. TomorrowOf(Date(y, m, x - 1)) = d
      BY <1>1, <1>2, <2>1 DEF TomorrowOf, Date
    <3> QED
      BY <3>1, <3>2, <3>3
  <2>2. CASE x = 1 /\ m > 1
    <3>0. DaysOfMonth(y, m - 1) \in 28 .. 31 /\ m - 1 \in 1 .. 12
      BY <1>2, <2>2, TableOf
    <3>1. YesterdayOf(d) = Date(y, m - 1, DaysOfMonth(y, m - 1))
      BY <1>1, <2>2 DEF YesterdayOf, Date
    <3>2. IsDate(Date(y, m - 1, DaysOfMonth(y, m - 1)))
      BY <1>2, <3>0 DEF IsDate, IsValid, Date
    <3>3. TomorrowOf(Date(y, m - 1, DaysOfMonth(y, m - 1))) = d
      BY <1>1, <1>2, <2>2, <3>0 DEF TomorrowOf, Date
    <3> QED
      BY <3>1, <3>2, <3>3
  <2>3. CASE x = 1 /\ m = 1
    <3>1. y > 1
      <4>1. PICK q, r, s, t : YearIs(y, q, r, s, t) /\ DayNumber(d) = DayAt(Days(q, r, s, t), y, m, x)
        BY <1>1, Placed
      <4>2. Sums(y)[m] = 0
        BY <2>3, TableOf
      <4>3. y = 1 => Days(q, r, s, t) = 0
        BY <4>1 DEF YearIs, Years, Days
      <4> QED
        BY <1>2, <2>3, <4>1, <4>2, <4>3 DEF DayAt
    <3>2. DaysOfMonth(y - 1, 12) = 31
      BY TableOf
    <3>3. YesterdayOf(d) = Date(y - 1, 12, 31)
      BY <1>1, <2>3 DEF YesterdayOf, Date
    <3>4. IsDate(Date(y - 1, 12, 31))
      BY <1>2, <3>1, <3>2 DEF IsDate, IsValid, Date
    <3>5. TomorrowOf(Date(y - 1, 12, 31)) = d
      BY <1>1, <1>2, <2>3, <3>2 DEF TomorrowOf, Date
    <3> QED
      BY <3>3, <3>4, <3>5
  <2> QED
    BY <1>2, <2>1, <2>2, <2>3
<1>4. DayNumber(d) = DayNumber(YesterdayOf(d)) + 1
  BY <1>3, DayAfter
<1>5. DayNumber(YesterdayOf(d)) \in Nat
  BY <1>3, NumberTyped
<1> QED
  BY <1>3, <1>4, <1>5

(* A time of so many milliseconds.                                          *)
LEMMA DivIs ==
    ASSUME NEW v, NEW k \in Nat, k > 0, NEW a \in Nat, NEW b \in Nat, b < k, v = k * a + b
    PROVE  v \div k = a /\ v % k = b
BY SMT

LEMMA Below ==
    ASSUME NEW n, NEW k \in Nat
    PROVE  n \in 0 .. k - 1 <=> n \in Nat /\ n < k
OBVIOUS

LEMMA ClockRead ==
    ASSUME NEW v \in Nat, v \div Hour < HourRoom
    PROVE  ClockOf(v) \in TimeFields /\ TotalMilisecond(ClockOf(v)) = v
<1>1. PICK h \in Nat, a \in Nat : h = v \div Hour /\ a = v % Hour /\ v = Hour * h + a /\ a < Hour
  BY DivMod DEF Hour
<1>2. PICK m \in Nat, b \in Nat : m = a \div Minute /\ b = a % Minute /\ a = Minute * m + b /\ b < Minute
  BY DivMod DEF Minute
<1>3. PICK s \in Nat, c \in Nat : s = b \div Second /\ c = b % Second /\ b = Second * s + c /\ c < Second
  BY DivMod DEF Second
<1>4. h < 1024 /\ m < 60 /\ s < 60 /\ c < 1000
  BY <1>1, <1>2, <1>3, SMT DEF Hour, Minute, Second, HourRoom
<1>5. v % Minute = b
  <2>1. PICK n \in Nat, k \in Nat : n = 60 * h + m /\ k = Minute
    BY DEF Minute
  <2>2. v = k * n + b /\ k > 0 /\ b < k
    BY <1>1, <1>2, <2>1, SMT DEF Hour, Minute
  <2>3. v % k = b
    BY <2>2, DivIs
  <2> QED
    BY <2>1, <2>3
<1>6. v % Second = c
  <2>1. PICK n \in Nat, k \in Nat : n = 3600 * h + 60 * m + s /\ k = Second
    BY DEF Second
  <2>2. v = k * n + c /\ k > 0 /\ c < k
    BY <1>1, <1>2, <1>3, <2>1, SMT DEF Hour, Minute, Second
  <2>3. v % k = c
    BY <2>2, DivIs
  <2> QED
    BY <2>1, <2>3
<1>7. h % HourRoom = h
  BY <1>4, SMT DEF HourRoom
<1>8. ClockOf(v) = [hour |-> h, minute |-> m, second |-> s, milisecond |-> c]
  BY <1>1, <1>2, <1>3, <1>5, <1>6, <1>7 DEF ClockOf
<1>9. ClockOf(v) \in TimeFields
  BY <1>4, <1>8 DEF TimeFields, HourRoom
<1>10. TotalMilisecond(ClockOf(v)) = c + (s * Second) + (m * Minute) + (h * Hour)
  BY <1>8 DEF TotalMilisecond
<1> QED
  BY <1>1, <1>2, <1>3, <1>9, <1>10, SMT DEF Hour, Minute, Second

ChronoInv ==
    /\ elapsed \in Given /\ IsDate(date) /\ DayNumber(date) = elapsed
    /\ clock \in TimeFields /\ total \in {0} \cup Clocks /\ cleared \in BOOLEAN
    /\ ~cleared => TotalMilisecond(clock) = total

LEMMA InRoom ==
    ASSUME NEW n \in Given
    PROVE  n \in Nat /\ n < (YearRoom - 1) * 365
<1>1. n \in Nat /\ n \div 365 < YearRoom - 1
  BY ChronoAssumption
<1>2. 365 \in Nat /\ 365 > 0
  OBVIOUS
<1>3. n \div 365 \in Nat /\ n % 365 < 365 /\ n % 365 \in Nat /\ n = 365 * (n \div 365) + (n % 365)
  BY <1>1, <1>2, DivMod
<1> QED
  BY <1>1, <1>3, SMT DEF YearRoom

LEMMA MidnightIs == Midnight \in TimeFields /\ TotalMilisecond(Midnight) = 0
<1>1. 0 \in Nat /\ 0 \div Hour < HourRoom
  BY SMT DEF HourRoom, Hour
<1> QED
  BY <1>1, ClockRead DEF Midnight

LEMMA InvTells == ChronoInv => ChronoTypeOK /\ DatesExact
<1> SUFFICES ASSUME ChronoInv PROVE ChronoTypeOK /\ DatesExact
  OBVIOUS
<1>1. /\ elapsed \in Nat /\ elapsed < (YearRoom - 1) * 365 /\ DayNumber(date) = elapsed /\ IsDate(date)
  BY InRoom DEF ChronoInv
<1>2. date.year \in Nat /\ date.month \in 1 .. 12 /\ date.day \in 1 .. 31
  BY <1>1, DateTold
<1>3. DayNumber(date) >= 365 * (date.year - 1)
  BY <1>1, NumberTyped
<1>4. date.year < YearRoom
  BY <1>1, <1>2, <1>3, SMT DEF YearRoom
<1>5. date \in DateFields
  <2>0. YearRoom \in Nat
    BY DEF YearRoom
  <2>1. date.year \in 0 .. YearRoom - 1
    BY <1>2, <1>4, <2>0, Below
  <2>2. date \in [year : Nat, month : 1 .. 12, day : 1 .. 31]
    BY <1>1 DEF IsDate
  <2> QED
    BY <2>1, <2>2 DEF DateFields
<1>6. DayOfYear(date) = DaysBefore(date) + date.day
  BY <1>2, MonthsCounted DEF DayOfYear
<1>7. DayOfWeek(date) = (elapsed + 1) % 7
  BY <1>1 DEF DayOfWeek
<1> QED
  BY <1>1, <1>5, <1>6, <1>7 DEF ChronoInv, ChronoTypeOK, DatesExact, IsDate

LEMMA ChronoStarts == ChronoInit => ChronoInv
<1> SUFFICES ASSUME ChronoInit PROVE ChronoInv
  OBVIOUS
<1>1. elapsed \in Given /\ elapsed \in Nat
  BY InRoom DEF ChronoInit
<1> QED
  BY <1>1, NumberToDate, MidnightIs DEF ChronoInit, ChronoInv

LEMMA Moved ==
    ASSUME ChronoInv, NEW n, NEW d, MoveTo(n, d), n \in Given => IsDate(d) /\ DayNumber(d) = n
    PROVE  ChronoInv'
BY DEF ChronoInv, MoveTo

LEMMA ChronoStep == ChronoInv /\ [ChronoNext]_chronoVars => ChronoInv'
<1> SUFFICES ASSUME ChronoInv, [ChronoNext]_chronoVars PROVE ChronoInv'
  OBVIOUS
<1>1. /\ elapsed \in Given /\ elapsed \in Nat /\ IsDate(date) /\ DayNumber(date) = elapsed
  BY InRoom DEF ChronoInv
<1>2. \A n \in Given : n \in Nat
  BY InRoom
<1>3. CASE Tomorrow
  <2>1. IsDate(TomorrowOf(date)) /\ DayNumber(TomorrowOf(date)) = elapsed + 1
    BY <1>1, DayAfter
  <2> QED
    BY <1>3, <2>1, Moved DEF Tomorrow
<1>4. CASE Yesterday
  <2>1. ASSUME elapsed - 1 \in Given PROVE IsDate(YesterdayOf(date)) /\ DayNumber(YesterdayOf(date)) = elapsed - 1
    <3>1. elapsed > 0
      BY <1>1, <1>2, <2>1
    <3> QED
      BY <1>1, <3>1, DayBefore
  <2> QED
    BY <1>4, <2>1, Moved DEF Yesterday
<1>5. CASE Add
  <2>1. PICK k \in Steps : MoveTo(elapsed + k, DateOf(elapsed + k))
    BY <1>1, <1>5 DEF Add
  <2>2. elapsed + k \in Given => IsDate(DateOf(elapsed + k)) /\ DayNumber(DateOf(elapsed + k)) = elapsed + k
    BY <1>2, NumberToDate
  <2> QED
    BY <2>1, <2>2, Moved
<1>6. CASE Subtract
  <2>1. PICK k \in Steps : MoveTo(elapsed - k, DateOf(elapsed - k))
    BY <1>1, <1>6 DEF Subtract
  <2>2. elapsed - k \in Given => IsDate(DateOf(elapsed - k)) /\ DayNumber(DateOf(elapsed - k)) = elapsed - k
    BY <1>2, NumberToDate
  <2> QED
    BY <2>1, <2>2, Moved
<1>7. CASE SetTime
  <2>1. PICK v \in Clocks : /\ clock' = ClockOf(v) /\ total' = v /\ cleared' = FALSE
                            /\ UNCHANGED <<date, elapsed>>
    BY <1>7 DEF SetTime
  <2>2. v \in Nat /\ v \div Hour < HourRoom
    BY ChronoAssumption
  <2>3. ClockOf(v) \in TimeFields /\ TotalMilisecond(ClockOf(v)) = v
    BY <2>2, ClockRead
  <2> QED
    BY <1>1, <2>1, <2>3 DEF ChronoInv
<1>8. CASE SetDateTime
  <2>1. PICK k \in Steps, v \in Clocks :
            /\ elapsed + k \in Given /\ elapsed' = elapsed + k /\ date' = DateOf(elapsed + k)
            /\ clock' = Midnight /\ total' = v /\ cleared' = TRUE
    BY <1>8 DEF SetDateTime
  <2>2. IsDate(DateOf(elapsed + k)) /\ DayNumber(DateOf(elapsed + k)) = elapsed + k
    BY <1>2, <2>1, NumberToDate
  <2> QED
    BY <2>1, <2>2, MidnightIs DEF ChronoInv
<1>9. CASE UNCHANGED chronoVars
  BY <1>9 DEF ChronoInv, chronoVars
<1> QED
  BY <1>3, <1>4, <1>5, <1>6, <1>7, <1>8, <1>9 DEF ChronoNext

(* For every day whose year fits its field: however the date was reached,   *)
(* it is in the calendar and its number is that of the days passed; a time  *)
(* whose hours fit reads as it was given, unless it came with a datetime,   *)
(* which loses it (day.hpp, date.h, time.hpp, datetime.hpp:136-138).        *)
THEOREM CalendarIsExact == ChronoSpec => [](ChronoTypeOK /\ DatesExact)
<1> QED
  BY InvTells, ChronoStarts, ChronoStep, PTL DEF ChronoSpec
===============================================================================
