------------------------------ MODULE LogicSim ------------------------------
(***************************************************************************)
(* The simulator of logic gates (extern/simulation/elogic.hpp).  The       *)
(* inputs of all gates live in one array of four-valued states.  An input  *)
(* that changes puts its gate in the pile, once; a tick swaps the pile     *)
(* with the active queue and evaluates the gates taken from there, and     *)
(* every output writes the one input it is bound to.                       *)
(***************************************************************************)
EXTENDS Integers, Sequences, SequencesExt

CONSTANTS
    Nets    \* circuits: records [kind : gate -> name, to : gate -> <<gate, input>>]

VARIABLES
    net,            \* the circuit, wired before the first tick
    img,            \* estate_array: the state of every input
    in_queue,       \* the flag of every gate
    que_active,     \* the gates of the tick that runs
    que_pile,       \* the gates of the next tick
    evaluated       \* the gates evaluated so far

simVars == <<net, img, in_queue, que_active, que_pile, evaluated>>

-----------------------------------------------------------------------------
(* The states of a line: low, high, floating, unknown. *)
State == {"L", "H", "Z", "X"}

Gates(n) == DOMAIN n.kind

Inputs(kind) == IF kind \in {"enot", "probe"} THEN {"a"} ELSE {"a", "b"}

Ports(n) == {p \in Gates(n) \X {"a", "b"} : p[2] \in Inputs(n.kind[p[1]])}

(* A gate of two inputs: one value of an input that decides alone, and the *)
(* answers when it is there, when it is nowhere, and for floating inputs.  *)
Gate2(a, b, deciding, decided, other) ==
    IF a = deciding \/ b = deciding THEN decided
    ELSE IF a \in {"L", "H"} /\ a = b THEN other
    ELSE IF a = "Z" /\ b = "Z" THEN "Z"
    ELSE "X"

enand(a, b) == Gate2(a, b, "L", "H", "L")
eand(a, b)  == Gate2(a, b, "L", "L", "H")
enor(a, b)  == Gate2(a, b, "H", "L", "H")
eor(a, b)   == Gate2(a, b, "H", "H", "L")

enot(a) == CASE a = "L" -> "H" [] a = "H" -> "L" [] OTHER -> a

(* What gate g answers for the inputs `image`; a probe, a gate of the      *)
(* user without outputs, answers nothing.                                  *)
Answer(n, image, g) ==
    LET a == image[<<g, "a">>]
        b == image[<<g, "b">>]
    IN  CASE n.kind[g] = "enand" -> enand(a, b)
          [] n.kind[g] = "eand"  -> eand(a, b)
          [] n.kind[g] = "enor"  -> enor(a, b)
          [] n.kind[g] = "eor"   -> eor(a, b)
          [] n.kind[g] = "enot"  -> enot(a)

Drives(n, g) == n.kind[g] # "probe"

Driven(n) == {n.to[g] : g \in {h \in Gates(n) : Drives(n, h)}}

(* An output is bound to one input, and an input to one output at most.    *)
ASSUME NetsAssumption ==
    \A n \in Nets :
        /\ n.kind \in [Gates(n) -> {"enand", "eand", "enor", "eor", "enot", "probe"}]
        /\ \A g \in Gates(n) : Drives(n, g) =>
              /\ n.to[g] \in Ports(n)
              /\ \A h \in Gates(n) : Drives(n, h) /\ n.to[h] = n.to[g] => h = g

-----------------------------------------------------------------------------
SimInit ==
    /\ net \in Nets
    /\ img = [p \in Ports(net) |-> "L"]
    /\ in_queue = [g \in Gates(net) |-> FALSE]
    /\ que_active = <<>>
    /\ que_pile = <<>>
    /\ evaluated = {}

WriteInput_AlwaysAppends(p, v, flags) ==
    IF img[p] = v
    THEN /\ in_queue' = flags
         /\ UNCHANGED <<img, que_pile>>
    ELSE /\ img' = [img EXCEPT ![p] = v]
         /\ in_queue' = [flags EXCEPT ![p[1]] = TRUE]
         /\ que_pile' = Append(que_pile, p[1])

(* Writing an input: nothing happens when it has that value; its gate is   *)
(* appended unless its flag says it is waiting.  `flags` are the flags as  *)
(* the writer finds them.                                                  *)
WriteInput(p, v, flags) ==
    IF img[p] = v
    THEN /\ in_queue' = flags
         /\ UNCHANGED <<img, que_pile>>
    ELSE /\ img' = [img EXCEPT ![p] = v]
         /\ in_queue' = [flags EXCEPT ![p[1]] = TRUE]
         /\ que_pile' = IF flags[p[1]] THEN que_pile ELSE Append(que_pile, p[1])

(* The user sets an input no output is bound to, between two ticks. *)
Drive ==
    /\ que_active = <<>>
    /\ \E p \in Ports(net) \ Driven(net), v \in State :
        /\ img[p] # v
        /\ WriteInput(p, v, in_queue)
    /\ UNCHANGED <<net, que_active, evaluated>>

(* tick_run begins. *)
Swap ==
    /\ que_active = <<>>
    /\ que_pile # <<>>
    /\ que_active' = que_pile
    /\ que_pile' = que_active
    /\ UNCHANGED <<net, img, in_queue, evaluated>>

(* The loop of tick_run: the next gate leaves the queue, its flag is       *)
(* cleared, it is evaluated on the inputs of this moment and its output    *)
(* written through.                                                        *)
Spread ==
    /\ que_active # <<>>
    /\ LET g     == Head(que_active)
           flags == [in_queue EXCEPT ![g] = FALSE]
       IN  /\ que_active' = Tail(que_active)
           /\ evaluated' = evaluated \cup {g}
           /\ IF Drives(net, g)
              THEN WriteInput(net.to[g], Answer(net, img, g), flags)
              ELSE /\ in_queue' = flags
                   /\ UNCHANGED <<img, que_pile>>
    /\ UNCHANGED net

SimNext == Drive \/ Swap \/ Spread

SimSpec == SimInit /\ [][SimNext]_simVars

-----------------------------------------------------------------------------
SimTypeOK ==
    /\ net \in Nets
    /\ img \in [Ports(net) -> State]
    /\ in_queue \in [Gates(net) -> BOOLEAN]
    /\ que_active \in Seq(Gates(net))
    /\ que_pile \in Seq(Gates(net))
    /\ evaluated \subseteq Gates(net)

(* A gate waits in the queues at most once and exactly while its flag is   *)
(* set, and a gate that ran and does not wait has written what its inputs  *)
(* say now: no change is lost between two evaluations, in circuits with    *)
(* feedback and in a tick that changes inputs of gates before and behind.  *)
Settled ==
    /\ IsInjective(que_active \o que_pile)
    /\ \A g \in Gates(net) :
        /\ in_queue[g] <=> Contains(que_active \o que_pile, g)
        /\ g \in evaluated /\ ~in_queue[g] /\ Drives(net, g)
            => img[net.to[g]] = Answer(net, img, g)
=============================================================================
