---------------------------- MODULE CycleSearch ----------------------------
(****************************************************************************)
(* gc/ref.hpp for types that may form cycles (need_gc): the filter thread   *)
(* drops the references of a batch, then decides for each object by a       *)
(* depth first search (routing) whether it is owned only from inside a      *)
(* cycle, and destroys it with what it owned.  Threads of the program keep  *)
(* copying and assigning references meanwhile.                              *)
(*                                                                          *)
(* The ring of pushed objects is a sequence here; GcPipeline is about it.   *)
(****************************************************************************)
EXTENDS Integers, SequencesExt

CONSTANTS
    Node,           \* objects of one type, with fields that refer to objects
    Width,          \* the number of fields of an object
    Thread,         \* threads of the program
    Local,          \* the reference variables each of them has
    MaxAssign,      \* bound: assignments in all
    Null            \* null(), the empty object

ASSUME CycleAssumption ==
    /\ Width \in Nat /\ MaxAssign \in Nat
    /\ IsFiniteSet(Node) /\ IsFiniteSet(Thread) /\ IsFiniteSet(Local)
    /\ Null \notin Node /\ Thread \cap Node = {}

VARIABLES
    mem,            \* mem[c]: the object a reference c refers to
    owners,         \* the counter in m_record
    visited,        \* m_visited - g_base, -1 if not visited in this term
    can_arrive_root,\* m_can_arrive_root
    under_release,  \* m_under_release
    queue,          \* objects pushed and not yet taken
    batch,          \* objects taken and not yet released
    calls,          \* what the filter thread is doing, innermost call first
    g_root, g_degree_dvalue,
    sync,           \* the program waits (gc_sync) after each reference it drops
    om,             \* om[th]: local of operator=
    assigned        \* counts assignments, for MaxAssign

heapVars   == <<mem, owners, under_release>>
searchVars == <<visited, can_arrive_root, g_root, g_degree_dvalue>>
vars == <<heapVars, searchVars, queue, batch, calls, sync, om, assigned>>

Field(n)  == {<<n, w>> : w \in 1 .. Width}
Ref       == (UNION {Field(n) : n \in Node}) \cup (Thread \X Local)
Idle      == [dst |-> Null, src |-> Null, value |-> Null]

(* The objects that can be reached from those of X, X included: the least   *)
(* set that holds them and whatever a field of one of its objects refers to *)
Shut(m, S) == \A n \in S : \A f \in Field(n) : m[f] \in S \cup {Null}
Reaches(m, X) ==
    LET shut == {S \in SUBSET Node : Shut(m, S) /\ X \subseteq S \cup {Null}}
    IN  {n \in Node : \A S \in shut : n \in S}

InUse(th) == Reaches(mem, {mem[<<th, l>>] : l \in Local})

Init ==
    /\ mem \in [Ref -> Node \cup {Null}]
    /\ UNION {InUse(th) : th \in Thread} = Node
    /\ owners = [n \in Node |-> Cardinality({c \in Ref : mem[c] = n})]
    /\ visited = [n \in Node |-> -1]
    /\ can_arrive_root = [n \in Node |-> FALSE]
    /\ under_release = [n \in Node |-> FALSE]
    /\ queue = <<>> /\ batch = <<>> /\ calls = <<>>
    /\ g_root = Null /\ g_degree_dvalue = 0
    /\ sync \in BOOLEAN
    /\ om = [th \in Thread |-> Idle] /\ assigned = 0

(***************************** the filter thread ****************************)

Top == Head(calls)
Return == calls' = Tail(calls)
(* routing and the destructor of n go through its fields                    *)
Call(kind, n) == [kind |-> kind, node |-> n, i |-> 1, arrive |-> FALSE]

(* token: a node counts the visits of this term; an earlier mark is none.   *)
NewTerm       == [n \in Node |-> -1]
IsVisited(n)  == visited[n] >= 0
NewVisited(n) == [visited EXCEPT ![n] = IF IsVisited(n) THEN @ + 1 ELSE 1]
CanArrive(n)  == IsVisited(n) /\ can_arrive_root[n]
Release(n)    == under_release' = [under_release EXCEPT ![n] = TRUE]
Increase(n)   == [owners EXCEPT ![n] = @ + 1]
Decrease(n)   == [owners EXCEPT ![n] = @ - 1]

(* Mistakes, each named after the definition it stands for.                 *)
RouteField_NullStops ==
    /\ calls # <<>> /\ Top.kind = "routing" /\ Top.i <= Width
    /\ LET c == mem[<<Top.node, Top.i>>]
       IN  /\ c # Null /\ visited[c] < 0
           /\ visited' = [visited EXCEPT ![c] = 1]
           /\ calls' = <<Call("routing", c), [Top EXCEPT !.i = @ + 1]>> \o Tail(calls)
    /\ UNCHANGED <<heapVars, can_arrive_root, g_root, g_degree_dvalue, queue, batch, om, sync,
                   assigned>>

RouteReturn_Uncounted ==
    /\ calls # <<>> /\ Top.kind = "routing" /\ Top.i > Width /\ Top.node # g_root
    /\ can_arrive_root' = [can_arrive_root EXCEPT ![Top.node] = @ \/ Top.arrive]
    /\ calls' = <<[calls[2] EXCEPT !.arrive = @ \/ Top.arrive]>> \o Tail(Tail(calls))
    /\ UNCHANGED <<heapVars, visited, g_root, g_degree_dvalue, queue, batch, om, sync, assigned>>

AssignSwap_Uncounted(th) ==
    /\ om[th] # Idle
    /\ mem' = [mem EXCEPT ![om[th].dst] = om[th].value]
    /\ queue' = IF mem[om[th].dst] = Null THEN queue ELSE Append(queue, mem[om[th].dst])
    /\ om' = [om EXCEPT ![th] = Idle]
    /\ UNCHANGED <<owners, under_release, searchVars, batch, calls, sync, assigned>>

Clear_NullPushed(th, dst) ==
    /\ om[th] = Idle /\ (sync => queue = <<>> /\ batch = <<>> /\ calls = <<>>)
    /\ dst \in (Thread \X Local)
    /\ mem' = [mem EXCEPT ![dst] = Null]
    /\ queue' = Append(queue, mem[dst])
    /\ UNCHANGED <<owners, under_release, searchVars, batch, calls, om, sync, assigned>>

(* Each object of the batch loses one owner per push; only its last push    *)
(* stays (in_queue).  A new term forgets all visits.                        *)
TakeBatch ==
    /\ calls = <<>> /\ batch = <<>> /\ queue # <<>>
    /\ owners' = [n \in Node |-> owners[n] - Cardinality({k \in DOMAIN queue : queue[k] = n})]
    /\ LET last == {k \in DOMAIN queue : \A j \in k + 1 .. Len(queue) : queue[j] # queue[k]}
       IN  batch' = [k \in 1 .. Cardinality(last) |->
                        queue[CHOOSE j \in last : Cardinality({i \in last : i <= j}) = k]]
    /\ queue' = <<>>
    /\ visited' = NewTerm
    /\ UNCHANGED <<mem, under_release, can_arrive_root, g_root, g_degree_dvalue, calls, om,
                   sync, assigned>>

(* What starts the search for n: can_release, then the first lines of       *)
(* routing; the root counts no visit.                                       *)
StartSearch(n) ==
    /\ g_root' = n /\ g_degree_dvalue' = 0
    /\ visited' = [visited EXCEPT ![n] = 0]
    /\ can_arrive_root' = [can_arrive_root EXCEPT ![n] = TRUE]

(* meta::release of the next object of the batch                            *)
ReleaseNext ==
    /\ calls = <<>> /\ batch # <<>>
    /\ batch' = Tail(batch)
    /\ LET n == Head(batch)
       IN  IF IsVisited(n) \/ under_release[n]
           THEN UNCHANGED <<calls, under_release, searchVars>>
           ELSE IF owners[n] = 0
           THEN /\ Release(n)
                /\ calls' = <<Call("destroy", n)>>
                /\ UNCHANGED searchVars
           ELSE /\ StartSearch(n)
                /\ calls' = <<Call("routing", n)>>
                /\ UNCHANGED under_release
    /\ UNCHANGED <<mem, owners, queue, om, sync, assigned>>

(* routing looks at the next field                                          *)
RouteField ==
    /\ calls # <<>> /\ Top.kind = "routing" /\ Top.i <= Width
    /\ LET next(arrive) == [Top EXCEPT !.i = @ + 1, !.arrive = @ \/ arrive]
           c == mem[<<Top.node, Top.i>>]
       IN  \/ /\ c = Null
              /\ calls' = <<next(FALSE)>> \o Tail(calls)
              /\ UNCHANGED searchVars
           \/ /\ c # Null /\ CanArrive(c)
              /\ g_degree_dvalue' = g_degree_dvalue - 1
              /\ calls' = <<next(TRUE)>> \o Tail(calls)
              /\ UNCHANGED <<visited, can_arrive_root, g_root>>
           \/ /\ c # Null /\ IsVisited(c) /\ ~CanArrive(c)
              /\ visited' = NewVisited(c)
              /\ calls' = <<next(FALSE)>> \o Tail(calls)
              /\ UNCHANGED <<can_arrive_root, g_root, g_degree_dvalue>>
           \/ /\ c # Null /\ ~IsVisited(c)
              /\ visited' = NewVisited(c)
              /\ calls' = <<Call("routing", c), next(FALSE)>> \o Tail(calls)
              /\ UNCHANGED <<can_arrive_root, g_root, g_degree_dvalue>>
    /\ UNCHANGED <<heapVars, queue, batch, om, sync, assigned>>

(* routing of a node below the root returns                                 *)
RouteReturn ==
    /\ calls # <<>> /\ Top.kind = "routing" /\ Top.i > Width /\ Top.node # g_root
    /\ IF Top.arrive
       THEN /\ g_degree_dvalue' = g_degree_dvalue + owners[Top.node] - visited[Top.node]
            /\ can_arrive_root' = [can_arrive_root EXCEPT ![Top.node] = TRUE]
       ELSE UNCHANGED <<g_degree_dvalue, can_arrive_root>>
    /\ calls' = <<[calls[2] EXCEPT !.arrive = @ \/ Top.arrive]>> \o Tail(Tail(calls))
    /\ UNCHANGED <<heapVars, visited, g_root, queue, batch, om, sync, assigned>>

(* routing of the root returns: the verdict of can_release                  *)
Verdict ==
    /\ calls # <<>> /\ Top.kind = "routing" /\ Top.i > Width /\ Top.node = g_root
    /\ LET dvalue == g_degree_dvalue + owners[g_root] - visited[g_root]
       IN  IF Top.arrive
           THEN /\ g_degree_dvalue' = dvalue
                /\ IF dvalue = 0
                   THEN /\ Release(g_root)
                        /\ calls' = <<Call("destroy", g_root)>> \o Tail(calls)
                   ELSE Return /\ UNCHANGED under_release
           ELSE Return /\ UNCHANGED <<g_degree_dvalue, under_release>>
    /\ UNCHANGED <<mem, owners, visited, can_arrive_root, g_root, queue, batch, om, sync, assigned>>

(* A field of a destroyed object lets go of m: operator=(nullptr) with      *)
(* l_in_release, which pushes nothing.                                      *)
DestroyField ==
    /\ calls # <<>> /\ Top.kind = "destroy" /\ Top.i <= Width
    /\ LET f    == <<Top.node, Width + 1 - Top.i>>
           m    == mem[f]
           rest == <<[Top EXCEPT !.i = @ + 1]>> \o Tail(calls)
           dead == IF m = Null THEN TRUE ELSE under_release[m]
           Destroy == /\ Release(m)
                      /\ calls' = <<Call("destroy", m)>> \o rest
           Leave   == /\ calls' = rest /\ UNCHANGED under_release
       IN  /\ mem' = [mem EXCEPT ![f] = Null]
           /\ \/ /\ dead
                 /\ Leave /\ UNCHANGED <<owners, searchVars>>
              \/ /\ ~dead /\ CanArrive(m)
                 /\ Destroy /\ UNCHANGED <<owners, searchVars>>
              \/ /\ ~dead /\ IsVisited(m) /\ ~CanArrive(m)
                 /\ Leave /\ UNCHANGED <<owners, searchVars>>
              \/ /\ ~dead /\ ~IsVisited(m)
                 /\ owners' = Decrease(m)
                 /\ IF owners[m] = 1
                    THEN Destroy /\ UNCHANGED searchVars
                    ELSE /\ StartSearch(m)
                         /\ calls' = <<Call("routing", m)>> \o rest
                         /\ UNCHANGED under_release
    /\ UNCHANGED <<queue, batch, om, sync, assigned>>

(* the last field is destroyed                                              *)
DestroyReturn ==
    /\ calls # <<>> /\ Top.kind = "destroy" /\ Top.i > Width
    /\ Return
    /\ UNCHANGED <<heapVars, searchVars, queue, batch, om, sync, assigned>>

(************************* threads of the program ***************************)

(* the references a thread can name: its variables and, one arrow away, the *)
(* fields of the objects these refer to                                     *)
Named(th) ==
    {<<th, l>> : l \in Local}
        \cup UNION {Field(mem[<<th, l>>]) : l \in {k \in Local : mem[<<th, k>>] # Null}}

(* gc_sync returned                                                         *)
Quiet  == queue = <<>> /\ batch = <<>> /\ calls = <<>>
Synced == sync => Quiet

(* dst = src, first half: om is read, and compared with what dst holds      *)
AssignLoad(th, dst, src) ==
    /\ om[th] = Idle /\ assigned < MaxAssign /\ Synced
    /\ {dst, src} \subseteq Named(th)
    /\ mem[src] # mem[dst]
    /\ om' = [om EXCEPT ![th] = [dst |-> dst, src |-> src, value |-> mem[src]]]
    /\ assigned' = assigned + 1
    /\ UNCHANGED <<heapVars, searchVars, queue, batch, calls, sync>>

(* second half: the counter, then the swap; what dst held is pushed         *)
AssignSwap(th) ==
    /\ om[th] # Idle
    /\ LET dst == om[th].dst  value == om[th].value  old == mem[dst]
       IN  /\ owners' = IF value = Null THEN owners ELSE Increase(value)
           /\ mem' = [mem EXCEPT ![dst] = value]
           /\ queue' = IF old = Null THEN queue ELSE Append(queue, old)
    /\ om' = [om EXCEPT ![th] = Idle]
    /\ UNCHANGED <<under_release, searchVars, batch, calls, sync, assigned>>

(* dst = nullptr, and the end of a variable                                 *)
Clear(th, dst) ==
    /\ om[th] = Idle /\ Synced
    /\ dst \in Named(th) /\ mem[dst] # Null
    /\ mem' = [mem EXCEPT ![dst] = Null]
    /\ queue' = Append(queue, mem[dst])
    /\ UNCHANGED <<owners, under_release, searchVars, batch, calls, om, sync, assigned>>

Filter ==
    TakeBatch \/ ReleaseNext \/ RouteField \/ RouteReturn \/ Verdict \/ DestroyField
        \/ DestroyReturn

Next ==
    \/ Filter
    \/ \E th \in Thread :
        \/ \E dst, src \in Ref : AssignLoad(th, dst, src)
        \/ AssignSwap(th)
        \/ \E dst \in Ref : Clear(th, dst)

Spec == Init /\ [][Next]_vars
FairSpec == Spec /\ WF_vars(Filter)
-----------------------------------------------------------------------------
TypeOK ==
    /\ mem \in [Ref -> Node \cup {Null}]
    /\ owners \in [Node -> Nat]
    /\ visited \in [Node -> Int] /\ \A n \in Node : visited[n] >= -1
    /\ can_arrive_root \in [Node -> BOOLEAN] /\ under_release \in [Node -> BOOLEAN]
    /\ queue \in Seq(Node) /\ batch \in Seq(Node)
    /\ calls \in Seq([kind : {"routing", "destroy"}, node : Node, i : 1 .. Width + 1,
                       arrive : BOOLEAN])
    /\ g_root \in Node \cup {Null} /\ g_degree_dvalue \in Int
    /\ sync \in BOOLEAN
    /\ om \in [Thread -> [dst : Ref, src : Ref, value : Node \cup {Null}] \cup {Idle}]
    /\ assigned \in 0 .. MaxAssign

NoDangling == \A th \in Thread : \A n \in InUse(th) : ~under_release[n]

(* The case that the search decides rightly: a single thread, which waits   *)
(* after each drop, and objects with one field.                             *)
Careful == sync /\ Cardinality(Thread) <= 1 /\ Width <= 1

(* In that case there is no dangling reference (gc/README.md) and no        *)
(* garbage.  What a variable can reach is not destroyed; what none can      *)
(* reach, rings included, is destroyed when the filter thread is done.      *)
Exact == Careful =>
    /\ NoDangling
    /\ Quiet => \A n \in Node : under_release[n] <=> \A th \in Thread : n \notin InUse(th)

(* What gc/README.md:55 promises, asked only for a program that waits       *)
(* after each drop.  With two fields to an object it does not hold.         *)
KeptWhileHeld == sync => NoDangling

(* The counter of a live object covers every reference to it and every push *)
(* of it that was not taken: the verdict can only err by the edges it saw.  *)
OwnersCover ==
    \A n \in Node : ~under_release[n] =>
        owners[n] >= Cardinality({c \in Ref : mem[c] = n})
                        + Cardinality({k \in DOMAIN queue : queue[k] = n})

(* Every search and every destruction comes to its end, on any graph and    *)
(* with references moving under it.                                         *)
SearchEnds == (calls # <<>>) ~> (calls = <<>>)
=============================================================================
