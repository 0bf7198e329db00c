----------------------------- MODULE ThreadLife -----------------------------
(****************************************************************************)
(* concurrency/private/extern.thread.hpp and extern.thread_self.hpp: the    *)
(* block in which a thread finds its lambda (clambda_meta), shared by the   *)
(* creator, the thread and the destructor of `thread`; suspend and resume.  *)
(*                                                                          *)
(* Both platforms are modelled; `windows` tells which.  On linux a created  *)
(* thread runs at once and both it and the creator store the handler; on    *)
(* windows it is created suspended and started when the block is complete.  *)
(****************************************************************************)
EXTENDS Integers

CONSTANTS
    Block,          \* lambda blocks; each is used for one thread
    Variable,       \* variables of type thread
    Detaching,      \* whether the program makes detached threads (xdetached)
    MaxSuspend,     \* bound: calls of suspend in the lambda of a thread
    MaxResume,      \* bound: calls of resume for one thread
    Empty, Failed   \* nullptr and not_exist: the variable has no block

ASSUME ThreadAssumption ==
    /\ Detaching \subseteq BOOLEAN
    /\ MaxSuspend \in Nat /\ MaxResume \in Nat
    /\ Empty # Failed /\ {Empty, Failed} \cap Block = {}

VARIABLES
    windows,
    lambda,         \* lambda[b]: the block b, and the lambda's suspends to come
    open,           \* open[b]: what the system holds for b
    permits,        \* permits[b]: the semaphore (windows), or mutex, of suspend
    joinable_now,   \* joinable_now[b]: the semaphore for join was released
    m_lambda,       \* m_lambda[v]: the block a variable refers to
    run,            \* run[b]: where the thread of b is
    main,           \* the operation the program is in
    resumed         \* resumed[b]: calls of resume so far, at most MaxResume

threadVars ==
    <<windows, lambda, open, permits, joinable_now, m_lambda, run, main, resumed>>

Atrest   == [op |-> "idle", block |-> Empty]
NoLambda == [state |-> "none", detached |-> FALSE, handler |-> FALSE, asks |-> 0, left |-> 0,
             timed |-> FALSE]
Live(b)     == lambda[b].state = "live"
Detached(b) == lambda[b].detached

ThreadInit ==
    /\ windows \in BOOLEAN
    /\ lambda = [b \in Block |-> NoLambda]
    /\ open = [b \in Block |-> {}]
    /\ permits = [b \in Block |-> 0]
    /\ joinable_now = [b \in Block |-> FALSE]
    /\ m_lambda = [v \in Variable |-> Empty]
    /\ run = [b \in Block |-> "none"]
    /\ main = Atrest
    /\ resumed = [b \in Block |-> 0]

(******************************** the program *******************************)

(* thread v = xjoinable{...} or xdetached{...}: the block, its semaphores   *)
(* and the thread.  Nobody else knows b before the thread is created.       *)
Construct(v, b) ==
    /\ main = Atrest /\ m_lambda[v] = Empty /\ lambda[b].state = "none"
    /\ \E detached \in Detaching, asks \in 0 .. MaxSuspend, timed \in BOOLEAN :
        /\ lambda' = [lambda EXCEPT ![b] =
                        [state |-> "live", detached |-> detached, handler |-> FALSE,
                         asks |-> asks, left |-> asks, timed |-> timed]]
        /\ open' = [open EXCEPT ![b] =
                        {"suspend"} \cup (IF detached /\ ~windows THEN {} ELSE {"thread"})
                                    \cup (IF windows /\ ~detached THEN {"join"} ELSE {})]
    /\ m_lambda' = [m_lambda EXCEPT ![v] = b]
    /\ run' = [run EXCEPT ![b] = IF windows THEN "created" ELSE "entry"]
    /\ main' = [op |-> "handler", block |-> b]
    /\ UNCHANGED <<windows, permits, joinable_now, resumed>>

(* The block itself cannot be allocated: v stays as it was.  A semaphore or *)
(* the thread cannot be had: what was made is given back.                   *)
ConstructFails(v) ==
    /\ main = Atrest /\ m_lambda[v] = Empty
    /\ \E outcome \in {Empty, Failed} : m_lambda' = [m_lambda EXCEPT ![v] = outcome]
    /\ UNCHANGED <<windows, lambda, open, permits, joinable_now, run, main, resumed>>

StoreHandler ==
    /\ main.op = "handler"
    /\ lambda' = [lambda EXCEPT ![main.block].handler = TRUE]
    /\ main' = IF windows THEN [main EXCEPT !.op = "start"] ELSE Atrest
    /\ UNCHANGED <<windows, open, permits, joinable_now, m_lambda, run, resumed>>

(* ResumeThread(lambda.handler())                                           *)
Start ==
    /\ main.op = "start"
    /\ run' = [run EXCEPT ![main.block] = "entry"]
    /\ main' = Atrest
    /\ UNCHANGED <<windows, lambda, open, permits, joinable_now, m_lambda, resumed>>

(* dst = move(src): what dst referred to is forgotten                       *)
MoveThread(dst, src) ==
    /\ main = Atrest /\ dst # src
    /\ m_lambda' = [m_lambda EXCEPT ![dst] = m_lambda[src], ![src] = Empty]
    /\ UNCHANGED <<windows, lambda, open, permits, joinable_now, run, main, resumed>>

(* ~thread takes the block from the variable, which makes it Empty ...      *)
Discard(v) ==
    /\ main = Atrest /\ m_lambda[v] # Empty
    /\ m_lambda' = [m_lambda EXCEPT ![v] = Empty]
    /\ main' = IF m_lambda[v] = Failed THEN Atrest ELSE [op |-> "test", block |-> m_lambda[v]]
    /\ UNCHANGED <<windows, lambda, open, permits, joinable_now, run, resumed>>

(* ... leaves a detached thread alone ...                                   *)
TestDetached ==
    /\ main.op = "test"
    /\ main' = IF Detached(main.block) THEN Atrest ELSE [main EXCEPT !.op = "join"]
    /\ UNCHANGED <<windows, lambda, open, permits, joinable_now, m_lambda, run, resumed>>

(* ... waits for a joinable one ...                                         *)
JoinThread ==
    /\ main.op = "join"
    /\ IF windows THEN joinable_now[main.block] ELSE run[main.block] = "ended"
    /\ joinable_now' = [joinable_now EXCEPT ![main.block] = FALSE]
    /\ main' = [main EXCEPT !.op = "release"]
    /\ UNCHANGED <<windows, lambda, open, permits, m_lambda, run, resumed>>

ReleaseLambda(b) ==
    /\ open' = [open EXCEPT ![b] = {}]
    /\ lambda' = [lambda EXCEPT ![b].state = "freed"]

(* ... and gives everything back.                                           *)
JoinRelease ==
    /\ main.op = "release"
    /\ ReleaseLambda(main.block)
    /\ main' = Atrest
    /\ UNCHANGED <<windows, permits, joinable_now, m_lambda, run, resumed>>

(* A mistake: on windows, too, a second resume is forgotten.               *)
Resume_Remembered(b) ==
    /\ run[b] \in {"created", "entry", "body"} /\ resumed[b] < MaxResume
    /\ permits' = [permits EXCEPT ![b] = 1]
    /\ resumed' = [resumed EXCEPT ![b] = @ + 1]
    /\ UNCHANGED <<windows, lambda, open, joinable_now, m_lambda, run, main>>

(* resume(id), called by anybody who knows that the lambda is not over      *)
Resume(b) ==
    /\ run[b] \in {"created", "entry", "body"} /\ resumed[b] < MaxResume
    /\ permits' = [permits EXCEPT ![b] = IF windows THEN @ + 1 ELSE 1]
    /\ resumed' = [resumed EXCEPT ![b] = @ + 1]
    /\ UNCHANGED <<windows, lambda, open, joinable_now, m_lambda, run, main>>

(******************************** the thread ********************************)

(* A mistake: the thread releases its block whoever still needs it.         *)
Exit_ReleasesAll(b) ==
    /\ run[b] = "exit"
    /\ run' = [run EXCEPT ![b] = "ended"]
    /\ ReleaseLambda(b)
    /\ joinable_now' = [joinable_now EXCEPT ![b] = windows]
    /\ UNCHANGED <<windows, permits, m_lambda, main, resumed>>

Entry(b) ==
    /\ run[b] = "entry"
    /\ lambda' = [lambda EXCEPT ![b].handler = @ \/ ~windows]
    /\ run' = [run EXCEPT ![b] = "body"]
    /\ UNCHANGED <<windows, open, permits, joinable_now, m_lambda, main, resumed>>

(* one suspend of the lambda; with a timeout it may return without a permit *)
Suspend(b) ==
    /\ run[b] = "body" /\ lambda[b].left > 0
    /\ permits[b] > 0 \/ lambda[b].timed
    /\ permits' = [permits EXCEPT ![b] = IF @ > 0 THEN @ - 1 ELSE 0]
    /\ lambda' = [lambda EXCEPT ![b].left = @ - 1]
    /\ UNCHANGED <<windows, open, joinable_now, m_lambda, run, main, resumed>>

(* the lambda returns; is_detached is read from the block                   *)
LambdaReturns(b) ==
    /\ run[b] = "body" /\ lambda[b].left = 0
    /\ run' = [run EXCEPT ![b] = "exit"]
    /\ UNCHANGED <<windows, lambda, open, permits, joinable_now, m_lambda, main, resumed>>

Exit(b) ==
    /\ run[b] = "exit"
    /\ run' = [run EXCEPT ![b] = "ended"]
    /\ IF Detached(b)
       THEN ReleaseLambda(b) /\ UNCHANGED joinable_now
       ELSE /\ joinable_now' = [joinable_now EXCEPT ![b] = windows]
            /\ UNCHANGED <<lambda, open>>
    /\ UNCHANGED <<windows, permits, m_lambda, main, resumed>>

ThreadStep(b) == Entry(b) \/ Suspend(b) \/ LambdaReturns(b) \/ Exit(b)
MainStep      == StoreHandler \/ Start \/ TestDetached \/ JoinThread \/ JoinRelease

ThreadNext ==
    \/ \E v \in Variable :
        \/ \E b \in Block : Construct(v, b)
        \/ ConstructFails(v)
        \/ \E src \in Variable : MoveThread(v, src)
        \/ Discard(v)
    \/ MainStep
    \/ \E b \in Block : Resume(b) \/ ThreadStep(b)

ThreadFairness == WF_threadVars(MainStep) /\ \A b \in Block : WF_threadVars(ThreadStep(b))
ThreadSpec == ThreadInit /\ [][ThreadNext]_threadVars /\ ThreadFairness
-----------------------------------------------------------------------------
ThreadTypeOK ==
    /\ windows \in BOOLEAN
    /\ lambda \in [Block -> [state : {"none", "live", "freed"}, detached : BOOLEAN,
                             handler : BOOLEAN, asks : 0 .. MaxSuspend,
                             left : 0 .. MaxSuspend, timed : BOOLEAN]]
    /\ open \in [Block -> SUBSET {"suspend", "thread", "join"}]
    /\ permits \in [Block -> 0 .. MaxResume]
    /\ joinable_now \in [Block -> BOOLEAN]
    /\ m_lambda \in [Variable -> Block \cup {Empty, Failed}]
    /\ run \in [Block -> {"none", "created", "entry", "body", "exit", "ended"}]
    /\ main.op \in {"idle", "handler", "start", "test", "join", "release"}
    /\ main.block \in Block \cup {Empty}
    /\ resumed \in [Block -> 0 .. MaxResume]

(* Who may still read or write the block b: its thread, a variable, and the *)
(* operation the program is in.                                             *)
InThread(b) == run[b] \notin {"none", "ended"}
InProgram(b) == main.block = b \/ \E v \in Variable : m_lambda[v] = b

(* Two places touch the block of a detached thread without knowing whether  *)
(* the thread has released it (line 73): the constructor stores the handler *)
(* on linux (line 184), and ~thread asks is_detached (line 199).            *)
TouchesBlindly(b) ==
    /\ main.block = b /\ Detached(b)
    /\ main.op = "test" \/ (main.op = "handler" /\ ~windows)

(* A block and its semaphores outlive everybody who may touch them: the     *)
(* thread, detached or not; every operation of the program but the two of   *)
(* TouchesBlindly, which NoAccessAfterRelease is about; and the variables   *)
(* that may still join the thread, however they were moved.  Whoever joins  *)
(* or closes a thread finds its handler; and a block is freed with all that *)
(* the system held for it.                                                  *)
BlockOutlivesUsers ==
    \A b \in Block :
        /\ \/ InThread(b)
           \/ main.block = b /\ ~TouchesBlindly(b)
           \/ InProgram(b) /\ ~Detached(b)
              => Live(b) /\ "suspend" \in open[b]
        /\ run[b] = "exit" \/ main = [op |-> "join", block |-> b] => lambda[b].handler
        /\ ~Live(b) => open[b] = {}

(* The comment at extern.thread.hpp:96: is_detached is read early so that   *)
(* the creator makes no illegal access to a lambda its thread released.     *)
(* What holds of the two places of TouchesBlindly then would be this; the   *)
(* code stores the handler in the lambda when the thread may be over.       *)
NoAccessAfterRelease ==
    main.op \in {"handler", "start", "test"} => Live(main.block)

(* A thread that was resumed as often as it suspends comes to its end, on   *)
(* windows in any order of the calls ("many wake-ups are supported", line   *)
(* 119), on linux if it suspends once; and the program's join then returns. *)
WakesAreEnough ==
    \A b \in Block :
        /\ (Live(b) /\ resumed[b] >= lambda[b].asks /\ (windows \/ lambda[b].asks < 2))
                ~> (run[b] = "ended")
        /\ (main = [op |-> "join", block |-> b] /\ run[b] = "ended") ~> (main = Atrest)
=============================================================================
