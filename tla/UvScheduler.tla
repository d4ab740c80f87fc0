---------------------------- MODULE UvScheduler ----------------------------
(***************************************************************************)
(* The libuv scheduler and its invocation queue                            *)
(* (src/src/cpprealm/schedulers/default_scheduler.cpp).                    *)
(*                                                                         *)
(* Any thread that holds a shared_ptr to a scheduler may invoke a function *)
(* on it: the function is pushed on the queue under its mutex and the      *)
(* loop is woken with uv_async_send, in two separate steps.  The loop      *)
(* thread answers a wake-up by swapping the queue out and running the      *)
(* batch.  Dropping the last shared_ptr runs the destructor, which only    *)
(* asks the loop to close the handle: close_requested is set in one step   *)
(* and the loop is woken in another.                                       *)
(*                                                                         *)
(* libuv is external: `pending` is the wake-up flag of a uv_async_t, set   *)
(* by uv_async_send, cleared before the callback runs, so that any number  *)
(* of sends between two callbacks coalesce into one.                       *)
(***************************************************************************)
EXTENDS Naturals, Sequences

CONSTANTS Threads,      \* the threads of the program
          LoopThread,   \* the one that runs uv_default_loop()
          Schedulers,   \* identities of uv_scheduler objects
          Fns,          \* identities of the functions passed to invoke()
          NoScheduler,
          NoFn

ASSUME ConstantsAssumption ==
    /\ LoopThread \in Threads
    /\ NoScheduler \notin Schedulers
    /\ NoFn \notin Fns

VARIABLES
    handle,    \* handle[s]: life of the uv_async_t and its data
    holders,   \* holders[s]: threads that hold a shared_ptr to s
    queue,     \* queue[s]: invocation_queue::m_functions
    pending,   \* pending[s]: the uv_async_t has been signalled
    pc,        \* pc[t]: what thread t is in the middle of
    at,        \* at[t]: the scheduler it is in the middle of it on
    batchOf,   \* the scheduler whose invoke_all() the loop is in
    woken,     \* it is in there, before the swap
    batch,     \* the rest of invoke_all's local `functions`
    running,   \* the function the loop is inside
    pushed,    \* history: pushed[s], every function given to s, oldest first
    done       \* history: done[s], every function s has run, oldest first

vars == <<handle, holders, queue, pending, pc, at, batchOf, woken, batch,
          running, pushed, done>>

TypeOK ==
    /\ handle \in [Schedulers -> {"none", "open", "closing", "closed"}]
    /\ holders \in [Schedulers -> SUBSET Threads]
    /\ queue \in [Schedulers -> Seq(Fns)]
    /\ pending \in [Schedulers -> BOOLEAN]
    /\ pc \in [Threads -> {"idle", "pushed", "closing"}]
    /\ at \in [Threads -> Schedulers \cup {NoScheduler}]
    /\ batchOf \in Schedulers \cup {NoScheduler}
    /\ woken \in BOOLEAN
    /\ batch \in Seq(Fns)
    /\ running \in Fns \cup {NoFn}
    /\ pushed \in [Schedulers -> Seq(Fns)]
    /\ done \in [Schedulers -> Seq(Fns)]

Init ==
    /\ handle = [s \in Schedulers |-> "none"]
    /\ holders = [s \in Schedulers |-> {}]
    /\ queue = [s \in Schedulers |-> <<>>]
    /\ pending = [s \in Schedulers |-> FALSE]
    /\ pc = [t \in Threads |-> "idle"]
    /\ at = [t \in Threads |-> NoScheduler]
    /\ batchOf = NoScheduler
    /\ woken = FALSE
    /\ batch = <<>>
    /\ running = NoFn
    /\ pushed = [s \in Schedulers |-> <<>>]
    /\ done = [s \in Schedulers |-> <<>>]

-----------------------------------------------------------------------------
\* A thread executes program code when it is not inside a scheduler call; the
\* loop thread, in addition, only outside the callback or inside a function.
Free(t) ==
    /\ pc[t] = "idle"
    /\ t = LoopThread => (batchOf = NoScheduler \/ running # NoFn)

\* The loop dispatches a callback only when it is not already in one.
LoopIdle == pc[LoopThread] = "idle" /\ batchOf = NoScheduler

Fresh(f) == \A s \in Schedulers : \A i \in DOMAIN pushed[s] : pushed[s][i] # f

\* uv_scheduler(): uv_async_init and a new data block.
Create(t, s) ==
    /\ Free(t)
    /\ handle[s] = "none"
    /\ handle' = [handle EXCEPT ![s] = "open"]
    /\ holders' = [holders EXCEPT ![s] = {t}]
    /\ UNCHANGED <<queue, pending, pc, at, batchOf, woken, batch, running, pushed, done>>

\* A copy of the shared_ptr reaches another thread, as set_scheduler does when
\* the configuration it is put in is opened there.
Share(t, u, s) ==
    /\ Free(t)
    /\ t \in holders[s]
    /\ u \notin holders[s]
    /\ holders' = [holders EXCEPT ![s] = @ \cup {u}]
    /\ UNCHANGED <<handle, queue, pending, pc, at, batchOf, woken, batch, running, pushed, done>>

\* invoke(), first half: push under the mutex.
Push(t, s, f) ==
    /\ Free(t)
    /\ t \in holders[s]
    /\ Fresh(f)
    /\ queue' = [queue EXCEPT ![s] = Append(@, f)]
    /\ pushed' = [pushed EXCEPT ![s] = Append(@, f)]
    /\ pc' = [pc EXCEPT ![t] = "pushed"]
    /\ at' = [at EXCEPT ![t] = s]
    /\ UNCHANGED <<handle, holders, pending, batchOf, woken, batch, running, done>>

\* Fault: a release by any holder, not the last one, requests the close.
ReleaseTooEarly(t, s) ==
    /\ Free(t)
    /\ t \in holders[s]
    /\ handle[s] = "open"
    /\ holders' = [holders EXCEPT ![s] = @ \ {t}]
    /\ handle' = [handle EXCEPT ![s] = "closing"]
    /\ pc' = [pc EXCEPT ![t] = "closing"]
    /\ at' = [at EXCEPT ![t] = s]
    /\ UNCHANGED <<queue, pending, batchOf, woken, batch, running, pushed, done>>

\* Fault: the destructor sets close_requested and never wakes the loop.
ReleaseSilently(t, s) ==
    /\ Free(t)
    /\ t \in holders[s]
    /\ holders' = [holders EXCEPT ![s] = @ \ {t}]
    /\ handle' = [handle EXCEPT ![s] = IF holders[s] = {t} THEN "closing" ELSE @]
    /\ UNCHANGED <<queue, pending, pc, at, batchOf, woken, batch, running, pushed, done>>

\* ~uv_scheduler(), first half, when the last shared_ptr goes: the request to
\* close is stored.  A thread that is not the last just lets go.
Release(t, s) ==
    /\ Free(t)
    /\ t \in holders[s]
    /\ holders' = [holders EXCEPT ![s] = @ \ {t}]
    /\ IF holders[s] = {t}
       THEN /\ handle' = [handle EXCEPT ![s] = "closing"]
            /\ pc' = [pc EXCEPT ![t] = "closing"]
            /\ at' = [at EXCEPT ![t] = s]
       ELSE UNCHANGED <<handle, pc, at>>
    /\ UNCHANGED <<queue, pending, batchOf, woken, batch, running, pushed, done>>

\* The second half of invoke() and of ~uv_scheduler(): uv_async_send.  On a
\* handle the loop has already deleted the call touches freed memory; the
\* outcome modelled is that nothing is signalled (DestructorSignalsLiveHandle is
\* about this step).
Signal(t) ==
    /\ pc[t] # "idle"
    /\ pending' = [pending EXCEPT ![at[t]] = handle[at[t]] # "closed"]
    /\ pc' = [pc EXCEPT ![t] = "idle"]
    /\ at' = [at EXCEPT ![t] = NoScheduler]
    /\ UNCHANGED <<handle, holders, queue, batchOf, woken, batch, running, pushed, done>>

-----------------------------------------------------------------------------
\* The async callback finds close_requested not set and enters invoke_all().
Wake(s) ==
    /\ LoopIdle
    /\ pending[s]
    /\ handle[s] = "open"
    /\ pending' = [pending EXCEPT ![s] = FALSE]
    /\ batchOf' = s
    /\ woken' = TRUE
    /\ UNCHANGED <<handle, holders, queue, pc, at, batch, running, pushed, done>>

\* Fault: the batch is copied out and the queue is not emptied.
SwapCopies ==
    /\ woken
    /\ woken' = FALSE
    /\ batch' = queue[batchOf]
    /\ batchOf' = IF queue[batchOf] = <<>> THEN NoScheduler ELSE batchOf
    /\ UNCHANGED <<handle, holders, queue, pending, pc, at, running, pushed, done>>

\* Fault: one function is taken per wake-up, as if no two sends ever coalesced.
SwapOne ==
    /\ woken
    /\ woken' = FALSE
    /\ batch' = SubSeq(queue[batchOf], 1, 1)
    /\ queue' = [queue EXCEPT ![batchOf] = IF @ = <<>> THEN @ ELSE Tail(@)]
    /\ batchOf' = IF queue[batchOf] = <<>> THEN NoScheduler ELSE batchOf
    /\ UNCHANGED <<handle, holders, pending, pc, at, running, pushed, done>>

\* invoke_all() swaps the queue with its empty local vector, under the mutex.
\* Since Wake, other threads may have pushed, and the last may have let go.
Swap ==
    /\ woken
    /\ woken' = FALSE
    /\ batch' = queue[batchOf]
    /\ queue' = [queue EXCEPT ![batchOf] = <<>>]
    /\ batchOf' = IF queue[batchOf] = <<>> THEN NoScheduler ELSE batchOf
    /\ UNCHANGED <<handle, holders, pending, pc, at, running, pushed, done>>

\* The async callback, close_requested set: uv_close, whose callback deletes
\* the data block, with whatever the queue still holds, and the handle.
CloseHandle(s) ==
    /\ LoopIdle
    /\ pending[s]
    /\ handle[s] = "closing"
    /\ pending' = [pending EXCEPT ![s] = FALSE]
    /\ handle' = [handle EXCEPT ![s] = "closed"]
    /\ queue' = [queue EXCEPT ![s] = <<>>]
    /\ UNCHANGED <<holders, pc, at, batchOf, woken, batch, running, pushed, done>>

\* The loop over the batch enters the next function ...
Enter ==
    /\ batchOf # NoScheduler
    /\ ~woken
    /\ running = NoFn
    /\ running' = Head(batch)
    /\ batch' = Tail(batch)
    /\ UNCHANGED <<handle, holders, queue, pending, pc, at, batchOf, woken, pushed,
                   done>>

\* Fault: the end of a function is recorded without one having been entered.
LeaveUnentered ==
    /\ batchOf # NoScheduler
    /\ ~woken
    /\ pc[LoopThread] = "idle"
    /\ done' = [done EXCEPT ![batchOf] = Append(@, running)]
    /\ running' = NoFn
    /\ batchOf' = IF batch = <<>> THEN NoScheduler ELSE batchOf
    /\ UNCHANGED <<handle, holders, queue, pending, pc, at, woken, batch, pushed>>

\* ... and leaves it.
Leave ==
    /\ running # NoFn
    /\ pc[LoopThread] = "idle"
    /\ done' = [done EXCEPT ![batchOf] = Append(@, running)]
    /\ running' = NoFn
    /\ batchOf' = IF batch = <<>> THEN NoScheduler ELSE batchOf
    /\ UNCHANGED <<handle, holders, queue, pending, pc, at, woken, batch, pushed>>

\* The program may stop here: every call has returned and the loop has nothing
\* left to do.  A stop anywhere else is a deadlock.
Quiet ==
    /\ \A t \in Threads : pc[t] = "idle"
    /\ batchOf = NoScheduler
    /\ \A s \in Schedulers : queue[s] = <<>> /\ handle[s] # "closing"
    /\ UNCHANGED vars

Loop ==
    \/ Swap
    \/ Enter
    \/ Leave
    \/ \E s \in Schedulers : Wake(s) \/ CloseHandle(s)

Next ==
    \/ \E t \in Threads, s \in Schedulers :
          \/ Create(t, s)
          \/ \E u \in Threads : Share(t, u, s)
          \/ \E f \in Fns : Push(t, s, f)
          \/ Release(t, s)
    \/ \E t \in Threads : Signal(t)
    \/ Loop
    \/ Quiet

\* The loop keeps turning, a function that was entered returns, and a thread
\* between the two halves of a call goes on.  Nothing makes a thread invoke
\* or release.  Each scheduler's wake-up is served: libuv walks all the
\* handles that were signalled in every iteration.
Fairness ==
    /\ WF_vars(Swap)
    /\ WF_vars(Enter)
    /\ WF_vars(Leave)
    /\ \A t \in Threads : WF_vars(Signal(t))
    /\ \A s \in Schedulers : SF_vars(Wake(s)) /\ SF_vars(CloseHandle(s))

Spec == Init /\ [][Next]_vars
FairSpec == Spec /\ Fairness

-----------------------------------------------------------------------------
\* What the loop has taken out of the queue of s and not finished.
InFlight(s) ==
    IF batchOf # s THEN <<>>
    ELSE IF running = NoFn THEN batch ELSE <<running>> \o batch

InOrder(s) ==
    LET seen == done[s] \o (InFlight(s) \o queue[s])
    IN  IF handle[s] # "closed"
        THEN pushed[s] = seen
        ELSE seen = SubSeq(pushed[s], 1, Len(seen)) /\ Len(seen) <= Len(pushed[s])

\* The functions given to a scheduler are, in the order they were pushed, those
\* that ran, those in the batch being run, and those still queued: no function
\* is lost, run twice or overtaken, however pushes, swaps and functions that
\* invoke again interleave.  Closing the handle abandons the tail.
RunsInPushOrder == \A s \in Schedulers : InOrder(s)

\* No wake-up is lost between the push, the coalescing send and the swap: a
\* queue with work in it, or a requested close, has a signal pending or a
\* thread on its way to send one, or the loop is about to swap the queue out.
WakeupOnTheWay == \A s \in Schedulers :
    \/ pending[s]
    \/ woken /\ batchOf = s /\ handle[s] # "closing"
    \/ \E t \in Threads : pc[t] # "idle" /\ at[t] = s
    \/ handle[s] # "closing" /\ queue[s] = <<>>

\* A thread inside invoke() still has the handle and the data it dereferences,
\* and the data the loop's callback is using is not deleted under it.
InvokeSeesLiveHandle ==
    /\ \A t \in Threads : pc[t] = "pushed" => handle[at[t]] = "open"
    /\ batchOf # NoScheduler => handle[batchOf] # "closed"

\* A function that was invoked runs, unless its scheduler is destroyed.
InvokedFunctionsRun == \A s \in Schedulers, f \in Fns :
    (\E i \in DOMAIN pushed[s] : pushed[s][i] = f)
        ~> \/ \E i \in DOMAIN done[s] : done[s][i] = f
           \/ handle[s] = "closed"

\* A scheduler nobody holds any more has its handle closed and deleted.
HandleReclaimed == \A s \in Schedulers :
    handle[s] = "closing" ~> handle[s] = "closed"

\* The schedulers keep the promise of realm::scheduler.
Executor == INSTANCE SerialExecutor WITH
    accepted <- pushed,
    executed <- done,
    current <- IF running = NoFn THEN NoScheduler ELSE batchOf,
    stopped <- [s \in Schedulers |-> handle[s] = "closed"]

ImplementsExecutor == Executor!Spec

\* "Don't delete anything here as we need to delete it from within the event
\* loop instead" (default_scheduler.cpp:93): the handle the destructor signals
\* must not have been deleted by the loop before it does.
DestructorSignalsLiveHandle == \A t \in Threads :
    pc[t] = "closing" => handle[at[t]] # "closed"
=============================================================================
