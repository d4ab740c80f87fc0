--------------------------- MODULE SerialExecutor ---------------------------
(***************************************************************************)
(* What realm::scheduler promises its callers, without queues, batches,    *)
(* wake-ups or handles: a scheduler accepts functions from any thread and  *)
(* runs them one at a time, each once, in the order it accepted them,      *)
(* until it is shut down.  All schedulers share one thread of execution.   *)
(* UvScheduler implements this specification.                              *)
(***************************************************************************)
EXTENDS Naturals, Sequences

CONSTANTS Schedulers, Fns, NoScheduler

VARIABLES accepted,  \* accepted[s]: the functions given to s, oldest first
          executed,  \* executed[s]: the functions s has run to their end
          current,   \* the scheduler whose function is running, or NoScheduler
          stopped    \* stopped[s]: s has been shut down

vars == <<accepted, executed, current, stopped>>

Init ==
    /\ accepted = [s \in Schedulers |-> <<>>]
    /\ executed = [s \in Schedulers |-> <<>>]
    /\ current = NoScheduler
    /\ stopped = [s \in Schedulers |-> FALSE]

\* A function nobody has submitted yet is accepted by a running scheduler.
Submit(s, f) ==
    /\ ~stopped[s]
    /\ \A r \in Schedulers : \A i \in DOMAIN accepted[r] : accepted[r][i] # f
    /\ accepted' = [accepted EXCEPT ![s] = Append(@, f)]
    /\ UNCHANGED <<executed, current, stopped>>

\* The oldest function not yet executed starts, if nothing else is running.
Start(s) ==
    /\ ~stopped[s]
    /\ current = NoScheduler
    /\ Len(executed[s]) < Len(accepted[s])
    /\ current' = s
    /\ UNCHANGED <<accepted, executed, stopped>>

Finish(s) ==
    /\ current = s
    /\ executed' = [executed EXCEPT ![s] = Append(@, accepted[s][Len(@) + 1])]
    /\ current' = NoScheduler
    /\ UNCHANGED <<accepted, stopped>>

\* Shutting down abandons the functions that have not started.
Stop(s) ==
    /\ ~stopped[s]
    /\ current = NoScheduler
    /\ stopped' = [stopped EXCEPT ![s] = TRUE]
    /\ UNCHANGED <<accepted, executed, current>>

Next == \E s \in Schedulers :
    \/ \E f \in Fns : Submit(s, f)
    \/ Start(s)
    \/ Finish(s)
    \/ Stop(s)

Spec == Init /\ [][Next]_vars
=============================================================================
