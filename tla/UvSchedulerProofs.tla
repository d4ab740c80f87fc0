------------------------- MODULE UvSchedulerProofs -------------------------
(***************************************************************************)
(* Proofs about UvScheduler, for any threads, schedulers and functions.    *)
(***************************************************************************)
EXTENDS UvScheduler, SequenceTheorems, TLAPS

-----------------------------------------------------------------------------
(* Facts about sequences.                                                  *)

\* Appending before or after concatenating.
LEMMA ConcatAppend ==
    ASSUME NEW S, NEW s \in Seq(S), NEW t \in Seq(S), NEW e \in S
    PROVE  s \o Append(t, e) = Append(s \o t, e)
<1>1. Append(t, e) = t \o <<e>> /\ <<e>> \in Seq(S) /\ s \o t \in Seq(S)
  BY AppendIsConcat, ConcatProperties
<1>2. Append(s \o t, e) = (s \o t) \o <<e>>
  BY <1>1, AppendIsConcat
<1>3. QED
  BY <1>1, <1>2, ConcatAssociative

\* A sequence is its head and its tail.
LEMMA HeadThenTail ==
    ASSUME NEW S, NEW b \in Seq(S), b # <<>>
    PROVE  <<Head(b)>> \o Tail(b) = b
<1>1. /\ Head(b) \in S /\ Tail(b) \in Seq(S)
      /\ Len(Tail(b)) = Len(b) - 1 /\ Len(b) \in Nat \ {0}
      /\ \A i \in 1..Len(Tail(b)) : Tail(b)[i] = b[i + 1]
  BY HeadTailProperties, EmptySeq
<1> DEFINE c == <<Head(b)>> \o Tail(b)
<1>2. <<Head(b)>> \in Seq(S) /\ Len(<<Head(b)>>) = 1 /\ <<Head(b)>>[1] = b[1]
  BY <1>1
<1>3. /\ c \in Seq(S) /\ Len(c) = Len(b)
      /\ \A i \in 1..Len(b) : c[i] = IF i <= 1 THEN <<Head(b)>>[i] ELSE Tail(b)[i - 1]
  BY <1>1, <1>2, ConcatProperties
<1>4. \A i \in 1..Len(b) : c[i] = b[i]
  <2> TAKE i \in 1..Len(b)
  <2>1. CASE i = 1
    BY <2>1, <1>2, <1>3
  <2>2. CASE i # 1
    <3>1. i - 1 \in 1..Len(Tail(b)) /\ ~(i <= 1) /\ (i - 1) + 1 = i
      BY <2>2, <1>1
    <3>2. QED
      BY <3>1, <1>1, <1>3
  <2>3. QED
    BY <2>1, <2>2
<1>5. QED
  BY <1>3, <1>4, SeqEqual

\* Concatenation of sequences of functions.
LEMMA ConcatFns ==
    /\ \A s, t \in Seq(Fns) : s \o t \in Seq(Fns)
    /\ \A s, t, u \in Seq(Fns) : (s \o t) \o u = s \o (t \o u)
BY ConcatProperties, ConcatAssociative

\* Its elements.
LEMMA ConcatFnsElements == \A s, t \in Seq(Fns) :
    /\ Len(s \o t) = Len(s) + Len(t)
    /\ \A i \in 1..Len(s) + Len(t) :
          (s \o t)[i] = IF i <= Len(s) THEN s[i] ELSE t[i - Len(s)]
BY ConcatProperties

\* A sequence is a prefix of what begins with it.
LEMMA PrefixOfConcat ==
    ASSUME NEW S, NEW s \in Seq(S), NEW t \in Seq(S)
    PROVE  s = SubSeq(s \o t, 1, Len(s)) /\ Len(s) <= Len(s \o t)
<1> DEFINE c == s \o t
<1>1. /\ c \in Seq(S) /\ Len(c) = Len(s) + Len(t)
      /\ Len(s) \in Nat /\ Len(t) \in Nat
      /\ \A i \in 1..Len(s) : c[i] = s[i] /\ c[i] \in S
  BY ConcatProperties, LenProperties, ElementOfSeq
<1>2. /\ SubSeq(c, 1, Len(s)) \in Seq(S)
      /\ Len(SubSeq(c, 1, Len(s))) = Len(s)
      /\ \A i \in 1..Len(s) : SubSeq(c, 1, Len(s))[i] = c[i]
  <2>1. \A i \in 1..Len(s) : c[i] \in S
    BY <1>1
  <2>2. Len(s) \in Int /\ 1 \in Int
    BY <1>1
  <2>3. /\ SubSeq(c, 1, Len(s)) \in Seq(S)
        /\ Len(SubSeq(c, 1, Len(s))) = IF 1 <= Len(s) THEN Len(s) - 1 + 1 ELSE 0
        /\ \A i \in 1..(Len(s) - 1 + 1) : SubSeq(c, 1, Len(s))[i] = c[1 + i - 1]
    BY <2>1, <2>2, SubSeqProperties
  <2>4. QED
    BY <2>3, <1>1
<1>3. QED
  BY <1>1, <1>2, SeqEqual

-----------------------------------------------------------------------------
(* The inductive invariant.                                                *)

\* Where a thread is in the middle of a call, and who keeps the handle open.
CallsInv ==
    /\ \A t \in Threads : pc[t] = "idle" <=> at[t] = NoScheduler
    /\ \A t \in Threads : pc[t] = "pushed" => t \in holders[at[t]]
    /\ \A t \in Threads : pc[t] = "closing" => handle[at[t]] \in {"closing", "closed"}
    /\ \A s \in Schedulers : holders[s] # {} => handle[s] = "open"
    /\ \A s \in Schedulers : pending[s] => handle[s] \in {"open", "closing"}
    /\ \A s \in Schedulers : handle[s] = "closed" => queue[s] = <<>>

\* What the loop is doing.
LoopInv ==
    /\ batchOf = NoScheduler => ~woken /\ batch = <<>> /\ running = NoFn
    /\ batchOf # NoScheduler =>
           /\ handle[batchOf] \in {"open", "closing"}
           /\ woken => batch = <<>> /\ running = NoFn
           /\ ~woken => batch # <<>> \/ running # NoFn

IInv ==
    /\ TypeOK
    /\ CallsInv
    /\ LoopInv
    /\ WakeupOnTheWay
    /\ RunsInPushOrder

\* The invariant holds initially.
LEMMA InitIInv == Init => IInv
<1> SUFFICES ASSUME Init PROVE IInv
  OBVIOUS
<1> USE DEF Init
<1>1. <<>> \in Seq(Fns)
  BY EmptySeq
<1>2. TypeOK
  BY <1>1 DEF TypeOK
<1>3. CallsInv /\ LoopInv
  BY ConstantsAssumption DEF CallsInv, LoopInv
<1>4. WakeupOnTheWay
  BY DEF WakeupOnTheWay
<1>5. RunsInPushOrder
  <2> SUFFICES ASSUME NEW s \in Schedulers
               PROVE  pushed[s] = done[s] \o (InFlight(s) \o queue[s])
    BY DEF RunsInPushOrder, InOrder
  <2>1. InFlight(s) = <<>>
    BY ConstantsAssumption DEF InFlight
  <2>2. QED
    BY <2>1, <1>1, ConcatEmptySeq
<1>6. QED
  BY <1>2, <1>3, <1>4, <1>5 DEF IInv

\* Every step keeps the variables in their types.
LEMMA NextTypeOK ==
    ASSUME TypeOK, LoopInv, [Next]_vars
    PROVE  TypeOK'
<1> USE DEF TypeOK
<1>0. <<>> \in Seq(Fns)
  BY EmptySeq
<1>1. ASSUME NEW t \in Threads, NEW s \in Schedulers, Create(t, s)
      PROVE  TypeOK'
  BY <1>1 DEF Create
<1>2. ASSUME NEW t \in Threads, NEW s \in Schedulers, NEW u \in Threads, Share(t, u, s)
      PROVE  TypeOK'
  BY <1>2 DEF Share
<1>3. ASSUME NEW t \in Threads, NEW s \in Schedulers, NEW f \in Fns, Push(t, s, f)
      PROVE  TypeOK'
  BY <1>3, AppendProperties DEF Push
<1>4. ASSUME NEW t \in Threads, NEW s \in Schedulers, Release(t, s)
      PROVE  TypeOK'
  BY <1>4 DEF Release
<1>5. ASSUME NEW t \in Threads, Signal(t)
      PROVE  TypeOK'
  BY <1>5 DEF Signal
<1>6. ASSUME NEW s \in Schedulers, Wake(s)
      PROVE  TypeOK'
  BY <1>6 DEF Wake
<1>7. ASSUME Swap
      PROVE  TypeOK'
  BY <1>7, <1>0 DEF Swap, LoopInv
<1>8. ASSUME NEW s \in Schedulers, CloseHandle(s)
      PROVE  TypeOK'
  BY <1>8, <1>0 DEF CloseHandle
<1>9. ASSUME Enter
      PROVE  TypeOK'
  <2>1. batch # <<>>
    BY <1>9 DEF Enter, LoopInv
  <2>2. QED
    BY <1>9, <2>1, HeadTailProperties DEF Enter
<1>10. ASSUME Leave
       PROVE  TypeOK'
  BY <1>10, AppendProperties DEF Leave, LoopInv
<1>11. CASE Quiet \/ UNCHANGED vars
  BY <1>11 DEF Quiet, vars
<1>12. QED
  BY <1>1, <1>2, <1>3, <1>4, <1>5, <1>6, <1>7, <1>8, <1>9, <1>10, <1>11
  DEF Next, Loop

\* A call in progress keeps its scheduler, and only the loop closes a handle.
LEMMA NextCallsInv ==
    ASSUME TypeOK, CallsInv, LoopInv, [Next]_vars
    PROVE  CallsInv'
<1> USE ConstantsAssumption DEF TypeOK, CallsInv, LoopInv, Free, LoopIdle
<1>1. ASSUME NEW t \in Threads, NEW s \in Schedulers, Create(t, s)
      PROVE  CallsInv'
  <2>1. \A r \in Threads : pc'[r] = "idle" <=> at'[r] = NoScheduler
    BY <1>1 DEF Create
  <2>2. \A r \in Threads : pc'[r] = "pushed" => r \in holders'[at'[r]]
    BY <1>1 DEF Create
  <2>3. \A r \in Threads : pc'[r] = "closing" => handle'[at'[r]] \in {"closing", "closed"}
    BY <1>1 DEF Create
  <2>4. \A r \in Schedulers : holders'[r] # {} => handle'[r] = "open"
    BY <1>1 DEF Create
  <2>5. \A r \in Schedulers : pending'[r] => handle'[r] \in {"open", "closing"}
    BY <1>1 DEF Create
  <2>6. \A r \in Schedulers : handle'[r] = "closed" => queue'[r] = <<>>
    BY <1>1 DEF Create
  <2>7. QED
    BY <2>1, <2>2, <2>3, <2>4, <2>5, <2>6
<1>2. ASSUME NEW t \in Threads, NEW s \in Schedulers, NEW u \in Threads, Share(t, u, s)
      PROVE  CallsInv'
  BY <1>2 DEF Share
<1>3. ASSUME NEW t \in Threads, NEW s \in Schedulers, NEW f \in Fns, Push(t, s, f)
      PROVE  CallsInv'
  BY <1>3 DEF Push
<1>4. ASSUME NEW t \in Threads, NEW s \in Schedulers, Release(t, s)
      PROVE  CallsInv'
  <2>1. \A r \in Threads : pc'[r] = "idle" <=> at'[r] = NoScheduler
    BY <1>4 DEF Release
  <2>2. \A r \in Threads : pc'[r] = "pushed" => r \in holders'[at'[r]]
    BY <1>4 DEF Release
  <2>3. \A r \in Threads : pc'[r] = "closing" => handle'[at'[r]] \in {"closing", "closed"}
    BY <1>4 DEF Release
  <2>4. \A r \in Schedulers : holders'[r] # {} => handle'[r] = "open"
    BY <1>4 DEF Release
  <2>5. \A r \in Schedulers : pending'[r] => handle'[r] \in {"open", "closing"}
    BY <1>4 DEF Release
  <2>6. \A r \in Schedulers : handle'[r] = "closed" => queue'[r] = <<>>
    BY <1>4 DEF Release
  <2>7. QED
    BY <2>1, <2>2, <2>3, <2>4, <2>5, <2>6
<1>5. ASSUME NEW t \in Threads, Signal(t)
      PROVE  CallsInv'
  <2>1. \A r \in Threads : pc'[r] = "idle" <=> at'[r] = NoScheduler
    BY <1>5 DEF Signal
  <2>2. \A r \in Threads : pc'[r] = "pushed" => r \in holders'[at'[r]]
    BY <1>5 DEF Signal
  <2>3. \A r \in Threads : pc'[r] = "closing" => handle'[at'[r]] \in {"closing", "closed"}
    BY <1>5 DEF Signal
  <2>4. \A r \in Schedulers : holders'[r] # {} => handle'[r] = "open"
    BY <1>5 DEF Signal
  <2>5. \A r \in Schedulers : pending'[r] => handle'[r] \in {"open", "closing"}
    BY <1>5 DEF Signal
  <2>6. \A r \in Schedulers : handle'[r] = "closed" => queue'[r] = <<>>
    BY <1>5 DEF Signal
  <2>7. QED
    BY <2>1, <2>2, <2>3, <2>4, <2>5, <2>6
<1>6. ASSUME NEW s \in Schedulers, Wake(s)
      PROVE  CallsInv'
  BY <1>6 DEF Wake
<1>7. ASSUME Swap
      PROVE  CallsInv'
  BY <1>7 DEF Swap
<1>8. ASSUME NEW s \in Schedulers, CloseHandle(s)
      PROVE  CallsInv'
  BY <1>8 DEF CloseHandle
<1>9. ASSUME Enter
      PROVE  CallsInv'
  BY <1>9 DEF Enter
<1>10. ASSUME Leave
      PROVE  CallsInv'
  BY <1>10 DEF Leave
<1>11. CASE Quiet \/ UNCHANGED vars
  BY <1>11 DEF Quiet, vars
<1>12. QED
  BY <1>1, <1>2, <1>3, <1>4, <1>5, <1>6, <1>7, <1>8, <1>9, <1>10, <1>11
  DEF Next, Loop

\* The loop is idle, before the swap, or has something of a batch left.
LEMMA NextLoopInv ==
    ASSUME TypeOK, CallsInv, LoopInv, [Next]_vars
    PROVE  LoopInv'
<1> USE ConstantsAssumption DEF TypeOK, CallsInv, LoopInv, Free, LoopIdle
<1>1. ASSUME NEW t \in Threads, NEW s \in Schedulers, Create(t, s)
      PROVE  LoopInv'
  BY <1>1 DEF Create
<1>2. ASSUME NEW t \in Threads, NEW s \in Schedulers, NEW u \in Threads, Share(t, u, s)
      PROVE  LoopInv'
  BY <1>2 DEF Share
<1>3. ASSUME NEW t \in Threads, NEW s \in Schedulers, NEW f \in Fns, Push(t, s, f)
      PROVE  LoopInv'
  BY <1>3 DEF Push
<1>4. ASSUME NEW t \in Threads, NEW s \in Schedulers, Release(t, s)
      PROVE  LoopInv'
  BY <1>4 DEF Release
<1>5. ASSUME NEW t \in Threads, Signal(t)
      PROVE  LoopInv'
  BY <1>5 DEF Signal
<1>6. ASSUME NEW s \in Schedulers, Wake(s)
      PROVE  LoopInv'
  BY <1>6 DEF Wake
<1>7. ASSUME Swap
      PROVE  LoopInv'
  BY <1>7 DEF Swap
<1>8. ASSUME NEW s \in Schedulers, CloseHandle(s)
      PROVE  LoopInv'
  BY <1>8 DEF CloseHandle
<1>9. ASSUME Enter
      PROVE  LoopInv'
  BY <1>9 DEF Enter
<1>10. ASSUME Leave
      PROVE  LoopInv'
  BY <1>10 DEF Leave
<1>11. CASE Quiet \/ UNCHANGED vars
  BY <1>11 DEF Quiet, vars
<1>12. QED
  BY <1>1, <1>2, <1>3, <1>4, <1>5, <1>6, <1>7, <1>8, <1>9, <1>10, <1>11
  DEF Next, Loop

\* No step leaves a queue with work, or a requested close, without a wake-up.
LEMMA NextWakeup ==
    ASSUME TypeOK, CallsInv, LoopInv, WakeupOnTheWay, [Next]_vars
    PROVE  WakeupOnTheWay'
<1> USE ConstantsAssumption DEF TypeOK, CallsInv, LoopInv, WakeupOnTheWay, Free, LoopIdle
<1>1. ASSUME NEW t \in Threads, NEW s \in Schedulers, Create(t, s)
      PROVE  WakeupOnTheWay'
  BY <1>1 DEF Create
<1>2. ASSUME NEW t \in Threads, NEW s \in Schedulers, NEW u \in Threads, Share(t, u, s)
      PROVE  WakeupOnTheWay'
  BY <1>2 DEF Share
<1>3. ASSUME NEW t \in Threads, NEW s \in Schedulers, NEW f \in Fns, Push(t, s, f)
      PROVE  WakeupOnTheWay'
  BY <1>3 DEF Push
<1>4. ASSUME NEW t \in Threads, NEW s \in Schedulers, Release(t, s)
      PROVE  WakeupOnTheWay'
  <2>1. /\ pc[t] = "idle" /\ at[t] = NoScheduler
        /\ UNCHANGED <<queue, pending, batchOf, woken>>
    BY <1>4 DEF Release
  <2>2. CASE holders[s] = {t}
    <3>1. /\ handle' = [handle EXCEPT ![s] = "closing"]
          /\ pc' = [pc EXCEPT ![t] = "closing"]
          /\ at' = [at EXCEPT ![t] = s]
      BY <1>4, <2>2 DEF Release
    <3>2. pc'[t] # "idle" /\ at'[t] = s
      BY <3>1
    <3>3. \A r \in Threads : pc[r] # "idle" => pc'[r] # "idle" /\ at'[r] = at[r]
      BY <2>1, <3>1
    <3>4. \A r \in Schedulers : r # s => handle'[r] = handle[r]
      BY <3>1
    <3>5. \E r \in Threads : pc'[r] # "idle" /\ at'[r] = s
      BY <3>2
    <3>6. ASSUME NEW r \in Schedulers, r # s
          PROVE  \/ pending'[r]
                 \/ woken' /\ batchOf' = r /\ handle'[r] # "closing"
                 \/ \E u \in Threads : pc'[u] # "idle" /\ at'[u] = r
                 \/ handle'[r] # "closing" /\ queue'[r] = <<>>
      <4>1. CASE \E u \in Threads : pc[u] # "idle" /\ at[u] = r
        <5>1. PICK u \in Threads : pc[u] # "idle" /\ at[u] = r
          BY <4>1
        <5>2. pc'[u] # "idle" /\ at'[u] = r
          BY <3>3, <5>1
        <5>3. QED
          BY <5>2
      <4>2. CASE ~ \E u \in Threads : pc[u] # "idle" /\ at[u] = r
        <5>1. \/ pending[r]
              \/ woken /\ batchOf = r /\ handle[r] # "closing"
              \/ handle[r] # "closing" /\ queue[r] = <<>>
          BY <4>2
        <5>2. QED
          BY <2>1, <3>4, <3>6, <5>1
      <4>3. QED
        BY <4>1, <4>2
    <3>7. QED
      BY <3>5, <3>6
  <2>3. CASE holders[s] # {t}
    BY <1>4, <2>1, <2>3 DEF Release
  <2>4. QED
    BY <2>2, <2>3
<1>5. ASSUME NEW t \in Threads, Signal(t)
      PROVE  WakeupOnTheWay'
  <2> DEFINE s == at[t]
  <2>1. /\ s \in Schedulers /\ UNCHANGED <<handle, queue, batchOf, woken>>
        /\ pending' = [pending EXCEPT ![s] = (handle[s] # "closed")]
        /\ pc' = [pc EXCEPT ![t] = "idle"]
        /\ at' = [at EXCEPT ![t] = NoScheduler]
    BY <1>5 DEF Signal
  <2>2. CASE handle[s] # "closed"
    <3>1. pending'[s]
      BY <2>1, <2>2
    <3>2. \A r \in Schedulers : r # s => pending'[r] = pending[r]
      BY <2>1
    <3>3. \A r \in Threads : r # t => pc'[r] = pc[r] /\ at'[r] = at[r]
      BY <2>1
    <3>4. QED
      BY <2>1, <3>1, <3>2, <3>3
  <2>3. CASE handle[s] = "closed"
    <3>1. queue'[s] = <<>> /\ handle'[s] # "closing"
      BY <2>1, <2>3
    <3>2. \A r \in Schedulers : r # s => pending'[r] = pending[r]
      BY <2>1
    <3>3. \A r \in Threads : r # t => pc'[r] = pc[r] /\ at'[r] = at[r]
      BY <2>1
    <3>4. QED
      BY <2>1, <3>1, <3>2, <3>3
  <2>4. QED
    BY <2>2, <2>3
<1>6. ASSUME NEW s \in Schedulers, Wake(s)
      PROVE  WakeupOnTheWay'
  BY <1>6 DEF Wake
<1>7. ASSUME Swap
      PROVE  WakeupOnTheWay'
  BY <1>7 DEF Swap
<1>8. ASSUME NEW s \in Schedulers, CloseHandle(s)
      PROVE  WakeupOnTheWay'
  BY <1>8 DEF CloseHandle
<1>9. ASSUME Enter
      PROVE  WakeupOnTheWay'
  BY <1>9 DEF Enter
<1>10. ASSUME Leave
      PROVE  WakeupOnTheWay'
  BY <1>10 DEF Leave
<1>11. CASE Quiet \/ UNCHANGED vars
  BY <1>11 DEF Quiet, vars
<1>12. QED
  BY <1>1, <1>2, <1>3, <1>4, <1>5, <1>6, <1>7, <1>8, <1>9, <1>10, <1>11
  DEF Next, Loop

\* Pushing, swapping, entering and leaving move functions along the sequence of
\* everything pushed and never change it.
LEMMA NextOrder ==
    ASSUME TypeOK, CallsInv, LoopInv, RunsInPushOrder, [Next]_vars
    PROVE  RunsInPushOrder'
<1> USE ConstantsAssumption
<1>0. /\ <<>> \in Seq(Fns)
      /\ \A s \in Schedulers :
            /\ queue[s] \in Seq(Fns) /\ done[s] \in Seq(Fns) /\ pushed[s] \in Seq(Fns)
            /\ InFlight(s) \in Seq(Fns)
            /\ InOrder(s)
  <2>1. <<>> \in Seq(Fns)
    BY EmptySeq
  <2>2. ASSUME running # NoFn
        PROVE  <<running>> \o batch \in Seq(Fns)
    BY <2>2, ConcatProperties DEF TypeOK
  <2>3. QED
    BY <2>1, <2>2 DEF InFlight, TypeOK, RunsInPushOrder
\* A scheduler the step leaves alone.
<1>1. ASSUME NEW s \in Schedulers,
             UNCHANGED <<pushed[s], done[s], queue[s], InFlight(s)>>,
             handle'[s] = "closed" <=> handle[s] = "closed"
      PROVE  InOrder(s)'
  BY <1>0, <1>1 DEF InOrder
<1>2. ASSUME UNCHANGED <<queue, batchOf, batch, running, pushed, done>>,
             \A s \in Schedulers : handle'[s] = "closed" <=> handle[s] = "closed"
      PROVE  RunsInPushOrder'
  <2>1. \A s \in Schedulers : InFlight(s)' = InFlight(s)
    BY <1>2 DEF InFlight
  <2>2. QED
    BY <1>1, <1>2, <2>1 DEF RunsInPushOrder
<1>3. ASSUME NEW t \in Threads, NEW s \in Schedulers,
             Create(t, s) \/ Release(t, s) \/ \E u \in Threads : Share(t, u, s)
      PROVE  RunsInPushOrder'
  <2>1. UNCHANGED <<queue, batchOf, batch, running, pushed, done>>
    BY <1>3 DEF Create, Release, Share
  <2>2. handle[s] # "closed"
    BY <1>3 DEF Create, Release, Share, CallsInv
  <2>3. \/ handle' = handle
        \/ handle' = [handle EXCEPT ![s] = "open"]
        \/ handle' = [handle EXCEPT ![s] = "closing"]
    BY <1>3 DEF Create, Release, Share
  <2>4. \A r \in Schedulers : handle'[r] = "closed" <=> handle[r] = "closed"
    BY <2>2, <2>3 DEF TypeOK
  <2>5. QED
    BY <1>2, <2>1, <2>4
<1>4. ASSUME NEW t \in Threads, Signal(t)
      PROVE  RunsInPushOrder'
  BY <1>2, <1>4 DEF Signal
<1>5. ASSUME NEW t \in Threads, NEW s \in Schedulers, NEW f \in Fns, Push(t, s, f)
      PROVE  RunsInPushOrder'
  <2>1. /\ handle[s] = "open" /\ UNCHANGED <<handle, done>>
        /\ queue' = [queue EXCEPT ![s] = Append(queue[s], f)]
        /\ pushed' = [pushed EXCEPT ![s] = Append(pushed[s], f)]
    BY <1>5 DEF Push, CallsInv
  <2>2. \A r \in Schedulers : InFlight(r)' = InFlight(r)
    BY <1>5 DEF Push, InFlight
  <2>3. /\ queue'[s] = Append(queue[s], f) /\ pushed'[s] = Append(pushed[s], f)
        /\ \A r \in Schedulers : r # s => UNCHANGED <<queue[r], pushed[r]>>
    BY <2>1 DEF TypeOK
  <2>4. InFlight(s) \o Append(queue[s], f) = Append(InFlight(s) \o queue[s], f)
    BY <1>0, ConcatAppend
  <2>5. InFlight(s) \o queue[s] \in Seq(Fns)
    BY <1>0, ConcatProperties
  <2>6. done[s] \o Append(InFlight(s) \o queue[s], f)
           = Append(done[s] \o (InFlight(s) \o queue[s]), f)
    <3> DEFINE rest == InFlight(s) \o queue[s]
    <3>1. done[s] \in Seq(Fns) /\ rest \in Seq(Fns) /\ f \in Fns
      BY <1>0, <2>5
    <3> HIDE DEF rest
    <3>2. \A d, r \in Seq(Fns) : d \o Append(r, f) = Append(d \o r, f)
      BY ConcatAppend
    <3>3. done[s] \o Append(rest, f) = Append(done[s] \o rest, f)
      BY <3>1, <3>2
    <3>4. QED
      BY <3>3 DEF rest
  <2>7. pushed[s] = done[s] \o (InFlight(s) \o queue[s])
    BY <1>0, <2>1 DEF InOrder
  <2>8. InOrder(s)'
    BY <2>1, <2>2, <2>3, <2>4, <2>6, <2>7 DEF InOrder
  <2>9. \A r \in Schedulers : r # s => InOrder(r)'
    BY <1>1, <2>1, <2>2, <2>3
  <2>10. QED
    BY <2>8, <2>9 DEF RunsInPushOrder
<1>6. ASSUME NEW s \in Schedulers, Wake(s)
      PROVE  RunsInPushOrder'
  <2>1. /\ UNCHANGED <<handle, queue, pushed, done>>
        /\ batchOf = NoScheduler /\ running = NoFn /\ batch = <<>>
        /\ running' = NoFn /\ batch' = <<>>
    BY <1>6 DEF Wake, LoopIdle, LoopInv
  <2>2. \A r \in Schedulers : InFlight(r) = <<>> /\ InFlight(r)' = <<>>
    BY <2>1 DEF InFlight
  <2>3. QED
    BY <1>1, <2>1, <2>2 DEF RunsInPushOrder
<1>7. ASSUME Swap
      PROVE  RunsInPushOrder'
  <2>0. PICK b \in Schedulers : b = batchOf
    BY <1>7 DEF Swap, LoopInv, TypeOK
  <2>1. /\ batchOf = b /\ handle[b] # "closed"
        /\ UNCHANGED <<handle, pushed, done, running>>
        /\ running = NoFn /\ batch = <<>> /\ batch' = queue[b]
        /\ queue' = [queue EXCEPT ![b] = <<>>]
        /\ batchOf' = IF queue[b] = <<>> THEN NoScheduler ELSE b
    BY <1>7, <2>0 DEF Swap, LoopInv, TypeOK
  <2>2. queue'[b] = <<>> /\ \A r \in Schedulers : r # b => queue'[r] = queue[r]
    BY <2>1 DEF TypeOK
  <2>3. \A r \in Schedulers : InFlight(r) = <<>>
    BY <2>1 DEF InFlight
  <2>4. InFlight(b)' = queue[b] /\ \A r \in Schedulers : r # b => InFlight(r)' = <<>>
    BY <2>1 DEF InFlight
  <2>5. <<>> \o queue[b] = queue[b] /\ queue[b] \o <<>> = queue[b]
    BY <1>0, <2>1, ConcatEmptySeq
  <2>6. pushed[b] = done[b] \o (<<>> \o queue[b])
    BY <1>0, <2>1, <2>3 DEF InOrder
  <2>7. InOrder(b)'
    BY <2>1, <2>2, <2>4, <2>5, <2>6 DEF InOrder
  <2>8. \A r \in Schedulers : r # b => InOrder(r)'
    BY <1>1, <2>1, <2>2, <2>3, <2>4
  <2>9. QED
    BY <2>7, <2>8 DEF RunsInPushOrder
<1>8. ASSUME NEW s \in Schedulers, CloseHandle(s)
      PROVE  RunsInPushOrder'
  <2>1. /\ handle[s] = "closing" /\ handle' = [handle EXCEPT ![s] = "closed"]
        /\ queue' = [queue EXCEPT ![s] = <<>>]
        /\ UNCHANGED <<pushed, done, batchOf, batch, running>>
        /\ batchOf = NoScheduler
    BY <1>8 DEF CloseHandle, LoopIdle
  <2>2. \A r \in Schedulers : InFlight(r) = <<>> /\ InFlight(r)' = <<>>
    BY <2>1 DEF InFlight
  <2>3. /\ queue'[s] = <<>> /\ handle'[s] = "closed"
        /\ \A r \in Schedulers : r # s => UNCHANGED <<queue[r], handle[r]>>
    BY <2>1 DEF TypeOK
  <2>4. /\ <<>> \o queue[s] = queue[s] /\ <<>> \o <<>> = <<>>
        /\ done[s] \o <<>> = done[s]
    BY <1>0, ConcatEmptySeq
  <2>5. pushed[s] = done[s] \o (<<>> \o queue[s])
    BY <1>0, <2>1, <2>2 DEF InOrder
  <2>6. done[s] = SubSeq(pushed[s], 1, Len(done[s])) /\ Len(done[s]) <= Len(pushed[s])
    BY <1>0, <2>4, <2>5, PrefixOfConcat
  <2>7. InOrder(s)'
    BY <2>1, <2>2, <2>3, <2>4, <2>6 DEF InOrder
  <2>8. \A r \in Schedulers : r # s => InOrder(r)'
    BY <1>1, <2>1, <2>2, <2>3
  <2>9. QED
    BY <2>7, <2>8 DEF RunsInPushOrder
<1>9. ASSUME Enter
      PROVE  RunsInPushOrder'
  <2>1. /\ batchOf # NoScheduler /\ batch # <<>> /\ running = NoFn
        /\ running' = Head(batch) /\ batch' = Tail(batch)
        /\ UNCHANGED <<handle, queue, batchOf, pushed, done>>
    BY <1>9 DEF Enter, LoopInv
  <2>2. running' # NoFn
    BY <2>1, HeadTailProperties DEF TypeOK
  <2>3. <<Head(batch)>> \o Tail(batch) = batch
    BY <2>1, HeadThenTail DEF TypeOK
  <2>4. \A r \in Schedulers : InFlight(r)' = InFlight(r)
    BY <2>1, <2>2, <2>3 DEF InFlight
  <2>5. QED
    BY <1>1, <2>1, <2>4 DEF RunsInPushOrder
<1>10. ASSUME Leave
       PROVE  RunsInPushOrder'
  <2>0. PICK b \in Schedulers : b = batchOf
    BY <1>10 DEF Leave, LoopInv, TypeOK
  <2>1. /\ batchOf = b /\ handle[b] # "closed" /\ running \in Fns
        /\ done' = [done EXCEPT ![b] = Append(done[b], running)]
        /\ running' = NoFn /\ batch' = batch /\ batch \in Seq(Fns)
        /\ batchOf' = IF batch = <<>> THEN NoScheduler ELSE b
        /\ UNCHANGED <<handle, queue, pushed>>
    BY <1>10, <2>0 DEF Leave, LoopInv, TypeOK
  <2>2. /\ done'[b] = Append(done[b], running)
        /\ \A r \in Schedulers : r # b => done'[r] = done[r]
    BY <2>1 DEF TypeOK
  <2>3. InFlight(b) = <<running>> \o batch /\ InFlight(b)' = batch
    BY <2>1 DEF InFlight
  <2>4. \A r \in Schedulers : r # b => InFlight(r)' = InFlight(r)
    BY <2>1 DEF InFlight
  <2>5. Append(done[b], running) \o (batch \o queue[b])
           = done[b] \o ((<<running>> \o batch) \o queue[b])
    <3> DEFINE one == <<running>>
    <3>1. /\ done[b] \in Seq(Fns) /\ batch \in Seq(Fns) /\ queue[b] \in Seq(Fns)
          /\ one \in Seq(Fns)
      BY <1>0, <2>1
    <3>2. Append(done[b], running) = done[b] \o one
      BY <1>0, <2>1, AppendIsConcat
    <3> HIDE DEF one
    <3> DEFINE d == done[b]
               q == queue[b]
    <3>3. d \in Seq(Fns) /\ q \in Seq(Fns)
      BY <3>1
    <3> HIDE DEF d, q
    <3>4. (d \o one) \o (batch \o q) = d \o ((one \o batch) \o q)
      <4>1. batch \in Seq(Fns) /\ one \in Seq(Fns) /\ batch \o q \in Seq(Fns)
        BY <3>1, <3>3, ConcatFns
      <4>2. (d \o one) \o (batch \o q) = d \o (one \o (batch \o q))
        BY <3>3, <4>1, ConcatFns
      <4>3. (one \o batch) \o q = one \o (batch \o q)
        BY <3>3, <4>1, ConcatFns
      <4>4. QED
        BY <4>2, <4>3
    <3>5. QED
      BY <3>2, <3>4 DEF one, d, q
  <2>6. pushed[b] = done[b] \o ((<<running>> \o batch) \o queue[b])
    BY <1>0, <2>1, <2>3 DEF InOrder
  <2>7. InOrder(b)'
    BY <2>1, <2>2, <2>3, <2>5, <2>6 DEF InOrder
  <2>8. \A r \in Schedulers : r # b => InOrder(r)'
    BY <1>1, <2>1, <2>2, <2>4
  <2>9. QED
    BY <2>7, <2>8 DEF RunsInPushOrder
<1>11. CASE Quiet \/ UNCHANGED vars
  BY <1>2, <1>11 DEF Quiet, vars
<1>12. QED
  BY <1>3, <1>4, <1>5, <1>6, <1>7, <1>8, <1>9, <1>10, <1>11 DEF Next, Loop

-----------------------------------------------------------------------------
(* Theorems.                                                               *)

\* The inductive invariant holds in every behavior.
THEOREM Invariance == Spec => []IInv
<1>1. IInv /\ [Next]_vars => IInv'
  <2> SUFFICES ASSUME IInv, [Next]_vars PROVE IInv'
    OBVIOUS
  <2>1. TypeOK /\ CallsInv /\ LoopInv /\ WakeupOnTheWay /\ RunsInPushOrder
    BY DEF IInv
  <2>2. TypeOK' /\ CallsInv' /\ LoopInv' /\ WakeupOnTheWay' /\ RunsInPushOrder'
    BY <2>1, NextTypeOK, NextCallsInv, NextLoopInv, NextWakeup, NextOrder
  <2>3. QED
    BY <2>2 DEF IInv
<1>2. QED
  BY InitIInv, <1>1, PTL DEF Spec

\* The variables keep their types.
THEOREM TypeCorrect == Spec => []TypeOK
<1>1. IInv => TypeOK
  BY DEF IInv
<1>2. QED
  BY Invariance, <1>1, PTL

\* Functions run in the order they were pushed, each at most once, and none is
\* lost while the handle is open.
THEOREM OrderPreserved == Spec => []RunsInPushOrder
<1>1. IInv => RunsInPushOrder
  BY DEF IInv
<1>2. QED
  BY Invariance, <1>1, PTL

\* A queue with work in it always has a wake-up on the way.
THEOREM NoLostWakeup == Spec => []WakeupOnTheWay
<1>1. IInv => WakeupOnTheWay
  BY DEF IInv
<1>2. QED
  BY Invariance, <1>1, PTL

\* invoke() never touches a handle or data the loop has deleted.
THEOREM LiveHandle == Spec => []InvokeSeesLiveHandle
<1>1. IInv => InvokeSeesLiveHandle
  <2> SUFFICES ASSUME IInv PROVE InvokeSeesLiveHandle
    OBVIOUS
  <2>1. ASSUME NEW t \in Threads, pc[t] = "pushed"
        PROVE  handle[at[t]] = "open"
    <3>1. at[t] \in Schedulers /\ holders[at[t]] # {}
      BY <2>1 DEF IInv, CallsInv, TypeOK
    <3>2. QED
      BY <3>1 DEF IInv, CallsInv
  <2>2. batchOf # NoScheduler => handle[batchOf] # "closed"
    BY DEF IInv, LoopInv
  <2>3. QED
    BY <2>1, <2>2 DEF InvokeSeesLiveHandle
<1>2. QED
  BY Invariance, <1>1, PTL

-----------------------------------------------------------------------------
(* Refinement.                                                             *)

Mapped == <<pushed, done, IF running = NoFn THEN NoScheduler ELSE batchOf,
            [s \in Schedulers |-> handle[s] = "closed"]>>

\* A function the loop is about to enter has not run, and is the oldest such.
LEMMA NextToRun ==
    ASSUME IInv, NEW s \in Schedulers, batchOf = s, ~woken
    PROVE  /\ Len(done[s]) < Len(pushed[s])
           /\ running # NoFn => pushed[s][Len(done[s]) + 1] = running
<1> DEFINE b == InFlight(s)
           rest == b \o queue[s]
<1>1. /\ done[s] \in Seq(Fns) /\ queue[s] \in Seq(Fns) /\ batch \in Seq(Fns)
      /\ running # NoFn => running \in Fns
  BY DEF IInv, TypeOK
<1>2. b \in Seq(Fns) /\ b # <<>> /\ (running # NoFn => b[1] = running)
  <2>1. CASE running = NoFn
    BY <1>1, <2>1, ConstantsAssumption DEF IInv, LoopInv, InFlight
  <2>2. CASE running # NoFn
    <3>1. /\ <<running>> \in Seq(Fns) /\ Len(<<running>>) = 1
          /\ <<running>>[1] = running
      BY <1>1, <2>2
    <3>2. b = <<running>> \o batch
      BY <2>2 DEF InFlight
    <3>3. /\ b \in Seq(Fns) /\ Len(b) = 1 + Len(batch) /\ Len(batch) \in Nat
          /\ b[1] = running
      BY <1>1, <3>1, <3>2, ConcatProperties, LenProperties
    <3>4. b # <<>>
      BY <3>3, EmptySeq
    <3>5. QED
      BY <3>3, <3>4
  <2>3. QED
    BY <2>1, <2>2
<1>3. handle[s] # "closed" /\ pushed[s] = done[s] \o rest
  BY ConstantsAssumption DEF IInv, LoopInv, RunsInPushOrder, InOrder
<1> HIDE DEF b
<1>4. /\ Len(done[s]) \in Nat /\ Len(b) \in Nat \ {0} /\ Len(queue[s]) \in Nat
  BY <1>1, <1>2, EmptySeq, LenProperties
<1>5. /\ rest \in Seq(Fns) /\ Len(rest) = Len(b) + Len(queue[s])
      /\ rest[1] = b[1]
  BY <1>1, <1>2, <1>4, ConcatProperties
<1> HIDE DEF rest
<1>6. Len(rest) \in Nat \ {0}
  BY <1>4, <1>5
<1>7. /\ Len(pushed[s]) = Len(done[s]) + Len(rest)
      /\ \A i \in 1..Len(done[s]) + Len(rest) :
            pushed[s][i] = IF i <= Len(done[s]) THEN done[s][i] ELSE rest[i - Len(done[s])]
  <2> DEFINE d == done[s]
             p == pushed[s]
  <2>1. d \in Seq(Fns) /\ p = d \o rest
    BY <1>1, <1>3
  <2>2. ASSUME NEW e \in Seq(Fns), NEW q, q = e \o rest
        PROVE  /\ Len(q) = Len(e) + Len(rest)
               /\ \A i \in 1..Len(e) + Len(rest) :
                     q[i] = IF i <= Len(e) THEN e[i] ELSE rest[i - Len(e)]
    BY <1>5, <2>2, ConcatFnsElements
  <2> HIDE DEF d, p
  <2>3. /\ Len(p) = Len(d) + Len(rest)
        /\ \A i \in 1..Len(d) + Len(rest) :
              p[i] = IF i <= Len(d) THEN d[i] ELSE rest[i - Len(d)]
    BY <2>1, <2>2
  <2>4. QED
    BY <2>3 DEF d, p
<1>8. pushed[s][Len(done[s]) + 1] = rest[1]
  <2> DEFINE n == Len(done[s]) + 1
  <2>1. n \in 1..Len(done[s]) + Len(rest) /\ ~(n <= Len(done[s])) /\ n - Len(done[s]) = 1
    BY <1>4, <1>6
  <2>2. QED
    BY <1>7, <2>1
<1>9. Len(done[s]) < Len(pushed[s])
  BY <1>4, <1>6, <1>7
<1>10. running # NoFn => pushed[s][Len(done[s]) + 1] = running
  BY <1>2, <1>5, <1>8
<1>11. QED
  BY <1>9, <1>10

\* UvScheduler implements SerialExecutor: every step is a step of the executor
\* or leaves what the executor sees unchanged.
THEOREM Refinement == Spec => ImplementsExecutor
<1>1. Init => Executor!Init
  <2> SUFFICES ASSUME Init PROVE Executor!Init
    OBVIOUS
  <2>1. running = NoFn /\ \A s \in Schedulers : handle[s] # "closed"
    BY DEF Init
  <2>2. QED
    BY <2>1 DEF Init, Executor!Init
<1>2. IInv /\ IInv' /\ [Next]_vars => [Executor!Next]_Mapped
  <2> SUFFICES ASSUME IInv, IInv', [Next]_vars
               PROVE  Executor!Next \/ UNCHANGED Mapped
    OBVIOUS
  <2> USE ConstantsAssumption
  <2>1. ASSUME NEW t \in Threads, NEW s \in Schedulers, NEW f \in Fns, Push(t, s, f)
        PROVE  Executor!Next
    <3>1. handle[s] = "open"
      BY <2>1 DEF Push, IInv, CallsInv
    <3>2. Executor!Submit(s, f)
      BY <2>1, <3>1 DEF Push, Fresh, Executor!Submit
    <3>3. QED
      BY <3>2 DEF Executor!Next
  <2>2. ASSUME Enter
        PROVE  Executor!Next
    <3>1. /\ batchOf \in Schedulers /\ batchOf # NoScheduler /\ ~woken
          /\ handle[batchOf] # "closed" /\ running = NoFn
          /\ UNCHANGED <<pushed, done, handle, batchOf>>
      BY <2>2 DEF Enter, IInv, LoopInv, TypeOK
    <3>2. running' # NoFn
      BY <2>2, HeadTailProperties DEF Enter, IInv, LoopInv, TypeOK
    <3>3. Len(done[batchOf]) < Len(pushed[batchOf])
      BY <3>1, NextToRun
    <3>4. Executor!Start(batchOf)
      BY <3>1, <3>2, <3>3 DEF Executor!Start
    <3>5. QED
      BY <3>1, <3>4 DEF Executor!Next
  <2>3. ASSUME Leave
        PROVE  Executor!Next
    <3>1. /\ batchOf \in Schedulers /\ batchOf # NoScheduler /\ ~woken
          /\ running # NoFn /\ running' = NoFn
          /\ done' = [done EXCEPT ![batchOf] = Append(@, running)]
          /\ UNCHANGED <<pushed, handle>>
      BY <2>3 DEF Leave, IInv, LoopInv, TypeOK
    <3>2. pushed[batchOf][Len(done[batchOf]) + 1] = running
      BY <3>1, NextToRun
    <3>3. Executor!Finish(batchOf)
      BY <3>1, <3>2 DEF Executor!Finish
    <3>4. QED
      BY <3>1, <3>3 DEF Executor!Next
  <2>4. ASSUME NEW s \in Schedulers, CloseHandle(s)
        PROVE  Executor!Next
    <3>1. /\ handle[s] # "closed" /\ handle' = [handle EXCEPT ![s] = "closed"]
          /\ running = NoFn /\ UNCHANGED <<pushed, done, running>>
      BY <2>4 DEF CloseHandle, LoopIdle, IInv, LoopInv
    <3>2. [r \in Schedulers |-> handle[r] = "closed"]'
             = [[r \in Schedulers |-> handle[r] = "closed"] EXCEPT ![s] = TRUE]
      BY <3>1 DEF IInv, TypeOK
    <3>3. Executor!Stop(s)
      BY <3>1, <3>2 DEF Executor!Stop
    <3>4. QED
      BY <3>3 DEF Executor!Next
  <2>5. ASSUME NEW t \in Threads, NEW s \in Schedulers,
               Create(t, s) \/ Release(t, s) \/ \E u \in Threads : Share(t, u, s)
        PROVE  UNCHANGED Mapped
    <3>1. UNCHANGED <<pushed, done, running, batchOf>> /\ handle[s] # "closed"
      BY <2>5 DEF Create, Release, Share, IInv, CallsInv
    <3>2. \/ handle' = handle
          \/ handle' = [handle EXCEPT ![s] = "open"]
          \/ handle' = [handle EXCEPT ![s] = "closing"]
      BY <2>5 DEF Create, Release, Share
    <3>3. \A r \in Schedulers : (handle[r] = "closed")' = (handle[r] = "closed")
      BY <3>1, <3>2 DEF IInv, TypeOK
    <3>4. QED
      BY <3>1, <3>3 DEF Mapped
  <2>6. ASSUME (\E t \in Threads : Signal(t)) \/ (\E s \in Schedulers : Wake(s)) \/ Swap
               \/ Quiet \/ UNCHANGED vars
        PROVE  UNCHANGED Mapped
    <3>1. CASE \E t \in Threads : Signal(t)
      BY <3>1 DEF Signal, Mapped
    <3>2. CASE \E s \in Schedulers : Wake(s)
      BY <3>2 DEF Wake, LoopIdle, IInv, LoopInv, Mapped
    <3>3. CASE Swap
      BY <3>3 DEF Swap, IInv, LoopInv, Mapped
    <3>4. CASE Quiet \/ UNCHANGED vars
      BY <3>4 DEF Quiet, vars, Mapped
    <3>5. QED
      BY <2>6, <3>1, <3>2, <3>3, <3>4
  <2>7. QED
    BY <2>1, <2>2, <2>3, <2>4, <2>5, <2>6 DEF Next, Loop
<1>3. [Executor!Next]_Mapped => [Executor!Next]_(Executor!vars)
  BY DEF Mapped, Executor!vars
<1>4. QED
  BY Invariance, <1>1, <1>2, <1>3, PTL DEF Spec, ImplementsExecutor, Executor!Spec

=============================================================================
