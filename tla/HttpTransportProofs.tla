------------------------ MODULE HttpTransportProofs ------------------------
(***************************************************************************)
(* Proofs about HttpTransport, for any number of threads and requests.     *)
(***************************************************************************)
EXTENDS HttpTransport, SequenceTheorems, TLAPS

Phases == Waiting \cup
    {"unsent", "connect", "stuck", "post", "completing", "drained", "returned",
     "thrown"}

\* The completion block has not been entered up to the exchange, and has been
\* entered once from then on.
RunsInv == \A r \in Requests :
    IF phase[r] \in {"completing", "stuck", "drained", "returned"}
    THEN runs[r] = 1 /\ (phase[r] = "completing" => resume[r] # "none")
    ELSE runs[r] = 0 /\ result[r] = NoResult

\* What must be set up before a call gets past each point.
LinkInv == \A r \in Requests :
    /\ phase[r] \in {"tunnel", "post", "handshake", "exchange"}
          \/ result[r] \in {"response", "broken"} => "connected" \in link[r]
    /\ phase[r] \in {"post", "handshake", "exchange"}
          \/ result[r] \in {"response", "broken"} =>
            (route[r] = "proxy" => "tunnelled" \in link[r])
    /\ phase[r] = "exchange" \/ result[r] \in {"response", "broken"} =>
            (scheme[r] = "https" => "secured" \in link[r])

IInv == TypeOK /\ RunsInv /\ LinkInv

\* A step of one call: what it may change, and how.
EstablishStep(r, what, from, to) ==
    phase[r] = from /\ Establish(r, what, to)
CompleteStep(r, x, from, to) ==
    phase[r] = from /\ Complete(r, x, to)

\* Every step of Next is of one of these forms.
LEMMA StepForms ==
    ASSUME Next
    PROVE  \E r \in Requests :
             \/ \E t \in Threads : Send(t, r)
             \/ \E t \in Threads : Return(t, r) \/ Throw(t, r)
             \/ Post(r)
             \/ EndCompletion(r)
             \/ EstablishStep(r, "connected", "connect",
                              IF route[r] = "proxy" THEN "tunnel" ELSE "post")
             \/ EstablishStep(r, "tunnelled", "tunnel", "post")
             \/ EstablishStep(r, "secured", "handshake", "exchange")
             \/ \E x \in {"aborted", "badAddress"} : CompleteStep(r, x, "connect", "drained")
             \/ \E x \in {"aborted", "refused"} : CompleteStep(r, x, "tunnel", "stuck")
             \/ CompleteStep(r, "aborted", "handshake", "drained")
             \/ \E x \in {"response", "broken"} : CompleteStep(r, x, "exchange", "drained")
BY DEF Next, Local, Peer, Connect, Tunnel, Handshake, Exchange, In, EstablishStep,
       CompleteStep

\* The invariant holds initially.
LEMMA InitIInv == Init => IInv
BY DEF Init, IInv, TypeOK, RunsInv, LinkInv, Results, NoResult, Waiting

\* Every step keeps it.
LEMMA StepIInv == IInv /\ [Next]_vars => IInv'
<1> SUFFICES ASSUME IInv, [Next]_vars PROVE IInv'
  OBVIOUS
<1> USE DEF IInv, TypeOK, Waiting, Results, NoResult
<1>1. ASSUME NEW r \in Requests, NEW t \in Threads, Send(t, r)
      PROVE  IInv'
  <2>1. stack' \in [Threads -> Seq(Requests)]
    BY <1>1, AppendProperties DEF Send
  <2>2. QED
    BY <1>1, <2>1 DEF Send, Goto, RunsInv, LinkInv
<1>2. ASSUME NEW r \in Requests, NEW t \in Threads, Return(t, r) \/ Throw(t, r)
      PROVE  IInv'
  <2>1. stack' \in [Threads -> Seq(Requests)]
    <3>1. /\ stack[t] \in Seq(Requests) /\ stack[t] # <<>>
          /\ stack' = [stack EXCEPT ![t] = SubSeq(@, 1, Len(@) - 1)]
      BY <1>2 DEF Return, Throw, End
    <3>2. SubSeq(stack[t], 1, Len(stack[t]) - 1) \in Seq(Requests)
      <4> DEFINE c == stack[t]
      <4>1. c \in Seq(Requests) /\ Len(c) \in Nat /\ \A i \in 1..Len(c) : c[i] \in Requests
        BY <3>1, ElementOfSeq, LenProperties
      <4> HIDE DEF c
      <4>2. SubSeq(c, 1, Len(c) - 1) \in Seq(Requests)
        BY <4>1, SubSeqProperties
      <4>3. QED
        BY <4>2 DEF c
    <3>3. QED
      BY <3>1, <3>2
  <2>2. /\ UNCHANGED <<resume, route, scheme, link, runs, result>>
        /\ \/ phase[r] = "drained" /\ phase' = [phase EXCEPT ![r] = "returned"]
           \/ phase[r] = "post" /\ phase' = [phase EXCEPT ![r] = "thrown"]
    BY <1>2 DEF Return, Throw, End, Goto
  <2>3. TypeOK'
    BY <2>1, <2>2
  <2>4. RunsInv'
    BY <2>2 DEF RunsInv
  <2>5. LinkInv'
    BY <2>2 DEF LinkInv
  <2>6. QED
    BY <2>3, <2>4, <2>5
<1>3. ASSUME NEW r \in Requests, Post(r)
      PROVE  IInv'
  BY <1>3 DEF Post, In, Goto, RunsInv, LinkInv
<1>4. ASSUME NEW r \in Requests, EndCompletion(r)
      PROVE  IInv'
  BY <1>4 DEF EndCompletion, In, Goto, RunsInv, LinkInv
<1>5. ASSUME NEW r \in Requests,
             \/ EstablishStep(r, "connected", "connect",
                              IF route[r] = "proxy" THEN "tunnel" ELSE "post")
             \/ EstablishStep(r, "tunnelled", "tunnel", "post")
             \/ EstablishStep(r, "secured", "handshake", "exchange")
      PROVE  IInv'
  <2>1. /\ UNCHANGED <<resume, route, scheme, runs, result, stack>>
        /\ \E what \in {"connected", "tunnelled", "secured"} :
              link' = [link EXCEPT ![r] = @ \cup {what}]
        /\ phase[r] \in {"connect", "tunnel", "handshake"}
        /\ \E to \in {"tunnel", "post", "exchange"} : phase' = [phase EXCEPT ![r] = to]
    BY <1>5 DEF EstablishStep, Establish, Goto
  <2>2. TypeOK'
    BY <2>1
  <2>3. RunsInv'
    BY <2>1 DEF RunsInv
  <2>4. LinkInv'
    <3>1. CASE EstablishStep(r, "connected", "connect",
                             IF route[r] = "proxy" THEN "tunnel" ELSE "post")
      BY <3>1 DEF EstablishStep, Establish, Goto, RunsInv, LinkInv
    <3>2. CASE EstablishStep(r, "tunnelled", "tunnel", "post")
      BY <3>2 DEF EstablishStep, Establish, Goto, RunsInv, LinkInv
    <3>3. CASE EstablishStep(r, "secured", "handshake", "exchange")
      BY <3>3 DEF EstablishStep, Establish, Goto, RunsInv, LinkInv
    <3>4. QED
      BY <1>5, <3>1, <3>2, <3>3
  <2>5. QED
    BY <2>2, <2>3, <2>4
<1>6. ASSUME NEW r \in Requests,
             \/ \E x \in {"aborted", "badAddress"} : CompleteStep(r, x, "connect", "drained")
             \/ \E x \in {"aborted", "refused"} : CompleteStep(r, x, "tunnel", "stuck")
             \/ CompleteStep(r, "aborted", "handshake", "drained")
             \/ \E x \in {"response", "broken"} : CompleteStep(r, x, "exchange", "drained")
      PROVE  IInv'
  <2>1. /\ UNCHANGED <<route, scheme, link, stack>>
        /\ phase' = [phase EXCEPT ![r] = "completing"]
        /\ runs' = [runs EXCEPT ![r] = @ + 1]
        /\ \E p \in {"stuck", "drained"} : resume' = [resume EXCEPT ![r] = p]
        /\ \E x \in Results : /\ result' = [result EXCEPT ![r] = x]
                              /\ x \in {"response", "broken"} => phase[r] = "exchange"
        /\ phase[r] \in {"connect", "tunnel", "handshake", "exchange"}
    BY <1>6 DEF CompleteStep, Complete, Goto
  <2>2. TypeOK'
    BY <2>1
  <2>3. RunsInv'
    BY <2>1 DEF RunsInv
  <2>4. LinkInv'
    BY <2>1 DEF LinkInv
  <2>5. QED
    BY <2>2, <2>3, <2>4
<1>7. CASE UNCHANGED vars
  BY <1>7 DEF vars, RunsInv, LinkInv
<1>8. QED
  BY <1>1, <1>2, <1>3, <1>4, <1>5, <1>6, <1>7, StepForms

-----------------------------------------------------------------------------
\* The inductive invariant holds in every reachable state.
THEOREM Invariance == Spec => []IInv
BY InitIInv, StepIInv, PTL DEF Spec

\* No request goes out before its tunnel and its TLS session are there.
THEOREM SentSecured == Spec => []SentOnlyWhenSecured
<1>1. IInv => SentOnlyWhenSecured
  BY DEF IInv, LinkInv, SentOnlyWhenSecured
<1>2. QED
  BY Invariance, <1>1, PTL

\* Every variable keeps its type.
THEOREM TypeCorrect == Spec => []TypeOK
<1>1. IInv => TypeOK
  BY DEF IInv
<1>2. QED
  BY Invariance, <1>1, PTL

-----------------------------------------------------------------------------
Mapped == <<[r \in Requests |-> Status(r)], result>>

\* HttpTransport implements OneShotCall: whatever the peers do, the completion
\* block is run at most once, never after the call has returned, and the call
\* does not return without it.
THEOREM Refinement == Spec => ImplementsCall
<1>1. Init => Call!Init
  BY DEF Init, Call!Init, Status, NoResult
<1>2. IInv /\ [Next]_vars => [Call!Next]_Mapped
  <2> SUFFICES ASSUME IInv, [Next]_vars
               PROVE  Call!Next \/ UNCHANGED Mapped
    OBVIOUS
  <2> DEFINE status == [q \in Requests |-> Status(q)]
  <2>0. TypeOK /\ RunsInv
    BY DEF IInv
  <2>1. ASSUME NEW r \in Requests, NEW t \in Threads, Send(t, r)
        PROVE  Call!Call(r)
    <3>1. /\ phase[r] = "unsent" /\ runs[r] = 0
          /\ phase' = [phase EXCEPT ![r] = "connect"] /\ UNCHANGED <<runs, result>>
      BY <2>0, <2>1 DEF Send, Goto, RunsInv
    <3>2. status[r] = "unsent" /\ status' = [status EXCEPT ![r] = "called"]
      BY <2>0, <3>1 DEF Status, TypeOK
    <3>3. QED
      BY <3>1, <3>2 DEF Call!Call
  <2>2. ASSUME NEW r \in Requests, NEW t \in Threads, Return(t, r)
        PROVE  Call!Return(r)
    <3>1. /\ phase[r] = "drained" /\ runs[r] = 1
          /\ phase' = [phase EXCEPT ![r] = "returned"] /\ UNCHANGED <<runs, result>>
      BY <2>0, <2>2 DEF Return, End, Goto, RunsInv
    <3>2. status[r] = "completed" /\ status' = [status EXCEPT ![r] = "returned"]
      <4>1. Status(r) = "completed" /\ Status(r)' = "returned"
        BY <2>0, <3>1 DEF Status, TypeOK
      <4>2. \A q \in Requests \ {r} : Status(q)' = Status(q)
        BY <2>0, <3>1 DEF Status, TypeOK
      <4>3. QED
        BY <4>1, <4>2
    <3>3. QED
      BY <3>1, <3>2 DEF Call!Return
  <2>3. ASSUME NEW r \in Requests,
               \/ Post(r)
               \/ EndCompletion(r)
               \/ EstablishStep(r, "connected", "connect",
                                IF route[r] = "proxy" THEN "tunnel" ELSE "post")
               \/ EstablishStep(r, "tunnelled", "tunnel", "post")
               \/ EstablishStep(r, "secured", "handshake", "exchange")
        PROVE  UNCHANGED Mapped
    <3>1. /\ UNCHANGED <<runs, result>>
          /\ \E p \in Phases \ {"unsent", "returned", "thrown"} : phase' = [phase EXCEPT ![r] = p]
          /\ phase[r] \notin {"unsent", "returned", "thrown"}
      BY <2>0, <2>3 DEF Post, EndCompletion, EstablishStep, Establish, In, Goto, TypeOK,
         RunsInv, Phases, Waiting
    <3>2. status' = status
      BY <2>0, <3>1 DEF Status, TypeOK
    <3>3. QED
      BY <3>1, <3>2 DEF Mapped
  <2>4. ASSUME NEW r \in Requests,
               \/ \E x \in {"aborted", "badAddress"} : CompleteStep(r, x, "connect", "drained")
               \/ \E x \in {"aborted", "refused"} : CompleteStep(r, x, "tunnel", "stuck")
               \/ CompleteStep(r, "aborted", "handshake", "drained")
               \/ \E x \in {"response", "broken"} : CompleteStep(r, x, "exchange", "drained")
        PROVE  Call!Complete(r)
    <3>1. /\ phase[r] \in {"connect", "tunnel", "handshake", "exchange"} /\ runs[r] = 0
          /\ phase' = [phase EXCEPT ![r] = "completing"]
          /\ runs' = [runs EXCEPT ![r] = @ + 1]
          /\ \E x \in Results : result' = [result EXCEPT ![r] = x]
      BY <2>0, <2>4 DEF CompleteStep, Complete, Goto, RunsInv, Results
    <3>2. status[r] = "called" /\ status' = [status EXCEPT ![r] = "completed"]
      <4>1. Status(r) = "called" /\ Status(r)' = "completed"
        BY <2>0, <3>1 DEF Status, TypeOK
      <4>2. \A q \in Requests \ {r} : Status(q)' = Status(q)
        BY <2>0, <3>1 DEF Status, TypeOK
      <4>3. QED
        BY <4>1, <4>2
    <3>3. QED
      BY <3>1, <3>2 DEF Call!Complete
  <2>5. CASE UNCHANGED vars
    BY <2>5 DEF vars, Mapped, Status
  <2>6. ASSUME NEW r \in Requests, NEW t \in Threads, Throw(t, r)
        PROVE  Call!Throw(r)
    <3>1. /\ phase[r] = "post" /\ runs[r] = 0
          /\ phase' = [phase EXCEPT ![r] = "thrown"] /\ UNCHANGED <<runs, result>>
      BY <2>0, <2>6 DEF Throw, End, Goto, RunsInv
    <3>2. status[r] = "called" /\ status' = [status EXCEPT ![r] = "thrown"]
      <4>1. Status(r) = "called" /\ Status(r)' = "thrown"
        BY <2>0, <3>1 DEF Status, TypeOK
      <4>2. \A q \in Requests \ {r} : Status(q)' = Status(q)
        BY <2>0, <3>1 DEF Status, TypeOK
      <4>3. QED
        BY <4>1, <4>2
    <3>3. QED
      BY <3>1, <3>2 DEF Call!Throw
  <2>7. QED
    BY <2>1, <2>2, <2>3, <2>4, <2>5, <2>6, StepForms DEF Call!Next
<1>3. QED
  BY Invariance, <1>1, <1>2, PTL DEF Spec, ImplementsCall, Call!Spec, Call!vars, Mapped
=============================================================================
