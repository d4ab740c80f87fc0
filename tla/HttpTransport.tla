--------------------------- MODULE HttpTransport ---------------------------
(***************************************************************************)
(* default_http_transport::send_request_to_server                          *)
(* (src/src/cpprealm/internal/networking/network_transport.cpp).           *)
(*                                                                         *)
(* The call blocks its thread: it connects, asks a proxy for a tunnel if   *)
(* one is configured, performs the TLS handshake for https, sends the      *)
(* request and runs the completion block with what comes back, all on a    *)
(* Service of its own that it runs on the caller's stack.  A completion    *)
(* block may send another request, as realm-core's log-in does, so that    *)
(* the calls of one thread nest.  Completion blocks do not throw.           *)
(*                                                                         *)
(* Peers are external: each may answer, fail or stay silent.  Headers,     *)
(* bodies and methods are left out.                                        *)
(***************************************************************************)
EXTENDS Naturals, Sequences

CONSTANTS Threads, Requests

ASSUME ConstantsAssumption == Requests # {}

VARIABLES
    phase,   \* phase[r]: where the call for r is
    resume,  \* resume[r]: where it goes on when its completion block returns
    route,   \* route[r]: "direct", or through a "proxy"
    scheme,  \* scheme[r]: "http" or "https"
    link,    \* link[r]: what has been set up towards the server
    runs,    \* history: runs[r], how often the completion block was run
    result,  \* result[r]: what it was given, the last time
    stack    \* stack[t]: the calls thread t is in, the innermost last

vars == <<phase, resume, route, scheme, link, runs, result, stack>>

Results == {"aborted", "badAddress", "refused", "response", "broken"}
NoResult == "none"

\* Waiting for the network, and nothing else wakes the call.
Waiting == {"tunnel", "handshake", "exchange"}

TypeOK ==
    /\ phase \in [Requests -> Waiting \cup
          {"unsent", "connect", "stuck", "post", "completing", "drained", "returned",
           "thrown"}]
    /\ resume \in [Requests -> {"none", "stuck", "drained"}]
    /\ route \in [Requests -> {"direct", "proxy"}]
    /\ scheme \in [Requests -> {"http", "https"}]
    /\ link \in [Requests -> SUBSET {"connected", "tunnelled", "secured"}]
    /\ runs \in [Requests -> Nat]
    /\ result \in [Requests -> Results \cup {NoResult}]
    /\ stack \in [Threads -> Seq(Requests)]

Init ==
    /\ phase = [r \in Requests |-> "unsent"]
    /\ resume = [r \in Requests |-> "none"]
    /\ route \in [Requests -> {"direct", "proxy"}]
    /\ scheme \in [Requests -> {"http", "https"}]
    /\ link = [r \in Requests |-> {}]
    /\ runs = [r \in Requests |-> 0]
    /\ result = [r \in Requests |-> NoResult]
    /\ stack = [t \in Threads |-> <<>>]

-----------------------------------------------------------------------------
Innermost(r) == \E t \in Threads : stack[t] # <<>> /\ stack[t][Len(stack[t])] = r
In(r, p) == Innermost(r) /\ phase[r] = p

Goto(r, p) == phase' = [phase EXCEPT ![r] = p]

\* The completion block is entered with x; the call then goes on at p.
Complete(r, x, p) ==
    /\ Goto(r, "completing")
    /\ resume' = [resume EXCEPT ![r] = p]
    /\ runs' = [runs EXCEPT ![r] = @ + 1]
    /\ result' = [result EXCEPT ![r] = x]
    /\ UNCHANGED <<route, scheme, link, stack>>

Establish(r, what, p) ==
    /\ Goto(r, p)
    /\ link' = [link EXCEPT ![r] = @ \cup {what}]
    /\ UNCHANGED <<resume, route, scheme, runs, result, stack>>

\* A thread calls the transport, from the program or from a completion block.
Send(t, r) ==
    /\ phase[r] = "unsent"
    /\ stack[t] # <<>> => phase[stack[t][Len(stack[t])]] = "completing"
    /\ Goto(r, "connect")
    /\ stack' = [stack EXCEPT ![t] = Append(@, r)]
    /\ UNCHANGED <<resume, route, scheme, link, runs, result>>

\* Fault: the error paths report and do not return.
ConnectFallsThrough(r) ==
    LET next == IF route[r] = "proxy" THEN "tunnel" ELSE "post"
    IN  /\ In(r, "connect")
        /\ \/ Establish(r, "connected", next)
           \/ Complete(r, "aborted", next)

\* Resolving and connecting block; any exception completes with
\* operation_aborted.  A proxy address that is neither a URL with a host nor an
\* IP address is reported by its own error code.
Connect(r) ==
    /\ In(r, "connect")
    /\ \/ Establish(r, "connected", IF route[r] = "proxy" THEN "tunnel" ELSE "post")
       \/ Complete(r, "aborted", "drained")
       \/ route[r] = "proxy" /\ Complete(r, "badAddress", "drained")

\* Fault: the proxy's refusal is reported and the service stopped all the same.
TunnelStopsAlways(r) ==
    /\ In(r, "tunnel")
    /\ \/ Establish(r, "tunnelled", "post")
       \/ /\ Goto(r, "post")
          /\ runs' = [runs EXCEPT ![r] = @ + 1]
          /\ result' = [result EXCEPT ![r] = "refused"]
          /\ UNCHANGED <<resume, route, scheme, link, stack>>

\* The proxy's answer to CONNECT.  Only 200 stops the service: after an error or
\* a refusal, run_until_stopped() has nothing to run and is never stopped.
Tunnel(r) ==
    /\ In(r, "tunnel")
    /\ \/ Establish(r, "tunnelled", "post")
       \/ Complete(r, "aborted", "stuck")
       \/ Complete(r, "refused", "stuck")

\* Fault: https through a proxy is taken to be secured by the tunnel.
PostSkipsHandshake(r) ==
    /\ In(r, "post")
    /\ Goto(r, IF scheme[r] = "https" /\ "tunnelled" \notin link[r]
               THEN "handshake" ELSE "exchange")
    /\ UNCHANGED <<resume, route, scheme, link, runs, result, stack>>

\* The posted function: handshake first for https, else the request goes out.
Post(r) ==
    /\ In(r, "post")
    /\ Goto(r, IF scheme[r] = "https" THEN "handshake" ELSE "exchange")
    /\ UNCHANGED <<resume, route, scheme, link, runs, result, stack>>

\* Fault: the handler of a failed handshake reports and leaves the call waiting.
HandshakeHangs(r) ==
    /\ In(r, "handshake")
    /\ \/ Establish(r, "secured", "exchange")
       \/ Complete(r, "aborted", "stuck")

\* The handshake ends: the request goes out, or the call is aborted.
Handshake(r) ==
    /\ In(r, "handshake")
    /\ \/ Establish(r, "secured", "exchange")
       \/ Complete(r, "aborted", "drained")

\* The server answers or the connection breaks; the handler does not look at the
\* error code, and passes on whatever response it was given.
Exchange(r) ==
    /\ In(r, "exchange")
    /\ \E x \in {"response", "broken"} : Complete(r, x, "drained")

\* The completion block returns.
EndCompletion(r) ==
    /\ In(r, "completing")
    /\ Goto(r, resume[r])
    /\ UNCHANGED <<resume, route, scheme, link, runs, result, stack>>

\* The innermost call of t, at the point `from`, leaves its thread.
End(t, r, from, p) ==
    /\ phase[r] = from
    /\ stack[t] # <<>> /\ stack[t][Len(stack[t])] = r
    /\ Goto(r, p)
    /\ stack' = [stack EXCEPT ![t] = SubSeq(@, 1, Len(@) - 1)]
    /\ UNCHANGED <<resume, route, scheme, link, runs, result>>

\* Nothing is left to run: run() returns, and the call with it.
Return(t, r) == End(t, r, "drained", "returned")

\* A certificate cannot be loaded or the host name not be set: the exception
\* leaves the call, and its completion block is destroyed without having run.
\* That no ssl_verify_callback is configured is assumed: it would be set on a
\* stream that does not exist before it is made for https, which is undefined.
Throw(t, r) == End(t, r, "post", "thrown")

Local(r) ==
    \/ Connect(r) \/ Post(r) \/ EndCompletion(r)
    \/ \E t \in Threads : Return(t, r) \/ Throw(t, r)

Peer(r) == Tunnel(r) \/ Handshake(r) \/ Exchange(r)

\* Peers may be silent for ever, so the program may end up anywhere.
Next == \E r \in Requests :
    \/ \E t \in Threads : Send(t, r)
    \/ Local(r)
    \/ Peer(r)

\* Connecting ends, and what runs on the caller's stack goes on: resolving and
\* connecting are bounded by the operating system.  No peer has to answer.
Fairness == \A r \in Requests : WF_vars(Local(r))

Spec == Init /\ [][Next]_vars
FairSpec == Spec /\ Fairness

-----------------------------------------------------------------------------
\* A request is put on the wire only over everything it was to go through: the
\* tunnel, if a proxy is configured, and TLS, if the URL is https.
SentOnlyWhenSecured == \A r \in Requests :
    phase[r] = "exchange" \/ result[r] \in {"response", "broken"} =>
        /\ "connected" \in link[r]
        /\ route[r] = "proxy" => "tunnelled" \in link[r]
        /\ scheme[r] = "https" => "secured" \in link[r]

\* Nothing but a peer can help the call: it waits for one that is silent, or for
\* the tunnel that its proxy has refused.
Helpless(r) ==
    \/ phase[r] \in Waiting
    \/ phase[r] = "stuck" /\ route[r] = "proxy" /\ "tunnelled" \notin link[r]

\* A call that neither returns nor throws waits for a peer that stays silent, or for a proxy
\* that has refused it, or has a call like that inside its completion block.
HangsOnlyOnPeer == \A r \in Requests :
    [](phase[r] = "connect" => <>(phase[r] \in {"returned", "thrown"}))
        \/ <>[](\E t \in Threads : \E i, j \in DOMAIN stack[t] :
                    stack[t][i] = r /\ i <= j
                    /\ Helpless(stack[t][j]))

\* The transport keeps the promise its callers rely on.
Status(r) ==
    IF phase[r] \in {"unsent", "returned", "thrown"} THEN phase[r]
    ELSE IF runs[r] = 0 THEN "called" ELSE "completed"

Call == INSTANCE OneShotCall WITH
    status <- [r \in Requests |-> Status(r)], result <- result

ImplementsCall == Call!Spec

\* "The number of milliseconds that the underlying transport should spend on an
\* HTTP round trip before failing with an error" (http.hpp:58): whatever its
\* peers do, a call ends by running its completion block or by an exception.
RoundTripIsBounded == \A r \in Requests :
    phase[r] = "connect" ~> runs[r] > 0 \/ phase[r] = "thrown"
=============================================================================
