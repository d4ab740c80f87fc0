------------------------------ MODULE Sockets ------------------------------
(***************************************************************************)
(* WebSockets between realm-core and the socket provider given to the App: *)
(* shims in both directions (src/src/cpprealm/internal/networking/shims.cpp *)
(* and src/src/cpprealm/networking/websocket.cpp), the endpoint they pass  *)
(* on (utils.cpp), the handlers of posts, timers and writes, and the       *)
(* observer of a socket.                                                   *)
(***************************************************************************)
EXTENDS Naturals, Sequences

CONSTANTS
    None,
    CoreEndpoints,      \* what realm-core asks for
    OtherEndpoints,     \* what a provider derived from the built-in one asks for
    ProviderConfigs,    \* configurations of the built-in provider, None for none
    MaxSockets, MaxHandlers

VARIABLES
    provider,       \* the configuration of the built-in provider
    sockets,      \* [asked, made, state, told] of each connection
    handlers,     \* [kind, socket, phase, status, seen, runs] of each handler
    loop,         \* the handlers the event loop has yet to run, in order
    terminated    \* whether an unknown protocol has ended the process

kvars == <<provider, sockets, handlers, loop, terminated>>

(* ----- endpoints ----- *)

(* to_websocket_endpoint: only the URL and the protocols go across, with   *)
(* the port of the proxy if there is one.                                  *)
UrlOf(e) ==
    [scheme |-> IF e.ssl THEN "wss" ELSE "ws", host |-> e.address,
     port |-> IF e.proxy # None THEN e.proxy.port ELSE e.port,
     path |-> e.path, protocols |-> e.protocols]

KnownSchemes == {"realm", "realms", "ws", "wss"}
IsSsl(scheme) == scheme \in {"realms", "wss"}
(* Fault: the port in the URL is not read. *)
PortOfDefault(url) == IF IsSsl(url.scheme) THEN 443 ELSE 80
PortOf(url) == IF url.port # None THEN url.port ELSE IF IsSsl(url.scheme) THEN 443 ELSE 80
(* The headers of the configuration replace the one that carries the       *)
(* user and password of its proxy.                                         *)
HeadersOf(c) ==
    IF c.headers # None THEN c.headers
    ELSE IF c.proxy # None /\ c.proxy.login # None THEN {"Proxy-Authorization"} ELSE {}
ProxyOf(c) == IF c.proxy = None THEN None ELSE [address |-> c.proxy.address, port |-> c.proxy.port]

(* realm-core always asks for a port, and a proxy is not a missing one. *)
ASSUME EndpointsAssumption ==
    /\ \A e \in CoreEndpoints : e.ssl \in BOOLEAN /\ e.port # None
    /\ \A c \in ProviderConfigs : c # None /\ c.proxy # None => ProxyOf(c) # None
    /\ MaxSockets \in Nat /\ MaxHandlers \in Nat

(* to_core_websocket_endpoint.  A provider that was given no configuration *)
(* has a default one, which verifies the server.                           *)
EndpointOf(url, c) ==
    [ssl |-> IsSsl(url.scheme), address |-> url.host, port |-> PortOf(url), path |-> url.path,
     protocols |-> url.protocols,
     proxy |-> IF c = None THEN None ELSE ProxyOf(c),
     headers |-> IF c = None THEN {} ELSE HeadersOf(c),
     verify |-> IF c = None THEN TRUE ELSE c.verify]

(* ----- connections ----- *)

KInit ==
    /\ provider \in ProviderConfigs
    /\ sockets = <<>> /\ handlers = <<>> /\ loop = <<>>
    /\ terminated = FALSE

Socket(asked, url) ==
    [asked |-> asked, made |-> EndpointOf(url, provider), state |-> "connecting", told |-> <<>>]

(* realm-core connects through the shim, then through the built-in one. *)
Connect(e) ==
    /\ Len(sockets) < MaxSockets /\ ~terminated
    /\ sockets' = Append(sockets, Socket(e, UrlOf(e)))
    /\ UNCHANGED <<provider, handlers, loop, terminated>>
(* A provider derived from the built-in one connects with a URL of its own. *)
ConnectElsewhere(url) ==
    /\ Len(sockets) < MaxSockets /\ ~terminated
    /\ IF url.scheme \in KnownSchemes
       THEN sockets' = Append(sockets, Socket(None, url)) /\ UNCHANGED terminated
       ELSE terminated' = TRUE /\ UNCHANGED sockets
    /\ UNCHANGED <<provider, handlers, loop>>

(* What the observer is told passes through two shims unchanged. *)
ObserverTold(s, event, state) ==
    sockets' = [sockets EXCEPT ![s].state = state, ![s].told = Append(@, event)]
Connected(s) ==
    /\ sockets[s].state = "connecting"
    /\ ObserverTold(s, "connected", "open")
    /\ UNCHANGED <<provider, handlers, loop, terminated>>
MessageReceived(s) ==
    /\ sockets[s].state = "open" /\ Len(sockets[s].told) < 2
    /\ ObserverTold(s, "message", "open")
    /\ UNCHANGED <<provider, handlers, loop, terminated>>
SocketError(s) ==
    /\ sockets[s].state \in {"connecting", "open"}
    /\ ObserverTold(s, "error", "failed")
    /\ UNCHANGED <<provider, handlers, loop, terminated>>

(* ----- handlers ----- *)

Handler(kind, s) ==
    [kind |-> kind, socket |-> s, phase |-> "raw", status |-> None, seen |-> None, runs |-> 0]
Queued(hs, h, status) == [hs EXCEPT ![h] = [@ EXCEPT !.phase = "queued", !.status = status]]

(* post() hands the loop a raw pointer to the handler. *)
Post ==
    /\ Len(handlers) < MaxHandlers /\ ~terminated
    /\ handlers' = Queued(Append(handlers, Handler("post", 0)), Len(handlers) + 1, "ok")
    /\ loop' = Append(loop, Len(handlers) + 1)
    /\ UNCHANGED <<provider, sockets, terminated>>
CreateTimer ==
    /\ Len(handlers) < MaxHandlers /\ ~terminated
    /\ handlers' = Append(handlers, Handler("timer", 0))
    /\ UNCHANGED <<provider, sockets, loop, terminated>>
AsyncWriteBinary(s) ==
    /\ Len(handlers) < MaxHandlers /\ sockets[s].state = "open"
    /\ handlers' = Append(handlers, Handler("write", s))
    /\ UNCHANGED <<provider, sockets, loop, terminated>>

Finish(h, status) ==
    /\ handlers[h].phase = "raw"
    /\ handlers' = Queued(handlers, h, status)
    /\ loop' = Append(loop, h)
    /\ UNCHANGED <<provider, sockets, terminated>>
TimerExpires(h) == handlers[h].kind = "timer" /\ Finish(h, "ok")
(* Cancelling a timer that has expired does nothing. *)
CancelTimer(h) == handlers[h].kind = "timer" /\ Finish(h, "aborted")
WriteCompletes(h) ==
    /\ handlers[h].kind = "write" /\ sockets[handlers[h].socket].state = "open"
    /\ Finish(h, "ok")

(* Closing a socket aborts its writes and tells its observer. *)
WritesOf(s) == {h \in DOMAIN handlers :
    handlers[h].kind = "write" /\ handlers[h].socket = s /\ handlers[h].phase = "raw"}
Closed(s) ==
    /\ sockets[s].state \in {"open", "failed"} /\ WritesOf(s) = {}
    /\ ObserverTold(s, "closed", "closed")
    /\ UNCHANGED <<provider, handlers, loop, terminated>>
WriteAborted(h) ==
    /\ handlers[h].kind = "write" /\ sockets[handlers[h].socket].state \in {"open", "failed"}
    /\ Finish(h, "aborted")

(* The status is converted on its way to the handler. *)
StatusSeen(status) == status
Ran(handler) ==
    [handler EXCEPT !.phase = "freed", !.runs = @ + 1, !.seen = StatusSeen(handler.status)]
(* Fault: the loop keeps the handler it has run. *)
RunNextKeeps ==
    /\ loop # <<>> /\ ~terminated
    /\ handlers' = [handlers EXCEPT ![Head(loop)] = Ran(@)]
    /\ UNCHANGED <<provider, sockets, loop, terminated>>

(* The block takes the pointer back and runs the handler, which it then    *)
(* frees: a second run would use it after that.                            *)
RunNext ==
    /\ loop # <<>> /\ ~terminated
    /\ handlers' = [handlers EXCEPT ![Head(loop)] = Ran(@)]
    /\ loop' = Tail(loop)
    /\ UNCHANGED <<provider, sockets, terminated>>

(* ----- properties ----- *)

KTypeOK ==
    /\ provider \in ProviderConfigs
    /\ Len(sockets) <= MaxSockets /\ Len(handlers) <= MaxHandlers
    /\ \A s \in DOMAIN sockets :
          sockets[s].state \in {"connecting", "open", "failed", "closed"}
    /\ \A i, j \in DOMAIN loop : loop[i] = loop[j] => i = j
    /\ \A h \in DOMAIN handlers :
          /\ handlers[h].phase \in {"raw", "queued", "freed"}
          /\ (handlers[h].phase = "queued") = \E i \in DOMAIN loop : loop[i] = h
          /\ handlers[h].runs = IF handlers[h].phase = "freed" THEN 1 ELSE 0

(* A connection goes where realm-core asked, over the transport, the path  *)
(* and the protocols it asked for, unless it asked for a proxy, of which   *)
(* only the port gets through (utils.cpp:96).  A proxy of the built-in     *)
(* provider is used with its credentials, unless there are custom headers, *)
(* which replace them (utils.cpp:82).                                      *)
ConnectsWhereAsked ==
    \A s \in DOMAIN sockets :
        LET asked == sockets[s].asked
            made == sockets[s].made
        IN  /\ asked # None =>
                  /\ <<made.ssl, made.address, made.path, made.protocols>>
                         = <<asked.ssl, asked.address, asked.path, asked.protocols>>
                  /\ asked.proxy = None => made.port = asked.port
            /\ provider # None =>
                  /\ provider.proxy # None =>
                        /\ made.proxy # None
                        /\ made.proxy.address = provider.proxy.address
                        /\ made.proxy.port = provider.proxy.port
                        /\ provider.proxy.login # None /\ provider.headers = None
                              => "Proxy-Authorization" \in made.headers
                  /\ provider.headers # None => provider.headers \subseteq made.headers
=============================================================================
