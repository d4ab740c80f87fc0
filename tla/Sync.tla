------------------------------- MODULE Sync -------------------------------
(***************************************************************************)
(* The Device Sync side of the SDK put together: the App and its user,     *)
(* whose log-out stops the session; the session, which the waits and the   *)
(* subscriptions of an open database depend on; and the sockets below it.  *)
(* A behaviour exercises one scope of operations, from a state in which    *)
(* the scopes above it have done their part.                               *)
(***************************************************************************)
EXTENDS Subscriptions, Sockets

CONSTANTS
    Scopes,   \* the operations a behaviour may exercise
    MaxOps    \* operations of the program in a behaviour

ASSUME OpsAssumption == MaxOps \in Nat

VARIABLES scope, ops

vars == <<scope, ops, avars, svars, fvars, kvars>>

Init ==
    /\ scope \in Scopes
    /\ ops = 0
    /\ SInit /\ FInit /\ KInit
    /\ calls = [c \in Calls |-> IdleCall]
    /\ cache = {}
    /\ IF scope = "app"
       THEN app = Null /\ user = "none"
       ELSE user = "logged in" /\ \E c \in AppConfigs : ~c.caching /\ app = MadeFor(c)
    /\ scope \notin {"session", "subscriptions"} => synced
    /\ scope # "connections" => provider = None
    /\ scope # "subscriptions" => generated

AStep(A) == A /\ UNCHANGED <<svars, fvars, kvars>>
SStep(A) == A /\ UNCHANGED <<avars, fvars, kvars>>
FStep(A) == A /\ UNCHANGED <<avars, svars, kvars>>
KStep(A) == A /\ UNCHANGED <<avars, svars, fvars>>

(* A log-out stops the session of the user. *)
LogOut(c, op) == Call(c, op) /\ SessionStops /\ UNCHANGED <<fvars, kvars>>
(* A session is revived only for a user that is logged in. *)
MayRevive == synced => user = "logged in"

AppOperation ==
    \/ \E c \in Calls, op \in (AppOps \cup UserOps) \ LogOuts : AStep(Call(c, op))
    \/ \E c \in Calls, op \in LogOuts : LogOut(c, op)
    \/ \E new \in AppConfigs : AStep(NewApp(new)) \/ AStep(GetCachedApp(new.id, new.url))
    \/ AStep(ClearCachedApps)
SessionOperation ==
    \/ MayRevive /\ SStep(OpenDb)
    \/ SStep(CloseDb)
    \/ SStep(GetSyncSession)
    \/ \E w \in Waits, op \in WaitOps : SStep(WaitFor(w, op))
    \/ SStep(Pause)
    \/ MayRevive /\ SStep(Resume)
    \/ SStep(Reconnect)
    \/ \E t \in Tokens : SStep(ObserveConnectionChange(t)) \/ SStep(UnregisterObserver(t))
    \/ \E mode \in ResetModes : SStep(SetClientResetHandler(mode))
    \/ \E c \in Calls : LogOut(c, "log out future")
SubscriptionOperation ==
    \/ MayRevive /\ SStep(OpenDb)
    \/ SStep(CloseDb)
    \/ SStep(GetSyncSession)
    \/ SStep(Pause)
    \/ MayRevive /\ SStep(Resume)
    \/ \E h \in Handles : FStep(TakeSubscriptions(h)) \/ FStep(CommitFails(h))
    \/ \E h \in Handles, script \in Scripts : FStep(Update(h, script))
    \/ \E c \in Calls : LogOut(c, "log out callback")
ConnectOperation ==
    \/ \E e \in CoreEndpoints : KStep(Connect(e))
    \/ \E url \in OtherEndpoints : KStep(ConnectElsewhere(url))
(* To the loop it does not matter what a socket connects to. *)
LoopOperation ==
    \/ \E e \in CoreEndpoints : e.ssl /\ e.proxy = None /\ KStep(Connect(e))
    \/ KStep(Post)
    \/ KStep(CreateTimer)
    \/ \E s \in DOMAIN sockets : KStep(AsyncWriteBinary(s))
    \/ \E h \in DOMAIN handlers : KStep(CancelTimer(h))

Operation ==
    /\ ops < MaxOps /\ ops' = ops + 1 /\ scope' = scope
    /\ \/ scope = "app" /\ AppOperation
       \/ scope = "session" /\ SessionOperation
       \/ scope = "subscriptions" /\ SubscriptionOperation
       \/ scope = "connections" /\ ConnectOperation
       \/ scope = "loop" /\ LoopOperation

(* ----- what realm-core, the server and the event loop do ----- *)

Same == UNCHANGED <<scope, ops>>
Answer(c) == Same /\ AStep(ServerAnswers(c))
AnswerWait(w) == Same /\ SStep(CoreAnswersWait(w))
Decide == Same /\ \E v \in Versions : FStep(ServerCompletes(v)) \/ FStep(ServerRejects(v))
Abort(u) == Same /\ u \in DOMAIN updates /\ FStep(NotificationAborted(u))
SetFuture(u) == Same /\ u \in DOMAIN updates /\ FStep(FutureIsSet(u))
RunLoop == Same /\ KStep(RunNext)
Expire(h) == Same /\ h \in DOMAIN handlers /\ KStep(TimerExpires(h))
WriteEnds(h) == Same /\ h \in DOMAIN handlers /\ (KStep(WriteCompletes(h)) \/ KStep(WriteAborted(h)))

Environment ==
    \/ \E c \in Calls : Answer(c) \/ (Same /\ AStep(ClientDropsBlock(c)))
    \/ \E w \in Waits : AnswerWait(w)
    \/ Decide
    \/ \E u \in DOMAIN updates : Abort(u) \/ SetFuture(u)
    \/ Same /\ SStep(SessionRunsOut)
    \/ Same /\ (\A u \in DOMAIN updates : updates[u].told # Null) /\ SStep(SessionIsDestroyed)
    \/ Same /\ scope = "session" /\ \E state \in {"disconnected", "connecting", "connected"} :
           SStep(ConnectionChanges(state))
    \/ Same /\ SStep(BeforeClientReset)
    \/ Same /\ SStep(AfterClientReset)
    \/ Same /\ \E s \in DOMAIN sockets : KStep(Connected(s)) \/ KStep(MessageReceived(s))
                   \/ KStep(SocketError(s)) \/ KStep(Closed(s))
    \/ RunLoop
    \/ \E h \in DOMAIN handlers : Expire(h) \/ WriteEnds(h)

Next == Operation \/ Environment

(* realm-core answers what it has been asked, a server that is connected   *)
(* decides about the sets it has been sent, and the event loop runs.  A    *)
(* paused session answers nothing.                                         *)
Fairness ==
    /\ \A c \in Calls : WF_vars(Answer(c))
    /\ \A w \in Waits : WF_vars(session # "paused" /\ AnswerWait(w))
    /\ WF_vars(Decide)
    /\ \A u \in 1..(MaxVersions - 1) :
          WF_vars(session # "paused" /\ Abort(u)) /\ WF_vars(SetFuture(u))
    /\ WF_vars(RunLoop)
    /\ \A h \in 1..MaxHandlers : WF_vars(Expire(h)) /\ WF_vars(WriteEnds(h))

Spec == Init /\ [][Next]_vars /\ Fairness

(* ----- properties ----- *)

(* The parts keep their types; a user that is not logged in has no active  *)
(* session.                                                                *)
TypeOK ==
    /\ scope \in Scopes /\ ops \in 0..MaxOps
    /\ ATypeOK /\ STypeOK /\ FTypeOK /\ KTypeOK
    /\ session = "active" => user = "logged in"

(* Whatever is answered is answered once and truthfully: a request fails   *)
(* for its caller exactly if it failed, and otherwise has the value it was *)
(* given; a wait has the status of its session; the future of an update is *)
(* true exactly if its own set became the active one, and a set that was   *)
(* superseded was so by a later one; a handler of the event loop has the   *)
(* status of what it waited for.                                           *)
AnswersAreTrue ==
    /\ \A c \in Calls : calls[c].phase = "settled" =>
          /\ calls[c].times = 1
          /\ (calls[c].seen.error = Null) = (calls[c].answer.error = Null)
          /\ calls[c].answer.error = Null => calls[c].seen.value = calls[c].answer.value
    /\ \A w \in Waits : waits[w].phase = "settled" =>
          waits[w].times = 1 /\ (waits[w].seen = "ok") = (waits[w].answer = "ok")
    /\ \A u \in DOMAIN updates :
          LET v == updates[u].version
          IN  /\ updates[u].seen = TRUE => sets[v].state = "complete"
              /\ updates[u].seen = FALSE /\ sets[v].state = "complete" => updates[u].told = "aborted"
              /\ sets[v].state = "superseded" => \E w \in CompletedSets : w > v
    /\ \A h \in DOMAIN handlers :
          handlers[h].phase = "freed" => handlers[h].seen = handlers[h].status

(* Every request is answered, unless a custom HTTP client drops it, every  *)
(* wait and the future of every update, unless the session is paused for   *)
(* good, and every handler of the event loop.                              *)
EveryCallIsAnswered ==
    /\ \A c \in Calls : calls[c].phase = "sent" ~> calls[c].phase \in {"settled", "leaked"}
    /\ \A w \in Waits :
          (waits[w].phase = "waiting" ~> waits[w].phase = "settled") \/ <>[](session = "paused")
    /\ \A u \in 1..(MaxVersions - 1) :
          (u \in DOMAIN updates ~> (u \in DOMAIN updates /\ updates[u].seen # Null))
             \/ <>[](session = "paused")
    /\ \A h \in 1..MaxHandlers :
          h \in DOMAIN handlers
             ~> (terminated \/ (h \in DOMAIN handlers /\ handlers[h].phase = "freed"))
=============================================================================
