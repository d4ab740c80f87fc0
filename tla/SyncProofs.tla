----------------------------- MODULE SyncProofs -----------------------------
(***************************************************************************)
(* Proofs about Sync, for any calls, waits, handles, scripts, endpoints    *)
(* and bounds.  Each part of Sync is proved to keep an invariant of its    *)
(* own; what ties the parts together is the user and the session.          *)
(***************************************************************************)
EXTENDS Sync, SequenceTheorems, WellFoundedInduction, TLAPS

(* ----- sequences whose elements have no set of their own ----- *)

IsSequence(s) == s \in Seq({s[i] : i \in DOMAIN s})

\* A sequence of any elements.
LEMMA SequenceFacts ==
    ASSUME NEW s, IsSequence(s)
    PROVE  Len(s) \in Nat /\ DOMAIN s = 1..Len(s)
BY LenProperties DEF IsSequence

\* A function on 1..n is a sequence.
LEMMA FunctionIsSequence ==
    ASSUME NEW n \in Nat, NEW T, NEW s \in [1..n -> T]
    PROVE  IsSequence(s) /\ Len(s) = n
<1> DEFINE R == {s[i] : i \in DOMAIN s}
<1>1. s \in [1..n -> R]
  OBVIOUS
<1>2. s \in Seq(R)
  BY <1>1, SeqDef
<1>3. s \in [1..Len(s) -> R] /\ Len(s) \in Nat
  BY <1>2, LenProperties
<1>4. Len(s) = n
  BY <1>1, <1>3
<1>5. QED
  BY <1>2, <1>4 DEF IsSequence

\* A sequence is a function into what holds its elements.
LEMMA SequenceIsFunction ==
    ASSUME NEW s, IsSequence(s), NEW T, \A i \in 1..Len(s) : s[i] \in T
    PROVE  s \in [1..Len(s) -> T]
<1>1. s \in [1..Len(s) -> {s[i] : i \in DOMAIN s}]
  BY LenProperties DEF IsSequence
<1>2. QED
  BY <1>1

\* A sequence with an element more.
LEMMA AppendIsSequence ==
    ASSUME NEW s, IsSequence(s), NEW e
    PROVE  /\ IsSequence(Append(s, e))
           /\ Len(Append(s, e)) = Len(s) + 1
           /\ DOMAIN Append(s, e) = 1..(Len(s) + 1)
           /\ \A i \in 1..Len(s) : Append(s, e)[i] = s[i]
           /\ Append(s, e)[Len(s) + 1] = e
<1> DEFINE S == {s[i] : i \in DOMAIN s} \cup {e}
           t == Append(s, e)
<1>1. s \in Seq(S)
  BY SeqMonotonic DEF IsSequence
<1>2. /\ t \in Seq(S) /\ Len(t) = Len(s) + 1
      /\ \A i \in 1..Len(s) : t[i] = s[i]
      /\ t[Len(s) + 1] = e
  BY <1>1, AppendProperties
<1>3. DOMAIN t = 1..(Len(s) + 1) /\ t \in [1..(Len(s) + 1) -> S] /\ Len(s) \in Nat
  BY <1>1, <1>2, LenProperties
<1>4. IsSequence(t)
  BY <1>3, FunctionIsSequence, Len(s) + 1 \in Nat
<1>5. QED
  BY <1>2, <1>3, <1>4

(* ----- the App and its operations ----- *)

ANext ==
    \/ \E c \in Calls, op \in (AppOps \cup UserOps) \ LogOuts : Call(c, op)
    \/ \E new \in AppConfigs : NewApp(new) \/ GetCachedApp(new.id, new.url)
    \/ ClearCachedApps
    \/ \E c \in Calls : ServerAnswers(c) \/ ClientDropsBlock(c)

Answers == [error : {Null, "error"}, value : {Null, "user", "text", "bson"}]
CallStates ==
    [op : AppOps \cup UserOps \cup {Null}, phase : {"idle", "sent", "settled", "leaked"},
     answer : Answers, seen : Answers, times : {0, 1}]

\* An operation is answered at most once, and only after it has been sent.
AnsweredOnce == \A c \in Calls :
    /\ calls[c].phase \in {"idle", "sent"} => calls[c].times = 0
    /\ calls[c].phase = "sent" => calls[c].op \in AppOps \cup UserOps /\ app # Null

CallsAreTrue == \A c \in Calls : calls[c].phase = "settled" =>
    /\ calls[c].times = 1
    /\ (calls[c].seen.error = Null) = (calls[c].answer.error = Null)
    /\ calls[c].answer.error = Null => calls[c].seen.value = calls[c].answer.value

AInv ==
    /\ calls \in [Calls -> CallStates]
    /\ cache \subseteq {MadeFor(config) : config \in AppConfigs}
    /\ app \in {MadeFor(config) : config \in AppConfigs} \cup {Null}
    /\ user \in {"none", "logged in", "logged out"}
    /\ app = Null => user = "none" /\ cache = {}
    /\ AnsweredOnce /\ CallsAreTrue

\* The types of requests.
LEMMA AInvTypes == AInv => ATypeOK
<1> SUFFICES ASSUME AInv PROVE ATypeOK
  OBVIOUS
<1>1. ASSUME NEW a \in cache
      PROVE  a.client # Null
  <2>1. PICK config \in AppConfigs : a = MadeFor(config)
    BY DEF AInv
  <2>2. QED
    BY <2>1, NullAssumption DEF MadeFor
<1>2. QED
  BY <1>1 DEF AInv, ATypeOK, CallStates

\* What the caller of an operation sees of an answer is that answer.
LEMMA SeesAnswer ==
    ASSUME NEW op \in AppOps \cup UserOps, NEW a \in CoreAnswers(op) \cup {NoAnswer}
    PROVE  /\ a \in Answers /\ Sees(op, a) \in Answers
           /\ (Sees(op, a).error = Null) = (a.error = Null)
           /\ a.error = Null => Sees(op, a).value = a.value
<1> DEFINE silent == {"log out callback", "refresh callback"}
<1>0. a \in [error : {Null, "error"}, value : {Null} \cup Gives(op)]
  BY DEF CoreAnswers, NoAnswer
<1>a. /\ Gives(op) \subseteq {Null, "user", "text", "bson"}
      /\ op \in silent => Gives(op) = {Null}
  BY DEF Gives, LogIns
<1>1. a \in Answers
  BY <1>0, <1>a DEF Answers
<1>2. Sees(op, a) \in {FutureSees(a), ErrorOnly(a), a}
  BY DEF Sees, AppOps, UserOps, RegisterUser, LoginFuture, LoginCallback, LogOutCallback,
         LogOutFuture, CallTextCallback, CallTextFuture, CallBsonCallback, CallBsonFuture,
         RefreshCallback, RefreshFuture, UpdateBaseUrl, FutureSees, ErrorOnly, ValueAndError
<1>3. /\ Sees(op, a) \in Answers
      /\ (Sees(op, a).error = Null) = (a.error = Null)
  BY <1>1, <1>2 DEF FutureSees, ErrorOnly, Answers
<1>4. ASSUME op \in silent
      PROVE  a.value = Null
  BY <1>0, <1>a, <1>4
<1>5. ASSUME op \notin silent
      PROVE  Sees(op, a) \in {FutureSees(a), a}
  BY <1>5 DEF Sees, AppOps, UserOps, RegisterUser, LoginFuture, LoginCallback, LogOutCallback,
         LogOutFuture, CallTextCallback, CallTextFuture, CallBsonCallback, CallBsonFuture,
         RefreshCallback, RefreshFuture, UpdateBaseUrl, FutureSees, ErrorOnly, ValueAndError
<1>6. ASSUME a.error = Null
      PROVE  Sees(op, a).value = a.value
  <2>a. FutureSees(a).value = a.value /\ ErrorOnly(a).value = Null
    BY <1>6 DEF FutureSees, ErrorOnly
  <2>1. CASE op \in silent
    BY <1>2, <1>4, <2>a, <2>1, Zenon
  <2>2. CASE op \notin silent
    BY <1>5, <2>a, <2>2, Zenon
  <2>3. QED
    BY <2>1, <2>2
<1>7. QED
  BY <1>1, <1>3, <1>6

\* What an operation makes of an answer fails exactly if the answer does.
LEMMA SettledIsTrue ==
    ASSUME NEW call \in CallStates, call.op \in AppOps \cup UserOps, call.times = 0,
           NEW a \in CoreAnswers(call.op) \cup {NoAnswer}
    PROVE  LET new == Settled(call, a)
           IN  /\ new \in CallStates
               /\ new.phase = "settled" /\ new.times = 1
               /\ (new.seen.error = Null) = (new.answer.error = Null)
               /\ new.answer.error = Null => new.seen.value = new.answer.value
<1> DEFINE seen == Sees(call.op, a)
           new == Settled(call, a)
<1>1. /\ a \in Answers /\ seen \in Answers
      /\ (seen.error = Null) = (a.error = Null)
      /\ a.error = Null => seen.value = a.value
  BY SeesAnswer
<1> HIDE DEF seen
<1>2. new = [call EXCEPT !.phase = "settled", !.answer = a, !.seen = seen, !.times = 1]
  BY 0 + 1 = 1 DEF Settled, seen
<1> HIDE DEF new
<1>3. /\ new.phase = "settled" /\ new.times = 1
      /\ new.answer = a /\ new.seen = seen
  BY <1>2 DEF CallStates
<1>4. new \in CallStates
  BY <1>1, <1>2 DEF CallStates
<1>5. QED
  BY <1>1, <1>3, <1>4 DEF new

\* A request is sent.
LEMMA CallKeepsAInv ==
    ASSUME AInv, NEW c \in Calls, NEW op \in AppOps \cup UserOps, Call(c, op)
    PROVE  AInv'
<1> DEFINE made0 == [IdleCall EXCEPT !.op = op, !.phase = "sent"]
           new == IF op \in LogOuts /\ user # "logged in" THEN Settled(made0, NoAnswer) ELSE made0
<1>1. calls \in [Calls -> CallStates] /\ calls' = [calls EXCEPT ![c] = new]
  BY DEF AInv, Call
<1>2. IdleCall \in CallStates /\ IdleCall.times = 0
  BY DEF IdleCall, CallStates, NoAnswer, Answers
<1>4. made0 \in CallStates
  BY <1>2 DEF CallStates
<1>5. made0.op = op /\ made0.phase = "sent" /\ made0.times = 0
  BY <1>2 DEF CallStates
<1> HIDE DEF made0
<1>6. /\ Settled(made0, NoAnswer) \in CallStates
      /\ Settled(made0, NoAnswer).phase = "settled" /\ Settled(made0, NoAnswer).times = 1
      /\ (Settled(made0, NoAnswer).seen.error = Null) = (Settled(made0, NoAnswer).answer.error = Null)
      /\ Settled(made0, NoAnswer).answer.error = Null
            => Settled(made0, NoAnswer).seen.value = Settled(made0, NoAnswer).answer.value
  BY <1>4, <1>5, SettledIsTrue
<1>7. /\ new \in CallStates
      /\ \/ new.phase = "sent" /\ new.times = 0 /\ new.op = op
         \/ /\ new.phase = "settled" /\ new.times = 1
            /\ (new.seen.error = Null) = (new.answer.error = Null)
            /\ new.answer.error = Null => new.seen.value = new.answer.value
  BY <1>4, <1>5, <1>6
<1> HIDE DEF new
<1>a. app # Null /\ app' = app
  BY DEF Call
<1>8. calls' \in [Calls -> CallStates] /\ AnsweredOnce' /\ CallsAreTrue'
  BY <1>1, <1>7, <1>a DEF AInv, AnsweredOnce, CallsAreTrue
<1>9. QED
  BY <1>8 DEF AInv, Call

\* A request is answered.
LEMMA AnswerKeepsAInv ==
    ASSUME AInv, NEW c \in Calls, ServerAnswers(c)
    PROVE  AInv'
<1>1. /\ calls[c] \in CallStates /\ calls[c].times = 0
      /\ calls[c].op \in AppOps \cup UserOps
  BY DEF AInv, AnsweredOnce, ServerAnswers
<1>2. PICK a \in CoreAnswers(calls[c].op) :
          /\ calls' = [calls EXCEPT ![c] = Settled(calls[c], a)]
          /\ user' = IF calls[c].op \in LogIns /\ a.error = Null THEN "logged in" ELSE user
  BY DEF ServerAnswers
<1> DEFINE new == Settled(calls[c], a)
<1>3. /\ new \in CallStates
      /\ new.phase = "settled" /\ new.times = 1
      /\ (new.seen.error = Null) = (new.answer.error = Null)
      /\ new.answer.error = Null => new.seen.value = new.answer.value
  BY <1>1, SettledIsTrue
<1>4. calls' = [calls EXCEPT ![c] = new]
  BY <1>2
<1> HIDE DEF new
<1>6. app # Null /\ app' = app
  BY DEF AInv, AnsweredOnce, ServerAnswers
<1>5. calls' \in [Calls -> CallStates] /\ AnsweredOnce' /\ CallsAreTrue'
  BY <1>3, <1>4, <1>6 DEF AInv, AnsweredOnce, CallsAreTrue
<1>7. QED
  BY <1>2, <1>5, <1>6 DEF AInv, ServerAnswers

\* Every step of the requests keeps their invariant.
LEMMA ANextKeepsAInv == AInv /\ [ANext]_avars => AInv'
<1> SUFFICES ASSUME AInv, [ANext]_avars PROVE AInv'
  OBVIOUS
<1> USE DEF AInv
<1>1. ASSUME NEW new \in AppConfigs, NewApp(new)
      PROVE  AInv'
  <2>1. CoreGetApp(new) \subseteq {MadeFor(config) : config \in AppConfigs}
    BY DEF CoreGetApp
  <2>2. app' \in {MadeFor(config) : config \in AppConfigs}
    BY <1>1, <2>1 DEF NewApp
  <2>3. app' # Null
    BY <2>2, NullAssumption
  <2>4. cache' \subseteq {MadeFor(config) : config \in AppConfigs}
    BY <1>1, <2>2 DEF NewApp
  <2>5. UNCHANGED <<calls, user>>
    BY <1>1 DEF NewApp
  <2>6. QED
    BY <2>2, <2>3, <2>4, <2>5 DEF AnsweredOnce, CallsAreTrue
<1>2. ASSUME NEW new \in AppConfigs, GetCachedApp(new.id, new.url)
      PROVE  AInv'
  <2>1. app' \in cache /\ UNCHANGED <<calls, user, cache>> /\ app # Null
    BY <1>2 DEF GetCachedApp
  <2>2. app' # Null
    BY <2>1, NullAssumption
  <2>3. QED
    BY <2>1, <2>2 DEF AnsweredOnce, CallsAreTrue
<1>3. CASE ClearCachedApps
  BY <1>3 DEF ClearCachedApps, AnsweredOnce, CallsAreTrue
<1>4. ASSUME NEW c \in Calls, ClientDropsBlock(c)
      PROVE  AInv'
  <2>1. calls' = [calls EXCEPT ![c].phase = "leaked"] /\ UNCHANGED <<user, app, cache>>
    BY <1>4 DEF ClientDropsBlock
  <2>2. calls' \in [Calls -> CallStates]
    BY <2>1 DEF CallStates
  <2>3. AnsweredOnce' /\ CallsAreTrue'
    BY <2>1 DEF AnsweredOnce, CallsAreTrue, CallStates
  <2>4. QED
    BY <2>1, <2>2, <2>3
<1>5. CASE UNCHANGED avars
  BY <1>5 DEF avars, AnsweredOnce, CallsAreTrue
<1>6. QED
  BY <1>1, <1>2, <1>3, <1>4, <1>5, CallKeepsAInv, AnswerKeepsAInv DEF ANext

\* Only a log-in brings a user in, and only a log-out lets one go.
LEMMA UserStays == ANext /\ user = "logged in" => user' = "logged in"
BY DEF ANext, Call, NewApp, GetCachedApp, ClearCachedApps, ServerAnswers, ClientDropsBlock

(* ----- the session ----- *)

SNext ==
    \/ MayRevive /\ (OpenDb \/ Resume)
    \/ CloseDb \/ GetSyncSession \/ Pause \/ Reconnect
    \/ \E w \in Waits : CoreAnswersWait(w) \/ \E op \in WaitOps : WaitFor(w, op)
    \/ \E t \in Tokens : ObserveConnectionChange(t) \/ UnregisterObserver(t)
    \/ \E mode \in ResetModes : SetClientResetHandler(mode)
    \/ \E state \in {"disconnected", "connecting", "connected"} : ConnectionChanges(state)
    \/ BeforeClientReset \/ AfterClientReset
    \/ SessionRunsOut \/ SessionIsDestroyed

Statuses == {Null, "ok", "error", "aborted", "destroyed"}
WaitStates ==
    [op : WaitOps \cup {Null}, phase : {"idle", "waiting", "settled", "thrown"},
     answer : Statuses, seen : Statuses, times : {0, 1}]

\* A wait is answered at most once, with the status of the session.
WaitsAreTrue == \A w \in Waits :
    /\ waits[w].phase \in {"idle", "waiting"} => waits[w].times = 0
    /\ waits[w].phase = "settled" => waits[w].times = 1 /\ waits[w].seen = waits[w].answer

SInv ==
    /\ synced \in BOOLEAN
    /\ waits \in [Waits -> WaitStates]
    /\ reset = [mode |-> reset.mode, told |-> reset.told]
    /\ STypeOK /\ WaitsAreTrue

\* A wait is told the status core gives.
LEMMA WaitSeesStatus ==
    ASSUME NEW op, NEW status
    PROVE  WaitSees(op, status) = status
BY DEF WaitSees, UploadFutureSees, DownloadFutureSees, WaitCallbackSees

\* A wait begins.
LEMMA WaitForKeepsSInv ==
    ASSUME SInv, NEW w \in Waits, NEW op \in WaitOps, WaitFor(w, op)
    PROVE  SInv'
<1> DEFINE sent == [IdleWait EXCEPT !.op = op, !.phase = "waiting"]
           broken == [IdleWait EXCEPT !.op = op, !.phase = "settled", !.answer = "destroyed",
                                      !.seen = "destroyed", !.times = 1]
           thrown == [IdleWait EXCEPT !.op = op, !.phase = "thrown"]
           new == IF Lock THEN sent ELSE IF op \in Futures THEN broken ELSE thrown
<1>1. waits' = [waits EXCEPT ![w] = new]
  BY DEF WaitFor
<1>2. IdleWait \in WaitStates /\ IdleWait.times = 0
  BY DEF IdleWait, WaitStates, Statuses
<1>3. sent \in WaitStates /\ sent.phase = "waiting" /\ sent.times = 0
  BY <1>2 DEF WaitStates
<1>4. /\ broken \in WaitStates /\ broken.phase = "settled"
      /\ broken.times = 1 /\ broken.seen = broken.answer
  BY <1>2 DEF WaitStates, Statuses
<1>5. thrown \in WaitStates /\ thrown.phase = "thrown" /\ thrown.op = op
  BY <1>2 DEF WaitStates
<1> HIDE DEF sent, broken, thrown
<1>6. /\ new \in WaitStates
      /\ \/ new.phase = "waiting" /\ new.times = 0
         \/ new.phase = "settled" /\ new.times = 1 /\ new.seen = new.answer
         \/ new.phase = "thrown" /\ new.op \notin Futures
  BY <1>3, <1>4, <1>5
<1> HIDE DEF new
<1>7. waits' \in [Waits -> WaitStates] /\ WaitsAreTrue'
  BY <1>1, <1>6 DEF SInv, WaitsAreTrue
<1>8. \A v \in Waits :
         /\ waits'[v].phase \in {"idle", "waiting", "settled", "thrown"}
         /\ waits'[v].phase = "thrown" => waits'[v].op \notin Futures
  BY <1>1, <1>6 DEF SInv, STypeOK, WaitStates
<1>9. QED
  BY <1>7, <1>8 DEF SInv, STypeOK, WaitFor, Alive

\* A wait is answered.
LEMMA CoreKeepsSInv ==
    ASSUME SInv, NEW w \in Waits, CoreAnswersWait(w)
    PROVE  SInv'
<1>1. PICK status \in {"ok", "error", "aborted"} :
          waits' = [waits EXCEPT ![w] = AnsweredWait(waits[w], status)]
  BY DEF CoreAnswersWait
<1>2. waits[w] \in WaitStates /\ waits[w].times = 0
  BY DEF SInv, WaitsAreTrue, CoreAnswersWait
<1> DEFINE new == AnsweredWait(waits[w], status)
<1>3. waits' = [waits EXCEPT ![w] = new]
  BY <1>1
<1>a. new = [waits[w] EXCEPT !.phase = "settled", !.answer = status,
                             !.seen = status, !.times = 1]
  BY <1>2, WaitSeesStatus, 0 + 1 = 1 DEF AnsweredWait
<1> HIDE DEF new
<1>b. new.phase = "settled" /\ new.times = 1 /\ new.seen = new.answer
  BY <1>2, <1>a DEF WaitStates
<1>4. new \in WaitStates
  BY <1>2, <1>a DEF WaitStates, Statuses
<1>5. waits' \in [Waits -> WaitStates] /\ WaitsAreTrue'
  BY <1>3, <1>4, <1>b DEF SInv, WaitsAreTrue
<1>6. \A v \in Waits :
         /\ waits'[v].phase \in {"idle", "waiting", "settled", "thrown"}
         /\ waits'[v].phase = "thrown" => waits'[v].op \notin Futures
  BY <1>3, <1>4, <1>b DEF SInv, STypeOK, WaitStates
<1>7. QED
  BY <1>5, <1>6 DEF SInv, STypeOK, CoreAnswersWait, Alive

\* Every step of the sessions keeps their invariant.
LEMMA SNextKeepsSInv == SInv /\ [SNext]_svars => SInv'
<1> SUFFICES ASSUME SInv, [SNext]_svars PROVE SInv'
  OBVIOUS
<1> USE DEF SInv
<1>a. ASSUME UNCHANGED waits
      PROVE  /\ waits' \in [Waits -> WaitStates] /\ WaitsAreTrue'
             /\ \A w \in Waits :
                   /\ waits'[w].phase \in {"idle", "waiting", "settled", "thrown"}
                   /\ waits'[w].phase = "thrown" => waits'[w].op \notin Futures
  BY <1>a DEF WaitsAreTrue, STypeOK
<1>1. CASE OpenDb
  BY <1>1, <1>a, SessionsAssumption DEF OpenDb, STypeOK, Alive
<1>2. CASE Resume
  BY <1>2, <1>a DEF Resume, STypeOK, Alive, Lock
<1>3. CASE CloseDb
  BY <1>3, <1>a DEF CloseDb, STypeOK, Alive
<1>4. CASE GetSyncSession
  BY <1>4, <1>a DEF GetSyncSession, STypeOK, Alive
<1>5. CASE Pause
  BY <1>5, <1>a DEF Pause, STypeOK, Alive, Lock
<1>6. CASE Reconnect
  BY <1>6, <1>a DEF Reconnect, STypeOK, Alive, Lock
<1>7. ASSUME NEW t \in Tokens, ObserveConnectionChange(t) \/ UnregisterObserver(t)
      PROVE  SInv'
  BY <1>7, <1>a DEF ObserveConnectionChange, UnregisterObserver, STypeOK, Alive
<1>8. ASSUME NEW mode \in ResetModes, SetClientResetHandler(mode)
      PROVE  SInv'
  BY <1>8, <1>a DEF SetClientResetHandler, STypeOK, Alive
<1>9. ASSUME NEW state \in {"disconnected", "connecting", "connected"}, ConnectionChanges(state)
      PROVE  SInv'
  BY <1>9, <1>a DEF ConnectionChanges, STypeOK, Alive
<1>10. CASE BeforeClientReset
  BY <1>10, <1>a DEF BeforeClientReset, STypeOK, Alive
<1>11. CASE AfterClientReset
  <2>1. Len(reset.told) = 1 /\ (reset.mode = "manual" => reset.told = <<>>)
    BY <1>11 DEF AfterClientReset, STypeOK
  <2>2. Len(<<>>) = 0 /\ 0 # 1
    BY EmptySeq
  <2>3. reset.mode # "manual"
    BY <2>1, <2>2, Zenon
  <2>4. QED
    BY <1>11, <1>a, <2>3 DEF AfterClientReset, STypeOK, Alive
<1>12. CASE SessionRunsOut
  BY <1>12, <1>a DEF SessionRunsOut, SessionStops, STypeOK, Alive
<1>13. CASE SessionIsDestroyed
  <2>1. DOMAIN <<>> = {}
    OBVIOUS
  <2>2. QED
    BY <1>13, <1>a, <2>1 DEF SessionIsDestroyed, STypeOK, Alive
<1>14. CASE UNCHANGED svars
  BY <1>14, <1>a DEF svars, STypeOK, Alive
<1>15. QED
  BY <1>1, <1>2, <1>3, <1>4, <1>5, <1>6, <1>7, <1>8, <1>9, <1>10, <1>11, <1>12, <1>13, <1>14,
     WaitForKeepsSInv, CoreKeepsSInv DEF SNext

\* A session comes to life only when its user may have one.
LEMMA SessionRevives ==
    SInv /\ [SNext]_svars /\ session' = "active"
        => session = "active" \/ user = "logged in"
BY DEF SInv, STypeOK, SNext, svars, MayRevive, OpenDb, Resume, Lock, CloseDb, GetSyncSession, Pause,
       Reconnect, WaitFor, CoreAnswersWait, ObserveConnectionChange, UnregisterObserver,
       SetClientResetHandler, ConnectionChanges, BeforeClientReset, AfterClientReset,
       SessionRunsOut, SessionStops, SessionIsDestroyed

(* ----- subscriptions ----- *)

FNext ==
    \/ \E h \in Handles : TakeSubscriptions(h) \/ CommitFails(h)
                          \/ \E script \in Scripts : Update(h, script)
    \/ \E v \in Versions : ServerCompletes(v) \/ ServerRejects(v)
    \/ \E u \in DOMAIN updates : NotificationAborted(u) \/ FutureIsSet(u)

\* Some complete set is the latest of them, which Active relies on; a set is
\* superseded by a later one.
SetsInv ==
    /\ IsSequence(sets) /\ Latest \in 1..MaxVersions
    /\ \A v \in 1..Latest :
          /\ sets[v] = [subs |-> sets[v].subs, state |-> sets[v].state]
          /\ sets[v].state \in {"pending", "complete", "superseded", "error"}
          /\ sets[v].state = "superseded"
                => \E w \in 1..Latest : w > v /\ sets[w].state = "complete"
    /\ \E v \in 1..Latest :
          /\ sets[v].state = "complete"
          /\ \A w \in 1..Latest : sets[w].state = "complete" => w <= v

\* An update is told of the state its set has reached for good, or that the
\* session has given up.
Told(update, committed) ==
    /\ update.version \in 1..Len(committed)
    /\ \/ update.told \in {Null, "aborted"}
       \/ update.told = committed[update.version].state /\ update.told # "pending"
\* Its future has been set to what it was told.
Seen(update) ==
    update.seen # Null => update.told # Null /\ update.seen = UpdateSees(update.told)
FutureStates == {Null, TRUE, FALSE}
UpdateStates ==
    [version : Nat, fresh : BOOLEAN, script : Scripts,
     told : {Null, "complete", "superseded", "error", "aborted"}, seen : FutureStates]
UpdatesInv ==
    /\ IsSequence(updates) /\ Len(updates) = Latest - 1
    /\ \A u \in 1..Len(updates) :
          updates[u] \in UpdateStates /\ Told(updates[u], sets) /\ Seen(updates[u])

HandlesInv ==
    /\ handle \in [Handles -> -1..Latest]
    /\ current \subseteq {h \in Handles : handle[h] > 0}

FInv == SetsInv /\ UpdatesInv /\ HandlesInv

\* The types of sets, updates and handlers.
LEMMA FInvTypes == FInv => FTypeOK
<1> SUFFICES ASSUME FInv PROVE FTypeOK
  OBVIOUS
<1>1. Versions = 1..Latest
  BY SequenceFacts DEF FInv, SetsInv, Versions, Latest
<1>2. \A h \in current : handle[h] > 0
  BY DEF FInv, HandlesInv
<1>3. Latest <= MaxVersions /\ Len(updates) = Latest - 1
  BY VersionsAssumption DEF FInv, SetsInv, UpdatesInv
<1>4. \A v \in 1..Latest : sets[v].state \in {"pending", "complete", "superseded", "error"}
  BY DEF FInv, SetsInv
<1>5. \A h \in Handles : handle[h] \in -1..Latest
  BY DEF FInv, HandlesInv
<1>6. QED
  BY <1>1, <1>2, <1>3, <1>4, <1>5 DEF FTypeOK

\* Some set is complete, and the active one is the latest of those.
LEMMA ActiveFacts ==
    ASSUME SetsInv
    PROVE  /\ Versions = 1..Latest /\ Active \in 1..Latest
           /\ sets[Active].state = "complete"
           /\ \A w \in 1..Latest : sets[w].state = "complete" => w <= Active
<1>1. Versions = 1..Latest
  BY SequenceFacts DEF SetsInv, Versions, Latest
<1>2. \E v \in CompletedSets : \A w \in CompletedSets : w <= v
  BY <1>1 DEF SetsInv, CompletedSets
<1>3. Active \in CompletedSets /\ \A w \in CompletedSets : w <= Active
  BY <1>2 DEF Active
<1>4. QED
  BY <1>1, <1>3 DEF CompletedSets

\* A set of the sequence changes its state only: what is left to show is that
\* the states fit.
LEMMA UpdateKeepsFInv ==
    ASSUME FInv, NEW h \in Handles, NEW script \in Scripts, Update(h, script)
    PROVE  FInv'
<1> DEFINE new == [subs |-> Run(Shown(h), script).subs, state |-> "pending"]
           update == [version |-> Latest + 1, fresh |-> h \in current, script |-> script,
                      told |-> Null, seen |-> Null]
<1>1. /\ sets' = Append(sets, new) /\ updates' = Append(updates, update)
      /\ Latest < MaxVersions
      /\ handle' = [handle EXCEPT ![h] = Latest + 1] /\ current' = {h}
  BY DEF Update, ShownAfterCommit
<1>2. /\ IsSequence(sets) /\ IsSequence(updates)
      /\ Latest \in 1..MaxVersions /\ Len(updates) = Latest - 1 /\ Latest = Len(sets)
      /\ MaxVersions \in Nat
  BY VersionsAssumption DEF FInv, SetsInv, UpdatesInv, Latest
<1>3. /\ IsSequence(sets') /\ Latest' = Latest + 1 /\ Latest' \in 1..MaxVersions
      /\ \A v \in 1..Latest : sets'[v] = sets[v]
      /\ sets'[Latest + 1] = new
  BY <1>1, <1>2, AppendIsSequence DEF Latest
<1>4. /\ IsSequence(updates') /\ Len(updates') = Latest' - 1
      /\ \A u \in 1..Len(updates) : updates'[u] = updates[u]
      /\ updates'[Latest] = update
  BY <1>1, <1>2, <1>3, AppendIsSequence
<1>5. new.state = "pending" /\ new = [subs |-> new.subs, state |-> new.state]
  OBVIOUS
<1> HIDE DEF new
<1>6. SetsInv'
  <2>1. \A v \in 1..Latest' : v \in 1..Latest \/ v = Latest + 1
    BY <1>2, <1>3
  <2>2. ASSUME NEW v \in 1..Latest'
        PROVE  /\ sets'[v] = [subs |-> sets'[v].subs, state |-> sets'[v].state]
               /\ sets'[v].state \in {"pending", "complete", "superseded", "error"}
               /\ sets'[v].state = "superseded"
                     => \E w \in 1..Latest' : w > v /\ sets'[w].state = "complete"
    BY <1>2, <1>3, <1>5, <2>1 DEF FInv, SetsInv
  <2>3. \E v \in 1..Latest' :
           /\ sets'[v].state = "complete"
           /\ \A w \in 1..Latest' : sets'[w].state = "complete" => w <= v
    BY <1>2, <1>3, <1>5, <2>1 DEF FInv, SetsInv
  <2>4. QED
    BY <1>3, <2>2, <2>3 DEF SetsInv
<1>7. UpdatesInv'
  <2>1. update \in UpdateStates
    BY <1>2 DEF UpdateStates, FutureStates
  <2>2. Told(update, sets') /\ Seen(update)
    BY <1>2, <1>3 DEF Told, Seen, Latest
  <2> HIDE DEF update
  <2>3. ASSUME NEW u \in 1..Len(updates)
        PROVE  updates[u] \in UpdateStates /\ Told(updates[u], sets') /\ Seen(updates[u])
    BY <1>2, <1>3 DEF FInv, UpdatesInv, Told, Latest
  <2>4. \A u \in 1..Len(updates') : u \in 1..Len(updates) \/ u = Latest
    BY <1>2, <1>3, <1>4
  <2>5. QED
    BY <1>2, <1>3, <1>4, <2>1, <2>2, <2>3, <2>4 DEF UpdatesInv
<1>8. HandlesInv'
  BY <1>1, <1>2, <1>3 DEF FInv, HandlesInv
<1>9. QED
  BY <1>6, <1>7, <1>8 DEF FInv

\* What a wait for a set is told when the states of the sets become new.
LEMMA TellOfFacts ==
    ASSUME FInv, NEW new, IsSequence(new), Len(new) = Latest,
           \A v \in 1..Latest :
              /\ new[v].state \in {"pending", "complete", "superseded", "error"}
              /\ sets[v].state # "pending" => new[v].state = sets[v].state
    PROVE  LET told == TellOf(new)
           IN  /\ IsSequence(told) /\ Len(told) = Len(updates)
               /\ \A u \in 1..Len(updates) :
                     told[u] \in UpdateStates /\ Told(told[u], new) /\ Seen(told[u])
<1> DEFINE told == TellOf(new)
<1>1. IsSequence(updates) /\ Len(updates) \in Nat /\ DOMAIN updates = 1..Len(updates)
  BY SequenceFacts DEF FInv, UpdatesInv
<1>2. ASSUME NEW u \in 1..Len(updates)
      PROVE  told[u] \in UpdateStates /\ Told(told[u], new) /\ Seen(told[u])
  <2>1. /\ updates[u] \in UpdateStates /\ Told(updates[u], sets) /\ Seen(updates[u])
        /\ updates[u].version \in 1..Latest
    BY DEF FInv, UpdatesInv, Told, Latest
  <2> DEFINE state == new[updates[u].version].state
  <2>2. CASE updates[u].told = Null /\ state # "pending"
    <3>1. told[u] = [updates[u] EXCEPT !.told = state]
      BY <1>1, <2>2 DEF TellOf
    <3>2. state \in {"complete", "superseded", "error"}
      BY <2>1, <2>2
    <3>3. updates[u].seen = Null
      BY <2>1, <2>2 DEF Seen
    <3>4. /\ told[u] \in UpdateStates /\ told[u].told = state
          /\ told[u].version = updates[u].version /\ told[u].seen = Null
      BY <2>1, <3>1, <3>2, <3>3 DEF UpdateStates
    <3>5. QED
      BY <2>1, <2>2, <3>2, <3>4 DEF Told, Seen
  <2>3. CASE ~(updates[u].told = Null /\ state # "pending")
    <3>1. told[u] = updates[u]
      BY <1>1, <2>3 DEF TellOf
    <3>2. Told(updates[u], new)
      BY <2>1 DEF Told, Latest
    <3>3. QED
      BY <2>1, <3>1, <3>2
  <2>4. QED
    BY <2>2, <2>3
<1>3. told \in [1..Len(updates) -> UpdateStates]
  BY <1>1, <1>2 DEF TellOf
<1>4. QED
  BY <1>1, <1>2, <1>3, FunctionIsSequence

\* States that change from pending only, to a set that completes being the
\* latest to have done so.
LEMMA DecisionKeepsFInv ==
    ASSUME FInv, NEW v \in 1..Latest, v > Active, sets[v].state = "pending",
           ServerCompletes(v) \/ ServerRejects(v)
    PROVE  FInv'
<1>1. /\ IsSequence(sets) /\ Latest \in 1..MaxVersions /\ Latest = Len(sets)
      /\ DOMAIN sets = 1..Latest /\ Versions = 1..Latest /\ MaxVersions \in Nat
      /\ Active \in 1..Latest /\ sets[Active].state = "complete"
      /\ \A w \in 1..Latest : sets[w].state = "complete" => w <= Active
  BY SequenceFacts, ActiveFacts, VersionsAssumption DEF FInv, SetsInv, Latest
<1>2. /\ sets' \in [1..Latest -> [subs : {sets[w].subs : w \in 1..Latest},
                                  state : {"pending", "complete", "superseded", "error"}]]
      /\ \A w \in 1..Latest \ {v} :
            \/ sets'[w].state = sets[w].state
            \/ sets[w].state = "pending" /\ sets'[w].state = "superseded" /\ w < v
               /\ sets'[v].state = "complete"
      /\ sets'[v].state \in {"complete", "error"}
  <2>1. CASE ServerCompletes(v)
    <3> DEFINE after(w) == IF w = v THEN [sets[w] EXCEPT !.state = "complete"]
                           ELSE IF w < v /\ sets[w].state = "pending"
                                THEN [sets[w] EXCEPT !.state = "superseded"]
                                ELSE sets[w]
    <3>1. sets' = [w \in 1..Latest |-> after(w)]
      BY <1>1, <2>1 DEF ServerCompletes
    <3>2. ASSUME NEW w \in 1..Latest
          PROVE  /\ after(w) \in [subs : {sets[i].subs : i \in 1..Latest},
                                  state : {"pending", "complete", "superseded", "error"}]
                 /\ after(w).state = IF w = v THEN "complete"
                                     ELSE IF w < v /\ sets[w].state = "pending" THEN "superseded"
                                     ELSE sets[w].state
      <4>1. /\ sets[w] = [subs |-> sets[w].subs, state |-> sets[w].state]
            /\ sets[w].state \in {"pending", "complete", "superseded", "error"}
        BY DEF FInv, SetsInv
      <4>2. sets[w] \in [subs : {sets[i].subs : i \in 1..Latest},
                         state : {"pending", "complete", "superseded", "error"}]
        BY <4>1
      <4>3. QED
        BY <4>2
    <3> HIDE DEF after
    <3>3. QED
      BY <3>1, <3>2
  <2>2. CASE ServerRejects(v)
    <3>1. sets' = [sets EXCEPT ![v].state = "error"]
      BY <2>2 DEF ServerRejects
    <3>2. \A w \in 1..Latest :
             sets[w] \in [subs : {sets[i].subs : i \in 1..Latest},
                          state : {"pending", "complete", "superseded", "error"}]
      <4>1. SUFFICES ASSUME NEW w \in 1..Latest
                     PROVE  sets[w] \in [subs : {sets[i].subs : i \in 1..Latest},
                                         state : {"pending", "complete", "superseded", "error"}]
        OBVIOUS
      <4>2. /\ sets[w] = [subs |-> sets[w].subs, state |-> sets[w].state]
            /\ sets[w].state \in {"pending", "complete", "superseded", "error"}
        BY DEF FInv, SetsInv
      <4>3. QED
        BY <4>2
    <3>3. sets = [w \in 1..Latest |-> sets[w]]
      BY <1>1 DEF IsSequence, SeqDef
    <3>4. QED
      BY <1>1, <3>1, <3>2, <3>3
  <2>3. QED
    BY <2>1, <2>2
<1>3. IsSequence(sets') /\ Latest' = Latest
  <2>1. Latest \in Nat
    BY <1>1
  <2>2. IsSequence(sets') /\ Len(sets') = Latest
    BY <1>2, <2>1, FunctionIsSequence
  <2>3. QED
    BY <2>2 DEF Latest
<1>4. SetsInv'
  <2>1. ASSUME NEW w \in 1..Latest
        PROVE  /\ sets'[w] = [subs |-> sets'[w].subs, state |-> sets'[w].state]
               /\ sets'[w].state \in {"pending", "complete", "superseded", "error"}
    BY <1>2
  <2>2. ASSUME NEW w \in 1..Latest, sets[w].state = "complete"
        PROVE  sets'[w].state = "complete"
    BY <1>2, <2>2
  <2>3. ASSUME NEW w \in 1..Latest, sets'[w].state = "superseded"
        PROVE  \E x \in 1..Latest : x > w /\ sets'[x].state = "complete"
    <3>1. CASE sets[w].state = "superseded"
      BY <2>2, <3>1 DEF FInv, SetsInv
    <3>2. CASE sets[w].state # "superseded"
      <4>1. w # v
        BY <1>2, <2>3
      <4>2. QED
        BY <1>2, <2>3, <3>2, <4>1
    <3>3. QED
      BY <3>1, <3>2
  <2>4. \E x \in 1..Latest :
           /\ sets'[x].state = "complete"
           /\ \A w \in 1..Latest : sets'[w].state = "complete" => w <= x
    <3>1. ASSUME NEW w \in 1..Latest, sets'[w].state = "complete"
          PROVE  w = v \/ w <= Active
      BY <1>1, <1>2, <3>1
    <3>2. CASE sets'[v].state = "complete"
      BY <1>1, <3>1, <3>2
    <3>3. CASE sets'[v].state # "complete"
      BY <1>1, <2>2, <3>1, <3>3
    <3>4. QED
      BY <3>2, <3>3
  <2>5. QED
    BY <1>1, <1>3, <2>1, <2>3, <2>4 DEF SetsInv
<1>5. UpdatesInv'
  <2>1. \A w \in 1..Latest :
           /\ sets'[w].state \in {"pending", "complete", "superseded", "error"}
           /\ sets[w].state # "pending" => sets'[w].state = sets[w].state
    BY <1>2
  <2>2. updates' = TellOf(sets')
    BY DEF ServerCompletes, ServerRejects
  <2>3. Len(sets') = Latest /\ Len(updates) = Latest - 1
    BY <1>3 DEF FInv, UpdatesInv, Latest
  <2>4. /\ IsSequence(updates') /\ Len(updates') = Len(updates)
        /\ \A u \in 1..Len(updates) :
              updates'[u] \in UpdateStates /\ Told(updates'[u], sets') /\ Seen(updates'[u])
    BY <1>3, <2>1, <2>2, <2>3, TellOfFacts
  <2>5. QED
    BY <1>3, <2>3, <2>4 DEF UpdatesInv
<1>6. HandlesInv'
  BY <1>3 DEF FInv, HandlesInv, ServerCompletes, ServerRejects
<1>7. QED
  BY <1>4, <1>5, <1>6 DEF FInv

\* An update learns what became of its set.
LEMMA UpdateToldKeepsFInv ==
    ASSUME FInv, NEW u \in DOMAIN updates, NotificationAborted(u) \/ FutureIsSet(u)
    PROVE  FInv'
<1>1. IsSequence(updates) /\ Len(updates) \in Nat /\ DOMAIN updates = 1..Len(updates)
  BY SequenceFacts DEF FInv, UpdatesInv
<1>2. \A i \in 1..Len(updates) :
         updates[i] \in UpdateStates /\ Told(updates[i], sets) /\ Seen(updates[i])
  BY DEF FInv, UpdatesInv
<1>3. updates \in [1..Len(updates) -> UpdateStates]
  BY <1>1, <1>2, SequenceIsFunction
<1>4. updates' \in [1..Len(updates) -> UpdateStates]
  <2>1. CASE NotificationAborted(u)
    BY <1>1, <1>2, <1>3, <2>1 DEF NotificationAborted, UpdateStates
  <2>2. CASE FutureIsSet(u)
    <3> DEFINE sees == UpdateSees(updates[u].told)
    <3>1. sees \in FutureStates
      BY Zenon DEF UpdateSees, FutureStates
    <3>2. updates' = [updates EXCEPT ![u].seen = sees]
      BY <2>2 DEF FutureIsSet
    <3> HIDE DEF sees
    <3>3. QED
      BY <1>1, <1>2, <1>3, <3>1, <3>2 DEF UpdateStates
  <2>3. QED
    BY <2>1, <2>2
<1>5. \A i \in 1..Len(updates) : i # u => updates'[i] = updates[i]
  BY <1>1, <1>3 DEF NotificationAborted, FutureIsSet
<1>6. Told(updates'[u], sets) /\ Seen(updates'[u])
  <2>1. CASE NotificationAborted(u)
    <3>1. /\ updates'[u].told = "aborted" /\ updates'[u].seen = updates[u].seen
          /\ updates'[u].version = updates[u].version /\ updates[u].told = Null
      BY <1>1, <1>2, <1>3, <2>1 DEF NotificationAborted, UpdateStates
    <3>2. QED
      BY <1>1, <1>2, <3>1 DEF Told, Seen
  <2>2. CASE FutureIsSet(u)
    <3>1. /\ updates'[u].told = updates[u].told /\ updates[u].told # Null
          /\ updates'[u].seen = UpdateSees(updates[u].told)
          /\ updates'[u].version = updates[u].version
      BY <1>1, <1>2, <1>3, <2>2 DEF FutureIsSet, UpdateStates
    <3>2. Told(updates'[u], sets)
      BY <1>1, <1>2, <3>1 DEF Told
    <3>3. Seen(updates'[u])
      BY <3>1, Zenon DEF Seen
    <3>4. QED
      BY <3>2, <3>3
  <2>3. QED
    BY <2>1, <2>2
<1>7. sets' = sets /\ handle' = handle /\ current' = current
  BY DEF NotificationAborted, FutureIsSet
<1>8. IsSequence(updates') /\ Len(updates') = Len(updates)
  BY <1>1, <1>4, FunctionIsSequence
<1>9. \A i \in 1..Len(updates') :
         updates'[i] \in UpdateStates /\ Told(updates'[i], sets') /\ Seen(updates'[i])
  BY <1>2, <1>4, <1>5, <1>6, <1>7, <1>8
<1>10. QED
  BY <1>7, <1>8, <1>9 DEF FInv, SetsInv, UpdatesInv, HandlesInv, Latest

\* Every step of the subscriptions keeps their invariant.
LEMMA FNextKeepsFInv == FInv /\ [FNext]_fvars => FInv'
<1> SUFFICES ASSUME FInv, [FNext]_fvars PROVE FInv'
  OBVIOUS
<1>1. ASSUME NEW h \in Handles, TakeSubscriptions(h) \/ CommitFails(h)
      PROVE  FInv'
  <2>1. Latest \in 1..MaxVersions /\ Active \in 1..Latest /\ Latest' = Latest
    BY <1>1, ActiveFacts DEF FInv, SetsInv, TakeSubscriptions, CommitFails, Latest
  <2>2. SetsInv' /\ UpdatesInv'
    <3>1. sets' = sets /\ updates' = updates
      BY <1>1 DEF TakeSubscriptions, CommitFails
    <3>2. QED
      BY <3>1 DEF FInv, SetsInv, UpdatesInv, Latest
  <2>3. HandlesInv'
    <3>1. CASE TakeSubscriptions(h)
      BY <2>1, <3>1, VersionsAssumption DEF FInv, HandlesInv, TakeSubscriptions
    <3>2. CASE CommitFails(h)
      BY <2>1, <3>2, VersionsAssumption DEF FInv, HandlesInv, CommitFails
    <3>3. QED
      BY <1>1, <3>1, <3>2
  <2>4. QED
    BY <2>2, <2>3 DEF FInv
<1>2. ASSUME NEW v \in Versions, ServerCompletes(v) \/ ServerRejects(v)
      PROVE  FInv'
  <2>1. v \in 1..Latest
    BY ActiveFacts DEF FInv
  <2>2. QED
    BY <1>2, <2>1, DecisionKeepsFInv DEF ServerCompletes, ServerRejects
<1>3. CASE UNCHANGED fvars
  BY <1>3 DEF fvars, FInv, SetsInv, UpdatesInv, HandlesInv, Latest
<1>4. QED
  BY <1>1, <1>2, <1>3, UpdateKeepsFInv, UpdateToldKeepsFInv DEF FNext

(* ----- what an update leaves alone ----- *)

\* Every set of naturals that has an element has a least one.
LEMMA LeastNatural ==
    ASSUME NEW T, T \subseteq Nat, T # {}
    PROVE  \E n \in T : \A m \in T : ~(m < n)
<1> DEFINE R == OpToRel(<, Nat)
<1>1. IsWellFoundedOn(R, Nat)
  BY NatLessThanWellFounded
<1>2. \A x, y \in Nat : x < y => <<x, y>> \in R
  BY DEF OpToRel
<1> HIDE DEF R
<1>3. PICK n \in T : \A m \in T : ~(<<m, n>> \in R)
  BY <1>1, WFMin
<1>4. QED
  BY <1>2, <1>3

\* A set that has the first of 0..n, and each that follows one it has.
LEMMA Induction ==
    ASSUME NEW n \in Nat, NEW S, 0 \in S, \A i \in 1..n : i - 1 \in S => i \in S
    PROVE  0..n \subseteq S
<1> SUFFICES ASSUME ~(0..n \subseteq S) PROVE FALSE
  OBVIOUS
<1> DEFINE T == (0..n) \ S
<1>0. T \subseteq Nat /\ T # {}
  OBVIOUS
<1> HIDE DEF T
<1>a. PICK i \in T : \A m \in T : ~(m < i)
  BY <1>0, LeastNatural
<1>1. i \in (0..n) \ S /\ \A m \in (0..n) \ S : ~(m < i)
  BY <1>a DEF T
<1>2. i \in 1..n /\ i - 1 \in 0..n /\ i - 1 < i
  BY <1>1
<1>3. i - 1 \in S
  BY <1>1, <1>2
<1>4. QED
  BY <1>1, <1>2, <1>3

\* The mutable set after one edit more.
AfterEdit(s, e) == IF s.thrown THEN s ELSE Edited(s, e)

\* The function given to update() makes its edits one after the other.
LEMMA RunIs ==
    ASSUME NEW subs, NEW script, IsSequence(script)
    PROVE  \E f : /\ f[0] = [subs |-> subs, thrown |-> FALSE]
                  /\ \A i \in 1..Len(script) : f[i] = AfterEdit(f[i - 1], script[i])
                  /\ Run(subs, script) = f[Len(script)]
<1> DEFINE n == Len(script)
           first == [subs |-> subs, thrown |-> FALSE]
           IsRun(m, f) ==
               f = [i \in 0..m |-> IF i = 0 THEN first
                                   ELSE IF f[i - 1].thrown THEN f[i - 1]
                                   ELSE Edited(f[i - 1], script[i])]
           Steps(m, f) ==
               f = [i \in 0..m |-> IF i = 0 THEN first ELSE AfterEdit(f[i - 1], script[i])]
           T == {m \in 0..n : \E f : Steps(m, f)}
<1>0. n \in Nat
  BY SequenceFacts
<1> HIDE DEF first, n
<1>1. 0 \in T
  <2> DEFINE f == [i \in 0..0 |-> first]
  <2>1. Steps(0, f)
    OBVIOUS
  <2> HIDE DEF Steps, f
  <2>2. QED
    BY <1>0, <2>1
<1>2. ASSUME NEW m \in 1..n, m - 1 \in T
      PROVE  m \in T
  <2>1. PICK f : Steps(m - 1, f)
    BY <1>2
  <2> DEFINE g == [i \in 0..m |-> IF i = m THEN AfterEdit(f[m - 1], script[m]) ELSE f[i]]
             Following(i) == IF i = 0 THEN first ELSE AfterEdit(g[i - 1], script[i])
  <2>2. ASSUME NEW i \in 0..m
        PROVE  g[i] = Following(i)
    <3>1. CASE i = 0
      <4>1. 0 \in 0..m - 1 /\ m # 0
        OBVIOUS
      <4>2. g[i] = f[0] /\ f[0] = first
        BY <3>1, <2>1, <4>1
      <4>3. QED
        BY <3>1, <4>2
    <3>2. CASE i = m
      BY <3>2
    <3>3. CASE i # 0 /\ i # m
      <4>1. i \in 1..m - 1 /\ i - 1 \in 0..m - 1
        BY <3>3
      <4>2. f[i] = AfterEdit(f[i - 1], script[i])
        BY <2>1, <4>1
      <4>3. g[i] = f[i] /\ g[i - 1] = f[i - 1]
        BY <4>1, <3>3
      <4>4. QED
        BY <3>3, <4>2, <4>3
    <3>4. QED
      BY <3>1, <3>2, <3>3
  <2>3. g = [i \in 0..m |-> Following(i)]
    BY <2>2
  <2> HIDE DEF g
  <2>4. Steps(m, g)
    BY <2>3
  <2> HIDE DEF Steps
  <2>5. QED
    BY <1>0, <2>4
<1>3. n \in T
  <2> HIDE DEF T
  <2>1. 0..n \subseteq T
    BY <1>0, <1>1, <1>2, Induction
  <2>2. QED
    BY <1>0, <2>1
<1> HIDE DEF T
<1>4. PICK f0 : Steps(n, f0)
  BY <1>3 DEF T
<1>5. IsRun(n, f0)
  BY <1>4 DEF AfterEdit
<1> DEFINE P == CHOOSE f : IsRun(n, f)
<1>6. IsRun(n, P)
  BY <1>5
<1>7. Run(subs, script) = P[n]
  BY DEF Run, first, n
<1> HIDE DEF P
<1>8. Steps(n, P)
  BY <1>6 DEF AfterEdit
<1>9. P[0] = first /\ \A i \in 1..n : P[i] = AfterEdit(P[i - 1], script[i])
  BY <1>0, <1>8
<1>10. QED
  BY <1>7, <1>9 DEF first, n

\* The mutable set an edit works on.
IsMutable(s) == s = [subs |-> s.subs, thrown |-> s.thrown]

\* An edit keeps the subscriptions it does not name, unless it clears all.
LEMMA EditKeeps ==
    ASSUME NEW s, IsMutable(s), NEW e, e.edit \in {"add", "remove", "update"},
           NEW name, name # e.name
    PROVE  /\ IsMutable(Edited(s, e))
           /\ Find(Edited(s, e).subs, name) = Find(s.subs, name)
<1> DEFINE Good(t) == IsMutable(t) /\ Find(t.subs, name) = Find(s.subs, name)
<1>1. ASSUME NEW t, Good(t) PROVE Good(Add(t, e))
  <2>1. CASE e.query = "throws"
    <3>1. Add(t, e) = [subs |-> t.subs, thrown |-> TRUE]
      BY <1>1, <2>1 DEF Add, IsMutable
    <3>2. QED
      BY <1>1, <3>1 DEF IsMutable
  <2>2. CASE e.query # "throws"
    <3> DEFINE new == [n \in DOMAIN t.subs \cup {e.name} |->
                          IF n = e.name THEN e.query ELSE t.subs[n]]
    <3>1. Add(t, e) = [subs |-> new, thrown |-> t.thrown]
      BY <1>1, <2>2 DEF Add, InsertOrAssign, IsMutable
    <3>2. Find(new, name) = Find(t.subs, name)
      BY DEF Find
    <3> HIDE DEF new
    <3>3. QED
      BY <1>1, <3>1, <3>2 DEF IsMutable
  <2>3. QED
    BY <2>1, <2>2
<1>2. Good(RemoveSubscription(s, e.name))
  <2>1. CASE e.name \in DOMAIN s.subs
    <3> DEFINE new == [n \in DOMAIN s.subs \ {e.name} |-> s.subs[n]]
    <3>1. RemoveSubscription(s, e.name) = [subs |-> new, thrown |-> s.thrown]
      BY <2>1 DEF RemoveSubscription, IsMutable
    <3>2. Find(new, name) = Find(s.subs, name)
      BY DEF Find
    <3> HIDE DEF new
    <3>3. QED
      BY <3>1, <3>2 DEF IsMutable
  <2>2. CASE e.name \notin DOMAIN s.subs
    <3>1. RemoveSubscription(s, e.name) = [subs |-> s.subs, thrown |-> TRUE]
      BY <2>2 DEF RemoveSubscription, IsMutable
    <3>2. QED
      BY <3>1 DEF IsMutable
  <2>3. QED
    BY <2>1, <2>2
<1>3. Good(s)
  OBVIOUS
<1>4. Good(UpdateSubscription(s, e))
  <2> HIDE DEF Good
  <2>1. Good(Add(RemoveSubscription(s, e.name), e))
    BY <1>1, <1>2
  <2>2. QED
    BY <1>2, <2>1 DEF UpdateSubscription
<1>5. Good(Add(s, e))
  <2> HIDE DEF Good
  <2>1. QED
    BY <1>1, <1>3
<1> HIDE DEF Good
<1>6. Good(Edited(s, e))
  BY <1>2, <1>4, <1>5 DEF Edited
<1>7. QED
  BY <1>6 DEF Good

\* Clearing a set names no subscription.
Clears(script) == \E i \in DOMAIN script : script[i].edit = "clear"

\* A function that clears nothing keeps every subscription it does not name.
LEMMA RunKeeps ==
    ASSUME NEW subs, NEW script \in Scripts, ~Clears(script),
           NEW name, name \notin Mentioned(script)
    PROVE  Find(Run(subs, script).subs, name) = Find(subs, name)
<1>1. IsSequence(script) /\ Len(script) \in Nat /\ DOMAIN script = 1..Len(script)
  BY ScriptsAssumption, SequenceFacts DEF IsSequence
<1>2. PICK f : /\ f[0] = [subs |-> subs, thrown |-> FALSE]
               /\ \A i \in 1..Len(script) : f[i] = AfterEdit(f[i - 1], script[i])
               /\ Run(subs, script) = f[Len(script)]
  BY <1>1, RunIs
<1> DEFINE n == Len(script)
           T == {i \in 0..n : IsMutable(f[i]) /\ Find(f[i].subs, name) = Find(subs, name)}
<1>3. 0 \in T
  BY <1>1, <1>2 DEF IsMutable
<1>4. ASSUME NEW i \in 1..n, i - 1 \in T
      PROVE  i \in T
  <2>1. /\ IsMutable(f[i - 1]) /\ Find(f[i - 1].subs, name) = Find(subs, name)
        /\ i \in 0..n /\ i \in DOMAIN script
    BY <1>1, <1>4
  <2>2. script[i].edit \in {"add", "remove", "update"} /\ name # script[i].name
    BY <2>1, ScriptsAssumption DEF Clears, Mentioned
  <2>3. /\ IsMutable(Edited(f[i - 1], script[i]))
        /\ Find(Edited(f[i - 1], script[i]).subs, name) = Find(f[i - 1].subs, name)
    <3> DEFINE before == f[i - 1]
               e == script[i]
    <3>1. /\ IsMutable(before) /\ e.edit \in {"add", "remove", "update"}
          /\ name # e.name
      BY <2>1, <2>2
    <3> HIDE DEF before, e, T, n
    <3>2. IsMutable(Edited(before, e)) /\ Find(Edited(before, e).subs, name) = Find(before.subs, name)
      BY <3>1, EditKeeps
    <3>3. QED
      BY <3>2 DEF before, e
  <2>4. f[i] = f[i - 1] \/ f[i] = Edited(f[i - 1], script[i])
    BY <1>2 DEF AfterEdit
  <2>5. QED
    BY <2>1, <2>3, <2>4
<1>5. n \in T
  <2> HIDE DEF T
  <2>1. n \in Nat
    BY <1>1
  <2> HIDE DEF n
  <2>2. 0..n \subseteq T
    BY <1>3, <1>4, <2>1, Induction
  <2>3. QED
    BY <2>1, <2>2
<1>6. QED
  BY <1>2, <1>5

\* Whoever has the newest set shows it, and every update so far has kept what
\* it must.
CurrentShowNewest == \A h \in current : handle[h] = Latest
Kept(update, committed) ==
    LET v == update.version
    IN  /\ v \in 2..Len(committed)
        /\ update.fresh /\ ~Clears(update.script) =>
              \A name : name \notin Mentioned(update.script) =>
                 Find(committed[v].subs, name) = Find(committed[v - 1].subs, name)
NothingLost ==
    /\ CurrentShowNewest
    /\ \A u \in 1..Len(updates) : Kept(updates[u], sets)

\* When neither the contents of the sets nor what the updates were change,
\* nothing is lost.
LEMMA NothingMoves ==
    ASSUME FInv, FInv', NothingLost, CurrentShowNewest', Latest' = Latest,
           \A v \in 1..Latest : sets'[v].subs = sets[v].subs,
           Len(updates') = Len(updates),
           \A u \in 1..Len(updates) :
              /\ updates'[u].version = updates[u].version
              /\ updates'[u].fresh = updates[u].fresh
              /\ updates'[u].script = updates[u].script
    PROVE  NothingLost'
<1>1. Latest \in Nat /\ Latest = Len(sets) /\ Latest' = Len(sets')
  BY VersionsAssumption DEF FInv, SetsInv, Latest
<1>2. ASSUME NEW u \in 1..Len(updates)
      PROVE  Kept(updates'[u], sets')
  <2> DEFINE v == updates[u].version
  <2>1. Kept(updates[u], sets) /\ v \in 2..Latest
    BY <1>1 DEF NothingLost, Kept
  <2>2. v \in 1..Latest /\ v - 1 \in 1..Latest
    BY <1>1, <2>1
  <2>3. sets'[v].subs = sets[v].subs /\ sets'[v - 1].subs = sets[v - 1].subs
    BY <2>2
  <2>4. QED
    BY <1>1, <2>1, <2>3 DEF Kept
<1>3. QED
  BY <1>2 DEF NothingLost

\* The decision of the server does not change the contents of a set.
LEMMA DecisionMovesNothing ==
    ASSUME FInv, NEW v \in 1..Latest, ServerCompletes(v) \/ ServerRejects(v)
    PROVE  /\ \A w \in 1..Latest : sets'[w].subs = sets[w].subs
           /\ Len(sets') = Latest
           /\ Len(updates') = Len(updates)
           /\ \A u \in 1..Len(updates) :
                 /\ updates'[u].version = updates[u].version
                 /\ updates'[u].fresh = updates[u].fresh
                 /\ updates'[u].script = updates[u].script
<1>1. /\ IsSequence(updates) /\ Len(updates) \in Nat /\ DOMAIN updates = 1..Len(updates)
      /\ IsSequence(sets) /\ Latest \in Nat /\ DOMAIN sets = 1..Latest /\ Latest = Len(sets)
      /\ Versions = 1..Latest
  BY SequenceFacts, ActiveFacts DEF FInv, UpdatesInv, SetsInv, Latest
<1>2. \A w \in 1..Latest : sets[w] = [subs |-> sets[w].subs, state |-> sets[w].state]
  BY DEF FInv, SetsInv
<1>3. sets' = [w \in 1..Latest |-> sets'[w]] /\ \A w \in 1..Latest : sets'[w].subs = sets[w].subs
  <2>1. CASE ServerCompletes(v)
    <3> DEFINE After(w) == IF w = v THEN [sets[w] EXCEPT !.state = "complete"]
                           ELSE IF w < v /\ sets[w].state = "pending"
                                THEN [sets[w] EXCEPT !.state = "superseded"]
                                ELSE sets[w]
    <3>1. sets' = [w \in 1..Latest |-> After(w)]
      BY <1>1, <2>1 DEF ServerCompletes
    <3>2. \A w \in 1..Latest : After(w).subs = sets[w].subs
      BY <1>2
    <3> HIDE DEF After
    <3>3. \A w \in 1..Latest : sets'[w] = After(w)
      BY <3>1
    <3>4. sets' = [w \in 1..Latest |-> sets'[w]]
      BY <3>1
    <3>5. QED
      BY <3>2, <3>3, <3>4
  <2>2. CASE ServerRejects(v)
    <3> DEFINE After(w) == IF w = v THEN [sets[w] EXCEPT !.state = "error"] ELSE sets[w]
    <3>1. sets' = [w \in 1..Latest |-> After(w)]
      BY <1>1, <2>2 DEF ServerRejects
    <3>2. \A w \in 1..Latest : After(w).subs = sets[w].subs
      BY <1>2
    <3> HIDE DEF After
    <3>3. \A w \in 1..Latest : sets'[w] = After(w)
      BY <3>1
    <3>4. sets' = [w \in 1..Latest |-> sets'[w]]
      BY <3>1
    <3>5. QED
      BY <3>2, <3>3, <3>4
  <2>3. QED
    BY <2>1, <2>2
<1>4. Len(sets') = Latest
  <2> DEFINE T == {sets'[w] : w \in 1..Latest}
  <2>1. sets' \in [1..Latest -> T]
    BY <1>3
  <2>2. QED
    BY <1>1, <2>1, FunctionIsSequence
<1>5. \A u \in 1..Len(updates) : updates[u] \in UpdateStates
  BY DEF FInv, UpdatesInv
<1> DEFINE told == TellOf(sets')
<1>6. ASSUME NEW u \in 1..Len(updates)
      PROVE  /\ told[u].version = updates[u].version /\ told[u].fresh = updates[u].fresh
             /\ told[u].script = updates[u].script
  <2> DEFINE state == sets'[updates[u].version].state
  <2>1. \/ told[u] = [updates[u] EXCEPT !.told = state]
        \/ told[u] = updates[u]
    BY <1>1 DEF TellOf
  <2> HIDE DEF told, state
  <2>2. QED
    BY <1>5, <2>1 DEF UpdateStates
<1>7. Len(told) = Len(updates)
  <2> DEFINE T == {told[u] : u \in 1..Len(updates)}
  <2>1. told \in [1..Len(updates) -> T]
    BY <1>1 DEF TellOf
  <2> HIDE DEF told
  <2>2. QED
    BY <1>1, <2>1, FunctionIsSequence
<1>8. updates' = told
  BY DEF ServerCompletes, ServerRejects
<1> HIDE DEF told
<1>9. QED
  BY <1>3, <1>4, <1>6, <1>7, <1>8

\* The update of a handle that has the newest set keeps all it does not name.
LEMMA UpdateLosesNothing ==
    ASSUME FInv, FInv', NothingLost, NEW h \in Handles, NEW script \in Scripts, Update(h, script)
    PROVE  NothingLost'
<1> DEFINE subs == Run(Shown(h), script).subs
           new == [subs |-> subs, state |-> "pending"]
           update == [version |-> Latest + 1, fresh |-> h \in current, script |-> script,
                      told |-> Null, seen |-> Null]
<1>1. /\ sets' = Append(sets, new) /\ updates' = Append(updates, update)
      /\ handle' = [handle EXCEPT ![h] = Latest + 1] /\ current' = {h}
  BY DEF Update, ShownAfterCommit
<1>2. /\ IsSequence(sets) /\ IsSequence(updates) /\ Latest = Len(sets)
      /\ Latest \in Nat \ {0} /\ Len(updates) = Latest - 1
  BY VersionsAssumption DEF FInv, SetsInv, UpdatesInv, Latest
<1>3. /\ Latest' = Latest + 1 /\ Len(sets') = Latest + 1
      /\ \A v \in 1..Latest : sets'[v] = sets[v]
      /\ sets'[Latest + 1].subs = subs
  BY <1>1, <1>2, AppendIsSequence DEF Latest
<1>4. /\ Len(updates') = Latest
      /\ \A u \in 1..Len(updates) : updates'[u] = updates[u]
      /\ updates'[Latest] = update
  BY <1>1, <1>2, AppendIsSequence
<1>5. CurrentShowNewest'
  BY <1>1, <1>3 DEF CurrentShowNewest, FInv, HandlesInv
<1>6. ASSUME NEW u \in 1..Len(updates)
      PROVE  Kept(updates'[u], sets')
  <2> DEFINE v == updates[u].version
  <2>1. Kept(updates[u], sets) /\ v \in 2..Latest
    BY <1>2 DEF NothingLost, Kept
  <2>2. /\ v \in 2..Latest + 1
        /\ sets'[v] = sets[v] /\ sets'[v - 1] = sets[v - 1]
    BY <1>2, <1>3, <2>1
  <2>3. QED
    BY <1>2, <1>3, <1>4, <2>1, <2>2 DEF Kept
<1>7. Kept(update, sets')
  <2>1. /\ update.version = Latest + 1 /\ update.script = script
        /\ update.fresh = (h \in current)
    OBVIOUS
  <2>2. ASSUME h \in current, ~Clears(script), NEW name, name \notin Mentioned(script)
        PROVE  Find(subs, name) = Find(sets[Latest].subs, name)
    <3>1. Shown(h) = sets[Latest].subs
      BY <2>2 DEF Shown, NothingLost, CurrentShowNewest
    <3>2. QED
      BY <2>2, <3>1, RunKeeps
  <2> HIDE DEF update, subs
  <2>3. /\ Latest + 1 \in 2..Len(sets') /\ (Latest + 1) - 1 = Latest
        /\ sets'[Latest] = sets[Latest]
    BY <1>2, <1>3
  <2>4. QED
    BY <1>3, <2>1, <2>2, <2>3 DEF Kept
<1>8. \A u \in 1..Len(updates') : u \in 1..Len(updates) \/ u = Latest
  BY <1>2, <1>4
<1> HIDE DEF update
<1>9. QED
  BY <1>4, <1>5, <1>6, <1>7, <1>8 DEF NothingLost

\* No step of the subscriptions loses anything.
LEMMA FNextLosesNothing == FInv /\ FInv' /\ NothingLost /\ [FNext]_fvars => NothingLost'
<1> SUFFICES ASSUME FInv, FInv', NothingLost, [FNext]_fvars PROVE NothingLost'
  OBVIOUS
<1>1. ASSUME NEW h \in Handles, TakeSubscriptions(h) \/ CommitFails(h)
      PROVE  NothingLost'
  <2>1. UNCHANGED <<sets, updates>> /\ Latest' = Latest
    BY <1>1 DEF TakeSubscriptions, CommitFails, Latest
  <2>2. CurrentShowNewest'
    <3>1. CASE TakeSubscriptions(h)
      <4>1. sets[Latest].state = "complete" => Active = Latest
        BY ActiveFacts, VersionsAssumption DEF FInv, SetsInv
      <4>2. QED
        BY <2>1, <3>1, <4>1 DEF TakeSubscriptions, NothingLost, CurrentShowNewest, FInv, HandlesInv
    <3>2. CASE CommitFails(h)
      BY <2>1, <3>2 DEF CommitFails, NothingLost, CurrentShowNewest, FInv, HandlesInv
    <3>3. QED
      BY <1>1, <3>1, <3>2
  <2>3. QED
    BY <2>1, <2>2, NothingMoves
<1>2. ASSUME NEW v \in Versions, ServerCompletes(v) \/ ServerRejects(v)
      PROVE  NothingLost'
  <2>1. v \in 1..Latest
    BY ActiveFacts DEF FInv
  <2>2. Latest' = Latest
    BY <1>2, <2>1, DecisionMovesNothing DEF Latest
  <2>3. CurrentShowNewest'
    BY <1>2, <2>2 DEF ServerCompletes, ServerRejects, NothingLost, CurrentShowNewest
  <2>4. QED
    BY <1>2, <2>1, <2>2, <2>3, DecisionMovesNothing, NothingMoves
<1>3. ASSUME NEW u \in DOMAIN updates, NotificationAborted(u) \/ FutureIsSet(u)
      PROVE  NothingLost'
  <2>1. UNCHANGED <<sets, handle, current>> /\ Latest' = Latest
    BY <1>3 DEF NotificationAborted, FutureIsSet, Latest
  <2>2. CurrentShowNewest'
    BY <2>1 DEF NothingLost, CurrentShowNewest
  <2>3. /\ DOMAIN updates = 1..Len(updates)
        /\ \A i \in 1..Len(updates) : updates[i] \in UpdateStates
        /\ Len(updates') = Latest' - 1 /\ Len(updates) = Latest - 1
    BY SequenceFacts DEF FInv, UpdatesInv
  <2>4. /\ Len(updates') = Len(updates)
        /\ \A i \in 1..Len(updates) :
              /\ updates'[i].version = updates[i].version
              /\ updates'[i].fresh = updates[i].fresh
              /\ updates'[i].script = updates[i].script
    <3>1. CASE NotificationAborted(u)
      BY <2>1, <2>3, <3>1 DEF NotificationAborted, UpdateStates
    <3>2. CASE FutureIsSet(u)
      <4> DEFINE sees == UpdateSees(updates[u].told)
      <4>1. updates' = [updates EXCEPT ![u].seen = sees]
        BY <3>2 DEF FutureIsSet
      <4> HIDE DEF sees
      <4>2. QED
        BY <2>1, <2>3, <4>1 DEF UpdateStates
    <3>3. QED
      BY <1>3, <3>1, <3>2
  <2>5. QED
    BY <2>1, <2>2, <2>4, NothingMoves
<1>4. CASE UNCHANGED fvars
  BY <1>4, NothingMoves DEF fvars, NothingLost, CurrentShowNewest, Latest
<1>5. QED
  BY <1>1, <1>2, <1>3, <1>4, UpdateLosesNothing DEF FNext

(* ----- sockets ----- *)

KNext ==
    \/ \E e \in CoreEndpoints : Connect(e)
    \/ \E url \in OtherEndpoints : ConnectElsewhere(url)
    \/ Post \/ CreateTimer \/ RunNext
    \/ \E s \in DOMAIN sockets : AsyncWriteBinary(s) \/ Connected(s) \/ MessageReceived(s)
                                 \/ SocketError(s) \/ Closed(s)
    \/ \E h \in DOMAIN handlers : CancelTimer(h) \/ TimerExpires(h)
                                  \/ WriteCompletes(h) \/ WriteAborted(h)

\* What a connection is made to follows from what was asked and the provider.
Made(socket, config) ==
    \/ socket.asked \in CoreEndpoints /\ socket.made = EndpointOf(UrlOf(socket.asked), config)
    \/ socket.asked = None /\ \E url \in OtherEndpoints : socket.made = EndpointOf(url, config)
SocketsInv ==
    /\ IsSequence(sockets) /\ Len(sockets) <= MaxSockets /\ provider \in ProviderConfigs
    /\ \A s \in 1..Len(sockets) :
          /\ sockets[s] = [asked |-> sockets[s].asked, made |-> sockets[s].made,
                           state |-> sockets[s].state, told |-> sockets[s].told]
          /\ sockets[s].state \in {"connecting", "open", "failed", "closed"}
          /\ Made(sockets[s], provider)

HandlerStates ==
    [kind : {"post", "timer", "write"}, socket : Nat, phase : {"raw", "queued", "freed"},
     status : {None, "ok", "aborted"}, seen : {None, "ok", "aborted"}, runs : {0, 1}]
\* A queue holds each handler that is to run once, and a handler that has run
\* has had the status it was given.
Fit(hs, queue) ==
    /\ IsSequence(hs) /\ queue \in Seq(Nat)
    /\ \A i, j \in 1..Len(queue) : queue[i] = queue[j] => i = j
    /\ \A h \in 1..Len(hs) :
          /\ hs[h] \in HandlerStates
          /\ hs[h].runs = IF hs[h].phase = "freed" THEN 1 ELSE 0
          /\ hs[h].phase = "freed" => hs[h].seen = hs[h].status
          /\ hs[h].phase = "queued" => \E i \in 1..Len(queue) : queue[i] = h
    /\ \A i \in 1..Len(queue) : queue[i] \in 1..Len(hs) /\ hs[queue[i]].phase = "queued"
HandlersInv == Fit(handlers, loop) /\ Len(handlers) <= MaxHandlers

KInv == SocketsInv /\ HandlersInv

\* Appending a socket, or changing what happens on one
LEMMA ConnectKeepsSockets ==
    ASSUME SocketsInv, NEW asked, NEW url, Len(sockets) < MaxSockets, provider' = provider,
           sockets' = Append(sockets, Socket(asked, url)),
           \/ asked \in CoreEndpoints /\ url = UrlOf(asked)
           \/ asked = None /\ url \in OtherEndpoints
    PROVE  SocketsInv'
<1> DEFINE new == Socket(asked, url)
<1>1. /\ IsSequence(sockets') /\ Len(sockets') = Len(sockets) + 1 /\ Len(sockets) \in Nat
      /\ \A s \in 1..Len(sockets) : sockets'[s] = sockets[s]
      /\ sockets'[Len(sockets) + 1] = new
  BY SequenceFacts, AppendIsSequence DEF SocketsInv
<1>2. /\ new = [asked |-> new.asked, made |-> new.made, state |-> new.state, told |-> new.told]
      /\ new.state = "connecting" /\ new.asked = asked /\ new.made = EndpointOf(url, provider)
  BY DEF Socket
<1> HIDE DEF new
<1>3. Made(new, provider)
  BY <1>2 DEF Made
<1>4. MaxSockets \in Nat
  BY EndpointsAssumption
<1>5. ASSUME NEW s \in 1..Len(sockets')
      PROVE  /\ sockets'[s] = [asked |-> sockets'[s].asked, made |-> sockets'[s].made,
                                state |-> sockets'[s].state, told |-> sockets'[s].told]
             /\ sockets'[s].state \in {"connecting", "open", "failed", "closed"}
             /\ Made(sockets'[s], provider)
  <2>1. CASE s \in 1..Len(sockets)
    <3>1. sockets'[s] = sockets[s]
      BY <1>1, <2>1
    <3>2. QED
      BY <2>1, <3>1 DEF SocketsInv
  <2>2. CASE s = Len(sockets) + 1
    BY <1>1, <1>2, <1>3, <2>2
  <2>3. QED
    BY <1>1, <2>1, <2>2
<1>6. QED
  BY <1>1, <1>4, <1>5 DEF SocketsInv

\* An observer is told of its socket.
LEMMA ToldKeepsSockets ==
    ASSUME SocketsInv, NEW s \in DOMAIN sockets, NEW event,
           NEW state \in {"open", "failed", "closed"}, provider' = provider,
           ObserverTold(s, event, state)
    PROVE  SocketsInv'
<1> DEFINE n == Len(sockets)
           T == [asked : {sockets[i].asked : i \in 1..n}, made : {sockets[i].made : i \in 1..n},
                 state : {"connecting", "open", "failed", "closed"},
                 told : {sockets[i].told : i \in 1..n} \cup {Append(sockets[s].told, event)}]
<1>1. n \in Nat /\ s \in 1..n /\ DOMAIN sockets = 1..n
  BY SequenceFacts DEF SocketsInv
<1>2. \A i \in 1..n : sockets[i] \in T
  <2>1. SUFFICES ASSUME NEW i \in 1..n PROVE sockets[i] \in T
    OBVIOUS
  <2>2. /\ sockets[i] = [asked |-> sockets[i].asked, made |-> sockets[i].made,
                         state |-> sockets[i].state, told |-> sockets[i].told]
        /\ sockets[i].state \in {"connecting", "open", "failed", "closed"}
    BY DEF SocketsInv
  <2>3. QED
    BY <2>2
<1>3. sockets \in [1..n -> T]
  BY <1>1, <1>2, SequenceIsFunction DEF SocketsInv
<1> DEFINE told == Append(sockets[s].told, event)
           new == [sockets[s] EXCEPT !.state = state, !.told = told]
<1>4. sockets' = [sockets EXCEPT ![s] = new]
  BY <1>1, <1>3 DEF ObserverTold
<1>5. told \in {sockets[i].told : i \in 1..n} \cup {Append(sockets[s].told, event)}
  OBVIOUS
<1> HIDE DEF told
<1>6. /\ new \in T /\ new.state = state /\ new.asked = sockets[s].asked
      /\ new.made = sockets[s].made
  BY <1>1, <1>2, <1>5
<1> HIDE DEF new
<1>7. /\ sockets' \in [1..n -> T]
      /\ \A i \in 1..n : /\ sockets'[i].asked = sockets[i].asked
                         /\ sockets'[i].made = sockets[i].made
  BY <1>1, <1>3, <1>4, <1>6
<1>8. IsSequence(sockets') /\ Len(sockets') = n
  BY <1>1, <1>7, FunctionIsSequence
<1>9. ASSUME NEW i \in 1..n
      PROVE  /\ sockets'[i] = [asked |-> sockets'[i].asked, made |-> sockets'[i].made,
                               state |-> sockets'[i].state, told |-> sockets'[i].told]
             /\ sockets'[i].state \in {"connecting", "open", "failed", "closed"}
             /\ Made(sockets'[i], provider)
  <2>1. Made(sockets[i], provider)
    BY DEF SocketsInv
  <2>2. Made(sockets'[i], provider)
    BY <1>7, <2>1 DEF Made
  <2>3. sockets'[i] \in T
    BY <1>7
  <2>4. QED
    BY <2>2, <2>3
<1>10. QED
  BY <1>8, <1>9 DEF SocketsInv

\* A handler that has just been made
LEMMA MadeHandlerFits ==
    ASSUME NEW hs, NEW queue, Fit(hs, queue), NEW kind \in {"post", "timer", "write"}, NEW s \in Nat
    PROVE  LET new == Append(hs, Handler(kind, s))
           IN  /\ Fit(new, queue) /\ Len(new) = Len(hs) + 1 /\ Len(hs) \in Nat
               /\ new[Len(hs) + 1].phase = "raw"
<1> DEFINE one == Handler(kind, s)
           new == Append(hs, one)
<1>1. one \in HandlerStates /\ one.phase = "raw" /\ one.runs = 0
  BY DEF Handler, HandlerStates
<1> HIDE DEF one
<1>2. /\ IsSequence(new) /\ Len(new) = Len(hs) + 1 /\ Len(hs) \in Nat
      /\ \A h \in 1..Len(hs) : new[h] = hs[h]
      /\ new[Len(hs) + 1] = one
  BY SequenceFacts, AppendIsSequence DEF Fit
<1> HIDE DEF new
<1>3. \A h \in 1..Len(new) :
          /\ new[h] \in HandlerStates
          /\ new[h].runs = IF new[h].phase = "freed" THEN 1 ELSE 0
          /\ new[h].phase = "freed" => new[h].seen = new[h].status
          /\ new[h].phase = "queued" => \E i \in 1..Len(queue) : queue[i] = h
  <2>1. SUFFICES ASSUME NEW h \in 1..Len(new)
                 PROVE  /\ new[h] \in HandlerStates
                        /\ new[h].runs = IF new[h].phase = "freed" THEN 1 ELSE 0
                        /\ new[h].phase = "freed" => new[h].seen = new[h].status
                        /\ new[h].phase = "queued" => \E i \in 1..Len(queue) : queue[i] = h
    OBVIOUS
  <2>2. CASE h \in 1..Len(hs)
    BY <1>2, <2>2 DEF Fit
  <2>3. CASE h = Len(hs) + 1
    BY <1>1, <1>2, <2>3
  <2>4. QED
    BY <1>2, <2>2, <2>3
<1>4. \A i \in 1..Len(queue) : queue[i] \in 1..Len(new) /\ new[queue[i]].phase = "queued"
  BY <1>2 DEF Fit
<1>5. Fit(new, queue)
  BY <1>2, <1>3, <1>4 DEF Fit
<1>6. QED
  BY <1>1, <1>2, <1>5 DEF new, one

\* A handler that is given to the event loop
LEMMA QueuedHandlerFits ==
    ASSUME NEW hs, NEW queue, Fit(hs, queue), NEW h \in 1..Len(hs), hs[h].phase = "raw",
           NEW status \in {"ok", "aborted"}
    PROVE  Fit(Queued(hs, h, status), Append(queue, h)) /\ Len(Queued(hs, h, status)) = Len(hs)
<1> DEFINE one == [hs[h] EXCEPT !.phase = "queued", !.status = status]
           new == Queued(hs, h, status)
           after == Append(queue, h)
<1>1. /\ Len(hs) \in Nat /\ DOMAIN hs = 1..Len(hs)
      /\ hs \in [1..Len(hs) -> HandlerStates]
  <2>1. Len(hs) \in Nat /\ DOMAIN hs = 1..Len(hs)
    BY SequenceFacts DEF Fit
  <2>2. QED
    BY <2>1, SequenceIsFunction DEF Fit
<1>a. hs[h] \in HandlerStates /\ hs[h].runs = 0
  BY DEF Fit
<1>2. one \in HandlerStates /\ one.phase = "queued" /\ one.runs = 0
  BY <1>a DEF HandlerStates
<1>3. new = [hs EXCEPT ![h] = one]
  BY DEF Queued
<1> HIDE DEF one, new
<1>4. /\ new \in [1..Len(hs) -> HandlerStates] /\ new[h] = one
      /\ \A g \in 1..Len(hs) : g # h => new[g] = hs[g]
  BY <1>1, <1>2, <1>3
<1>5. IsSequence(new) /\ Len(new) = Len(hs)
  BY <1>1, <1>4, FunctionIsSequence
<1>6. /\ queue \in Seq(Nat) /\ after \in Seq(Nat)
      /\ Len(queue) \in Nat /\ Len(after) = Len(queue) + 1
      /\ \A i \in 1..Len(queue) : after[i] = queue[i]
      /\ after[Len(queue) + 1] = h
  BY <1>1, AppendProperties, LenProperties DEF Fit
<1> HIDE DEF after
<1>7. \A i \in 1..Len(queue) : queue[i] \in 1..Len(hs) /\ queue[i] # h /\ hs[queue[i]].phase = "queued"
  BY DEF Fit
<1>b. \A i \in 1..Len(after) :
          \/ i \in 1..Len(queue) /\ after[i] = queue[i]
          \/ i = Len(queue) + 1 /\ after[i] = h
  BY <1>6
<1>8. \A i, j \in 1..Len(after) : after[i] = after[j] => i = j
  BY <1>b, <1>7 DEF Fit
<1>9. \A i \in 1..Len(after) : after[i] \in 1..Len(new) /\ new[after[i]].phase = "queued"
  BY <1>b, <1>2, <1>4, <1>5, <1>7
<1>10. \A g \in 1..Len(new) :
          /\ new[g].runs = IF new[g].phase = "freed" THEN 1 ELSE 0
          /\ new[g].phase = "freed" => new[g].seen = new[g].status
          /\ new[g].phase = "queued" => \E i \in 1..Len(after) : after[i] = g
  <2>1. SUFFICES ASSUME NEW g \in 1..Len(hs)
                 PROVE  /\ new[g].runs = IF new[g].phase = "freed" THEN 1 ELSE 0
                        /\ new[g].phase = "freed" => new[g].seen = new[g].status
                        /\ new[g].phase = "queued" => \E i \in 1..Len(after) : after[i] = g
    BY <1>5
  <2>2. CASE g = h
    <3>1. Len(queue) + 1 \in 1..Len(after)
      BY <1>6
    <3>2. QED
      BY <1>2, <1>4, <1>6, <2>2, <3>1
  <2>3. CASE g # h
    <3>1. new[g] = hs[g]
      BY <1>4, <2>3
    <3>2. ASSUME hs[g].phase = "queued"
          PROVE  \E i \in 1..Len(after) : after[i] = g
      <4>1. PICK i \in 1..Len(queue) : queue[i] = g
        BY <3>2 DEF Fit
      <4>2. i \in 1..Len(after) /\ after[i] = g
        BY <1>6, <4>1
      <4>3. QED
        BY <4>2
    <3>3. QED
      BY <3>1, <3>2 DEF Fit
  <2>4. QED
    BY <2>2, <2>3
<1>11. Fit(new, after)
  BY <1>4, <1>5, <1>6, <1>8, <1>9, <1>10 DEF Fit
<1>12. QED
  BY <1>5, <1>11 DEF new, after

\* The handler that the event loop runs
LEMMA RunHandlerFits ==
    ASSUME NEW hs, NEW queue, Fit(hs, queue), queue # <<>>
    PROVE  LET new == [hs EXCEPT ![Head(queue)] = Ran(@)]
           IN  Fit(new, Tail(queue)) /\ Len(new) = Len(hs)
<1> DEFINE h == Head(queue)
           one == Ran(hs[h])
           new == [hs EXCEPT ![h] = one]
           after == Tail(queue)
<1>1. /\ Len(hs) \in Nat /\ DOMAIN hs = 1..Len(hs)
      /\ hs \in [1..Len(hs) -> HandlerStates]
  <2>1. Len(hs) \in Nat /\ DOMAIN hs = 1..Len(hs)
    BY SequenceFacts DEF Fit
  <2>2. QED
    BY <2>1, SequenceIsFunction DEF Fit
<1>2. /\ queue \in Seq(Nat) /\ after \in Seq(Nat) /\ Len(queue) \in Nat /\ Len(queue) > 0
      /\ Len(after) = Len(queue) - 1 /\ h = queue[1]
      /\ \A i \in 1..Len(after) : after[i] = queue[i + 1]
  BY HeadTailProperties, LenProperties, EmptySeq DEF Fit
<1>3. /\ h \in 1..Len(hs) /\ hs[h].phase = "queued" /\ hs[h].runs = 0
      /\ \A i \in 1..Len(after) : after[i] \in 1..Len(hs) /\ after[i] # h
                                  /\ hs[after[i]].phase = "queued"
      /\ \A i, j \in 1..Len(after) : after[i] = after[j] => i = j
  BY <1>2 DEF Fit
<1> HIDE DEF h, after
<1>4. one = [hs[h] EXCEPT !.phase = "freed", !.runs = 1, !.seen = hs[h].status]
  BY <1>1, <1>3, 0 + 1 = 1 DEF Ran, StatusSeen, HandlerStates
<1> HIDE DEF one
<1>5. /\ one \in HandlerStates /\ one.phase = "freed" /\ one.runs = 1
      /\ one.seen = one.status
  <2>1. hs[h] \in HandlerStates
    BY <1>1, <1>3
  <2>2. QED
    BY <1>4, <2>1 DEF HandlerStates
<1>6. /\ new \in [1..Len(hs) -> HandlerStates] /\ new[h] = one
      /\ \A g \in 1..Len(hs) : g # h => new[g] = hs[g]
  BY <1>1, <1>3, <1>5
<1> HIDE DEF new
<1>7. IsSequence(new) /\ Len(new) = Len(hs)
  BY <1>1, <1>6, FunctionIsSequence
<1>8. ASSUME NEW g \in 1..Len(hs)
      PROVE  /\ new[g].runs = IF new[g].phase = "freed" THEN 1 ELSE 0
             /\ new[g].phase = "freed" => new[g].seen = new[g].status
             /\ new[g].phase = "queued" => \E i \in 1..Len(after) : after[i] = g
  <2>1. CASE g = h
    BY <1>5, <1>6, <2>1
  <2>2. CASE g # h
    <3>1. new[g] = hs[g]
      BY <1>6, <2>2
    <3>2. ASSUME hs[g].phase = "queued"
          PROVE  \E i \in 1..Len(after) : after[i] = g
      <4>1. PICK k \in 1..Len(queue) : queue[k] = g
        BY <3>2 DEF Fit
      <4>2. k # 1 /\ k - 1 \in 1..Len(after) /\ after[k - 1] = g
        BY <1>2, <2>2, <4>1
      <4>3. QED
        BY <4>2
    <3>3. QED
      BY <3>1, <3>2 DEF Fit
  <2>3. QED
    BY <2>1, <2>2
<1>9. \A i \in 1..Len(after) : after[i] \in 1..Len(new) /\ new[after[i]].phase = "queued"
  BY <1>3, <1>6, <1>7
<1>10. Fit(new, after)
  BY <1>2, <1>3, <1>6, <1>7, <1>8, <1>9 DEF Fit
<1>11. QED
  BY <1>7, <1>10 DEF new, after, one, h

\* Every step of the sockets keeps their invariant.
LEMMA KNextKeepsKInv == KInv /\ [KNext]_kvars => KInv'
<1> SUFFICES ASSUME KInv, [KNext]_kvars PROVE KInv'
  OBVIOUS
<1>0. /\ DOMAIN sockets = 1..Len(sockets) /\ DOMAIN handlers = 1..Len(handlers)
      /\ MaxHandlers \in Nat /\ MaxSockets \in Nat /\ Len(handlers) \in Nat
  BY SequenceFacts, EndpointsAssumption DEF KInv, SocketsInv, HandlersInv, Fit
<1>a. ASSUME UNCHANGED <<provider, sockets>> PROVE SocketsInv'
  BY <1>a DEF KInv, SocketsInv
<1>b. ASSUME UNCHANGED <<handlers, loop>> PROVE HandlersInv'
  BY <1>b DEF KInv, HandlersInv
<1>1. ASSUME NEW e \in CoreEndpoints, Connect(e)
      PROVE  KInv'
  <2>1. SocketsInv'
    BY <1>1, ConnectKeepsSockets DEF KInv, Connect
  <2>2. QED
    BY <1>1, <1>b, <2>1 DEF KInv, Connect
<1>2. ASSUME NEW url \in OtherEndpoints, ConnectElsewhere(url)
      PROVE  KInv'
  <2>1. SocketsInv'
    BY <1>2, <1>a, ConnectKeepsSockets DEF KInv, ConnectElsewhere
  <2>2. QED
    BY <1>2, <1>b, <2>1 DEF KInv, ConnectElsewhere
<1>3. CASE Post
  <2> DEFINE n == Len(handlers) + 1
             new == Append(handlers, Handler("post", 0))
  <2>1. Fit(new, loop) /\ Len(new) = n /\ new[n].phase = "raw"
    BY MadeHandlerFits DEF KInv, HandlersInv
  <2>2. n \in 1..Len(new)
    BY <1>0, <2>1
  <2>3. handlers' = Queued(new, n, "ok") /\ loop' = Append(loop, n) /\ Len(handlers) < MaxHandlers
    BY <1>3 DEF Post
  <2> HIDE DEF new
  <2>4. Fit(handlers', loop') /\ Len(handlers') = n
    BY <2>1, <2>2, <2>3, QueuedHandlerFits
  <2>5. QED
    BY <1>0, <1>3, <1>a, <2>3, <2>4 DEF KInv, HandlersInv, Post
<1>4. ASSUME NEW kind \in {"timer", "write"}, NEW s \in Nat, Len(handlers) < MaxHandlers,
             handlers' = Append(handlers, Handler(kind, s)), UNCHANGED <<provider, sockets, loop>>
      PROVE  KInv'
  <2>1. Fit(handlers', loop) /\ Len(handlers') = Len(handlers) + 1
    BY <1>4, MadeHandlerFits DEF KInv, HandlersInv
  <2>2. QED
    BY <1>0, <1>4, <1>a, <2>1 DEF KInv, HandlersInv
<1>5. ASSUME NEW h \in DOMAIN handlers, NEW status \in {"ok", "aborted"}, Finish(h, status)
      PROVE  KInv'
  <2>1. Fit(handlers', loop') /\ Len(handlers') = Len(handlers)
    BY <1>0, <1>5, QueuedHandlerFits DEF KInv, HandlersInv, Finish
  <2>2. QED
    BY <1>5, <1>a, <2>1 DEF KInv, HandlersInv, Finish
<1>6. CASE RunNext
  <2>1. Fit(handlers', loop') /\ Len(handlers') = Len(handlers)
    BY <1>6, RunHandlerFits DEF KInv, HandlersInv, RunNext
  <2>2. QED
    BY <1>6, <1>a, <2>1 DEF KInv, HandlersInv, RunNext
<1>7. ASSUME NEW s \in DOMAIN sockets, NEW event, NEW state \in {"open", "failed", "closed"},
             ObserverTold(s, event, state), UNCHANGED <<provider, handlers, loop>>
      PROVE  KInv'
  BY <1>7, <1>b, ToldKeepsSockets DEF KInv
<1>8. CASE UNCHANGED kvars
  BY <1>8, <1>a, <1>b DEF KInv, kvars
<1>9. ASSUME NEW s \in DOMAIN sockets,
             AsyncWriteBinary(s) \/ Connected(s) \/ MessageReceived(s) \/ SocketError(s) \/ Closed(s)
      PROVE  KInv'
  <2>1. s \in Nat
    BY <1>0
  <2>2. CASE AsyncWriteBinary(s)
    BY <1>4, <2>1, <2>2 DEF AsyncWriteBinary
  <2>3. CASE Connected(s)
    BY <1>7, <2>3 DEF Connected
  <2>4. CASE MessageReceived(s)
    BY <1>7, <2>4 DEF MessageReceived
  <2>5. CASE SocketError(s)
    BY <1>7, <2>5 DEF SocketError
  <2>6. CASE Closed(s)
    BY <1>7, <2>6 DEF Closed
  <2>7. QED
    BY <1>9, <2>2, <2>3, <2>4, <2>5, <2>6
<1>10. CASE CreateTimer
  BY <1>4, <1>10 DEF CreateTimer
<1>11. ASSUME NEW h \in DOMAIN handlers,
              CancelTimer(h) \/ TimerExpires(h) \/ WriteCompletes(h) \/ WriteAborted(h)
       PROVE  KInv'
  BY <1>5, <1>11 DEF CancelTimer, TimerExpires, WriteCompletes, WriteAborted
<1>12. QED
  BY <1>1, <1>2, <1>3, <1>6, <1>8, <1>9, <1>10, <1>11 DEF KNext

\* The types of sockets and handlers.
LEMMA KInvTypes == KInv => KTypeOK
<1> SUFFICES ASSUME KInv PROVE KTypeOK
  OBVIOUS
<1>1. /\ DOMAIN sockets = 1..Len(sockets) /\ DOMAIN handlers = 1..Len(handlers)
      /\ DOMAIN loop = 1..Len(loop)
  BY SequenceFacts, LenProperties DEF KInv, SocketsInv, HandlersInv, Fit
<1>2. ASSUME NEW h \in 1..Len(handlers)
      PROVE  (handlers[h].phase = "queued") = (\E i \in 1..Len(loop) : loop[i] = h)
  <2>1. handlers[h].phase = "queued" => \E i \in 1..Len(loop) : loop[i] = h
    BY DEF KInv, HandlersInv, Fit
  <2>2. ASSUME NEW i \in 1..Len(loop), loop[i] = h
        PROVE  handlers[h].phase = "queued"
    BY <2>2 DEF KInv, HandlersInv, Fit
  <2>3. QED
    BY <2>1, <2>2
<1>3. /\ provider \in ProviderConfigs
      /\ Len(sockets) <= MaxSockets /\ Len(handlers) <= MaxHandlers
      /\ \A s \in 1..Len(sockets) : sockets[s].state \in {"connecting", "open", "failed", "closed"}
  BY DEF KInv, SocketsInv, HandlersInv
<1>4. /\ \A i, j \in 1..Len(loop) : loop[i] = loop[j] => i = j
      /\ \A h \in 1..Len(handlers) :
            /\ handlers[h].phase \in {"raw", "queued", "freed"}
            /\ handlers[h].runs = IF handlers[h].phase = "freed" THEN 1 ELSE 0
  BY DEF KInv, HandlersInv, Fit, HandlerStates
<1>5. ASSUME NEW h \in DOMAIN handlers
      PROVE  /\ handlers[h].phase \in {"raw", "queued", "freed"}
             /\ (handlers[h].phase = "queued") = \E i \in DOMAIN loop : loop[i] = h
             /\ handlers[h].runs = IF handlers[h].phase = "freed" THEN 1 ELSE 0
  <2>1. h \in 1..Len(handlers)
    BY <1>1
  <2>2. (handlers[h].phase = "queued") = \E i \in DOMAIN loop : loop[i] = h
    BY <1>1, <1>2, <2>1
  <2>3. QED
    BY <1>4, <2>1, <2>2
<1>6. \A s \in DOMAIN sockets : sockets[s].state \in {"connecting", "open", "failed", "closed"}
  BY <1>1, <1>3
<1>7. \A i, j \in DOMAIN loop : loop[i] = loop[j] => i = j
  BY <1>1, <1>4
<1>8. QED
  BY <1>3, <1>5, <1>6, <1>7, Zenon DEF KTypeOK

\* A socket is made for the endpoint that was asked for.
LEMMA MadeGoesWhereAsked == KInv => ConnectsWhereAsked
<1> SUFFICES ASSUME KInv, NEW s \in 1..Len(sockets)
             PROVE  LET asked == sockets[s].asked
                        made0 == sockets[s].made
                    IN  /\ asked # None =>
                              /\ <<made0.ssl, made0.address, made0.path, made0.protocols>>
                                     = <<asked.ssl, asked.address, asked.path, asked.protocols>>
                              /\ asked.proxy = None => made0.port = asked.port
                        /\ provider # None =>
                              /\ provider.proxy # None =>
                                    /\ made0.proxy # None
                                    /\ made0.proxy.address = provider.proxy.address
                                    /\ made0.proxy.port = provider.proxy.port
                                    /\ provider.proxy.login # None /\ provider.headers = None
                                          => "Proxy-Authorization" \in made0.headers
                              /\ provider.headers # None => provider.headers \subseteq made0.headers
  BY SequenceFacts DEF KInv, SocketsInv, ConnectsWhereAsked
<1> DEFINE asked == sockets[s].asked
           to == sockets[s].made
<1>1. \E url : /\ to = EndpointOf(url, provider)
               /\ asked # None => asked \in CoreEndpoints /\ url = UrlOf(asked)
  BY DEF KInv, SocketsInv, Made
<1>2. PICK url : /\ to = EndpointOf(url, provider)
                 /\ asked # None => asked \in CoreEndpoints /\ url = UrlOf(asked)
  BY <1>1
<1> HIDE DEF asked, to
<1>3. ASSUME asked # None
      PROVE  /\ <<to.ssl, to.address, to.path, to.protocols>>
                    = <<asked.ssl, asked.address, asked.path, asked.protocols>>
             /\ asked.proxy = None => to.port = asked.port
  <2>1. asked.ssl \in BOOLEAN /\ asked.port # None
    BY <1>2, <1>3, EndpointsAssumption
  <2>2. /\ url.scheme = IF asked.ssl THEN "wss" ELSE "ws"
        /\ url.host = asked.address /\ url.path = asked.path /\ url.protocols = asked.protocols
        /\ asked.proxy = None => url.port = asked.port
    BY <1>2, <1>3 DEF UrlOf
  <2>3. /\ to.ssl = IsSsl(url.scheme) /\ to.address = url.host /\ to.path = url.path
        /\ to.protocols = url.protocols /\ to.port = PortOf(url)
    BY <1>2 DEF EndpointOf
  <2>4. IsSsl(url.scheme) = asked.ssl
    BY <2>1, <2>2 DEF IsSsl
  <2>5. asked.proxy = None => PortOf(url) = asked.port
    BY <2>1, <2>2 DEF PortOf
  <2>6. QED
    BY <2>2, <2>3, <2>4, <2>5
<1>4. ASSUME provider # None
      PROVE  /\ provider.proxy # None =>
                    /\ to.proxy # None
                    /\ to.proxy.address = provider.proxy.address
                    /\ to.proxy.port = provider.proxy.port
                    /\ provider.proxy.login # None /\ provider.headers = None
                          => "Proxy-Authorization" \in to.headers
             /\ provider.headers # None => provider.headers \subseteq to.headers
  <2>1. to.proxy = ProxyOf(provider) /\ to.headers = HeadersOf(provider)
    BY <1>2, <1>4 DEF EndpointOf
  <2>2. provider.proxy # None => ProxyOf(provider) # None
    BY <1>4, EndpointsAssumption DEF KInv, SocketsInv
  <2>3. QED
    BY <2>1, <2>2 DEF ProxyOf, HeadersOf
<1>5. QED
  BY <1>3, <1>4 DEF asked, to

(* ----- the parts together ----- *)

LogOutStep == \E c \in Calls, op \in LogOuts : Call(c, op) /\ SessionStops

\* A session that is active has a user that is logged in.
UserOfSession == session = "active" => user = "logged in"

IInv ==
    /\ scope \in Scopes /\ ops \in 0..MaxOps
    /\ AInv /\ SInv /\ FInv /\ KInv
    /\ UserOfSession

\* Every step is a step of one part, except the log-out, which is one of two.
LEMMA OnePartMoves ==
    Next => \/ ANext /\ UNCHANGED <<svars, fvars, kvars>>
            \/ SNext /\ UNCHANGED <<avars, fvars, kvars>>
            \/ FNext /\ UNCHANGED <<avars, svars, kvars>>
            \/ KNext /\ UNCHANGED <<avars, svars, fvars>>
            \/ LogOutStep /\ UNCHANGED <<fvars, kvars>>
<1> SUFFICES ASSUME Next
             PROVE  \/ ANext /\ UNCHANGED <<svars, fvars, kvars>>
                    \/ SNext /\ UNCHANGED <<avars, fvars, kvars>>
                    \/ FNext /\ UNCHANGED <<avars, svars, kvars>>
                    \/ KNext /\ UNCHANGED <<avars, svars, fvars>>
                    \/ LogOutStep /\ UNCHANGED <<fvars, kvars>>
  OBVIOUS
<1>1. CASE AppOperation
  BY <1>1, Zenon DEF AppOperation, AStep, LogOut, ANext, LogOutStep
<1>2. CASE SessionOperation
  BY <1>2, Zenon DEF SessionOperation, SStep, LogOut, SNext, LogOutStep, LogOuts
<1>3. CASE SubscriptionOperation
  BY <1>3, Zenon DEF SubscriptionOperation, SStep, FStep, LogOut, SNext, FNext, LogOutStep, LogOuts
<1>4. CASE ConnectOperation
  BY <1>4, Zenon DEF ConnectOperation, KStep, KNext
<1>5. CASE LoopOperation
  BY <1>5, Zenon DEF LoopOperation, KStep, KNext
<1>6. CASE Environment
  BY <1>6, Zenon DEF Environment, Answer, AnswerWait, Decide, Abort, SetFuture, RunLoop, Expire,
     WriteEnds, AStep, SStep, FStep, KStep, ANext, SNext, FNext, KNext
<1>7. QED
  BY <1>1, <1>2, <1>3, <1>4, <1>5, <1>6 DEF Next, Operation

\* The invariants of all parts hold initially.
LEMMA InitIInv == Init => IInv
<1> SUFFICES ASSUME Init PROVE IInv
  OBVIOUS
<1>1. AInv
  <2>1. /\ calls = [c \in Calls |-> IdleCall] /\ cache = {}
        /\ IdleCall \in CallStates /\ IdleCall.phase = "idle" /\ IdleCall.times = 0
    BY DEF Init, IdleCall, CallStates, Answers, NoAnswer
  <2>2. /\ app \in {MadeFor(config) : config \in AppConfigs} \cup {Null}
        /\ user \in {"none", "logged in", "logged out"}
        /\ app = Null => user = "none"
    BY NullAssumption DEF Init
  <2>3. AnsweredOnce /\ CallsAreTrue
    BY <2>1 DEF AnsweredOnce, CallsAreTrue
  <2>4. QED
    BY <2>1, <2>2, <2>3 DEF AInv
<1>2. SInv
  <2>1. DOMAIN <<>> = {}
    OBVIOUS
  <2>2. /\ IdleWait \in WaitStates /\ IdleWait.phase = "idle" /\ IdleWait.times = 0
    BY DEF IdleWait, WaitStates, Statuses
  <2>3. waits \in [Waits -> WaitStates] /\ WaitsAreTrue
    BY <2>2 DEF Init, SInit, WaitsAreTrue
  <2>4. \A w \in Waits : waits[w].phase = "idle"
    BY <2>2 DEF Init, SInit
  <2>5. STypeOK
    <3>1. /\ opened = 0 /\ session = "none" /\ made = 0 /\ held = 0
          /\ connection = "disconnected" /\ DOMAIN observers = {} /\ reset.told = <<>>
      BY <2>1 DEF Init, SInit
    <3>2. QED
      BY <2>4, <3>1, SessionsAssumption DEF STypeOK
  <2>6. synced \in BOOLEAN /\ reset = [mode |-> reset.mode, told |-> reset.told]
    BY DEF Init, SInit
  <2>7. QED
    BY <2>3, <2>5, <2>6 DEF SInv
<1>3. FInv
  <2> DEFINE first == [subs |-> <<>>, state |-> "complete"]
  <2>1. sets = <<first>> /\ handle = [h \in Handles |-> 0] /\ current = {} /\ updates = <<>>
    BY DEF Init, FInit
  <2>2. first = [subs |-> first.subs, state |-> first.state] /\ first.state = "complete"
    OBVIOUS
  <2> HIDE DEF first
  <2>3. /\ sets \in [1..1 -> {first}] /\ updates \in [1..0 -> {first}]
    BY <2>1
  <2>4. IsSequence(sets) /\ Latest = 1 /\ sets[1] = first /\ IsSequence(updates) /\ Len(updates) = 0
    BY <2>1, <2>3, FunctionIsSequence DEF Latest
  <2>5. SetsInv
    BY <2>2, <2>4, VersionsAssumption DEF SetsInv
  <2>6. UpdatesInv
    BY <2>4 DEF UpdatesInv
  <2>7. HandlesInv
    BY <2>1, <2>4 DEF HandlesInv
  <2>8. QED
    BY <2>5, <2>6, <2>7 DEF FInv
<1>4. KInv
  <2>1. sockets = <<>> /\ handlers = <<>> /\ loop = <<>> /\ provider \in ProviderConfigs
    BY DEF Init, KInit
  <2>2. IsSequence(<<>>) /\ Len(<<>>) = 0 /\ <<>> \in Seq(Nat)
    BY EmptySeq DEF IsSequence
  <2>3. QED
    BY <2>1, <2>2, EndpointsAssumption DEF KInv, SocketsInv, HandlersInv, Fit
<1>5. scope \in Scopes /\ ops \in 0..MaxOps /\ UserOfSession
  <2>1. scope \in Scopes /\ ops = 0 /\ session = "none"
    BY DEF Init, SInit
  <2>2. QED
    BY <2>1, OpsAssumption DEF UserOfSession
<1>6. QED
  BY <1>1, <1>2, <1>3, <1>4, <1>5 DEF IInv

\* Stopping the session answers its waits.
LEMMA LogOutKeepsSInv == SInv /\ SessionStops => SInv'
BY DEF SInv, SessionStops, STypeOK, Alive, WaitsAreTrue

\* Every step keeps them, those that concern two parts included.
LEMMA NextKeepsIInv == IInv /\ [Next]_vars => IInv'
<1> SUFFICES ASSUME IInv, [Next]_vars PROVE IInv'
  OBVIOUS
<1>1. scope' \in Scopes /\ ops' \in 0..MaxOps
  <2>1. \/ scope' = scope /\ ops' = ops
        \/ scope' = scope /\ ops < MaxOps /\ ops' = ops + 1
    BY DEF vars, Next, Operation, Environment, Same, Answer, AnswerWait, Decide, Abort, SetFuture,
       RunLoop, Expire, WriteEnds
  <2>2. QED
    BY <2>1, OpsAssumption DEF IInv
<1>2. \/ [ANext]_avars /\ UNCHANGED <<svars, fvars, kvars>>
      \/ [SNext]_svars /\ UNCHANGED <<avars, fvars, kvars>>
      \/ [FNext]_fvars /\ UNCHANGED <<avars, svars, kvars>>
      \/ [KNext]_kvars /\ UNCHANGED <<avars, svars, fvars>>
      \/ LogOutStep /\ UNCHANGED <<fvars, kvars>>
  BY OnePartMoves DEF vars
<1>3. AInv'
  BY <1>2, ANextKeepsAInv, CallKeepsAInv, Zenon DEF IInv, LogOutStep, LogOuts, UserOps
<1>4. SInv'
  BY <1>2, SNextKeepsSInv, LogOutKeepsSInv, Zenon DEF IInv, LogOutStep
<1>5. FInv'
  BY <1>2, FNextKeepsFInv, Zenon DEF IInv
<1>6. KInv'
  BY <1>2, KNextKeepsKInv, Zenon DEF IInv
<1>7. UserOfSession'
  <2>1. CASE [ANext]_avars /\ UNCHANGED svars
    BY <2>1, UserStays DEF IInv, UserOfSession, avars, svars
  <2>2. CASE [SNext]_svars /\ UNCHANGED avars
    BY <2>2, SessionRevives DEF IInv, UserOfSession, avars
  <2>3. CASE UNCHANGED <<avars, svars>>
    BY <2>3 DEF IInv, UserOfSession, avars, svars
  <2>4. CASE LogOutStep
    BY <2>4 DEF LogOutStep, SessionStops, UserOfSession, IInv
  <2>5. QED
    BY <1>2, <2>1, <2>2, <2>3, <2>4
<1>8. QED
  BY <1>1, <1>3, <1>4, <1>5, <1>6, <1>7 DEF IInv

\* They hold in every state.
LEMMA Invariance == Spec => []IInv
BY InitIInv, NextKeepsIInv, PTL DEF Spec

\* Every part of the Device Sync side keeps its types, and a user that is not
\* logged in has no active session.
THEOREM TypeCorrect == Spec => []TypeOK
<1>1. IInv => TypeOK
  BY AInvTypes, FInvTypes, KInvTypes DEF IInv, SInv, UserOfSession, TypeOK
<1>2. QED
  BY Invariance, <1>1, PTL

\* Requests, waits, updates and handlers are answered at most once, each with
\* what it was answered by the server, the session or the event loop.
THEOREM AnsweredTruthfully == Spec => []AnswersAreTrue
<1>1. ASSUME IInv PROVE AnswersAreTrue
  <2>1. DOMAIN updates = 1..Len(updates) /\ DOMAIN handlers = 1..Len(handlers)
    BY <1>1, SequenceFacts DEF IInv, FInv, UpdatesInv, KInv, HandlersInv, Fit
  <2>2. CallsAreTrue /\ WaitsAreTrue
    BY <1>1 DEF IInv, AInv, SInv
  <2>3. \A h \in 1..Len(handlers) :
           handlers[h].phase = "freed" => handlers[h].seen = handlers[h].status
    BY <1>1 DEF IInv, KInv, HandlersInv, Fit
  <2>4. ASSUME NEW u \in 1..Len(updates)
        PROVE  LET v == updates[u].version
               IN  /\ updates[u].seen = TRUE => sets[v].state = "complete"
                   /\ updates[u].seen = FALSE /\ sets[v].state = "complete"
                         => updates[u].told = "aborted"
                   /\ sets[v].state = "superseded" => \E w \in CompletedSets : w > v
    <3> DEFINE v == updates[u].version
    <3>1. Told(updates[u], sets) /\ Seen(updates[u]) /\ v \in 1..Latest
      BY <1>1 DEF IInv, FInv, UpdatesInv, Told, Latest
    <3>2. ASSUME sets[v].state = "superseded"
          PROVE  \E w \in CompletedSets : w > v
      BY <1>1, <3>1, <3>2, ActiveFacts DEF IInv, FInv, SetsInv, CompletedSets
    <3>3. updates[u].seen = TRUE => updates[u].told = "complete" /\ updates[u].told # Null
      BY <3>1, NullAssumption, Zenon DEF Seen, UpdateSees
    <3>4. updates[u].seen = FALSE => updates[u].told # "complete" /\ updates[u].told # Null
      BY <3>1, NullAssumption, Zenon DEF Seen, UpdateSees
    <3>5. updates[u].told \in {Null, "aborted"} \/ updates[u].told = sets[v].state
      BY <3>1 DEF Told
    <3>6. updates[u].told = "complete" /\ updates[u].told # Null => sets[v].state = "complete"
      BY <3>5
    <3>7. ASSUME updates[u].told # "complete", updates[u].told # Null, sets[v].state = "complete"
          PROVE  updates[u].told = "aborted"
      BY <3>5, <3>7
    <3>8. QED
      BY <3>2, <3>3, <3>4, <3>6, <3>7, Zenon
  <2>5. QED
    BY <2>1, <2>2, <2>3, <2>4 DEF AnswersAreTrue, CallsAreTrue, WaitsAreTrue
<1>2. QED
  BY Invariance, <1>1, PTL

\* A connection goes where realm-core asked, and through the proxy the App was
\* given.
THEOREM ConnectionsGoWhereAsked == Spec => []ConnectsWhereAsked
<1>1. IInv => ConnectsWhereAsked
  BY MadeGoesWhereAsked DEF IInv
<1>2. QED
  BY Invariance, <1>1, PTL

\* No update that is made through the newest set loses a subscription that
\* its function does not name.
THEOREM FreshHandlesLoseNothing == Spec => []NothingLostByFreshHandle
<1>1. Init => NothingLost
  <2> SUFFICES ASSUME Init PROVE NothingLost
    OBVIOUS
  <2>1. current = {} /\ updates = <<>>
    BY DEF Init, FInit
  <2>2. 1..Len(updates) = {}
    BY <2>1
  <2>3. QED
    BY <2>1, <2>2 DEF NothingLost, CurrentShowNewest
<1>2. IInv /\ IInv' /\ NothingLost /\ [Next]_vars => NothingLost'
  <2> SUFFICES ASSUME IInv, IInv', NothingLost, [Next]_vars PROVE NothingLost'
    OBVIOUS
  <2>1. [FNext]_fvars
    BY OnePartMoves DEF vars
  <2>2. QED
    BY <2>1, FNextLosesNothing DEF IInv
<1>3. IInv /\ NothingLost => NothingLostByFreshHandle
  <2> SUFFICES ASSUME IInv, NothingLost, NEW u \in 1..Len(updates),
                      updates[u].fresh, ~Clears(updates[u].script),
                      NEW name, name \notin Mentioned(updates[u].script)
               PROVE  LET v == updates[u].version
                      IN  Find(sets[v].subs, name) = Find(sets[v - 1].subs, name)
    <3>1. DOMAIN updates = 1..Len(updates)
      BY SequenceFacts DEF IInv, FInv, UpdatesInv
    <3>2. QED
      BY <3>1 DEF NothingLostByFreshHandle, Clears
  <2>1. Kept(updates[u], sets)
    BY DEF NothingLost
  <2>2. QED
    BY <2>1 DEF Kept
<1>4. QED
  BY Invariance, <1>1, <1>2, <1>3, PTL DEF Spec
=============================================================================
