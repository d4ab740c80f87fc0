------------------------------ MODULE Requests ------------------------------
(***************************************************************************)
(* App and user (src/src/cpprealm/app.cpp): every operation hands realm-   *)
(* core a completion that settles a future or calls the caller back.       *)
(* Requests travel through the HTTP client given to the App, which answers *)
(* them, fails them, or drops the block it was given.                      *)
(***************************************************************************)
EXTENDS Naturals

CONSTANTS
    Null,
    Calls,           \* the operations that may be under way, each made once
    AppConfigs,      \* [id, caching, client, provider, key, url] of App::configuration
    DefaultClient,   \* what make_http_client() returns
    NoEncryption     \* TRUE: REALM_DISABLE_METADATA_ENCRYPTION is set

VARIABLES
    calls,   \* [op, phase, answer, seen, times] of each operation
    user,    \* the account: "none", "logged in" or "logged out"
    app,     \* realm-core's app behind the App handle, Null before the first
    cache    \* realm-core's cached apps, by [id, url]

avars == <<calls, user, app, cache>>

NoAnswer == [error |-> Null, value |-> Null]
IdleCall == [op |-> Null, phase |-> "idle", answer |-> NoAnswer, seen |-> NoAnswer, times |-> 0]

(* ----- what the caller sees of an answer, operation by operation ----- *)

FutureSees(a) ==
    IF a.error # Null THEN [error |-> a.error, value |-> Null]
                      ELSE [error |-> Null, value |-> a.value]
ErrorOnly(a) == [error |-> a.error, value |-> Null]
ValueAndError(a) == a

RegisterUser(a) == FutureSees(a)
(* Fault: the user is set without a look at the error. *)
LoginFutureUnchecked(a) == [error |-> Null, value |-> a.value]
LoginFuture(a) == FutureSees(a)
(* on an error, a user that has no realm-core user behind it *)
LoginCallback(a) ==
    IF a.error # Null THEN [error |-> a.error, value |-> Null]
                      ELSE [error |-> Null, value |-> a.value]
LogOutCallback(a) == ErrorOnly(a)
LogOutFuture(a) == FutureSees(a)
CallTextCallback(a) == ValueAndError(a)
CallTextFuture(a) == FutureSees(a)
CallBsonCallback(a) == ValueAndError(a)
CallBsonFuture(a) == FutureSees(a)
RefreshCallback(a) == ErrorOnly(a)
RefreshFuture(a) == FutureSees(a)
UpdateBaseUrl(a) == FutureSees(a)

AppOps == {"register", "login future", "login callback", "update base url"}
UserOps == {"log out callback", "log out future", "call text callback", "call text future",
            "call bson callback", "call bson future", "refresh callback", "refresh future"}
LogOuts == {"log out callback", "log out future"}
LogIns == {"login future", "login callback"}

Sees(op, a) ==
    CASE op = "register" -> RegisterUser(a)
      [] op = "login future" -> LoginFuture(a)
      [] op = "login callback" -> LoginCallback(a)
      [] op = "log out callback" -> LogOutCallback(a)
      [] op = "log out future" -> LogOutFuture(a)
      [] op = "call text callback" -> CallTextCallback(a)
      [] op = "call text future" -> CallTextFuture(a)
      [] op = "call bson callback" -> CallBsonCallback(a)
      [] op = "call bson future" -> CallBsonFuture(a)
      [] op = "refresh callback" -> RefreshCallback(a)
      [] op = "refresh future" -> RefreshFuture(a)
      [] op = "update base url" -> UpdateBaseUrl(a)

(* A function may have no result; the other operations succeed with none, *)
(* or with the user.                                                       *)
Gives(op) ==
    CASE op \in LogIns -> {"user"}
      [] op \in {"call text callback", "call text future"} -> {"text"}
      [] op \in {"call bson callback", "call bson future"} -> {"bson", Null}
      [] OTHER -> {Null}
CoreAnswers(op) ==
    {[error |-> "error", value |-> Null]} \cup {[error |-> Null, value |-> v] : v \in Gives(op)}

(* ----- the App ----- *)

(* An App is made for its configuration, unless caching finds one with the *)
(* same id and url: then the client, key and provider given are ignored.   *)
MadeFor(config) ==
    [id |-> config.id, url |-> config.url, provider |-> config.provider,
     client |-> IF config.client # Null THEN config.client ELSE DefaultClient,
     encrypted |-> config.key # Null /\ ~NoEncryption, key |-> config.key]

(* No value stands for a missing one, whatever the configurations are. *)
ASSUME NullAssumption ==
    /\ Null \notin BOOLEAN /\ DefaultClient # Null
    /\ \A config \in AppConfigs : MadeFor(config) # Null

CoreGetApp(config) ==
    LET found == {a \in cache : a.id = config.id /\ a.url = config.url}
    IN  IF config.caching /\ found # {} THEN found ELSE {MadeFor(config)}

NewApp(config) ==
    /\ \A c \in Calls : calls[c].phase # "sent"
    /\ user = "none"
    /\ \E a \in CoreGetApp(config) :
          /\ app' = a
          /\ cache' = IF config.caching THEN cache \cup {a} ELSE cache
    /\ UNCHANGED <<calls, user>>
ClearCachedApps == app # Null /\ cache # {} /\ cache' = {} /\ UNCHANGED <<calls, user, app>>
GetCachedApp(id, url) ==
    /\ \A c \in Calls : calls[c].phase # "sent"
    /\ app # Null /\ user = "none"
    /\ \E a \in cache : a.id = id /\ a.url = url /\ app' = a
    /\ UNCHANGED <<calls, user, cache>>
GetCurrentUser == IF user = "logged in" THEN "user" ELSE Null

AInit ==
    /\ calls = [c \in Calls |-> IdleCall]
    /\ user = "none"
    /\ app = Null
    /\ cache = {}

(* ----- requests ----- *)

Settled(call, a) ==
    [call EXCEPT !.phase = "settled", !.answer = a, !.seen = Sees(call.op, a), !.times = @ + 1]

(* Logging out clears the user whatever the server says of it, and asks    *)
(* nothing of the server for a user that is logged out.  The base URL that *)
(* realm-core goes on with is not followed.                                *)
Call(c, op) ==
    LET made == [IdleCall EXCEPT !.op = op, !.phase = "sent"]
    IN  /\ calls[c].phase = "idle" /\ app # Null
        /\ op \in AppOps \/ (op \in UserOps /\ user # "none")
        /\ calls' = [calls EXCEPT ![c] =
               IF op \in LogOuts /\ user # "logged in" THEN Settled(made, NoAnswer) ELSE made]
        /\ user' = IF op \in LogOuts THEN "logged out" ELSE user
        /\ UNCHANGED <<app, cache>>

ServerAnswers(c) ==
    /\ calls[c].phase = "sent"
    /\ \E a \in CoreAnswers(calls[c].op) :
          /\ calls' = [calls EXCEPT ![c] = Settled(@, a)]
          /\ user' = IF calls[c].op \in LogIns /\ a.error = Null THEN "logged in" ELSE user
    /\ UNCHANGED <<app, cache>>

(* The block holds the completion as a raw pointer: dropped, it leaks, and *)
(* the promise in it is neither kept nor broken.                           *)
ClientDropsBlock(c) ==
    /\ calls[c].phase = "sent" /\ app.client # DefaultClient
    /\ calls' = [calls EXCEPT ![c].phase = "leaked"]
    /\ UNCHANGED <<user, app, cache>>

ATypeOK ==
    /\ user \in {"none", "logged in", "logged out"}
    /\ \A c \in Calls :
          /\ calls[c].phase \in {"idle", "sent", "settled", "leaked"}
          /\ calls[c].op \in AppOps \cup UserOps \cup {Null}
    /\ \A a \in cache : a.client # Null
    /\ app = Null => user = "none" /\ cache = {}
=============================================================================
