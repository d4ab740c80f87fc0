------------------------------ MODULE Sessions ------------------------------
(***************************************************************************)
(* The sync session behind an open database, held by handles through a     *)
(* weak pointer (src/src/cpprealm/internal/bridge/sync_session.cpp): waits *)
(* that settle a future or call back, pausing, connection observers, the   *)
(* asynchronous open, and the callbacks of a client reset.                 *)
(***************************************************************************)
EXTENDS Requests, Sequences

CONSTANTS
    Waits,          \* the waits that may be under way, each made once
    Tokens,         \* tokens of connection observers
    MaxSessions     \* sessions realm-core may make for the file

ASSUME SessionsAssumption == MaxSessions \in Nat

VARIABLES
    synced,      \* whether the configuration has a sync configuration
    opened,      \* databases open on the file
    session,     \* "none", "active", "paused", "stopped" or "gone"
    made,        \* sessions made so far: the latest is the one above
    held,        \* the session our handle points to, 0 for no handle
    connection,  \* its connection state
    waits,       \* [op, phase, answer, seen, times] of each wait
    observers,   \* [Tokens -> the change an observer was last told of]
    reset        \* [mode, told]: what a client reset has called so far

svars == <<synced, opened, session, made, held, connection, waits, observers, reset>>

Uploads == {"upload future", "upload callback"}
Downloads == {"download future", "download callback"}
WaitOps == Uploads \cup Downloads
Futures == {"upload future", "download future"}
IdleWait == [op |-> Null, phase |-> "idle", answer |-> Null, seen |-> Null, times |-> 0]
ResetModes == {"manual", "discard_unsynced", "recover", "recover_or_discard"}

SInit ==
    /\ synced \in BOOLEAN
    /\ opened = 0 /\ session = "none" /\ made = 0 /\ held = 0
    /\ connection = "disconnected"
    /\ waits = [w \in Waits |-> IdleWait]
    /\ observers = <<>>
    /\ reset = [mode |-> "manual", told |-> <<>>]

Alive == session \in {"active", "paused", "stopped"}
(* m_session.lock() *)
Lock == held # 0 /\ held = made /\ Alive

(* Opening revives a session that has stopped, and makes a new one only    *)
(* when the old one is gone.                                               *)
OpenDb ==
    /\ opened < 2
    /\ opened' = opened + 1
    /\ IF ~synced \/ session \in {"active", "paused"} THEN UNCHANGED <<session, made>>
       ELSE IF session = "stopped" THEN session' = "active" /\ UNCHANGED made
       ELSE made < MaxSessions /\ session' = "active" /\ made' = made + 1
    /\ UNCHANGED <<synced, held, connection, waits, observers, reset>>
CloseDb ==
    /\ opened > 0
    /\ opened' = opened - 1
    /\ UNCHANGED <<synced, session, made, held, connection, waits, observers, reset>>

(* get_sync_session() has no value for a configuration without sync. *)
GetSyncSession ==
    /\ opened > 0
    /\ held' = IF synced THEN made ELSE 0
    /\ UNCHANGED <<synced, opened, session, made, connection, waits, observers, reset>>

(* ----- waits ----- *)

(* A callback has the status itself; a future has nothing of one that is   *)
(* ok and an exception of its code otherwise.                              *)
WaitCallbackSees(status) == status
UploadFutureSees(status) == IF status = "ok" THEN "ok" ELSE status
DownloadFutureSees(status) == IF status = "ok" THEN "ok" ELSE status
WaitSees(op, status) ==
    CASE op = "upload future" -> UploadFutureSees(status)
      [] op = "download future" -> DownloadFutureSees(status)
      [] OTHER -> WaitCallbackSees(status)

(* With the session destroyed a future carries the exception, while the    *)
(* callback forms throw it and never call back.                            *)
WaitFor(w, op) ==
    /\ held # 0
    /\ waits[w].phase = "idle"
    /\ waits' = [waits EXCEPT ![w] =
           IF Lock THEN [IdleWait EXCEPT !.op = op, !.phase = "waiting"]
           ELSE IF op \in Futures
                THEN [IdleWait EXCEPT !.op = op, !.phase = "settled", !.answer = "destroyed",
                                      !.seen = "destroyed", !.times = 1]
                ELSE [IdleWait EXCEPT !.op = op, !.phase = "thrown"]]
    /\ UNCHANGED <<synced, opened, session, made, held, connection, observers, reset>>

AnsweredWait(wait, status) ==
    [wait EXCEPT !.phase = "settled", !.answer = status,
                 !.seen = WaitSees(wait.op, status), !.times = @ + 1]
(* realm-core: waits complete while the session is active; those of a      *)
(* session that is not are aborted, sooner or later.                       *)
CoreAnswersWait(w) ==
    /\ waits[w].phase = "waiting" /\ Alive
    /\ \E status \in IF session = "active" THEN {"ok", "error"} ELSE {"aborted"} :
          waits' = [waits EXCEPT ![w] = AnsweredWait(@, status)]
    /\ UNCHANGED <<synced, opened, session, made, held, connection, observers, reset>>

(* ----- pause, resume, observers: each throws without a session ----- *)

Pause ==
    /\ Lock /\ session = "active"
    /\ session' = "paused"
    /\ UNCHANGED <<synced, opened, made, held, connection, waits, observers, reset>>
Resume ==
    /\ Lock /\ session \in {"paused", "stopped"}
    /\ session' = "active"
    /\ UNCHANGED <<synced, opened, made, held, connection, waits, observers, reset>>
Reconnect ==
    /\ Lock /\ session = "active" /\ connection = "disconnected"
    /\ connection' = "connecting"
    /\ observers' = [t \in DOMAIN observers |-> <<connection, "connecting">>]
    /\ UNCHANGED <<synced, opened, session, made, held, waits, reset>>
ObserveConnectionChange(t) ==
    /\ Lock /\ t \notin DOMAIN observers
    /\ observers' = [u \in DOMAIN observers \cup {t} |-> IF u = t THEN Null ELSE observers[u]]
    /\ UNCHANGED <<synced, opened, session, made, held, connection, waits, reset>>
UnregisterObserver(t) ==
    /\ Lock /\ t \in DOMAIN observers
    /\ observers' = [u \in DOMAIN observers \ {t} |-> observers[u]]
    /\ UNCHANGED <<synced, opened, session, made, held, connection, waits, reset>>

ConnectionChanges(state) ==
    /\ session = "active" \/ (Alive /\ state = "disconnected")
    /\ connection # state
    /\ connection' = state
    /\ observers' = [t \in DOMAIN observers |-> <<connection, state>>]
    /\ UNCHANGED <<synced, opened, session, made, held, waits, reset>>

(* ----- client reset ----- *)

SetClientResetHandler(mode) ==
    /\ reset.told = <<>> /\ opened = 0 /\ synced
    /\ reset' = [mode |-> mode, told |-> <<>>]
    /\ UNCHANGED <<synced, opened, session, made, held, connection, waits, observers>>
(* The handler of the caller gets a frozen copy of the local database. *)
BeforeClientReset ==
    /\ session = "active" /\ reset.mode # "manual" /\ reset.told = <<>>
    /\ reset' = [reset EXCEPT !.told = <<"before: frozen local">>]
    /\ UNCHANGED <<synced, opened, session, made, held, connection, waits, observers>>
(* The remote database is opened with the default scheduler, whatever the  *)
(* configuration has.                                                      *)
AfterClientReset ==
    /\ session = "active" /\ Len(reset.told) = 1
    /\ reset' = [reset EXCEPT !.told =
           Append(@, "after: frozen local, remote on the default scheduler")]
    /\ UNCHANGED <<synced, opened, session, made, held, connection, waits, observers>>

(* ----- realm-core's session ----- *)

(* The session stops when the user logs out, and, with the policy          *)
(* after_changes_uploaded, once nothing holds a database open; when its    *)
(* last completion has run it is destroyed.                                *)
SessionStops ==
    /\ session' = IF session \in {"active", "paused"} THEN "stopped" ELSE session
    /\ UNCHANGED <<synced, opened, made, held, connection, waits, observers, reset>>
SessionRunsOut == opened = 0 /\ session \in {"active", "paused"} /\ SessionStops
SessionIsDestroyed ==
    /\ opened = 0 /\ session = "stopped"
    /\ \A w \in Waits : waits[w].phase # "waiting"
    /\ session' = "gone" /\ observers' = <<>> /\ connection' = "disconnected"
    /\ reset' = [reset EXCEPT !.told = <<>>]
    /\ UNCHANGED <<synced, opened, made, held, waits>>

STypeOK ==
    /\ opened \in 0..2 /\ made \in 0..MaxSessions /\ held \in 0..made
    /\ session \in {"none", "active", "paused", "stopped", "gone"}
    /\ (session = "none") = (made = 0)
    /\ ~synced => made = 0 /\ held = 0
    /\ connection \in {"disconnected", "connecting", "connected"}
    /\ connection # "disconnected" => Alive
    /\ DOMAIN observers \subseteq Tokens
    /\ \A w \in Waits :
          /\ waits[w].phase \in {"idle", "waiting", "settled", "thrown"}
          /\ waits[w].phase = "thrown" => waits[w].op \notin Futures
    /\ reset.mode = "manual" => reset.told = <<>>
=============================================================================
