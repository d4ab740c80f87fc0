---------------------------- MODULE Subscriptions ----------------------------
(***************************************************************************)
(* Flexible sync subscriptions (src/src/cpprealm/flex_sync.cpp and         *)
(* src/include/cpprealm/flex_sync.hpp): handles that show a committed set, *)
(* update() on a mutable copy of it, and the future of its completion.     *)
(* The server works on the committed sets while the session is active.     *)
(***************************************************************************)
EXTENDS Sessions, Integers

CONSTANTS
    Handles,       \* sync_subscription_set objects
    Scripts,       \* what a function given to update() may do: edits in order
    MaxVersions    \* committed sets, the initial one included

ASSUME VersionsAssumption == MaxVersions \in Nat \ {0}
(* What mutable_sync_subscription_set offers. *)
ASSUME ScriptsAssumption ==
    \A script \in Scripts :
        /\ script \in Seq({script[i] : i \in DOMAIN script})
        /\ \A i \in DOMAIN script : script[i].edit \in {"add", "remove", "update", "clear"}

VARIABLES
    generated,   \* whether bridge types are stored in place
    sets,        \* sets[v]: [subs, state] of the committed set of version v
    handle,      \* the version each handle shows, 0 for none, -1 if destroyed
    current,     \* the handles that by what was called have the newest set:
                 \* taken with nothing pending, or the last to update
    updates      \* [version, fresh, script, told, seen] of each update's future

fvars == <<generated, sets, handle, current, updates>>

FInit ==
    /\ generated \in BOOLEAN
    /\ sets = << [subs |-> <<>>, state |-> "complete"] >>
    /\ handle = [h \in Handles |-> 0]
    /\ current = {}
    /\ updates = <<>>

Versions == DOMAIN sets
Latest == Len(sets)
CompletedSets == {v \in Versions : sets[v].state = "complete"}
Active == CHOOSE v \in CompletedSets : \A w \in CompletedSets : w <= v

(* db.subscriptions(): the set the server has completed last, not the one  *)
(* committed last.                                                         *)
TakeSubscriptions(h) ==
    /\ opened > 0 /\ synced
    /\ handle[h] = 0
    /\ handle' = [handle EXCEPT ![h] = Active]
    /\ current' = IF sets[Latest].state = "complete" THEN current \cup {h} ELSE current
    /\ UNCHANGED <<generated, sets, updates>>
Shown(h) == sets[handle[h]].subs
Find(subs, name) == IF name \in DOMAIN subs THEN subs[name] ELSE Null

(* ----- the mutable set: [subs, thrown] after each edit ----- *)

InsertOrAssign(s, name, query) ==
    [s EXCEPT !.subs = [n \in DOMAIN s.subs \cup {name} |-> IF n = name THEN query ELSE s.subs[n]]]
(* add(): the query, or the whole table without one; a query function may  *)
(* throw.                                                                  *)
Add(s, e) == IF e.query = "throws" THEN [s EXCEPT !.thrown = TRUE]
             ELSE InsertOrAssign(s, e.name, e.query)
RemoveSubscription(s, name) ==
    IF name \in DOMAIN s.subs
    THEN [s EXCEPT !.subs = [n \in DOMAIN s.subs \ {name} |-> s.subs[n]]]
    ELSE [s EXCEPT !.thrown = TRUE]
UpdateSubscription(s, e) ==
    LET removed == RemoveSubscription(s, e.name)
    IN  IF removed.thrown THEN removed ELSE Add(removed, e)
Clear(s) == [s EXCEPT !.subs = <<>>]

Edited(s, e) ==
    CASE e.edit = "add" -> Add(s, e)
      [] e.edit = "remove" -> RemoveSubscription(s, e.name)
      [] e.edit = "update" -> UpdateSubscription(s, e)
      [] e.edit = "clear" -> Clear(s)
(* The function runs until it ends or something it calls throws. *)
Run(subs, script) ==
    LET after[i \in 0..Len(script)] ==
            IF i = 0 THEN [subs |-> subs, thrown |-> FALSE]
            ELSE IF after[i - 1].thrown THEN after[i - 1] ELSE Edited(after[i - 1], script[i])
    IN  after[Len(script)]

(* Fault: the set committed is not kept in the handle. *)
ShownAfterCommitOld(h) == handle[h]
(* The set a handle shows once its update is committed *)
ShownAfterCommit(h) == Latest + 1
(* update(): on a mutable copy of the handle's own set; when the function  *)
(* throws, everything is as it was.                                        *)
Update(h, script) ==
    LET new == Run(Shown(h), script)
    IN  /\ handle[h] > 0 /\ opened > 0 /\ Latest < MaxVersions
        /\ ~new.thrown
        /\ sets' = Append(sets, [subs |-> new.subs, state |-> "pending"])
        /\ handle' = [handle EXCEPT ![h] = ShownAfterCommit(h)]
        /\ current' = {h}
        /\ updates' = Append(updates,
               [version |-> Latest + 1, fresh |-> h \in current, script |-> script,
                told |-> Null, seen |-> Null])
        /\ UNCHANGED generated
(* The commit throws: in a generated build the handle's set has already    *)
(* been destroyed, and is destroyed again with the handle.                 *)
CommitFails(h) ==
    /\ handle[h] > 0 /\ opened > 0 /\ generated
    /\ handle' = [handle EXCEPT ![h] = -1]
    /\ current' = current \ {h}
    /\ UNCHANGED <<generated, sets, updates>>

(* ----- realm-core and the server ----- *)

(* Whoever waits for a set is told once, when it stops being pending. *)
TellOf(new) ==
    [u \in DOMAIN updates |->
        IF updates[u].told = Null /\ new[updates[u].version].state # "pending"
        THEN [updates[u] EXCEPT !.told = new[updates[u].version].state] ELSE updates[u]]

(* A set that completes supersedes those pending before it. *)
ServerCompletes(v) ==
    /\ session = "active" /\ v > Active /\ sets[v].state = "pending"
    /\ sets' = [w \in Versions |->
           IF w = v THEN [sets[w] EXCEPT !.state = "complete"]
           ELSE IF w < v /\ sets[w].state = "pending" THEN [sets[w] EXCEPT !.state = "superseded"]
           ELSE sets[w]]
    /\ updates' = TellOf(sets')
    /\ UNCHANGED <<generated, handle, current>>
ServerRejects(v) ==
    /\ session = "active" /\ v > Active /\ sets[v].state = "pending"
    /\ sets' = [sets EXCEPT ![v].state = "error"]
    /\ updates' = TellOf(sets')
    /\ UNCHANGED <<generated, handle, current>>
(* A session that is not active gives its notifications up. *)
NotificationAborted(u) ==
    /\ session # "active" /\ updates[u].told = Null
    /\ updates' = [updates EXCEPT ![u].told = "aborted"]
    /\ UNCHANGED <<generated, sets, handle, current>>

(* Fault: only the state waited for sets the promise. *)
FutureIsSetIfComplete(u) ==
    /\ updates[u].told = "complete" /\ updates[u].seen = Null
    /\ updates' = [updates EXCEPT ![u].seen = TRUE]
    /\ UNCHANGED <<generated, sets, handle, current>>
(* The future has true for the state it waits for, false for any other     *)
(* state and for an error.                                                 *)
UpdateSees(state) == state = "complete"
FutureIsSet(u) ==
    /\ updates[u].told # Null /\ updates[u].seen = Null
    /\ updates' = [updates EXCEPT ![u].seen = UpdateSees(updates[u].told)]
    /\ UNCHANGED <<generated, sets, handle, current>>

(* ----- properties ----- *)

Mentioned(script) == {script[i].name : i \in DOMAIN script}

FTypeOK ==
    /\ Versions = 1..Latest /\ Latest <= MaxVersions
    /\ \A h \in Handles : handle[h] \in -1..Latest
    /\ \A h \in current : handle[h] > 0
    /\ \A v \in Versions : sets[v].state \in {"pending", "complete", "superseded", "error"}
    /\ Len(updates) = Latest - 1

(* An update through a handle that was taken while nothing was pending, or *)
(* that made the newest set itself, leaves every subscription its function *)
(* does not name as it was.  A handle taken while an update is pending, or *)
(* kept while another one updates, loses that update: the constructor      *)
(* takes the active set, and nothing refreshes it (flex_sync.cpp:186-194). *)
NothingLostByFreshHandle ==
    \A u \in DOMAIN updates :
        LET v == updates[u].version
            names == DOMAIN sets[v].subs \cup DOMAIN sets[v - 1].subs
            cleared == \E i \in DOMAIN updates[u].script : updates[u].script[i].edit = "clear"
        IN  updates[u].fresh /\ ~cleared
            => \A n \in names \ Mentioned(updates[u].script) :
                   Find(sets[v].subs, n) = Find(sets[v - 1].subs, n)
=============================================================================
