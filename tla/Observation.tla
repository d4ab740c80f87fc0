---------------------------- MODULE Observation ----------------------------
(***************************************************************************)
(* Change notifications: object_change_callback_wrapper and                *)
(* collection_callback_wrapper (src/include/cpprealm/observation.hpp), on  *)
(* an object and on a collection it is the root of.                        *)
(*                                                                         *)
(* One thread observes.  The object is written and deleted by that thread, *)
(* outside and inside its callbacks, and by others.  realm-core is         *)
(* external: it computes what changed between two versions, calls before() *)
(* while the Realm still reads the old one, moves the Realm, and calls     *)
(* after().  If the Realm is on the new version already, because its own   *)
(* thread wrote it, before() is not called.  Versions may be skipped, and  *)
(* a write in a callback moves the Realm without notifying, perhaps to a   *)
(* version in which the object is gone; reading it there throws, out of    *)
(* after(), and what the observing thread then does is not followed.       *)
(*                                                                         *)
(* The observer keeps a copy of what it observes, brought up to date by    *)
(* nothing but what the callbacks tell it.                                 *)
(***************************************************************************)
EXTENDS Naturals, Sequences, FiniteSets

CONSTANTS Schema,      \* the order of the properties; "items" is the collection
          Values,      \* of the scalar properties
          Items,       \* what the collection may hold
          NoValue,
          MaxVersion   \* bound: versions of the file

Names == {Schema[i] : i \in DOMAIN Schema}
Props == Names \ {"items"}

ASSUME ConstantsAssumption == /\ Schema \in Seq(Names) /\ "items" \in Names
                              /\ NoValue \notin Values
                              /\ MaxVersion \in Nat \ {0}

Observers == {"object", "collection"}

VARIABLES
    file,    \* file[v]: the object in version v, and the columns v wrote
    seen,    \* the version the Realm of the observing thread reads
    told,    \* told[o]: version observer o was notified up to; 0, no token
    initial, \* core owes the collection's observer its initial notification
    names,   \* object_change_callback_wrapper's property_names; {}, unset
    old,     \* its old_values; Unset
    deleted, \* its deleted flag
    target,  \* the version being notified; 0, no notification in progress
    due,     \* the observers whose after() is still to be called
    inside,  \* the observer whose callback is running, "none", or "exception"
             \* once one has left an after()
    copy,    \* the object as its observer was told
    held,    \* the collection as its observer was told
    report   \* what the callback running was given

vars == <<file, seen, told, initial, names, old, deleted, target, due, inside,
          copy, held, report>>

Latest == Len(file)
Version == [alive : BOOLEAN, val : [Props -> Values], items : SUBSET Items,
            touched : SUBSET Names]
Reading == [Names -> Values \cup {NoValue}]
Unset == [n \in Names |-> NoValue]

NoReport == [kind |-> "none", old |-> Unset, new |-> Unset, root |-> FALSE]

\* Type invariant.  An observer called is one whose token is held.
TypeOK ==
    /\ file \in Seq(Version) /\ Latest \in 1..MaxVersion
    /\ seen \in 1..Latest
    /\ told \in [Observers -> 0..seen]
    /\ initial \in BOOLEAN
    /\ names \subseteq Names
    /\ old \in Reading
    /\ deleted \in BOOLEAN
    /\ target \in 0..seen
    /\ due \subseteq {o \in Observers : told[o] # 0}
    /\ inside \in Observers \cup {"none", "exception"}
    /\ copy \in [Props -> Values]
    /\ held \subseteq Items
    /\ report \in [kind : {"none", "object", "deleted", "collection"},
                   old : Reading, new : Reading, root : BOOLEAN]

Init ==
    /\ \E x \in [Props -> Values], s \in SUBSET Items :
          /\ file = <<[alive |-> TRUE, val |-> x, items |-> s, touched |-> {}]>>
          /\ copy = x
          /\ held = s
    /\ seen = 1
    /\ told = [o \in Observers |-> 0]
    /\ initial = FALSE
    /\ names = {} /\ old = Unset /\ deleted = FALSE
    /\ target = 0
    /\ due = {}
    /\ inside = "none"
    /\ report = NoReport

-----------------------------------------------------------------------------
\* What core reports of the versions after v up to w.
Columns(v, w) == UNION {file[i].touched : i \in v + 1 .. w}
RootDeleted(v, w) == file[v].alive /\ ~file[w].alive
Deletions(v, w) == file[v].items \ file[w].items
Insertions(v, w) == file[w].items \ file[v].items
NothingChanged(v, w) == Columns(v, w) = {} /\ ~RootDeleted(v, w)

\* property_value_for_name goes through the schema in order and gives up at the
\* first collection, before it looks at the name: no property declared after a
\* collection has its value read.
Readable == {p \in Props : \E i \in DOMAIN Schema :
                Schema[i] = p /\ \A j \in 1..i : Schema[j] # "items"}

\* read_values(): the named properties, as the Realm reads them in version v.
Read(N, v) == [n \in Names |-> IF n \in N \cap Readable THEN file[v].val[n] ELSE NoValue]

\* The program of the observing thread runs, or one of its callbacks.
ProgramRuns == target = 0 \/ inside \in Observers

\* observe() on the object: the observer has read the object when it registers.
ObserveObject ==
    /\ ProgramRuns
    /\ told["object"] = 0
    /\ inside # "object"
    /\ file[seen].alive
    /\ told' = [told EXCEPT !["object"] = seen]
    /\ copy' = file[seen].val
    /\ names' = {} /\ old' = Unset /\ deleted' = FALSE
    /\ UNCHANGED <<file, seen, initial, target, due, inside, held, report>>

\* observe() on the collection: core will call after() even if nothing changes.
ObserveCollection ==
    /\ ProgramRuns
    /\ told["collection"] = 0
    /\ file[seen].alive
    /\ told' = [told EXCEPT !["collection"] = seen]
    /\ initial' = TRUE
    /\ held' = file[seen].items
    /\ UNCHANGED <<file, seen, names, old, deleted, target, due, inside, copy, report>>

\* Fault: unregister() does not reach a notification being delivered.
UnregisterKeepsDue(o) ==
    /\ ProgramRuns
    /\ told[o] # 0
    /\ told' = [told EXCEPT ![o] = 0]
    /\ UNCHANGED <<file, seen, initial, names, old, deleted, target, due, inside, copy,
                   held, report>>

\* The token is unregistered or destroyed, perhaps by a callback.
Unregister(o) ==
    /\ ProgramRuns
    /\ told[o] # 0
    /\ told' = [told EXCEPT ![o] = 0]
    /\ due' = due \ {o}
    /\ UNCHANGED <<file, seen, initial, names, old, deleted, target, inside, copy, held,
                   report>>

\* One write transaction, on version v of the file.
PropertySet(v, p, x) == [v EXCEPT !.val[p] = x, !.touched = {p}]
CollectionSet(v, s) == [v EXCEPT !.items = s, !.touched = {"items"}]
Written(v) == {PropertySet(v, p, x) : p \in Props, x \in Values}
              \cup {CollectionSet(v, s) : s \in SUBSET Items}
Removed(v) == [v EXCEPT !.alive = FALSE, !.items = {}, !.touched = {}]

\* Another thread writes, or deletes, the object.
WriteElsewhere ==
    /\ Latest < MaxVersion
    /\ file[Latest].alive
    /\ \E w \in Written(file[Latest]) \cup {Removed(file[Latest])} :
          file' = Append(file, w)
    /\ UNCHANGED <<seen, told, initial, names, old, deleted, target, due, inside, copy,
                   held, report>>

\* The observing thread writes.  Outside a callback, beginning the transaction
\* notifies first (Notify); inside one it moves the Realm, past whatever others
\* wrote, and notifies nobody.  A write of something else moves it as well.
WriteHere ==
    /\ ProgramRuns
    /\ target = 0 => seen = Latest
    /\ \/ /\ Latest < MaxVersion
          /\ file[Latest].alive
          /\ \E w \in Written(file[Latest]) \cup {Removed(file[Latest])} :
                file' = Append(file, w)
          /\ seen' = Latest + 1
       \/ /\ seen' = Latest
          /\ UNCHANGED file
    /\ UNCHANGED <<told, initial, names, old, deleted, target, due, inside, copy, held,
                   report>>

-----------------------------------------------------------------------------
\* populate_properties() for the changes from told["object"] to w, as
\* read_values() calls it: not for an empty change set, nor twice.
Populated(w) ==
    IF NothingChanged(told["object"], w) \/ names # {} THEN names
    ELSE IF RootDeleted(told["object"], w) THEN {}
    ELSE Columns(told["object"], w)

FoundDeleted(w) ==
    deleted \/ (names = {} /\ RootDeleted(told["object"], w))

\* after() is about to read a property of an object that is gone from the version
\* that a callback's write moved the Realm to.
ReadsDeleted ==
    /\ ~file[seen].alive
    /\ ~NothingChanged(told["object"], target)
    /\ Populated(target) \cap Readable # {}

Due(w) == {o \in Observers :
             told[o] # 0 /\ (told[o] < w \/ (o = "collection" /\ initial))}

\* Fault: before() finds the names, and leaves reading the values to after().
NotifyReadsLate(w) ==
    /\ target = 0
    /\ w \in seen..Latest
    /\ Due(w) # {} \/ seen < w
    /\ IF "object" \in Due(w) /\ seen < w
       THEN /\ names' = Populated(w)
            /\ deleted' = FoundDeleted(w)
            /\ old' = Read(names', w)
       ELSE UNCHANGED <<names, old, deleted>>
    /\ seen' = w
    /\ target' = IF Due(w) = {} THEN 0 ELSE w
    /\ due' = Due(w)
    /\ UNCHANGED <<file, told, initial, inside, copy, held, report>>

\* refresh(), automatic refresh or the start of a write: the Realm moves to a
\* version not older than its own, and the observers due are notified.  If it
\* does move, before() is called first; the collection's does nothing.
Notify(w) ==
    /\ target = 0
    /\ w \in seen..Latest
    /\ Due(w) # {} \/ seen < w
    /\ IF "object" \in Due(w) /\ seen < w
       THEN /\ names' = Populated(w)
            /\ deleted' = FoundDeleted(w)
            /\ old' = Read(names', seen)
       ELSE UNCHANGED <<names, old, deleted>>
    /\ seen' = w
    /\ target' = IF Due(w) = {} THEN 0 ELSE w
    /\ due' = Due(w)
    /\ UNCHANGED <<file, told, initial, inside, copy, held, report>>

\* after() is called for o, on what changed up to the target.
Called(o) ==
    /\ o \in due
    /\ inside = "none"
    /\ due' = due \ {o}
    /\ told' = [told EXCEPT ![o] = target]

\* after() of the object's wrapper: a deletion, or the properties that changed
\* with their values now and, if before() was called, then.  A value that cannot
\* be read takes it to AfterObjectThrows.
AfterObject ==
    LET found == Populated(target)
        gone == FoundDeleted(target)
        now == Read(found, seen)
    IN  /\ Called("object")
        /\ ~ReadsDeleted
        /\ deleted' = gone
        /\ IF gone
           THEN /\ names' = found /\ UNCHANGED old
                /\ inside' = "object"
                /\ report' = [NoReport EXCEPT !.kind = "deleted"]
                /\ UNCHANGED copy
           ELSE IF found # {} /\ ~NothingChanged(told["object"], target)
           THEN /\ names' = found /\ UNCHANGED old
                /\ inside' = "object"
                /\ report' = [NoReport EXCEPT !.kind = "object", !.old = old, !.new = now]
                /\ copy' = [p \in Props |-> IF now[p] # NoValue THEN now[p] ELSE copy[p]]
           ELSE /\ names' = {} /\ old' = Unset
                /\ UNCHANGED <<inside, copy, report>>
        /\ UNCHANGED <<file, seen, initial, target, held>>

\* read_values() throws: after() is left with property_names set, nothing is
\* forwarded, and the exception goes to whoever moved the Realm.
AfterObjectThrows ==
    /\ "object" \in due
    /\ inside = "none"
    /\ ReadsDeleted
    /\ names' = Populated(target)
    /\ inside' = "exception"
    /\ UNCHANGED <<file, seen, told, initial, old, deleted, target, due, copy, held,
                   report>>

\* Fault: a change set with deletions is passed on without its insertions.
AfterCollectionDropsInsertions ==
    LET v == told["collection"]
    IN  /\ Called("collection")
        /\ initial' = FALSE
        /\ inside' = "collection"
        /\ report' = [NoReport EXCEPT !.kind = "collection"]
        /\ held' = IF Deletions(v, target) # {} THEN held \ Deletions(v, target)
                   ELSE held \cup Insertions(v, target)
        /\ UNCHANGED <<file, seen, names, old, deleted, target, copy>>

\* after() of the collection's wrapper, which core calls if something changed or
\* this is the initial notification.  A change set that only says that the root
\* was deleted is not passed on, nor is collection_root_was_deleted ever set.
AfterCollection ==
    LET dels == Deletions(told["collection"], target)
        ins == Insertions(told["collection"], target)
        root == RootDeleted(told["collection"], target)
        empty == dels \cup ins = {} /\ ~root
    IN  /\ Called("collection")
        /\ initial' = FALSE
        /\ IF IF empty THEN initial ELSE ~root \/ dels # {}
           THEN /\ inside' = "collection"
                /\ report' = [NoReport EXCEPT !.kind = "collection"]
                /\ held' = (held \ dels) \cup ins
           ELSE UNCHANGED <<inside, report, held>>
        /\ UNCHANGED <<file, seen, names, old, deleted, target, copy>>

\* Fault: property_names is not reset after a change was forwarded.
EndCallbackKeepsNames ==
    /\ inside \in Observers
    /\ old' = IF inside = "object" THEN Unset ELSE old
    /\ inside' = "none"
    /\ report' = NoReport
    /\ UNCHANGED <<file, seen, told, initial, names, deleted, target, due, copy, held>>

\* The callback returns, and the object's after() resets what before() left.
EndCallback ==
    /\ inside \in Observers
    /\ IF inside = "object"
       THEN names' = {} /\ old' = Unset
       ELSE UNCHANGED <<names, old>>
    /\ inside' = "none"
    /\ report' = NoReport
    /\ UNCHANGED <<file, seen, told, initial, deleted, target, due, copy, held>>

\* Every after() has returned.
EndNotify ==
    /\ target # 0
    /\ due = {}
    /\ inside = "none"
    /\ target' = 0
    /\ UNCHANGED <<file, seen, told, initial, names, old, deleted, due, inside, copy,
                   held, report>>

Next ==
    \/ ObserveObject \/ ObserveCollection
    \/ \E o \in Observers : Unregister(o)
    \/ WriteElsewhere \/ WriteHere
    \/ \E w \in seen..Latest : Notify(w)
    \/ AfterObject \/ AfterObjectThrows \/ AfterCollection
    \/ EndCallback \/ EndNotify

Spec == Init /\ [][Next]_vars

\* A commit wakes the scheduler's loop, which refreshes to the latest version;
\* the program may refresh to it, and to others, any number of times before.
Fairness ==
    /\ SF_vars(Notify(Latest))
    /\ WF_vars(AfterObject \/ AfterObjectThrows)
    /\ WF_vars(AfterCollection)
    /\ WF_vars(EndCallback)
    /\ WF_vars(EndNotify)

FairSpec == Spec /\ Fairness

-----------------------------------------------------------------------------
\* An observer that applies the changes it is told of has the object as it was in
\* the versions from the one it was told of to the one its Realm reads, and so
\* exactly what the Realm reads once it has been told of that (after()'s names
\* and new values), until it is told that the object is deleted: also when a
\* callback's write has moved the Realm past the versions after() is called for,
\* onto a deletion even.  It holds of the properties whose values are read at all.
ObjectCopyFollows ==
    told["object"] # 0 /\ file[told["object"]].alive =>
        \A p \in Readable : \E v \in told["object"]..seen : copy[p] = file[v].val[p]

\* The deletions and insertions passed on, over skipped versions, writes of the
\* observer's own and the deletion of the root, add up to the collection.
CollectionCopyFollows ==
    told["collection"] # 0 => held = file[told["collection"]].items

\* The old values that come with a change are those of one version, older than
\* the one the change leads to and not older than what was told before.
OldValuesArePrevious ==
    [][inside' = "object" /\ inside # "object" /\ report'.old # Unset =>
          \E v \in told["object"]..told'["object"] - 1 :
             \A n \in names' : report'.old[n] = Read(names', v)[n]]_vars

\* The observer of an object that anybody deletes, another thread or its own, in a
\* callback or outside, is called with is_deleted, unless it gives up its token.
\* The code keeps this but for one interleaving: with after() due for earlier
\* changes, another observer's callback writes and so moves the Realm past the
\* deletion.  after() then throws on reading the values, and only then.
DeletionIsReported ==
    (told["object"] # 0 /\ file[told["object"]].alive /\ ~file[Latest].alive)
        ~> \/ report.kind = "deleted"
           \/ told["object"] = 0
           \/ inside = "exception" /\ file[target].alive /\ target < seen

\* What observation.hpp says of collection_root_was_deleted: a collection whose
\* root is deleted is reported to its observer, as that, even if it was empty.
RootDeletionIsReported ==
    [][told["collection"] # 0 /\ told'["collection"] # 0
        /\ RootDeleted(told["collection"], told'["collection"])
            => report'.kind = "collection" /\ report'.root]_vars

\* What notifications.hpp says of new_value: a change of a property that is not a
\* collection comes with the property's new value.
NewValuesAreSupplied ==
    report.kind = "object" => \A p \in names \cap Props : report.new[p] # NoValue
=============================================================================
