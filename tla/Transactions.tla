---------------------------- MODULE Transactions ----------------------------
(***************************************************************************)
(* realm::db and its bridge (src/include/cpprealm/db.hpp,                  *)
(* src/src/cpprealm/internal/bridge/realm.cpp): opening, write             *)
(* transactions, refresh, freeze and thaw, invalidate and close, for       *)
(* several threads that open one file.                                     *)
(*                                                                         *)
(* realm-core is external.  What the code relies on is modelled: every     *)
(* live db of a thread shares that thread's one cached Realm, which reads  *)
(* the committed version at[t]; one Realm of the file is in a write        *)
(* transaction at a time, the others wait in begin_transaction(); freezing *)
(* a version twice gives the same frozen Realm; a Realm that is closed, or *)
(* dropped with its last db, gives up the write it is in.                  *)
(*                                                                         *)
(* A call that core refuses with an exception and that changes nothing is  *)
(* a step that is not taken, unless a caller's control depends on it.      *)
(***************************************************************************)
EXTENDS Naturals, Sequences, FiniteSets

CONSTANTS Threads, NoThread,
          Dbs,          \* db values, and managed objects that keep one alive
          Keys,         \* primary keys of one object type
          MaxVersion,   \* bound: committed versions of the file
          MaxDepth      \* bound: write() calls nested in one thread

ASSUME ConstantsAssumption ==
    /\ NoThread \notin Threads
    /\ IsFiniteSet(Threads)
    /\ MaxVersion \in Nat \ {0}
    /\ MaxDepth \in Nat \ {0}

VARIABLES
    store,    \* store[v]: the objects of committed version v
    db,       \* db[d]: the Realm the value d refers to
    at,       \* at[t]: version read by the live Realm of t; 0, no read begun
    writer,   \* the thread whose Realm is in a write transaction
    work,     \* the objects as the write transaction sees them
    pc,       \* whether a thread runs, or where it waits to begin a write
    functions,  \* functions[t]: functions of write() on the stack of t
    shut,     \* how many of them, the outermost, were given to a Realm closed since
    did       \* history: what functions made of each object in the transaction

vars == <<store, db, at, writer, work, pc, functions, shut, did>>
calls == <<pc, functions, shut>>

\* An object is "partial" from the moment its row is created, or found by its
\* primary key, until all its properties are set.
ObjectStates == {"absent", "partial", "whole"}
Objects == [Keys -> ObjectStates]
NoObjects == [k \in Keys |-> "absent"]
Nothing == [k \in Keys |-> "untouched"]

\* No db, or one that is closed: every call on that throws.
NoDb == [kind |-> "none", owner |-> NoThread, version |-> 0]
Live(t) == [kind |-> "live", owner |-> t, version |-> 0]
Frozen(v) == [kind |-> "frozen", owner |-> NoThread, version |-> v]

\* What a db value can refer to when the file has n versions.
DbValues(n) == {NoDb} \cup {Live(t) : t \in Threads}
                      \cup {Frozen(v) : v \in 1..n}

Latest == Len(store)
Used(d) == db[d] # NoDb
HasRealm(t) == \E d \in Dbs : db[d] = Live(t)

DepthsAgree == \A t \in Threads :
    /\ shut[t] <= functions[t]
    /\ pc[t] = "beginWrite" => functions[t] < MaxDepth

TypeOK ==
    /\ store \in Seq(Objects) /\ store # <<>>
    /\ db \in [Dbs -> DbValues(Latest)]
    /\ at \in [Threads -> 0..Latest]
    /\ writer \in Threads \cup {NoThread}
    /\ work \in Objects
    /\ pc \in [Threads -> {"runs", "begin", "beginWrite"}]
    /\ functions \in [Threads -> 0..MaxDepth]
    /\ shut \in [Threads -> 0..MaxDepth]
    /\ DepthsAgree
    /\ did \in [Keys -> ObjectStates \cup {"untouched"}]

Init ==
    /\ store = <<NoObjects>>
    /\ db = [d \in Dbs |-> NoDb]
    /\ at = [t \in Threads |-> 0]
    /\ writer = NoThread
    /\ work = NoObjects
    /\ pc = [t \in Threads |-> "runs"]
    /\ functions = [t \in Threads |-> 0]
    /\ shut = [t \in Threads |-> 0]
    /\ did = Nothing

-----------------------------------------------------------------------------
\* The thread runs the program's code, its own or the function of a write().
Runs(t) == pc[t] = "runs"
Uses(t, d) == Runs(t) /\ db[d] = Live(t)

\* get_shared_realm with config.cache: the thread's Realm if it has one, else a
\* new one on the latest version.
SharedRealm(t, d) ==
    /\ db' = [db EXCEPT ![d] = Live(t)]
    /\ at' = [at EXCEPT ![t] = IF HasRealm(t) THEN @ ELSE Latest]

\* The write transaction ends.
EndWrite ==
    /\ writer' = NoThread
    /\ work' = NoObjects
    /\ did' = Nothing

\* The Realm of t ends its read transaction, and gives up the write it is in.
Rollback(t) ==
    /\ at' = [at EXCEPT ![t] = 0]
    /\ IF writer = t THEN EndWrite ELSE UNCHANGED <<writer, work, did>>

\* db(config).
Open(t, d) ==
    /\ Runs(t)
    /\ ~Used(d)
    /\ SharedRealm(t, d)
    /\ UNCHANGED <<store, writer, work, calls, did>>

\* A db value is destroyed; the last of a live Realm takes the Realm with it.
\* The innermost function of write() has the db it was called on alive, unless
\* that was closed.
Drop(t, d) ==
    LET last == \A e \in Dbs \ {d} : db[e] # Live(t)
    IN  /\ Runs(t)
        /\ Used(d)
        /\ db[d].owner \in {t, NoThread}
        /\ db[d] = Live(t) /\ last => shut[t] = functions[t]
        /\ db' = [db EXCEPT ![d] = NoDb]
        /\ IF db[d] = Live(t) /\ last
           THEN Rollback(t)
           ELSE UNCHANGED <<at, writer, work, did>>
        /\ UNCHANGED <<store, calls>>

\* Fault: closing the Realm leaves its write lock held.
CloseKeepsLock(t, d) ==
    /\ Uses(t, d)
    /\ db' = [e \in Dbs |-> IF db[e] = Live(t) THEN NoDb ELSE db[e]]
    /\ at' = [at EXCEPT ![t] = 0]
    /\ shut' = [shut EXCEPT ![t] = functions[t]]
    /\ UNCHANGED <<store, writer, work, pc, functions, did>>

\* close(): every db that shares the Realm is closed with it.
Close(t, d) ==
    /\ Runs(t)
    /\ db[d].kind = "frozen" \/ Uses(t, d)
    /\ db' = [e \in Dbs |-> IF db[e] = db[d] THEN NoDb ELSE db[e]]
    /\ IF Uses(t, d)
       THEN /\ Rollback(t)
            /\ shut' = [shut EXCEPT ![t] = functions[t]]
       ELSE UNCHANGED <<at, writer, work, did, shut>>
    /\ UNCHANGED <<store, pc, functions>>

\* invalidate(): the read transaction ends, and the write with it.
Invalidate(t, d) ==
    /\ Uses(t, d)
    /\ Rollback(t)
    /\ UNCHANGED <<store, db, calls>>

\* Any access begins a read transaction if there is none.
Read(t, d) ==
    /\ Uses(t, d)
    /\ at[t] = 0
    /\ at' = [at EXCEPT ![t] = Latest]
    /\ UNCHANGED <<store, db, writer, work, calls, did>>

\* refresh(), or the automatic refresh of a Realm with a scheduler: to the
\* latest version, except in a write transaction.
Refresh(t, d) ==
    /\ Uses(t, d)
    /\ writer # t
    /\ at[t] # Latest
    /\ at' = [at EXCEPT ![t] = Latest]
    /\ UNCHANGED <<store, db, writer, work, calls, did>>

\* Fault: freezing a Realm that has not begun to read begins no read.
FreezeUnread(t, d, e) ==
    /\ Runs(t)
    /\ ~Used(e)
    /\ db[d] = Live(t) /\ writer # t
    /\ db' = [db EXCEPT ![e] = Frozen(at[t])]
    /\ UNCHANGED <<store, at, writer, work, calls, did>>

\* freeze(): a Realm that reads this version and no other; a frozen one is
\* returned as it is.  A Realm in a write transaction is refused.
Freeze(t, d, e) ==
    /\ Runs(t)
    /\ ~Used(e)
    /\ \/ /\ db[d] = Live(t)
          /\ writer # t
          /\ LET v == IF at[t] = 0 THEN Latest ELSE at[t]
             IN  /\ at' = [at EXCEPT ![t] = v]
                 /\ db' = [db EXCEPT ![e] = Frozen(v)]
       \/ /\ db[d].kind = "frozen"
          /\ db' = [db EXCEPT ![e] = db[d]]
          /\ UNCHANGED at
    /\ UNCHANGED <<store, writer, work, calls, did>>

\* Fault: thaw() brings the thread's Realm to the version that was frozen.
ThawRewinds(t, d, e) ==
    /\ Runs(t)
    /\ ~Used(e)
    /\ db[d].kind = "frozen"
    /\ db' = [db EXCEPT ![e] = Live(t)]
    /\ at' = [at EXCEPT ![t] = db[d].version]
    /\ UNCHANGED <<store, writer, work, calls, did>>

\* thaw(): the configuration is opened again, cached, with a scheduler of the
\* calling thread; the frozen version plays no part.  A live one is returned
\* as it is.
Thaw(t, d, e) ==
    /\ Runs(t)
    /\ ~Used(e)
    /\ db[d].kind = "frozen" \/ db[d] = Live(t)
    /\ SharedRealm(t, e)
    /\ UNCHANGED <<store, writer, work, calls, did>>

-----------------------------------------------------------------------------
\* Bound: there is a version left for every transaction begun.
RoomForAnother ==
    Cardinality({u \in Threads : pc[u] \in {"begin", "beginWrite"} \/ writer = u})
        < MaxVersion - Latest

\* Fault: a begin_write() or write() in a transaction joins it.
BeginJoins(t, d, call) ==
    /\ Uses(t, d)
    /\ call = "beginWrite" => functions[t] < MaxDepth
    /\ IF writer = t
       THEN /\ call = "beginWrite"
            /\ functions' = [functions EXCEPT ![t] = @ + 1]
            /\ UNCHANGED pc
       ELSE /\ RoomForAnother
            /\ pc' = [pc EXCEPT ![t] = call]
            /\ UNCHANGED functions
    /\ UNCHANGED <<store, db, at, writer, work, shut, did>>

\* begin_write() or write() is called outside a transaction and goes to wait for
\* its turn; a function that has ended its own may do so too.  Inside a
\* transaction it throws.
Begin(t, d, call) ==
    /\ Uses(t, d)
    /\ writer # t
    /\ RoomForAnother
    /\ call = "beginWrite" => functions[t] < MaxDepth
    /\ pc' = [pc EXCEPT ![t] = call]
    /\ UNCHANGED <<store, db, at, writer, work, functions, shut, did>>

\* begin_transaction() returns, and write() calls its function.
Begun(t) ==
    /\ pc' = [pc EXCEPT ![t] = "runs"]
    /\ functions' = [functions EXCEPT ![t] = IF pc[t] = "begin" THEN @ ELSE @ + 1]
    /\ did' = Nothing

\* Fault: the transaction starts on the version the Realm was reading.
AcquireStale(t) ==
    /\ ~Runs(t)
    /\ writer = NoThread
    /\ writer' = t
    /\ at' = [at EXCEPT ![t] = IF @ = 0 THEN Latest ELSE @]
    /\ work' = store[at'[t]]
    /\ Begun(t)
    /\ UNCHANGED <<store, db, shut>>

\* begin_transaction() gets the lock and moves the Realm to the latest version.
Acquire(t) ==
    /\ ~Runs(t)
    /\ writer = NoThread
    /\ writer' = t
    /\ at' = [at EXCEPT ![t] = Latest]
    /\ work' = store[Latest]
    /\ Begun(t)
    /\ UNCHANGED <<store, db, shut>>

\* Object k becomes x in the transaction of t, by a function of write() or by
\* code between begin_write() and commit_write().
Put(t, k, x) ==
    /\ work' = [work EXCEPT ![k] = x]
    /\ did' = IF functions[t] > 0 THEN [did EXCEPT ![k] = x] ELSE did
    /\ UNCHANGED <<store, db, at, writer, calls>>

\* add() and insert(): the row is created, or found by its primary key, then
\* each property is set.  When setting one throws, the row stays as far as it
\* got.  The caller may catch the exception and go on, or let it out (Throw).
Add(t, d, k) ==
    /\ Uses(t, d)
    /\ writer = t
    /\ \E made \in {"partial", "whole"} : Put(t, k, made)

Remove(t, d, k) ==
    /\ Uses(t, d)
    /\ writer = t
    /\ work[k] # "absent"
    /\ Put(t, k, "absent")

CommitTransaction(t) ==
    /\ store' = Append(store, work)
    /\ at' = [at EXCEPT ![t] = Latest + 1]
    /\ EndWrite

\* commit_write().
Commit(t, d) ==
    /\ Uses(t, d)
    /\ writer = t
    /\ CommitTransaction(t)
    /\ UNCHANGED <<db, calls>>

\* The innermost function of write() on the stack of t ends.
FunctionEnds(t) ==
    /\ Runs(t)
    /\ functions[t] > 0
    /\ functions' = [functions EXCEPT ![t] = @ - 1]
    /\ shut' = [shut EXCEPT ![t] = IF @ = functions[t] THEN @ - 1 ELSE @]
    /\ UNCHANGED <<db, pc>>

\* What it did is forgotten if an exception takes it out of every function.
Abandoned(t) ==
    /\ did' = IF writer = t /\ functions[t] = 1 THEN Nothing ELSE did
    /\ UNCHANGED <<store, at, writer, work>>

\* The function of write() returns, and write() commits.  If the Realm is in no
\* transaction any more, or closed, commit_transaction() throws.
Return(t) ==
    /\ FunctionEnds(t)
    /\ IF writer = t /\ shut[t] < functions[t]
       THEN CommitTransaction(t)
       ELSE Abandoned(t)

\* The function of write() throws: nothing in write() ends the transaction.
Throw(t) == FunctionEnds(t) /\ Abandoned(t)

\* The program may stop while no call is in progress.
Quiet ==
    /\ \A t \in Threads : Runs(t) /\ functions[t] = 0
    /\ UNCHANGED vars

OnDb(t, d) ==
    \/ Open(t, d) \/ Drop(t, d) \/ Close(t, d) \/ Invalidate(t, d)
    \/ Read(t, d) \/ Refresh(t, d) \/ Commit(t, d)
    \/ \E e \in Dbs : Freeze(t, d, e) \/ Thaw(t, d, e)
    \/ \E call \in {"begin", "beginWrite"} : Begin(t, d, call)
    \/ \E k \in Keys : Add(t, d, k) \/ Remove(t, d, k)

Next ==
    \/ \E t \in Threads :
          \/ \E d \in Dbs : OnDb(t, d)
          \/ Acquire(t) \/ Return(t) \/ Throw(t)
    \/ Quiet

\* A function given to write() ends, by returning or throwing, and the file's
\* lock is granted to whoever keeps waiting for it.  Nothing makes a program
\* commit what it began with begin_write() or abandoned by an exception.
Fairness == \A t \in Threads :
    /\ WF_vars(Return(t) \/ Throw(t))
    /\ SF_vars(Acquire(t))

Spec == Init /\ [][Next]_vars
FairSpec == Spec /\ Fairness

-----------------------------------------------------------------------------
\* Every write builds on the latest version, whatever the Realm was reading
\* before and whatever is refreshed, frozen or thawed meanwhile: no committed
\* change is lost.
WriterOnLatest == writer # NoThread => at[writer] = Latest

\* The write lock is never orphaned: the thread that has it has a live db to
\* commit or close, or the function of write() still to end.
LockIsReleasable == writer # NoThread => HasRealm(writer)

\* The latest version with what functions did in the open transaction.
LatestWithDone ==
    [k \in Keys |-> IF did[k] = "untouched" THEN store[Latest][k] ELSE did[k]]

\* What write() commits is the latest version with what was done under its
\* function and nothing else: no change of another thread is undone, and nothing
\* is carried along that an earlier write() left when its function threw, or that
\* was done after a begin_write().  All that the function did is in it, a
\* half-made object too whose exception the function caught.
WritesCommitTheirWork == [][
    \A t \in Threads : store' # store /\ functions'[t] < functions[t] =>
        store'[Latest'] = LatestWithDone
    ]_vars

\* While a thread keeps its Realm open and reading, what it reads never goes
\* back to an older version, through whichever of its dbs.
MonotonicReads == [][
    \A t \in Threads : HasRealm(t) /\ HasRealm(t)' /\ at'[t] # 0 => at[t] <= at'[t]
    ]_vars

\* A thread waits for ever to begin a write only behind a transaction that was
\* abandoned: begun by begin_write() and not committed, or left open by a
\* write() whose function threw.
WaitsOnlyForAbandoned == \A t \in Threads :
    \/ []<>(pc[t] \notin {"begin", "beginWrite"})
    \/ <>[](\E u \in Threads \ {t} : writer = u /\ HasRealm(u) /\ functions[u] = 0)
=============================================================================
