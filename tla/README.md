# TLA+ models of the Realm C++ SDK

Models, model-checking configurations and proofs for realm-cpp, the C++ SDK of
Realm. They describe the code under `src/` and `include/` of the repository.
The storage engine, realm-core, is a submodule the SDK is a layer over: it is
not modelled for itself, only as far as the code relies on it, and each
definition that stands for it is marked external in `PROJECT.json`.

Run everything from this directory:

    tlc -workers 2 -config UvScheduler.cfg MCUvScheduler      # a run
    tlapm UvSchedulerProofs.tla                               # its proofs

`PROJECT.json` lists the components, the runs, where in the source each
definition comes from, what would break each property, the hazards of the code
and the theorems.

## The system

| Component | State | Operations | Interacts with |
|---|---|---|---|
| Scheduler (`schedulers/default_scheduler.cpp`, `scheduler.hpp`) | a queue under a mutex, a `uv_async_t` and its data, the `shared_ptr` that owns them | create, `invoke`, the loop's callback, destroy | libuv; core calls `invoke` from any thread |
| Scheduler adapters (`internal/scheduler`) | a scheduler of the other side; one raw function pointer | delegate | core, scheduler |
| Database (`db.hpp`, `internal/bridge/realm.cpp`) | a `shared_ptr` to the thread's Realm | open, refresh, begin / commit / `write`, add / remove, freeze / thaw, invalidate, close | core's coordinator, file lock, schedulers |
| Change notifications (`observation.hpp`, `notifications.hpp`, `managed::observe`) | names, old values, deletion flag between `before` and `after`; tokens | observe, unregister, `before`, `after` | core's notifiers, user callbacks, database |
| Results (`results.hpp`) | a core `Results` | filter, sort, iterate, observe, freeze / thaw | queries, database |
| Type-safe queries (`rbool.hpp`, `internal/bridge/query.cpp`) | a query under construction | comparisons, links, `&&`, `\|\|`, `!` | managed types, results |
| Managed collections (`managed_list/set/dictionary.hpp`) | an object and a column | the operations of list, set and map | database, notifications |
| Managed scalars, links, accessors | an object and a column | get, set, detach | database |
| HTTP transport (`network_transport.cpp`, `http.hpp`, `shims.cpp`) | a socket, a `Service` on the stack, one completion block | connect, tunnel, handshake, exchange | app (core), proxy, server |
| WebSocket shims (`websocket.*`, `shims.cpp`) | one-shot handlers as raw pointers | write, timer, post, observer events | core's sync client, user code |
| App and user (`app.cpp`) | core's `App` and `User`; promises | log in, register, call function, log out | HTTP transport |
| Flexible sync (`flex_sync.cpp`) | a subscription set, a mutable copy | add, update, remove, `update` | database, sync session |
| Sync session, async open, client reset | a weak pointer; promises and callbacks | wait, pause, resume, reconnect | core's sync client |
| Thread-safe references | a core reference, to be resolved once | create, resolve | database |
| Bridge value types, BSON, schema, type information | values | conversions | everything |
| Logger, analytics | none that others read | - | - |

What is hard in them, and hard to test: pushes, coalescing wake-ups, swaps and
destruction of the scheduler on different threads; several `db` values that
share one Realm per thread, and threads that share one file; exceptions in the
middle of a `write`; callbacks in two halves between which the Realm moves,
which may be skipped over versions, and from inside which the program writes
again; one-shot handlers kept as raw pointers; a transport that runs an event
loop on its caller's stack, and may be re-entered. `PROJECT.json` lists these as
hazards, each at its line.

What makes each component correct: the scheduler runs every function once and
in order, and is reclaimed; a write is built on the latest version, commits what
its function did and no more, is releasable, and reads do not go back; the notifications suffice to follow what
is observed; a request goes over what it should and completes once; what is
imported comes back, in one row per key and one owner per embedded object; a
query selects what its expression says, which is what the expression says of
each object; every future, callback and handler is answered once and truthfully;
a handle of the bridge behaves as the value it looks like.

## The modules

    SerialExecutor  <--implemented by--  UvScheduler     <-- UvSchedulerProofs
    OneShotCall     <--implemented by--  HttpTransport   <-- HttpTransportProofs
                                         Transactions    <-- TransactionsProofs
                                         Observation     <-- ObservationProofs
    ObjectStore <-- Accessors <-- Objects               <-- ObjectsProofs
                                  Objects <-- Detaching
    ManagedTypes <-- Queries <-- Results                <-- ResultsProofs
    Requests <-- Sessions <-- Subscriptions \
                                    Sockets  <-- Sync   <-- SyncProofs
    BridgeClasses <-- Handles                           <-- HandlesProofs

In the last five lines an arrow is EXTENDS. `MC<module>` instantiates a module
for TLC. A definition whose comment begins
with *Fault:* is not part of the specification: it is a form of the definition
after it with a plausible mistake, and `PROJECT.json` says which property is
violated when it takes that definition's place.

### UvScheduler, SerialExecutor

`SerialExecutor` is what `realm::scheduler` promises: functions accepted from
any thread run one at a time, once, in order, until the scheduler is shut down.
`UvScheduler` is `uv_scheduler` and `invocation_queue`:

| Code | Model |
|---|---|
| `m_functions` | `queue[s]` |
| the local `functions` of `invoke_all`, the one running | `batch`, `running` |
| wake-up flag in the `uv_async_t` (libuv) | `pending[s]` |
| `close_requested`, life of handle and data | `handle[s]` |
| owners of the `shared_ptr<scheduler>` | `holders[s]` |
| `invoke`: push, then `uv_async_send` | `Push`, `Signal` |
| destructor: `close_requested`, then `uv_async_send` | `Release`, `Signal` |
| callback: test of `close_requested` | `Wake` or `CloseHandle` |
| `invoke_all`: swap, then the loop over the batch | `Swap`, `Enter`, `Leave` |

`pushed` and `done` are histories. `uv_close` and its callback are one step,
`CloseHandle`: libuv calls no other callback of a closing handle, and a send on
it between the two has no effect. The loop dispatches in any order among the
handles signalled. A function may do on the loop's thread all that a thread may
do, including letting go of the scheduler it runs on. A signal sent to a handle
that was deleted is undefined behaviour; the outcome modelled is that nothing is
signalled, and a run of its own shows that it can happen.

Checked (`uv_scheduler`; two threads, of which one runs the loop, two
schedulers, three functions): `RunsInPushOrder` relates the queue, the batch and
the history; `WakeupOnTheWay` is the invariant that makes lost wake-ups
impossible; `InvokeSeesLiveHandle` is about the life of handle and data;
`InvokedFunctionsRun` and `HandleReclaimed` say that functions run and handles
are deleted in the end; `ImplementsExecutor` is the refinement. Two schedulers
are needed for dispatch in either order and for functions that invoke on
another scheduler, three functions for a batch of two with a third pushed while
the first runs.

Fairness: the loop's own steps and the second half of a call are weakly fair (a
thread that has begun a call goes on, a function that was entered returns).
`Wake` and `CloseHandle` are strongly fair, for each scheduler: they are disabled
while the loop serves another handle, and libuv serves every signalled handle in
an iteration. Nothing obliges a thread to invoke or to let go.

`uv_scheduler_destructor` expects a violation: the destructor stores
`close_requested` before it signals, so that a loop already woken by an earlier
`invoke` deletes the handle first, and the signal goes to freed memory.

### Transactions

`db.hpp` and the bridge of the Realm, for several threads and one file.
`store[v]` is committed version v, `db[d]` what a `db` value (or a managed
object, which holds one) refers to, `at[t]` the version the one cached Realm of
thread t reads (0: no read transaction), `writer` and `work` the write
transaction, `pc[t]` whether t runs or waits in `begin_transaction`,
`functions[t]` how many functions given to `write` are on its stack and
`shut[t]` how many of them have had their Realm closed since. An object is
`partial` from the creation of its row (or its being found by primary key) until
its last property is set. `did` is a history: what functions of `write` made of
each object in the open transaction.

Every `db` value of a thread shares its Realm: closing one closes all, and
`refresh` through one moves the others. `write` has no cancel, so that `Throw`
ends only the function and leaves the transaction open. A function may commit,
close or invalidate under `write`'s feet, begin another transaction after that,
and so nest `write` calls. `Add` may stop with the object `partial`: when a
setter throws, the caller may catch the exception and go on, and `write` then
commits the half-made object, or let it out. `Thaw` opens the configuration
again: it gives the thread's Realm at the version it reads, not at the frozen
one. Calls that core refuses, and that change nothing, are steps not taken.

Checked (`transactions`; two threads, three `db` values, one key, three
versions, `write` nested twice): `WriterOnLatest` (no lost update),
`LockIsReleasable`, `WritesCommitTheirWork`, `MonotonicReads`, and the liveness
`WaitsOnlyForAbandoned`: a thread waits for ever only behind a transaction
somebody began and left. `WritesCommitTheirWork` compares the version that
`write` commits with the latest one and the history: it has all that the
functions did, half-made objects that they put up with included, and nothing
else, in particular nothing that an exception abandoned in an earlier `write`,
whose transaction stays open. It does not promise that objects are whole: the
code does not. Three
`db` values let one thread have two that share a Realm, or a live and a frozen
one, while another thread has its own; three versions let a transaction be built
on the result of another while somebody reads an older one.

Fairness: a function given to `write` ends (`Return` or `Throw`, weakly), and
whoever keeps waiting for the file's lock gets it (`Acquire`, strongly; each
grant disables the others). Nothing makes a program commit.

### HttpTransport, OneShotCall

`default_http_transport::send_request_to_server` and the shim that hands it
core's completion block as a raw pointer. `OneShotCall` is what that shim relies
on: the block is run once before the call returns, or never if the call throws.
`phase[r]` follows the code: `connect` (all of the `try`), `tunnel`, `post`
(set-up, then the posted function), `handshake`, `exchange`, `completing` (in
the block), then where the block was entered from says whether the call drains
and returns or is `stuck` in `run_until_stopped`. `stack[t]` holds the nested
calls of a thread, since a completion block may send the next request. Methods,
headers and bodies are left out. Assumed: completion blocks do not throw, and no
`ssl_verify_callback` is configured, which line 233 would set on a stream that
line 237 has yet to make (undefined).

Checked (`http_transport`; two threads, two requests, each http or https, direct
or through a proxy): `SentOnlyWhenSecured`, `HangsOnlyOnPeer` and the refinement. A call
left `stuck` by a proxy that refuses is one the peer keeps, for
`HangsOnlyOnPeer`; only the documented timeout would end it. Two requests are enough for one to be nested in the other or to
run beside it. Deadlock is not checked because the system really may stop: a
peer may be silent. Fairness is on the local steps only, the connection with
them, which the operating system bounds; none is assumed of proxy and server.

`http_timeout` expects a violation: `timeout_ms` is documented to bound the
round trip, and nothing reads it.

### Observation

The two callback wrappers of `observation.hpp`, on an object and on a list or
set it is the root of, in one observing thread. `file[v]` is the object in
version v with the columns that v wrote; `seen` the version the observing Realm
reads; `told[o]` the version observer o was told of. `names`, `old` and
`deleted` are the wrapper's members. The observer's copies, `copy` and `held`,
are changed by nothing but what its callbacks are given.

`Notify` is core's delivery up to the call of `before`, `AfterObject` and
`AfterCollection` the calls of `after` up to the user's callback, `EndCallback`
its return with the resets that follow it. Inside a callback the program may
write, delete the object, unregister tokens and observe again. A write there,
of the object or of anything else, moves the Realm to the latest version,
whatever others wrote before, and notifies nobody (core does not nest
deliveries); a write outside is preceded by a delivery. If the object is gone
from the version that a callback's write moved to, an `after` still due for
earlier changes throws on reading it (`AfterObjectThrows`; that core refuses to
read a removed object is external). The exception leaves `property_names` set
and goes to whoever moved the Realm: out of the event loop, or to the caller of
`refresh` or `begin_write`. What the observing thread does with it is not
followed: in the model it takes no more steps. A program that caught it would go
on with names that hide the deletion from the next `after`. `Readable` is `property_value_for_name`: the properties whose value
it finds. The constructor's `ignoreChangesInInitialNotification` is false at
every use, so core's initial notification may carry changes. Modifications of
elements and indices are left out: a collection is the set of what it holds. The
`error` path, which core never takes once a Realm is open, is left out.

Checked (`observation`; two scalar properties, a collection of up to two items, three versions):
`ObjectCopyFollows` and `CollectionCopyFollows` say that what the callbacks tell
is enough to follow the object and the collection, over skipped versions and own
writes; `OldValuesArePrevious` that old values are those of one older version;
`DeletionIsReported` that a deletion, by whomever and from wherever, is reported
or takes an `after` down in the way just described, and in no other. Three versions are one to be
told of, one to skip or to write in a callback, and one to be told of next.
Deadlock is not checked because the run stops at the last version with the
object deleted. Fairness: the steps of a delivery are weakly fair; delivery of
the latest version is strongly fair, since a commit posts a refresh to the
observing thread's loop, and the program's own activity only delays it.

`observation_root` and `observation_values` expect violations: the deletion of a
collection's root is never reported as that, and a property declared after a
collection has neither old nor new value reported.

### ObjectStore, Accessors, Objects, Detaching

What the SDK writes when a C++ object is added, linked, pushed, inserted or
upserted, and what `detach` reads back. A store is a record of `rows`, the `next`
key of each table and `ok`, false once a call has thrown; rows are named
`<<class, key>>`, since a key means nothing without its class. Unmanaged objects
live in the constant `Heap`, so that pointers may be shared or null.

| Code | Model |
|---|---|
| `accessor<T>::set` of each property type | `Accessor`, by the property's kind |
| the `std::apply` over the schema | `Import`, which stops at the first exception |
| a row by primary key, or a new one | `RowFor` |
| the link or element written before or after the import | `AttachFirst`, `AttachLast` |
| `db::add`, `insert`, `remove` | `Add`, `InsertAll`, `RemoveObject` |
| assignment, lists, sets, maps and their boxes | an action per operation and argument |
| iterators into a set | `it`: an index, as in the code |
| `detach` | `DetachAs`, with the reads under way in `path` |

The code recurses: to set a link it makes the other object's row and sets that
one's properties. A call under way is therefore a pair `[s, todo]`, the store and
what is left to do, in the order in which the recursion would do it: copy a
member of an unmanaged object to its column, make the next element of a list,
set or dictionary, put the key of an element that is now complete. `Step` does
the first of these, and puts what that calls for in front of the rest; `Run`
does so until nothing is left. A call is one action: `Run` is in the action, and
no other action sees a store half way, except after an exception.

What core does with a row that goes is external: `CoreRemove` clears the
references of the rows that have one to it, and `Sweep` removes embedded objects
without an owner; a column of embedded objects that lets a key go sweeps at once.
Operations that change nothing (`size`, `operator[]`, the other iterators) are
left out.

Checked (`objects`; three calls on people with a primary key, dogs without one
and embedded addresses, with a property of every kind; the pointers include an
object met twice, two objects with one key, cycles through a key and null
elements): `GraphIsSound` (references are live, embedded objects have exactly
one owner, also after a call that threw half way), `OneRowPerKey`,
`AddedIsDetached` (what is added comes back equal), `OnlyNamedRowsChange` (a call
writes the row it is made on, rows it makes and rows named by keys in its
argument) and `IteratorDenotes`. Three calls are an object, another that shares
or contradicts it, and a change to either.

What is excepted in the statements, or visible in the definitions, because the
code does it: a list of booleans is appended to and one of mixed values inserted
in front of when an object is added again (`SetListValues`); a null link is not
detached to null (`DetachLink`); assigning a managed link stores the key of the
object that other link belongs to (`LinkAssignLink`); `it++` does not advance
(`IteratorPostfixNext`); a null element makes a list of embedded objects throw at
the next one.

### ManagedTypes, Queries, Results

Each comparison operator of a managed type has two uses: on an object it
compares, on the placeholder of a query it calls a method of `rbool`, which
builds a query. `ManagedTypes` says for each type and operator which comparison
either use makes. `Queries` builds the query: `core` holds the core queries, each
known by the rows it matches; a `bridge::query` is an index into it, copied or
shared as the build has it; `root` is the query of the one rbool that all
comparisons of a clause go to, `chain` and `entry` the links and dictionary entry
followed so far, `operands` the rbools the clause has made. `Compare`, `And`,
`Or`, `Not`, `ArrowLink` and `ArrowEntry` do what the operators do to the queries
they are called on, and keep beside it what the expression says (`means`) and
what it comes to on each object (`plain`). `Results` turns a finished clause into
a collection that is sorted, frozen, thawed, indexed and iterated over while rows
are removed.

Checked (`queries`; clauses of up to four operands over three people and two
dogs, in both builds): `QueryMeansExpression` (the query selects what the
expression says), `ClauseAgreesWithObjects` (and that is what the expression
says of each object), `LoopsSeeEachOnce` (a loop meets nothing twice, and in
order, as long as nothing moves what it runs over). Four operands allow two comparisons
combined and then negated, or three comparisons and an operator. One value above
and one below each operand, and a null, tell the comparisons apart.

The statements name the faults they except (`QueryFaults`, `PlainFaults`):
`<` of an enum builds `>`; comparing with a managed link compares with the key
of the object that holds the link; comparing a link behind another with null
for equality builds `!=`; a comparison through a dictionary entry is a query
over the other table; `!=` of links tells whether the left one is not null;
`||` of plain booleans is `&&`; an order of optional values of which one is null
answers where the query does not match. A comparison of links or of mixed values
adds its condition to whatever the root's query has become, so that what follows
one is about the whole clause if the clause has nothing but conjunctions, and is
not otherwise (`SoundlyBuilt`): in `(b && c)` where `c` is a negation, `&&`
narrows the query of `b`, and the next such comparison is added to that. An
operand changed by an operator is not used again. Iteration past the end of results
that shrank ends the program.

### Requests, Sessions, Subscriptions, Sockets, Sync

The Device Sync side. `Requests` is `app.cpp`: an operation hands core a
completion that settles a promise or calls back; `Sees` is what each of them
makes of core's answer. The HTTP client may be the caller's, which may drop the
block it was given: the completion in it is a raw pointer, and leaks. `Sessions`
is the session behind an open database, held by a weak pointer: waits, pausing,
connection observers, client reset. `Subscriptions` is `flex_sync.cpp`: `sets[v]`
the committed sets, `handle[h]` the version a handle shows, `updates` the futures
of `update()`. `Sockets` is the shims between core and a socket provider, in both
directions, with endpoints that become a URL on the way, and handlers of posts,
timers and writes that cross as raw pointers and are run by `loop`. `Sync` puts
them together: a log-out stops the session, a session that stops answers the
waits and the updates on it. To keep the products apart a behaviour exercises
one `scope` of operations, from a state in which the others have done their part.

Checked (`sync`): `AnswersAreTrue` and the liveness `EveryCallIsAnswered` over all
of them; `NothingLostByFreshHandle`: an update through a handle that is up to
date loses nothing, while one through a handle taken while an update was pending
does (the constructor takes the active set); `ConnectsWhereAsked`: the endpoint
core asked for is the one the socket is made for, apart from the proxy's address,
which the URL does not carry, and the proxy's credentials, which custom headers
replace. Five operations are enough to open, take two handles and update through
both, or to wait, stop and open again; two sessions for one that a handle has
lost.

Fairness: core answers what it was asked and a server that is connected decides
about the sets it was sent (weakly); the event loop runs. A session that is
paused for good answers nothing, and the property says so. Nothing makes a
custom HTTP client answer.

### BridgeClasses, Handles

Each class of the bridge hides a core object, inside the handle or behind a
`shared_ptr` by the build. `BridgeClasses` gives for 34 classes and both builds
what copy and move construction and assignment do, and what `==` compares;
`Handles` is a program with a few variables of one class: `heap` and `at` are the
core objects and where each handle's is, `owned` the bytes a mixed keeps, `means`
the value the program should have, `alias` how it changed without the handle.

Checked (`handles`; three variables, four places, each class in both builds):
`TypeOK` is the ownership (nothing is deleted twice, leaked or held after
deletion); `HandlesActAsValues` that a handle denotes what was put in it, compares
as that, and gives up its subscription or pinned version when moved from. Three
variables are a copy, its source and a copy of the copy; the fourth place is for
assignments that make the new object before the old one goes. Symmetry in the
variables is sound: they are only compared, and no liveness is checked.

The exceptions are named by definitions: `Spoiled` (copies of `index_iterator` and
`table_view`, self-assignment of `binary`, `object_schema` from its parts: one
build each or both), `Aliased` (a shared build's copy of a mutable object is the
same object; configurations share their sync part in both), `ComparedWrongly`
(decimals by bits, schemas by name, error categories by address) and `KeptByMove`
(a moved-from reference keeps its version).

## Bounds

`MaxVersion` caps the versions of the file in `Transactions` (where
`RoomForAnother` keeps a version for each transaction begun) and `Observation`,
`MaxDepth` the `write` calls nested in one thread: two, the inner one begun after
the outer's function has ended its transaction.
`Fns`, `Schedulers`, `Requests`, `Calls` and `Waits` are identities used once
each. `MaxOps` caps the calls of a program in `Objects` and `Sync`, `MaxSteps` the steps
of a call in `Objects` (`StepsAssumption` says that it is enough to add any object
of the heap, and a call that would need more is not taken), `MaxKeys` and
`MaxLen` the rows and lists of `Objects`, `MaxOperands` the rbools of a clause,
`MaxSessions`, `MaxVersions`, `MaxSockets` and `MaxHandlers` what `Sync` may make.
A setter of a configuration in `Handles` sets one value. Symmetry is used only in
`handles`; most other runs check liveness or have no interchangeable values.

## Proofs

The theorems hold for every value of the constants, under the assumptions each
module states about them.

* `UvSchedulerProofs`: the invariant adds to the checked ones `CallsInv` (a holder
  keeps the handle open, a call still to be signalled is of a holder or closes
  the handle, a closed handle's queue is empty) and `LoopInv` (what the loop
  holds at each point of serving a handle). Proved: `TypeOK`, `RunsInPushOrder`,
  `WakeupOnTheWay`, `InvokeSeesLiveHandle`, and that every step is a step of
  `SerialExecutor` or a stutter.
* `TransactionsProofs`: `InRealm` (a thread that is in a transaction or waits for
  one has a live Realm) and `WorkIsTheirs` (while a function of `write` is on the
  writer's stack, the transaction is the latest version with what functions did)
  make `WriterOnLatest` and `LockIsReleasable` inductive and give
  `WritesCommitTheirWork` and `MonotonicReads`.
* `HttpTransportProofs`: `RunsInv` (how often the block has run at each point) and
  `LinkInv` (what is set up at each point) give `TypeOK`, `SentOnlyWhenSecured` and
  the refinement of `OneShotCall`.
* `ObservationProofs`: `FileInv` (a property changes only in versions that say so,
  a deletion is last), `DeliveryInv` (a delivery leads its observers forward) and
  `NamesInv` (what `before` left for `after`: the names of exactly what changed
  and values of one earlier version, or nothing) make `ObjectCopyFollows` and
  `CollectionCopyFollows` inductive, and give `OldValuesArePrevious`.
  `NamesInv` is the one a reader would not guess: without it a second `after`
  could use names or values left over from another delivery. Deletions by the
  observer and the `after` that throws are steps like the others.

* `SyncProofs`: an invariant for each part (requests, sessions, sets and updates,
  sockets and handlers), each kept by the steps of its part, then composed.
  `SetsInv` says that some complete set is the latest one, which makes `Active`
  well defined without an induction; `UpdatesInv` ties what the future of an
  `update()` was told to the state of its set, and what the program saw to what it
  was told; `HandlersInv` that a handler run by the event loop is one that was
  handed over and not run before; `UserOfSession` that a user who is not logged in
  has no active session. `NothingLostByFreshHandle` needs no strengthening but an
  account of what the function given to `update` does to a set, for functions of
  any length: each edit leaves the subscriptions it does not name, by induction
  on the edits. Proved: `TypeOK`, `AnswersAreTrue`, `ConnectsWhereAsked`,
  `NothingLostByFreshHandle`.
* `HandlesProofs`: `ClassesAreWellMade` reads from the table of classes that an
  object inside its handle is never pointed to by another, and a shared one never
  overwritten or drained; each special member then keeps `Sound` (every object
  exists and has one owner, or a count), for any number of handles and more places
  than handles, so that a new object finds a free place (the pigeonhole principle).
  `FitsInv` adds that a mixed that may be read owns the bytes it views and that a
  readable configuration is one. `ActsInv` is `HandlesActAsValues` handle by
  handle; `ClassesAreSorted` says which classes its exceptions are about. Proved:
  `TypeOK` and `HandlesActAsValues`.
* `ResultsProofs`, for any schema, content and clause: `QInv` is about the queries
  under construction and has a part for each reason one might mean something
  else. `Owned` says that in a generated build each rbool has a query of its own,
  `Apart` that in either build those no operator has changed do; `Counted` numbers
  the comparisons; `Exact` says that a query matches what its rbool means, as long
  as nothing was added in place, and `Conjunctive` that in a clause of conjunctions
  every query, the root's included, lies between the conjunction of all conditions
  and what its rbool means: hence the query of the whole clause is that
  conjunction, and no other needs to be; `PlainAgrees` relates it to what the
  clause comes to on an object. `Looping` is the loop: its
  index and end against the rows selected. Proved: `TypeOK`,
  `QueryMeansExpression`, `ClauseAgreesWithObjects`, `LoopsSeeEachOnce`; and
  `LoopsVisitSelected`, which no run checks: a loop nothing has moved visits each
  selected row exactly once, in the order asked for. That the rows of a finite
  table can be put in that order is proved, too.
* `ObjectsProofs`, for any schema and heap, cycles included. A `Sound` store is
  typed, its references are live (`Live`), no embedded row is referred to twice
  (`Sole`) or by nobody (`Owned`), and no two rows have one key (`OneKey`). `Sole`
  is what a reader might forget: without it, to let one reference go could leave
  another dangling. Within a call an embedded row exists before it is attached:
  `SoundBut` excepts the one that waits. What may be written is what `Fits`: live
  references, and to embedded rows only those the column has or the one that
  waits. Each thing there is to do in a call (`Work`) leaves the store sound, leaves
  the rows alone that the call may not write (`Keeps`, `Writable`) and leaves only
  such things to do (`Goes`); that `Run` does so follows by induction on its steps,
  and needs no order on the objects. What `insert` has to put is the last thing its
  call does (`Puts`), so that the index it returns is that of the key it put.
  Proved: `TypeOK`, `GraphIsSound`, `OneRowPerKey`, `OnlyNamedRowsChange`,
  `IteratorDenotes`.

Assumed are the named ASSUMEs of each module, which TLC evaluates on every run:
null values are none of the identities, the constants that bound a run are natural
numbers, and there are more places than handles (`Handles`); the names of a class
are distinct, it has at most one primary key and an embedded class none, and sets
are not of embedded objects, as core's schema validation has it; objects of the
heap have the members of their class (`SchemaAssumption`, `HeapAssumption`); a
comparison is one its type offers, and a row's cells have the types of their
columns (`ComparisonsAssumption`, `CellsAssumption`); the column sorted by is of
integers (`SortAssumption`); a function given to `update` is a sequence of edits
(`ScriptsAssumption`).

Induction is by the least natural number a statement fails for, on sets of
numbers (`LeastNatural`, `Induction`): the library's induction theorems take an
operator, which the provers installed cannot instantiate.

Only model-checked: the liveness properties (the prover has no rules for fairness
and ENABLED that would serve here), and `AddedIsDetached`. The latter compares two
trees as deep as the heap, which `Detaching` defines by recursion; that is also why
`detach` is in a module of its own.

## Not modelled

* Scheduler adapters: each call is forwarded to the scheduler of the other side.
  The raw pointer to the function is the device `Sockets` models for handlers.
* BSON, conversions of the bridge, schema declarations: data without control.
* Logger and analytics: output that nothing else reads.
* Observation of results: the wrapper keeps a raw pointer to the results object,
  and what follows its use is undefined. Dictionaries are observed by the wrapper
  `Observation` models for lists and sets.
* The version a thread-safe reference pins: the reference's life is in `Handles`,
  the versions are in `Transactions`, and nothing in the SDK relates the two.
* The asynchronous open task and the settings of the sync manager: one forwarded
  call each. Compound assignments of numbers: a read and a write in one transaction,
  both modelled. Operations that change nothing (`size`, lookups, the remaining
  iterators).
* Build and platform code, the examples.

What could follow: a relation between a heap and a store that says they have the
same tree without building it, so that `AddedIsDetached` can be proved; pinned
versions on top of `Transactions`; observation of results.
