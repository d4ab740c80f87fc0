---- MODULE Handles ----
(***************************************************************************)
(* A program that makes, copies, moves, changes and destroys a few handles *)
(* of one class of the bridge.  A handle holds an object, the core object  *)
(* behind it; `means` is the value the program believes it to have, had    *)
(* the class been the value type it looks like.                            *)
(***************************************************************************)
EXTENDS BridgeClasses, FiniteSets

CONSTANTS Handle,   \* the variables of the program
          Cell,     \* places for core objects
          Null,     \* a null pointer
          Unmade    \* a handle before its constructor or after its destructor

ASSUME CellsSuffice == /\ IsFiniteSet(Handle) /\ IsFiniteSet(Cell)
                       /\ Cardinality(Cell) > Cardinality(Handle)
                       /\ {Null, Unmade} \cap Cell = {} /\ Null # Unmade

VARIABLES class, build,
          heap,     \* the core object in each place
          at,       \* where each handle's object is
          owned,    \* the bytes a mixed keeps besides its core Mixed
          remote,   \* what the one SyncConfig of the program says
          means,    \* the value each handle should have
          alias     \* how each handle's object was changed without the handle
vars == <<class, build, heap, at, owned, remote, means, alias>>

(* A value: what it compares by, the rest of it, the SyncConfig it points  *)
(* to (0: none).  Some marks are no value of any class.                    *)
Value == [n : 0..1, kind : {"plain", "long", "string", "binary", "scalar"}, sync : 0..2]
Mark(k) == [n |-> 0, kind |-> k, sync |-> 0]
Free == Mark("free")
Garbage == Mark("garbage")   \* bytes nobody wrote, or of another type
Nested == Mark("nested")     \* any_cast throws inside a noexcept member
Moved == Mark("moved")       \* what a move leaves of a core object
Spent == Mark("spent")       \* a token or reference that was given up

(* The values the constructors of a class make. *)
KindsOf(c) ==
    CASE c = "mixed" -> {"string", "binary", "scalar"}
      [] c \in {"decimal128", "object_schema"} -> {"plain", "long"}
      [] OTHER -> {"plain"}
(* A configuration starts without what its setters may give it. *)
Constructible ==
    [n : IF class = "config" THEN {0} ELSE 0..1, kind : KindsOf(class), sync : {0}]

How == Classes[class][build]
Made(h) == at[h] # Unmade
Holds(h) == at[h] \in Cell
(* A moved-from handle may be assigned to and destroyed, no more. *)
Readable(h) == Holds(h) /\ means[h].kind # "moved"
Unowned == [string |-> Null, data |-> Null]

(* What a reader of the handle gets: strings and binaries from the copy    *)
(* the mixed owns, everything else from the core object.                   *)
Getter(h) == heap[at[h]]
Denoted(h) ==
    LET v == Getter(h)
    IN  CASE v.kind = "string" -> [v EXCEPT !.n = owned[h].string]
          [] v.kind = "binary" -> [v EXCEPT !.n = owned[h].data]
          [] v.sync = 1 -> [v EXCEPT !.sync = remote]
          [] OTHER -> v

Equal(g, h) ==
    CASE Compared[class] \in {"value", "bits"} -> Denoted(g) = Denoted(h)
      [] Compared[class] = "name" -> Denoted(g).n = Denoted(h).n
      [] Compared[class] = "address" -> g = h
(* Which decimals are equal: 1.0 and 1.00 are. *)
MeantEqual(g, h) ==
    IF class = "decimal128" THEN means[g].n = means[h].n ELSE means[g] = means[h]

Init ==
    /\ class \in DOMAIN Classes /\ build \in {"generated", "shared"}
    /\ heap = [c \in Cell |-> Free]
    /\ at = [h \in Handle |-> Unmade]
    /\ owned = [h \in Handle |-> Unowned]
    /\ remote = 1
    /\ means = [h \in Handle |-> Free]
    /\ alias = [h \in Handle |-> {}]

----------------------------------------------------------------------------
(* The special members, on the places and the objects in them. *)
State == [heap |-> heap, at |-> at]
Fresh(s) == CHOOSE c \in Cell : s.heap[c] = Free
Put(s, x, v) ==
    LET c == Fresh(s)
    IN  [heap |-> [s.heap EXCEPT ![c] = v], at |-> [s.at EXCEPT ![x] = c]]
Point(s, x, c) == [s EXCEPT !.at[x] = c]
(* Construction makes an object, an assignment overwrites the handle's own *)
(* one; a shared object is never overwritten.                              *)
Write(s, x, v) ==
    IF How.kept = "alone" /\ s.at[x] \in Cell
    THEN [s EXCEPT !.heap[s.at[x]] = v]
    ELSE Put(s, x, v)
(* The last pointer to an object deletes it. *)
Collected(s) ==
    IF How.kept = "counted"
    THEN [s EXCEPT !.heap = [c \in Cell |->
             IF \E h \in Handle : s.at[h] = c THEN s.heap[c] ELSE Free]]
    ELSE s

(* x becomes what `member` makes of y. *)
Given(member, x, y) ==
    LET v == heap[at[y]] IN
    CASE member = "clone" -> Write(State, x, v)
      [] member = "replace" -> Write(State, x, IF x = y THEN Garbage ELSE v)
      [] member = "share" -> Point(State, x, at[y])
      [] member = "take" -> IF x = y THEN State ELSE Point(Point(State, x, at[y]), y, Null)
      [] member = "drain" ->
            IF x = y THEN State
            ELSE LET s == Write(State, x, v) IN [s EXCEPT !.heap[at[y]] = Moved]
      [] member = "nest" -> Put(State, x, Nested)
      [] member = "misread" -> Put(State, x, Garbage)
Apply(s) ==
    /\ heap' = Collected(s).heap
    /\ at' = s.at

(* The bytes a mixed owns are copied only when its value needs them. *)
(* Fault: the copy constructor leaves them to the other. *)
MixedCopiedBare(x, y) == owned[x]
MixedCopied(x, y) ==
    LET k == Getter(y).kind
    IN  CASE k = "string" -> [owned[x] EXCEPT !.string = owned[y].string]
          [] k = "binary" -> [owned[x] EXCEPT !.data = owned[y].data]
          [] OTHER -> owned[x]
MixedMoved(x, y) ==
    LET k == Getter(y).kind
    IN  IF x = y THEN owned ELSE
        CASE k = "string" -> [owned EXCEPT ![x].string = owned[y].string, ![y].string = Null]
          [] k = "binary" -> [owned EXCEPT ![x].data = owned[y].data, ![y].data = Null]
          [] OTHER -> owned

(* mixed(std::string), mixed(binary): the core Mixed only points to bytes. *)
Viewed(v) == IF v.kind \in {"string", "binary"} THEN [v EXCEPT !.n = 0] ELSE v
OwnedFor(v) ==
    CASE v.kind = "string" -> [Unowned EXCEPT !.string = v.n]
      [] v.kind = "binary" -> [Unowned EXCEPT !.data = v.n]
      [] OTHER -> Unowned

Construct(x, v) ==
    /\ ~Made(x)
    /\ Apply(Put(State, x, Viewed(v)))
    /\ owned' = [owned EXCEPT ![x] = OwnedFor(v)]
    /\ means' = [means EXCEPT ![x] = v]
    /\ alias' = [alias EXCEPT ![x] = {}]
    /\ UNCHANGED <<class, build, remote>>

CopyInto(x, y, member) ==
    /\ member # "none"
    /\ Readable(y)
    /\ Apply(Given(member, x, y))
    /\ owned' = [owned EXCEPT ![x] = MixedCopied(x, y)]
    /\ means' = [means EXCEPT ![x] = Denoted(y)]
    /\ alias' = [alias EXCEPT ![x] = {}]
    /\ UNCHANGED <<class, build, remote>>
CopyConstruct(x, y) == ~Made(x) /\ CopyInto(x, y, How.copy)
CopyAssign(x, y) == Made(x) /\ CopyInto(x, y, How.assign)

MoveInto(x, y, member) ==
    /\ member # "none"
    /\ Readable(y)
    /\ LET s == Given(member, x, y)
       IN  Apply(IF member = "nest" /\ x # y THEN Point(s, y, Null) ELSE s)
    /\ owned' = MixedMoved(x, y)
    /\ means' = IF x = y THEN means ELSE [means EXCEPT ![x] = Denoted(y), ![y] = Moved]
    /\ alias' = IF x = y THEN alias ELSE [alias EXCEPT ![x] = {}, ![y] = {}]
    /\ UNCHANGED <<class, build, remote>>
MoveConstruct(x, y) == ~Made(x) /\ MoveInto(x, y, How.move)
MoveAssign(x, y) == Made(x) /\ MoveInto(x, y, How.moveAssign)

Destroy(x) ==
    /\ Made(x)
    /\ LET s == Point(State, x, Unmade)
       IN  Apply(IF How.kept = "alone" THEN [s EXCEPT !.heap[at[x]] = Free] ELSE s)
    /\ owned' = [owned EXCEPT ![x] = Unowned]
    /\ means' = [means EXCEPT ![x] = Free]
    /\ alias' = [alias EXCEPT ![x] = {}]
    /\ UNCHANGED <<class, build, remote>>

----------------------------------------------------------------------------
(* Members that change the object. *)
PropertySetters(v) == {[v EXCEPT !.n = m] : m \in 0..1}
ObjectSchemaSetters(v) ==
    {[v EXCEPT !.n = m] : m \in 0..1} \cup {[v EXCEPT !.kind = "long"]}
ErrorCategorySetters(v) == {[v EXCEPT !.n = m] : m \in 0..1}
ConfigSetters(v) == {[v EXCEPT !.n = 1]}
SetSchema(v) == [v EXCEPT !.n = 1]
InsertOrAssign(v) == {[v EXCEPT !.n = 1]}
Unregister(v) == {Spent}
Resolve(v) == {Spent}
(* a op= b; a op b is made from a copy of a. *)
DecimalSetters(v) ==
    {[n |-> m, kind |-> k, sync |-> v.sync] : m \in 0..1, k \in KindsOf("decimal128")}
Setters(v) ==
    CASE class = "property" -> PropertySetters(v)
      [] class = "object_schema" -> ObjectSchemaSetters(v)
      [] class = "error_category" -> ErrorCategorySetters(v)
      [] class = "config" -> ConfigSetters(v)
      [] class = "mutable_sync_subscription_set" -> InsertOrAssign(v)
      [] class = "notification_token" -> Unregister(v)
      [] class = "thread_safe_reference" -> Resolve(v)
      [] class = "decimal128" -> DecimalSetters(v)
      [] OTHER -> {}
Mutable == {"property", "object_schema", "error_category", "config", "decimal128",
            "mutable_sync_subscription_set", "notification_token", "thread_safe_reference"}

Alter(h) ==
    /\ Readable(h) /\ Getter(h) \in Value   \* the others are past changing
    /\ \E v \in Setters(Getter(h)) :
          /\ heap' = [heap EXCEPT ![at[h]] = v]
          /\ means' = [means EXCEPT ![h] = [v EXCEPT !.sync = means[h].sync]]
    /\ alias' = [g \in Handle |->
                    IF g # h /\ at[g] = at[h] THEN alias[g] \cup {"object"} ELSE alias[g]]
    /\ UNCHANGED <<class, build, at, owned, remote>>

(* object_schema(name, properties, key, type) writes the properties past   *)
(* the end of an empty vector.                                             *)
ConstructFromParts(x) ==
    /\ class = "object_schema" /\ ~Made(x)
    /\ Apply(Put(State, x, Garbage))
    /\ means' = [means EXCEPT ![x] = [n |-> 0, kind |-> "long", sync |-> 0]]
    /\ UNCHANGED <<class, build, owned, remote, alias>>

----------------------------------------------------------------------------
(* Configurations: a copy has the SyncConfig of the original. *)
Synced(h) == Getter(h).sync = 1
NewSyncConfig == 1
(* user::flexible_sync_configuration *)
FlexibleSyncConfiguration(x) ==
    /\ class = "config" /\ ~Made(x)
    /\ \A h \in Handle : Holds(h) => ~Synced(h)
    /\ LET v == [n |-> 1, kind |-> "plain", sync |-> 1]
       IN  Apply(Put(State, x, v)) /\ means' = [means EXCEPT ![x] = v]
    /\ remote' = NewSyncConfig
    /\ alias' = [alias EXCEPT ![x] = {}]
    /\ UNCHANGED <<class, build, owned>>

(* h.set_sync_config(g.sync_config()) *)
SetSyncConfig(h, g) ==
    /\ class = "config" /\ Readable(h) /\ Readable(g)
    /\ heap' = [heap EXCEPT ![at[h]].sync = Getter(g).sync]
    /\ means' = [means EXCEPT ![h].sync = Denoted(g).sync]
    /\ alias' = [k \in Handle |->
                    IF k # h /\ at[k] = at[h] THEN alias[k] \cup {"object"} ELSE alias[k]]
    /\ UNCHANGED <<class, build, at, owned, remote>>

ChangeRemote(h) ==
    /\ remote' \in {1, 2} \ {remote}
    /\ means' = [means EXCEPT ![h].sync = remote']
    /\ alias' = [g \in Handle |->
                    IF g # h /\ Holds(g) /\ Synced(g) THEN alias[g] \cup {"sync"} ELSE alias[g]]
    /\ UNCHANGED <<class, build, heap, at, owned>>
(* Headers and proxy: a logic_error without a SyncConfig. *)
SetHeadersOrProxy(h) == class = "config" /\ Readable(h) /\ Synced(h) /\ ChangeRemote(h)
(* Not checked: only a synced configuration has a mode. *)
SetClientResetMode(h) == class = "config" /\ Readable(h) /\ Synced(h) /\ ChangeRemote(h)
(* h.sync_config().set_error_handler(..), set_stop_policy(..) *)
SetOnSyncConfig(h) == class = "config" /\ Readable(h) /\ Synced(h) /\ ChangeRemote(h)

(* db::open(config) sets the schema of its own copy of config. *)
Open(h) ==
    /\ class = "config" /\ Readable(h)
    /\ IF How.copy = "share"
       THEN /\ heap' = [heap EXCEPT ![at[h]] = SetSchema(@)]
            /\ alias' = [g \in Handle |->
                            IF at[g] = at[h] THEN alias[g] \cup {"object"} ELSE alias[g]]
       ELSE UNCHANGED <<heap, alias>>
    /\ UNCHANGED <<class, build, at, owned, remote, means>>

Next ==
    \/ \E x \in Handle :
          \/ \E v \in Constructible : Construct(x, v)
          \/ ConstructFromParts(x)
          \/ FlexibleSyncConfiguration(x)
          \/ Destroy(x)
          \/ Open(x)
          \/ Alter(x)
          \/ SetHeadersOrProxy(x) \/ SetClientResetMode(x) \/ SetOnSyncConfig(x)
    \/ \E x, y \in Handle :
          \/ CopyConstruct(x, y) \/ CopyAssign(x, y)
          \/ MoveConstruct(x, y) \/ MoveAssign(x, y)
          \/ SetSyncConfig(x, y)
Spec == Init /\ [][Next]_vars

----------------------------------------------------------------------------
(* The object a handle holds exists, no two handles delete one object, and *)
(* an object without a handle is deleted: whatever copies, moves and       *)
(* assignments, also to itself, a program makes of any class.              *)
TypeOK ==
    /\ class \in DOMAIN Classes /\ build \in {"generated", "shared"}
    /\ heap \in [Cell -> Value \cup {Free, Garbage, Nested, Moved, Spent}]
    /\ at \in [Handle -> Cell \cup {Null, Unmade}]
    /\ owned \in [Handle -> [string : {0, 1, Null}, data : {0, 1, Null}]]
    /\ remote \in 1..2
    /\ means \in [Handle -> Value \cup {Free, Garbage, Nested, Moved, Spent}]
    /\ alias \in [Handle -> SUBSET {"object", "sync"}]
    /\ \A h \in Handle : Holds(h) => heap[at[h]] # Free
    /\ \A g, h \in Handle : How.kept = "alone" /\ Holds(g) /\ at[g] = at[h] => g = h
    /\ \A c \in Cell : heap[c] # Free => \E h \in Handle : at[h] = c

(* The faults of single classes.                                           *)
(* - object.cpp:369: a copied or moved index_iterator of the shared build; *)
(* - table.cpp:167: a copied table_view of the generated build;            *)
(* - binary.cpp:35: a binary of the shared build assigned to itself;       *)
(* - object_schema.cpp:98: an object_schema built from its parts.          *)
Spoiled(h) ==
    \/ Getter(h) = Nested /\ class = "index_iterator" /\ build = "shared"
    \/ /\ Getter(h) = Garbage
       /\ <<class, build>> \in {<<"table_view", "generated">>, <<"binary", "shared">>,
                                <<"object_schema", "generated">>, <<"object_schema", "shared">>}
(* In the shared build a copy of a mutable object is the same object, and  *)
(* in both builds configurations share their SyncConfig.                   *)
Aliased(h) ==
    \/ "object" \in alias[h] /\ build = "shared" /\ class \in Mutable
    \/ "sync" \in alias[h] /\ class = "config"
(* Decimals of one number in two representations; schemas of one name;     *)
(* status.cpp:18 compares addresses.                                       *)
ComparedWrongly(g, h) ==
    \/ class = "decimal128" /\ means[g].kind # means[h].kind
    \/ class = "object_schema" /\ means[g].kind # means[h].kind
    \/ class = "error_category" /\ g # h
(* thread_safe_reference.cpp:34: the source of a move assignment still     *)
(* has the reference, and its version, until it is destroyed.              *)
KeptByMove(h) == class = "thread_safe_reference" /\ build = "shared"

(* A handle denotes the value that was put into it, compares as that value *)
(* does, and once moved from no longer holds a subscription or a pinned    *)
(* version: apart from the faults and the sharing named above.             *)
HandlesActAsValues ==
    \A h \in Handle :
        /\ Readable(h) => Denoted(h) = means[h] \/ Spoiled(h) \/ Aliased(h)
        /\ Holds(h) /\ means[h] = Moved /\ class \in {"notification_token", "thread_safe_reference"}
           => Getter(h) \in {Moved, Spent} \/ KeptByMove(h)
        /\ \A g \in Handle :
              Readable(g) /\ Readable(h) /\ class \in DOMAIN Compared
              /\ ~Spoiled(g) /\ ~Spoiled(h) /\ ~Aliased(g) /\ ~Aliased(h)
              => (Equal(g, h) <=> MeantEqual(g, h)) \/ ComparedWrongly(g, h)
====
