---- MODULE Objects ----
(***************************************************************************)
(* The write operations of realm::db and of managed objects, links, lists, *)
(* sets and maps inside one write transaction, over the store of           *)
(* ObjectStore.  One action per operation; each is one call from the       *)
(* program, which may stop after any of them.  A call that throws leaves   *)
(* what it had already written: nothing undoes it but cancelling the       *)
(* transaction.                                                            *)
(***************************************************************************)
EXTENDS Accessors

CONSTANTS
    Numbers,    \* values of numbers and of elements of primitive collections
    MaxKeys,    \* bound on the keys of each table
    MaxLen,     \* bound on the length of a list written by push_back
    MaxOps      \* bound on the calls of a behaviour

ASSUME BoundsAssumption ==
    Numbers \subseteq Nat /\ MaxKeys \in Nat /\ MaxLen \in Nat /\ MaxOps \in Nat

VARIABLES
    rows, next, \* the store
    it,         \* the last iterator into a set: NoIterator or [row, prop, i]
    last,       \* the last call: [op, row, names, key, ok]
    ops         \* calls made

vars == <<rows, next, it, last, ops>>

NoIterator == [row |-> Null, prop |-> Null, i |-> 0]
NoCall == [op |-> "none", row |-> Null, names |-> {}, key |-> Null, ok |-> TRUE]
Store == [rows |-> rows, next |-> next, ok |-> TRUE]

Init ==
    /\ rows = <<>>
    /\ next = [c \in Classes |-> 0]
    /\ it = NoIterator
    /\ last = NoCall
    /\ ops = 0

(* Every call ends the same way: with the store as it left it. *)
Return(S, call) ==
    /\ \A c \in Classes : S.next[c] <= MaxKeys
    /\ rows' = S.rows
    /\ next' = S.next
    /\ last' = [call EXCEPT !.ok = S.ok]
    /\ ops' = ops + 1

ReturnWhenDone(T, call) == T.todo = <<>> /\ Return(T.s, call)
Finish(T, call) == ReturnWhenDone(Run(T), call)

Call(op, r, names, key) == [op |-> op, row |-> r, names |-> names, key |-> key, ok |-> TRUE]

(* A managed value: row r, and its property prop. *)
On(kinds) ==
    UNION {{<<r, p>> : p \in {p \in Properties(r[1]) : p.kind \in kinds}} : r \in DOMAIN rows}
RowsOf(c) == {r \in DOMAIN rows : r[1] = c}

(* ----- db ----- *)

RowOf(p) == RowFor(Store, p).r

Add(p) ==
    /\ ClassOf[p] \notin Embedded
    /\ Finish(AddTo(Store, p), Call("add", RowOf(p), Named[p], p))
    /\ UNCHANGED it

(* db::insert(a, b): one add after the other. *)
InsertAll(p, q) ==
    /\ {ClassOf[p], ClassOf[q]} \cap Embedded = {}
    /\ p # q
    /\ \E first \in {Run(AddTo(Store, p))} :
          /\ first.todo = <<>>
          /\ Finish(IF first.s.ok THEN AddTo(first.s, q) ELSE first,
                    Call("insert", RowOf(p), Named[p] \cup Named[q], Null))
    /\ UNCHANGED it

RemoveObject(r) ==
    /\ r[1] \notin Embedded
    /\ Return([Store EXCEPT !.rows = CoreRemove(@, r)], Call("remove", r, {}, Null))
    /\ UNCHANGED it

(* ----- scalars and links ----- *)

Assign(r, prop, v) ==
    /\ prop.kind \in {"number", "value"}
    /\ Return(IF v = Null THEN ObjSetNull(Store, r, prop) ELSE ObjSet(Store, r, prop, v),
              Call("assign", r, {}, Null))
    /\ UNCHANGED it

(* Fault: the object that is linked already is overwritten. *)
LinkAssignPointerInPlace(r, prop, p) ==
    LET k == rows[r][prop.name]
    IN  /\ prop.kind = "link"
        /\ Finish(IF p = Null THEN Done(ObjSetNull(Store, r, prop))
                  ELSE IF k # Null THEN [s |-> Store, todo |-> Import(<<prop.target, k>>, p)]
                  ELSE AccessorLink(Store, r, prop, p),
                  Call("link", r, IF p = Null THEN {} ELSE Named[p], Null))
        /\ UNCHANGED it

LinkAssignPointer(r, prop, p) ==
    /\ prop.kind = "link"
    /\ Finish(IF p = Null THEN Done(ObjSetNull(Store, r, prop)) ELSE AccessorLink(Store, r, prop, p),
              Call("link", r, IF p = Null THEN {} ELSE Named[p], Null))
    /\ UNCHANGED it

LinkAssignNull(r, prop) ==
    /\ prop.kind = "link"
    /\ Return(ObjSetNull(Store, r, prop), Call("link", r, {}, Null))
    /\ UNCHANGED it

LinkAssignManaged(r, prop, to) ==
    /\ prop.kind = "link"
    /\ Return(ObjSetKey(Store, r, prop, to[2]), Call("link", r, {}, Null))
    /\ UNCHANGED it

(* Assigning from the managed link <<from, .>>: the key that is stored is  *)
(* that of the object the other link belongs to.                           *)
LinkAssignLink(r, prop, from) ==
    /\ prop.kind = "link"
    /\ Return(ObjSetKey(Store, r, prop, from[1][2]), Call("link", r, {}, Null))
    /\ UNCHANGED it

(* ----- lists ----- *)

ListPush(r, prop, v) ==
    /\ prop.kind \in ValueLists
    /\ Len(rows[r][prop.name]) < MaxLen
    /\ Return(ListAdd(Store, r, prop, v), Call("list", r, {}, Null))
    /\ UNCHANGED it

(* Fault: an embedded object is added again once it is imported. *)
ListPushPointerTwice(r, prop, p) ==
    /\ prop.kind = "linkList"
    /\ Len(rows[r][prop.name]) < MaxLen
    /\ LET at == Len(rows[r][prop.name])
           new == RowFor(Store, p)
           first == AttachFirst(new, p, r, prop, at)
       IN  Finish(IF prop.target \in Embedded
                  THEN [first EXCEPT !.todo = @ \o <<PutKey(r, prop, at, new.r[2])>>]
                  ELSE AttachLast(new, p, r, prop, at),
                  Call("list", r, Named[p], Null))
    /\ UNCHANGED it

ListPushPointer(r, prop, p) ==
    /\ prop.kind = "linkList"
    /\ Len(rows[r][prop.name]) < MaxLen
    /\ Finish(ListElement(Store, r, prop, Len(rows[r][prop.name]), p), Call("list", r, Named[p], Null))
    /\ UNCHANGED it

(* Refused for embedded objects, which have an owner already. *)
ListPushManaged(r, prop, key) ==
    /\ prop.kind = "linkList"
    /\ Len(rows[r][prop.name]) < MaxLen
    /\ Return(IF <<prop.target, key>> \notin DOMAIN rows \/ prop.target \in Embedded
              THEN Throw(Store) ELSE ListAdd(Store, r, prop, key),
              Call("list", r, {}, Null))
    /\ UNCHANGED it

(* As LinkAssignLink: the key of the owner of the other link is added. *)
ListPushLink(r, prop, from) == ListPushManaged(r, prop, from[1][2])

ListKinds == ValueLists \cup {"linkList"}

ListRemoveAt(r, prop, i, op) ==
    /\ Return(IF i \in DOMAIN rows[r][prop.name]
              THEN ObjSet(Store, r, prop, RemoveAt(rows[r][prop.name], i)) ELSE Throw(Store),
              Call(op, r, {}, Null))
    /\ UNCHANGED it

ListErase(r, prop, i) == prop.kind \in ListKinds /\ ListRemoveAt(r, prop, i, "list")

(* remove(size() - 1): on an empty list, an index no list has. *)
ListPopBack(r, prop) ==
    prop.kind \in ListKinds /\ ListRemoveAt(r, prop, Len(rows[r][prop.name]), "list")

ListClear(r, prop) ==
    /\ prop.kind \in ListKinds
    /\ Return(ObjSet(Store, r, prop, <<>>), Call("list", r, {}, Null))
    /\ UNCHANGED it

ListSet(r, prop, i, v) ==
    /\ prop.kind \in ListKinds \ {"linkList"}
    /\ Return(IF i \in DOMAIN rows[r][prop.name]
              THEN ObjSet(Store, r, prop, [rows[r][prop.name] EXCEPT ![i] = v]) ELSE Throw(Store),
              Call("list", r, {}, Null))
    /\ UNCHANGED it

(* ----- sets, which keep their elements in order ----- *)

Index(set, v) == Cardinality({w \in set : w < v})
ElementAt(set, i) == CHOOSE v \in set : Index(set, v) = i
Iterator(r, prop, i) == [row |-> r, prop |-> prop, i |-> i]
(* Fault: the iterator is to the last element. *)
PointToLast(r, prop, v) == it' = Iterator(r, prop, Cardinality(rows'[r][prop.name]) - 1)
PointTo(r, prop, v) == it' = Iterator(r, prop, Index(rows'[r][prop.name], v))

SetInsertValue(r, prop, v) ==
    /\ prop.kind = "set"
    /\ Return(SetInsert(Store, r, prop, v), Call("set insert", r, {}, v))
    /\ PointTo(r, prop, v)

(* The key is inserted twice, which leaves the set and the index as after  *)
(* the first time (the bool that is returned is never true).               *)
SetInsertPointer(r, prop, p) ==
    /\ prop.kind = "linkSet"
    /\ LET new == RowFor(Store, p)
       IN  /\ Finish(AttachLast(new, p, r, prop, Null), Call("set insert", r, Named[p], new.r[2]))
           /\ IF last'.ok THEN PointTo(r, prop, new.r[2]) ELSE UNCHANGED it

SetInsertManaged(r, prop, to) ==
    /\ prop.kind = "linkSet"
    /\ Return(SetInsert(Store, r, prop, to[2]), Call("set insert", r, {}, to[2]))
    /\ PointTo(r, prop, to[2])

(* Fault: the index of find() is not compared with not_in_collection. *)
SetFindRaw(r, prop, v) ==
    /\ prop.kind \in {"set", "linkSet"}
    /\ Return(Store, Call(IF v \in rows[r][prop.name] THEN "set find" ELSE "set miss", r, {}, v))
    /\ it' = Iterator(r, prop, IF v \in rows[r][prop.name] THEN Index(rows[r][prop.name], v) ELSE -1)

(* find() returns end() for an absent element. *)
SetFind(r, prop, v) ==
    /\ prop.kind \in {"set", "linkSet"}
    /\ Return(Store, Call(IF v \in rows[r][prop.name] THEN "set find" ELSE "set miss", r, {}, v))
    /\ it' = Iterator(r, prop, IF v \in rows[r][prop.name] THEN Index(rows[r][prop.name], v)
                               ELSE Cardinality(rows[r][prop.name]))

SetBegin(r, prop) ==
    /\ prop.kind \in {"set", "linkSet"}
    /\ Return(Store, Call("begin", r, {}, Null))
    /\ it' = Iterator(r, prop, 0)

IteratorNext ==
    /\ it # NoIterator
    /\ it.i <= MaxLen
    /\ Return(Store, Call("next", it.row, {}, Null))
    /\ it' = [it EXCEPT !.i = @ + 1]

(* it++ is operator++(0), which adds its argument: the iterator stays. *)
IteratorPostfixNext ==
    /\ it # NoIterator
    /\ Return(Store, Call("next", it.row, {}, Null))
    /\ UNCHANGED it

(* erase(it) reads the element at the iterator's index, whichever that is  *)
(* by now, and removes it.  Past the last element the read throws inside   *)
(* operator*, which is noexcept: the program ends, and there is no step.   *)
SetErase ==
    /\ it # NoIterator
    /\ it.row \in DOMAIN rows
    /\ LET set == rows[it.row][it.prop.name]
       IN  /\ it.i < Cardinality(set)
           /\ Return(ObjSet(Store, it.row, it.prop, set \ {ElementAt(set, it.i)}),
                     Call("set erase", it.row, {}, Null))
    /\ UNCHANGED it

SetClear(r, prop) ==
    /\ prop.kind \in {"set", "linkSet"}
    /\ Return(ObjSet(Store, r, prop, {}), Call("set clear", r, {}, Null))
    /\ UNCHANGED it

(* ----- dictionaries ----- *)

BoxAssign(r, prop, k, v) ==
    /\ prop.kind = "map"
    /\ Return(DictInsert(Store, r, prop, k, v), Call("map", r, {}, Null))
    /\ UNCHANGED it

BoxAssignPointer(r, prop, k, p) ==
    /\ prop.kind = "linkMap"
    /\ Finish(IF p = Null THEN Done(DictInsert(Store, r, prop, k, Null))
              ELSE AttachFirst(RowFor(Store, p), p, r, prop, k),
              Call("map", r, IF p = Null THEN {} ELSE Named[p], Null))
    /\ UNCHANGED it

(* What core makes of the key of an embedded object is left out. *)
BoxAssignManaged(r, prop, k, to) ==
    /\ prop.kind = "linkMap" /\ prop.target \notin Embedded
    /\ Return(DictInsert(Store, r, prop, k, to[2]), Call("map", r, {}, Null))
    /\ UNCHANGED it

DictErase(r, prop, k) ==
    /\ prop.kind \in {"map", "linkMap"}
    /\ LET old == rows[r][prop.name]
       IN  Return(IF k \notin DOMAIN old THEN Throw(Store)
                  ELSE ObjSet(Store, r, prop, [m \in DOMAIN old \ {k} |-> old[m]]),
                  Call("map", r, {}, Null))
    /\ UNCHANGED it

(* ----- the program ----- *)

Scalars ==
    \E c \in On({"number", "value", "link"}) :
        \/ \E v \in Numbers \cup {Null} : Assign(c[1], c[2], v)
        \/ \E p \in PointersTo(c[2].target) \cup {Null} : LinkAssignPointer(c[1], c[2], p)
        \/ LinkAssignNull(c[1], c[2])
        \/ \E to \in RowsOf(c[2].target) : LinkAssignManaged(c[1], c[2], to)
        \/ \E from \in {l \in On({"link"}) : l[2].target = c[2].target} :
              LinkAssignLink(c[1], c[2], from)

(* managed<std::vector<T>> *)
PrimitiveLists ==
    \E c \in On(ListKinds \ {"linkList"}) :
        \/ \E v \in Numbers : ListPush(c[1], c[2], v)
        \/ ListPopBack(c[1], c[2])
        \/ \E i \in 1..MaxLen : ListErase(c[1], c[2], i)
        \/ ListClear(c[1], c[2])
        \/ \E i \in 1..MaxLen, v \in Numbers : ListSet(c[1], c[2], i, v)

(* managed<std::vector<T*>> *)
LinkLists ==
    \E c \in On({"linkList"}) :
        \/ \E p \in PointersTo(c[2].target) : ListPushPointer(c[1], c[2], p)
        \/ \E to \in RowsOf(c[2].target) : ListPushManaged(c[1], c[2], to[2])
        \/ \E from \in {l \in On({"link"}) : l[2].target = c[2].target} :
              ListPushLink(c[1], c[2], from)
        \/ ListPopBack(c[1], c[2])
        \/ \E i \in 1..MaxLen : ListErase(c[1], c[2], i)
        \/ ListClear(c[1], c[2])

(* managed<std::set<T>> *)
PrimitiveSets ==
    \E c \in On({"set"}) :
        \/ \E v \in Numbers : SetInsertValue(c[1], c[2], v)
        \/ \E v \in Numbers : SetFind(c[1], c[2], v)
        \/ SetBegin(c[1], c[2])
        \/ SetClear(c[1], c[2])

(* managed<std::set<T*>> *)
LinkSets ==
    \E c \in On({"linkSet"}) :
        \/ \E p \in PointersTo(c[2].target) : SetInsertPointer(c[1], c[2], p)
        \/ \E to \in RowsOf(c[2].target) : SetInsertManaged(c[1], c[2], to)
        \/ \E to \in RowsOf(c[2].target) : SetFind(c[1], c[2], to[2])
        \/ SetBegin(c[1], c[2])
        \/ SetClear(c[1], c[2])

SetIterators == IteratorNext \/ IteratorPostfixNext \/ SetErase

(* managed<std::map<std::string, T>> and its boxes *)
PrimitiveMaps ==
    \E c \in On({"map"}), k \in MapKeys :
        \/ \E v \in Numbers : BoxAssign(c[1], c[2], k, v)
        \/ DictErase(c[1], c[2], k)

LinkMaps ==
    \E c \in On({"linkMap"}), k \in MapKeys :
        \/ \E p \in PointersTo(c[2].target) \cup {Null} : BoxAssignPointer(c[1], c[2], k, p)
        \/ \E to \in RowsOf(c[2].target) : BoxAssignManaged(c[1], c[2], k, to)
        \/ DictErase(c[1], c[2], k)

Next ==
    /\ ops < MaxOps
    /\ \/ \E p \in Pointers : Add(p)
       \/ \E p, q \in Pointers : InsertAll(p, q)
       \/ \E r \in DOMAIN rows : RemoveObject(r)
       \/ Scalars
       \/ PrimitiveLists \/ LinkLists
       \/ PrimitiveSets \/ LinkSets \/ SetIterators
       \/ PrimitiveMaps \/ LinkMaps

Spec == Init /\ [][Next]_vars

(* ----- properties ----- *)

Column(prop, v) ==
    CASE prop.kind \in ListKinds -> v \in Seq(Nat)
      [] prop.kind \in {"set", "linkSet"} -> v \subseteq Nat /\ IsFiniteSet(v)
      [] prop.kind \in {"map", "linkMap"} ->
            DOMAIN v \subseteq MapKeys /\ \A k \in DOMAIN v : v[k] \in Nat \cup {Null}
      [] prop.kind = "pk" -> v \in Nat
      [] OTHER -> v \in Nat \cup {Null}

(* Type invariant: every row has the columns of its class, list and set    *)
(* elements are never null, and keys are those the tables have given out.  *)
TypeOK ==
    /\ \A r \in DOMAIN rows :
          /\ r \in Classes \X Nat /\ r[2] < next[r[1]]
          /\ DOMAIN rows[r] = DOMAIN Columns[r[1]]
          /\ \A p \in Properties(r[1]) : Column(p, rows[r][p.name])
    /\ \A c \in Classes : next[c] \in 0..MaxKeys
    /\ ops \in 0..MaxOps
    /\ it = NoIterator \/ it.i \in Nat

Owners(e) ==
    {o \in UNION {{r} \X ReferencesIn(rows, r) : r \in DOMAIN rows} : <<o[2][3], o[2][4]>> = e}

(* Whatever was linked, pushed, inserted, upserted or removed, and however *)
(* a call failed half way, every reference is to a live row, and every     *)
(* embedded object has exactly one owner.                                  *)
GraphIsSound ==
    /\ \A r \in DOMAIN rows : RefersTo(rows, r) \subseteq DOMAIN rows
    /\ \A e \in DOMAIN rows : e[1] \in Embedded => Cardinality(Owners(e)) = 1

(* However an object with a primary key gets in (add, insert, a link, an   *)
(* element of a list, set or map, at any depth) there is one row per key.  *)
OneRowPerKey ==
    \A r, s \in DOMAIN rows :
        (r[1] = s[1] /\ HasPrimaryKeyProperty(r[1]) /\ PkOf(r[1], rows[r]) = PkOf(r[1], rows[s])) => r = s

(* A call writes only the row it is made on, rows it creates, and rows     *)
(* named by primary keys in its unmanaged argument; only remove() deletes  *)
(* a top-level row, and it changes only the rows that referred to it.      *)
OnlyNamedRowsChange ==
    [][\A r \in DOMAIN rows :
          \/ r[1] \in Embedded
          \/ r \in DOMAIN rows' /\ rows'[r] = rows[r]
          \/ r = last'.row
          \/ last'.op = "remove" /\ last'.row \in RefersTo(rows, r) /\ r \in DOMAIN rows'
          \/ /\ HasPrimaryKeyProperty(r[1])
             /\ <<r[1], PkOf(r[1], rows[r])>> \in last'.names
             /\ r \in DOMAIN rows']_vars

(* The iterator that insert() or a successful find() returns denotes the   *)
(* element it was called with, in the set as it is after the call.         *)
IteratorDenotes ==
    [][(last'.op \in {"set insert", "set find"} /\ last'.ok) =>
          /\ it'.row = last'.row
          /\ it'.i < Cardinality(rows'[it'.row][it'.prop.name])
          /\ ElementAt(rows'[it'.row][it'.prop.name], it'.i) = last'.key]_vars
====
