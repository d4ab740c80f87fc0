---- MODULE Accessors ----
(***************************************************************************)
(* accessor<T>::set, which writes one property of an unmanaged object to a *)
(* row.  An import walks the schema in order and stops at the first        *)
(* property that throws.  It calls itself for the objects it meets; a call *)
(* under way is the store and the rest of the work in order, `todo`.       *)
(***************************************************************************)
EXTENDS ObjectStore

CONSTANT MaxSteps   \* bound on the steps of a call

Done(S) == [s |-> S, todo |-> <<>>]

(* What there is to do on property prop of row r: copy the member of the   *)
(* object at p; make the element at place `at` from the object at p; put   *)
(* key k to that place.                                                    *)
CopyMember(r, prop, p) == [do |-> "copy", row |-> r, prop |-> prop, at |-> Null, from |-> p]
MakeElement(r, prop, at, p) == [do |-> "make", row |-> r, prop |-> prop, at |-> at, from |-> p]
PutKey(r, prop, at, k) == [do |-> "put", row |-> r, prop |-> prop, at |-> at, from |-> k]

Import(r, p) == [i \in DOMAIN Schema[r[1]] |-> CopyMember(r, Schema[r[1]][i], p)]

(* accessor of integers, doubles, booleans and enums, and of their optionals *)
AccessorNumber(S, r, prop, v) ==
    IF v = Null THEN ObjSetNull(S, r, prop) ELSE ObjSet(S, r, prop, v)

(* ... of mixed, uuid, object id, decimal, timestamp, string and binary *)
AccessorValue(S, r, prop, v) ==
    IF v = Null THEN ObjSetNull(S, r, prop) ELSE ObjSet(S, r, prop, v)

AccessorPrimaryKey(S, r, prop, v) == ObjSet(S, r, prop, v)

(* Fault: the check for a primary key is forgotten. *)
RowForCreates(S, p) == CoreCreate(S, ClassOf[p])

(* The row an unmanaged object goes to: that of its primary key, if it has one. *)
RowFor(S, p) ==
    LET c == ClassOf[p]
    IN  IF HasPrimaryKeyProperty(c) THEN CoreUpsert(S, c, PkOf(c, Heap[p]))
        ELSE CoreCreate(S, c)

(* The new key goes to the column; `at` is the place in a list or map. *)
Attach(S, r, prop, at, k) ==
    LET With(old) ==
            CASE prop.kind = "link" -> k
              [] prop.kind = "linkList" /\ prop.target \in Embedded -> InsertAt(old, at + 1, k)
              [] prop.kind = "linkList" /\ prop.target \notin Embedded -> Append(old, k)
              [] prop.kind = "linkSet" -> old \cup {k}
              [] prop.kind = "linkMap" -> MapInsert(old, [m \in {at} |-> k])
    IN  ObjSet(S, r, prop, With(ObjGet(S, r, prop)))

(* A new row is imported from p once it is attached to what refers to it,  *)
(* or attached once it is imported.                                        *)
AttachFirst(new, p, r, prop, at) ==
    [s |-> Attach(new.s, r, prop, at, new.r[2]), todo |-> Import(new.r, p)]
AttachLast(new, p, r, prop, at) ==
    [s |-> new.s, todo |-> Import(new.r, p) \o <<PutKey(r, prop, at, new.r[2])>>]

(* Core refuses a key that names no row any more; an embedded object of a  *)
(* map that is still there is where it was put.                            *)
Attached(S, r, prop, at, k) ==
    IF <<prop.target, k>> \notin DOMAIN S.rows THEN Throw(S)
    ELSE IF prop.kind = "linkMap" /\ prop.target \in Embedded THEN S
    ELSE Attach(S, r, prop, at, k)

(* A null pointer leaves the link as it is. *)
AccessorLink(S, r, prop, p) ==
    IF p = Null THEN Done(S) ELSE AttachFirst(RowFor(S, p), p, r, prop, Null)

(* Embedded objects are inserted at their index in the vector, which throws *)
(* past the end of the list; others are appended once they are imported;   *)
(* null pointers are skipped.                                              *)
AccessorLinkList(S, r, prop, ps) ==
    [s |-> S, todo |-> [i \in DOMAIN ps |-> MakeElement(r, prop, i - 1, ps[i])]]
ListElement(S, r, prop, at, p) ==
    CASE p = Null -> Done(S)
      [] p # Null /\ prop.target \notin Embedded -> AttachLast(RowFor(S, p), p, r, prop, at)
      [] p # Null /\ prop.target \in Embedded ->
            IF at > Len(ObjGet(S, r, prop)) THEN Done(Throw(S))
            ELSE AttachFirst(RowFor(S, p), p, r, prop, at)

AccessorSet(S, r, prop, vs) == ObjSet(S, r, prop, ObjGet(S, r, prop) \cup vs)

AccessorLinkSet(S, r, prop, ps) ==
    LET each == SetToSeq(ps)
    IN  [s |-> S, todo |-> [i \in DOMAIN each |-> MakeElement(r, prop, Null, each[i])]]
SetElement(S, r, prop, p) ==
    IF p = Null THEN Done(S) ELSE AttachLast(RowFor(S, p), p, r, prop, Null)

AccessorMap(S, r, prop, m) == ObjSet(S, r, prop, MapInsert(ObjGet(S, r, prop), m))

(* The row is inserted under its key, imported, and inserted again. *)
AttachTwice(new, p, r, prop, at) ==
    [s |-> Attach(new.s, r, prop, at, new.r[2]),
     todo |-> Import(new.r, p) \o <<PutKey(r, prop, at, new.r[2])>>]
AccessorLinkMap(S, r, prop, m) ==
    LET each == SetToSeq(DOMAIN m)
    IN  [s |-> S, todo |-> [i \in DOMAIN each |-> MakeElement(r, prop, each[i], m[each[i]])]]
MapElement(S, r, prop, k, p) ==
    IF p = Null THEN Done(DictInsert(S, r, prop, k, Null))
    ELSE AttachTwice(RowFor(S, p), p, r, prop, k)

AccessorList(S, r, prop, vs) == SetListValues(S, r, prop, vs)

Accessor(S, r, prop, v) ==
    CASE prop.kind = "pk" -> Done(AccessorPrimaryKey(S, r, prop, v))
      [] prop.kind = "number" -> Done(AccessorNumber(S, r, prop, v))
      [] prop.kind = "value" -> Done(AccessorValue(S, r, prop, v))
      [] prop.kind \in ValueLists -> Done(AccessorList(S, r, prop, v))
      [] prop.kind = "set" -> Done(AccessorSet(S, r, prop, v))
      [] prop.kind = "map" -> Done(AccessorMap(S, r, prop, v))
      [] prop.kind = "link" -> AccessorLink(S, r, prop, v)
      [] prop.kind = "linkList" -> AccessorLinkList(S, r, prop, v)
      [] prop.kind = "linkSet" -> AccessorLinkSet(S, r, prop, v)
      [] prop.kind = "linkMap" -> AccessorLinkMap(S, r, prop, v)

Element(S, r, prop, at, p) ==
    CASE prop.kind = "linkList" -> ListElement(S, r, prop, at, p)
      [] prop.kind = "linkSet" -> SetElement(S, r, prop, p)
      [] prop.kind = "linkMap" -> MapElement(S, r, prop, at, p)

AddTo(S, p) == LET new == RowFor(S, p) IN [s |-> new.s, todo |-> Import(new.r, p)]

Perform(S, t) ==
    CASE t.do = "copy" -> Accessor(S, t.row, t.prop, Heap[t.from][t.prop.name])
      [] t.do = "make" -> Element(S, t.row, t.prop, t.at, t.from)
      [] t.do = "put" -> Done(Attached(S, t.row, t.prop, t.at, t.from))

(* The first step of a call under way, which throws if its row has gone. *)
Before(U, rest) == [s |-> U.s, todo |-> IF U.s.ok THEN U.todo \o rest ELSE <<>>]
Step(T) ==
    LET t == Head(T.todo)
    IN  Before(IF t.row \in DOMAIN T.s.rows THEN Perform(T.s, t) ELSE Done(Throw(T.s)), Tail(T.todo))
Onward(T) == IF T.todo = <<>> THEN T ELSE Step(T)
Run(T) ==
    LET run[n \in 0..MaxSteps] == IF n = 0 THEN T ELSE Onward(run[n - 1])
    IN  run[MaxSteps]

(* The bound leaves room for every object on the heap, and what it is put into. *)
ASSUME StepsAssumption ==
    /\ MaxSteps \in Nat
    /\ \A p \in Pointers :
          Run(AddTo([rows |-> <<>>, next |-> [c \in Classes |-> 0], ok |-> TRUE], p)).todo = <<>>

(* ----- the unmanaged graph ----- *)

Children(p) ==
    LET In(prop, v) ==
            CASE prop.kind = "link" -> {v}
              [] prop.kind = "linkSet" -> v
              [] prop.kind \in {"linkList", "linkMap"} -> Range(v)
              [] OTHER -> {}
    IN  (UNION {In(prop, Heap[p][prop.name]) : prop \in Properties(ClassOf[p])}) \ {Null}

(* The pointers on the walks from p: they are in every set that has p and  *)
(* the children of its elements.                                           *)
Reached(p) ==
    LET IsClosed(ps) == \A q \in ps : Children(q) \subseteq ps
    IN  {q \in Pointers : \A ps \in SUBSET Pointers : p \in ps /\ IsClosed(ps) => q \in ps}

(* The primary keys an import of p may touch. *)
Named ==
    [p \in Pointers |->
        {<<ClassOf[q], PkOf(ClassOf[q], Heap[q])>> :
            q \in {q \in Reached(p) : HasPrimaryKeyProperty(ClassOf[q])}}]
====
