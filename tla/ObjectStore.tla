---- MODULE ObjectStore ----
(***************************************************************************)
(* The rows of a Realm, and what realm-core and the bridge do to them when *)
(* the SDK creates and removes objects and writes their properties, as     *)
(* operators over a store of rows.                                         *)
(*                                                                         *)
(* A store is a record: `rows`, a function from the live rows to their     *)
(* columns, `next`, the next object key of each table, and `ok`, FALSE     *)
(* once a call has thrown: what was written before it stays.               *)
(* A row is <<class, key>>; keys are numbered per table, so a key means    *)
(* nothing without its class.  Unmanaged objects live in the constant      *)
(* Heap and are named by pointers.                                         *)
(***************************************************************************)
EXTENDS Integers, FiniteSets, SequencesExt

CONSTANTS
    Classes,    \* the classes with a REALM_SCHEMA
    Embedded,   \* those of REALM_EMBEDDED_SCHEMA
    Schema,     \* class -> sequence of [name, kind, target]
    Heap,       \* pointer -> [property name -> value], no cycles
    ClassOf,    \* pointer -> class
    MapKeys,    \* the keys of dictionaries
    Null        \* nullptr, std::nullopt, a null link

LinkKinds == {"link", "linkList", "linkSet", "linkMap"}
ValueLists == {"list", "boolList", "insertList"}
Kinds == LinkKinds \cup ValueLists \cup {"pk", "number", "value", "set", "map"}

(* Core opens no Realm in which two properties of a class have one name or *)
(* are primary keys, an embedded class has a primary key, or a set is of   *)
(* embedded objects.                                                       *)
ASSUME SchemaAssumption ==
    /\ Embedded \subseteq Classes
    /\ \A c \in Classes :
          /\ Len(Schema[c]) \in Nat /\ DOMAIN Schema[c] = 1..Len(Schema[c])
          /\ \A i, j \in DOMAIN Schema[c] :
                (Schema[c][i].name = Schema[c][j].name
                    \/ (Schema[c][i].kind = "pk" /\ Schema[c][j].kind = "pk")) => i = j
          /\ \A i \in DOMAIN Schema[c] :
                /\ Schema[c][i].kind \in Kinds
                /\ Schema[c][i].kind \in LinkKinds => Schema[c][i].target \in Classes
                /\ Schema[c][i].kind = "linkSet" => Schema[c][i].target \notin Embedded
                /\ Schema[c][i].kind = "pk" => c \notin Embedded

Names(c) == {Schema[c][i].name : i \in DOMAIN Schema[c]}
Columns ==
    [c \in Classes |-> [n \in Names(c) |->
        Schema[c][CHOOSE i \in DOMAIN Schema[c] : Schema[c][i].name = n]]]
Properties(c) == {Columns[c][n] : n \in DOMAIN Columns[c]}
LinkColumns ==
    [c \in Classes |-> {n \in DOMAIN Columns[c] : Columns[c][n].kind \in LinkKinds}]
PrimaryKeys == [c \in Classes |-> {n \in DOMAIN Columns[c] : Columns[c][n].kind = "pk"}]
HasPrimaryKeyProperty(c) == PrimaryKeys[c] # {}
PkOf(c, rec) == rec[CHOOSE n \in PrimaryKeys[c] : TRUE]
Pointers == DOMAIN Heap
PointersTo(c) == {p \in Pointers : ClassOf[p] = c}

(* What an unmanaged object has in a member.  Numbers stand for all values. *)
Member(prop, v) ==
    LET Pointer == PointersTo(prop.target) \cup {Null}
    IN  CASE prop.kind = "pk" -> v \in Nat
          [] prop.kind \in {"number", "value"} -> v \in Nat \cup {Null}
          [] prop.kind \in ValueLists -> v \in Seq(Nat)
          [] prop.kind = "set" -> v \subseteq Nat /\ IsFiniteSet(v)
          [] prop.kind = "map" -> DOMAIN v \subseteq MapKeys /\ \A k \in DOMAIN v : v[k] \in Nat
          [] prop.kind = "link" -> v \in Pointer
          [] prop.kind = "linkList" -> v \in Seq(Pointer)
          [] prop.kind = "linkSet" -> v \subseteq Pointer /\ IsFiniteSet(v)
          [] prop.kind = "linkMap" -> DOMAIN v \subseteq MapKeys /\ \A k \in DOMAIN v : v[k] \in Pointer

ASSUME HeapAssumption ==
    /\ Null \notin Nat /\ Null \notin Pointers
    /\ IsFiniteSet(MapKeys)
    /\ \A p \in Pointers :
          /\ ClassOf[p] \in Classes
          /\ \A prop \in Properties(ClassOf[p]) : Member(prop, Heap[p][prop.name])

(* The references a column value holds, each at its position. *)
Positions(prop, v) ==
    CASE prop.kind = "link" -> {<<0, v>>}
      [] prop.kind = "linkSet" -> {<<0, k>> : k \in v}
      [] OTHER -> {<<i, v[i]>> : i \in DOMAIN v}
KeysIn(prop, v) == {e[2] : e \in Positions(prop, v)} \ {Null}
ReferencesIn(rows, r) ==
    UNION {{<<n, e[1], Columns[r[1]][n].target, e[2]>> :
              e \in {e \in Positions(Columns[r[1]][n], rows[r][n]) : e[2] # Null}} :
           n \in LinkColumns[r[1]]}
RefersTo(rows, r) == {<<f[3], f[4]>> : f \in ReferencesIn(rows, r)}

(* ----- realm-core, as the code uses it ----- *)

Blank(c) ==
    LET Default(p) ==
            CASE p.kind \in {"pk", "number"} -> 0
              [] p.kind \in {"value", "link"} -> Null
              [] p.kind \in {"list", "boolList", "insertList", "linkList"} -> <<>>
              [] p.kind \in {"set", "linkSet"} -> {}
              [] OTHER -> <<>>
    IN  [n \in DOMAIN Columns[c] |-> Default(Columns[c][n])]

Written(S, rows) == [rows |-> rows, next |-> S.next, ok |-> S.ok]
Throw(S) == [rows |-> S.rows, next |-> S.next, ok |-> FALSE]

CoreCreate(S, c) ==
    LET new == <<c, S.next[c]>>
    IN  [s |-> [rows |-> [r \in DOMAIN S.rows \cup {new} |-> IF r = new THEN Blank(c) ELSE S.rows[r]],
                next |-> [S.next EXCEPT ![c] = @ + 1],
                ok |-> S.ok],
         r |-> new]

(* create_object_with_primary_key returns the existing row, if there is one. *)
CoreUpsert(S, c, pk) ==
    LET same == {r \in DOMAIN S.rows : r[1] = c /\ PkOf(c, S.rows[r]) = pk}
        new == CoreCreate(S, c)
        name == CHOOSE n \in PrimaryKeys[c] : TRUE
    IN  IF same # {} THEN [s |-> S, r |-> CHOOSE r \in same : TRUE]
        ELSE [s |-> Written(new.s, [new.s.rows EXCEPT ![new.r][name] = pk]), r |-> new.r]

(* An embedded row goes when nothing owns it any more, and with it what it *)
(* owns: those that no top-level row owns stay with what owns them.        *)
Ownerships(rows) == UNION {{r} \X RefersTo(rows, r) : r \in DOMAIN rows}
Loose(rows, owns) ==
    {r \in DOMAIN rows : r[1] \in Embedded /\ \A o \in owns : o[2] = r => o[1][1] \in Embedded}
Adrift(loose, owns) ==
    loose \ UNION {es \in SUBSET loose :
                       \A e \in es : \E o \in owns : o[2] = e /\ o[1] \notin loose \ es}
Without(rows, gone) == [r \in {r \in DOMAIN rows : r \notin gone} |-> rows[r]]
WithoutAdrift(rows, owns) == Without(rows, Adrift(Loose(rows, owns), owns))
Sweep(rows) == WithoutAdrift(rows, Ownerships(rows))

(* A list without the elements that are k. *)
Dropped(s, k) ==
    LET left[i \in 0..Len(s)] ==
            IF i = 0 THEN <<>>
            ELSE IF s[i] = k THEN left[i - 1] ELSE Append(left[i - 1], s[i])
    IN  left[Len(s)]

(* Removing a row follows its backlinks: it nullifies the links and        *)
(* dictionary values that point to it and drops it from lists and sets.    *)
Nullify(prop, v, gone) ==
    LET Dead(k) == prop.target = gone[1] /\ k = gone[2]
    IN  CASE prop.kind = "link" -> IF Dead(v) THEN Null ELSE v
          [] prop.kind = "linkList" -> IF prop.target = gone[1] THEN Dropped(v, gone[2]) ELSE v
          [] prop.kind = "linkSet" -> {k \in v : ~Dead(k)}
          [] prop.kind = "linkMap" -> [m \in DOMAIN v |-> IF Dead(v[m]) THEN Null ELSE v[m]]
          [] OTHER -> v
Unlinked(rows, gone) ==
    [r \in DOMAIN rows \ {gone} |->
        IF gone \in RefersTo(rows, r)
        THEN [n \in DOMAIN rows[r] |-> Nullify(Columns[r[1]][n], rows[r][n], gone)]
        ELSE rows[r]]
CoreRemove(rows, gone) == Sweep(Unlinked(rows, gone))

(* ----- bridge::obj, bridge::lnklst, bridge::set, core_dictionary ----- *)

Owns(prop) == prop.kind \in LinkKinds /\ prop.target \in Embedded

ObjGet(S, r, prop) == S.rows[r][prop.name]
ObjSet(S, r, prop, v) ==
    LET written == [S.rows EXCEPT ![r][prop.name] = v]
        letsGo == Owns(prop) /\ ~(KeysIn(prop, ObjGet(S, r, prop)) \subseteq KeysIn(prop, v))
    IN  Written(S, IF letsGo THEN Sweep(written) ELSE written)
ObjSetNull(S, r, prop) == ObjSet(S, r, prop, Null)

(* Core validates a key written to a link column: it must name a live row  *)
(* of the target table, and not one that has an owner already.             *)
ObjSetKey(S, r, prop, k) ==
    IF <<prop.target, k>> \notin DOMAIN S.rows \/ prop.target \in Embedded
    THEN Throw(S) ELSE ObjSet(S, r, prop, k)

ListAdd(S, r, prop, v) == ObjSet(S, r, prop, Append(ObjGet(S, r, prop), v))
SetInsert(S, r, prop, v) == ObjSet(S, r, prop, ObjGet(S, r, prop) \cup {v})
MapInsert(old, new) ==
    [k \in DOMAIN old \cup DOMAIN new |-> IF k \in DOMAIN new THEN new[k] ELSE old[k]]
DictInsert(S, r, prop, k, v) == ObjSet(S, r, prop, MapInsert(ObjGet(S, r, prop), [m \in {k} |-> v]))

(* Fault: insert(0, v) for every element. *)
SetListValuesReversed(S, r, prop, vs) ==
    LET old == ObjGet(S, r, prop)
    IN  ObjSet(S, r, prop, CASE prop.kind = "list" -> vs
                             [] prop.kind = "boolList" -> old \o vs
                             [] prop.kind = "insertList" -> Reverse(vs) \o old)

(* set_list_values: most element types replace the list, bool appends to   *)
(* it, and mixed and the optional pointer types insert in front.           *)
SetListValues(S, r, prop, vs) ==
    LET old == ObjGet(S, r, prop)
    IN  ObjSet(S, r, prop, CASE prop.kind = "list" -> vs
                             [] prop.kind = "boolList" -> old \o vs
                             [] prop.kind = "insertList" -> vs \o old)
====
