---- MODULE Detaching ----
(***************************************************************************)
(* detach(), which reads an object back, and what it should read after an  *)
(* object was added.                                                       *)
(***************************************************************************)
EXTENDS Objects

(* ----- detach ----- *)

(* Reading a row as class c, column by column, by name.  `path` holds the  *)
(* reads under way: one that meets itself never returns.                   *)
Diverges == "diverges"
NoColumn == "no such column"

RECURSIVE DetachAs(_, _, _, _)

(* A null link is not detached to null: the object is built from the       *)
(* columns of the row that holds the link.                                 *)
DetachLink(db, r, prop, path) ==
    LET k == db[r][prop.name]
    IN  DetachAs(db, IF k = Null THEN r ELSE <<prop.target, k>>, prop.target, path)

DetachLinkList(db, r, prop, path) ==
    [i \in DOMAIN db[r][prop.name] |->
        DetachAs(db, <<prop.target, db[r][prop.name][i]>>, prop.target, path)]

(* A set of new pointers; here the set of what they point to. *)
DetachLinkSet(db, r, prop, path) ==
    {DetachAs(db, <<prop.target, k>>, prop.target, path) : k \in db[r][prop.name]}

DetachLinkMap(db, r, prop, path) ==
    [m \in DOMAIN db[r][prop.name] |->
        LET k == db[r][prop.name][m]
        IN  IF k = Null THEN NoColumn
            ELSE DetachAs(db, <<prop.target, k>>, prop.target, path)]

DetachAs(db, r, c, path) ==
    LET Value(prop) ==
            IF prop.name \notin DOMAIN db[r] THEN NoColumn
            ELSE CASE prop.kind = "link" -> DetachLink(db, r, prop, path \cup {<<r, c>>})
                   [] prop.kind = "linkList" -> DetachLinkList(db, r, prop, path \cup {<<r, c>>})
                   [] prop.kind = "linkSet" -> DetachLinkSet(db, r, prop, path \cup {<<r, c>>})
                   [] prop.kind = "linkMap" -> DetachLinkMap(db, r, prop, path \cup {<<r, c>>})
                   [] OTHER -> db[r][prop.name]
    IN  IF <<r, c>> \in path THEN Diverges
        ELSE [n \in DOMAIN Columns[c] |-> Value(Columns[c][n])]

Detach(db, r) == DetachAs(db, r, r[1], {})

(* ----- the unmanaged graph, to state what an import should leave ----- *)

RECURSIVE Visits(_)
(* Every pointer met on a walk from p, as often as it is met. *)
Visits(p) ==
    LET Pointed(prop) ==
            LET v == Heap[p][prop.name]
            IN  CASE prop.kind = "link" -> <<v>>
                  [] prop.kind = "linkList" -> v
                  [] prop.kind = "linkSet" -> SetToSeq(v)
                  [] prop.kind = "linkMap" -> SetToSeq(Range(v))
                  [] OTHER -> <<>>
        children == FlattenSeq([i \in DOMAIN Schema[ClassOf[p]] |-> Pointed(Schema[ClassOf[p]][i])])
    IN  IF p = Null THEN <<Null>>
        ELSE <<p>> \o FlattenSeq([i \in DOMAIN children |-> Visits(children[i])])

RECURSIVE TreeOf(_)
TreeOf(p) ==
    LET Value(prop) ==
            LET v == Heap[p][prop.name]
            IN  CASE prop.kind = "link" -> TreeOf(v)
                  [] prop.kind = "linkList" -> [i \in DOMAIN v |-> TreeOf(v[i])]
                  [] prop.kind = "linkSet" -> {TreeOf(q) : q \in v}
                  [] prop.kind = "linkMap" -> [m \in DOMAIN v |-> TreeOf(v[m])]
                  [] OTHER -> v
    IN  [n \in DOMAIN Columns[ClassOf[p]] |-> Value(Columns[ClassOf[p]][n])]
Trees == [p \in {p \in Pointers : Null \notin Range(Visits(p))} |-> TreeOf(p)]

(* Whether a walk from p meets every primary key once, and no null. *)
IsTree ==
    [p \in Pointers |->
        LET visited == Visits(p)
            keyed == {i \in DOMAIN visited :
                        visited[i] # Null /\ HasPrimaryKeyProperty(ClassOf[visited[i]])}
            Name(i) == <<ClassOf[visited[i]], PkOf(ClassOf[visited[i]], Heap[visited[i]])>>
        IN  Null \notin Range(visited) /\ \A i, j \in keyed : Name(i) = Name(j) => i = j]

(* Whether an import of p meets no primary key twice, or one that is there. *)
IsFresh(p) ==
    /\ IsTree[p]
    /\ \A name \in Named[p] : \A r \in RowsOf(name[1]) : PkOf(r[1], rows[r]) # name[2]

(* An object added with keys that were not there, each met once, and no    *)
(* null pointers comes back equal when it is detached.                     *)
AddedIsDetached ==
    [][(last'.op = "add" /\ last'.ok /\ IsFresh(last'.key)) =>
          Detach(rows', last'.row) = Trees[last'.key]]_vars
====
