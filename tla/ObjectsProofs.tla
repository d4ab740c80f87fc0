---------------------------- MODULE ObjectsProofs ----------------------------
(***************************************************************************)
(* Proofs about Objects, for any schema and heap.  What a step of a call   *)
(* keeps is proved first, then that a whole call keeps it, by induction on *)
(* its steps, and then what the calls of a program keep.                   *)
(***************************************************************************)
EXTENDS Objects, SequenceTheorems, FiniteSetTheorems, WellFoundedInduction, TLAPS

(* ----- the schema ----- *)

\* The columns of a class are the properties of its schema, by their names.
LEMMA SchemaFacts ==
    ASSUME NEW c \in Classes
    PROVE  /\ Len(Schema[c]) \in Nat /\ DOMAIN Schema[c] = 1..Len(Schema[c])
           /\ DOMAIN Columns[c] = {Schema[c][i].name : i \in DOMAIN Schema[c]}
           /\ \A i \in DOMAIN Schema[c] : Columns[c][Schema[c][i].name] = Schema[c][i]
           /\ \A n \in DOMAIN Columns[c] : Columns[c][n].name = n
           /\ \A n \in DOMAIN Columns[c] : \E i \in DOMAIN Schema[c] : Columns[c][n] = Schema[c][i]
<1>1. /\ Len(Schema[c]) \in Nat /\ DOMAIN Schema[c] = 1..Len(Schema[c])
      /\ \A i, j \in DOMAIN Schema[c] : Schema[c][i].name = Schema[c][j].name => i = j
  BY SchemaAssumption
<1>2. Columns[c] = [n \in Names(c) |-> Schema[c][CHOOSE i \in DOMAIN Schema[c] : Schema[c][i].name = n]]
  BY DEF Columns
<1>3. ASSUME NEW i \in DOMAIN Schema[c]
      PROVE  Columns[c][Schema[c][i].name] = Schema[c][i]
  <2> DEFINE j == CHOOSE j \in DOMAIN Schema[c] : Schema[c][j].name = Schema[c][i].name
  <2>1. j \in DOMAIN Schema[c] /\ Schema[c][j].name = Schema[c][i].name
    OBVIOUS
  <2>2. j = i
    BY <2>1, <1>1
  <2>3. Schema[c][i].name \in Names(c)
    BY DEF Names
  <2>4. QED
    BY <2>2, <2>3, <1>2
<1>4. DOMAIN Columns[c] = {Schema[c][i].name : i \in DOMAIN Schema[c]}
  BY <1>2 DEF Names
<1>5. QED
  BY <1>1, <1>3, <1>4

\* A property of a class is one of its columns.
LEMMA PropertyFacts ==
    ASSUME NEW c \in Classes, NEW prop \in Properties(c)
    PROVE  /\ prop.name \in DOMAIN Columns[c] /\ Columns[c][prop.name] = prop
           /\ prop.kind \in Kinds
           /\ prop.kind \in LinkKinds => prop.target \in Classes
           /\ prop.kind = "linkSet" => prop.target \notin Embedded
           /\ prop.kind = "pk" => c \notin Embedded
           /\ prop.name \in LinkColumns[c] <=> prop.kind \in LinkKinds
           /\ prop.name \in PrimaryKeys[c] <=> prop.kind = "pk"
<1>1. PICK n \in DOMAIN Columns[c] : prop = Columns[c][n]
  BY DEF Properties
<1>2. PICK i \in DOMAIN Schema[c] : prop = Schema[c][i]
  BY <1>1, SchemaFacts
<1>3. prop.name = n
  BY <1>1, SchemaFacts
<1>4. /\ prop.kind \in Kinds
      /\ prop.kind \in LinkKinds => prop.target \in Classes
      /\ prop.kind = "linkSet" => prop.target \notin Embedded
      /\ prop.kind = "pk" => c \notin Embedded
  BY <1>2, SchemaAssumption
<1>5. QED
  BY <1>1, <1>3, <1>4 DEF LinkColumns, PrimaryKeys

\* A column is a property of its class.
LEMMA ColumnIsProperty ==
    ASSUME NEW c \in Classes, NEW n \in DOMAIN Columns[c]
    PROVE  Columns[c][n] \in Properties(c) /\ Columns[c][n].name = n
BY SchemaFacts DEF Properties

\* So is each member of the schema.
LEMMA SchemaIsProperty ==
    ASSUME NEW c \in Classes, NEW i \in DOMAIN Schema[c]
    PROVE  Schema[c][i] \in Properties(c)
BY SchemaFacts DEF Properties

\* Names, kinds and targets of the columns that hold references.
LEMMA LinkColumnFacts ==
    ASSUME NEW c \in Classes, NEW n \in LinkColumns[c]
    PROVE  /\ n \in DOMAIN Columns[c] /\ Columns[c][n] \in Properties(c)
           /\ Columns[c][n].kind \in LinkKinds /\ Columns[c][n].target \in Classes
<1>1. n \in DOMAIN Columns[c] /\ Columns[c][n].kind \in LinkKinds
  BY DEF LinkColumns
<1>2. QED
  BY <1>1, ColumnIsProperty, PropertyFacts

\* A class has at most one primary key.
LEMMA PrimaryKeyFacts ==
    ASSUME NEW c \in Classes, HasPrimaryKeyProperty(c)
    PROVE  /\ c \notin Embedded
           /\ \E n \in DOMAIN Columns[c] :
                 /\ n = CHOOSE m \in PrimaryKeys[c] : TRUE
                 /\ PrimaryKeys[c] = {n} /\ Columns[c][n].kind = "pk"
                 /\ \A rec : PkOf(c, rec) = rec[n]
<1> DEFINE n == CHOOSE m \in PrimaryKeys[c] : TRUE
<1>1. n \in PrimaryKeys[c]
  BY DEF HasPrimaryKeyProperty
<1>2. PrimaryKeys[c] = {m \in DOMAIN Columns[c] : Columns[c][m].kind = "pk"}
  BY DEF PrimaryKeys
<1>3. \A m \in PrimaryKeys[c] : \E i \in DOMAIN Schema[c] :
          Columns[c][m] = Schema[c][i] /\ Schema[c][i].name = m /\ Schema[c][i].kind = "pk"
  BY <1>2, SchemaFacts
<1>4. \A m \in PrimaryKeys[c] : m = n
  BY <1>1, <1>3, SchemaAssumption
<1>5. c \notin Embedded
  BY <1>1, <1>3, SchemaAssumption
<1>6. \A rec : PkOf(c, rec) = rec[n]
  BY DEF PkOf
<1>7. QED
  BY <1>1, <1>2, <1>4, <1>5, <1>6

\* The member of an unmanaged object that goes to a column.
LEMMA MemberFacts ==
    ASSUME NEW p \in Pointers, NEW prop \in Properties(ClassOf[p])
    PROVE  ClassOf[p] \in Classes /\ Member(prop, Heap[p][prop.name])
BY HeapAssumption

(* ----- references and owners ----- *)

\* The references of a column that holds v.
ColumnRefs(c, n, v) ==
    {<<n, e[1], Columns[c][n].target, e[2]>> : e \in {e \in Positions(Columns[c][n], v) : e[2] # Null}}

\* The references of a row are those of its link columns.
LEMMA ReferencesAre ==
    ASSUME NEW store, NEW r
    PROVE  ReferencesIn(store, r) = UNION {ColumnRefs(r[1], n, store[r][n]) : n \in LinkColumns[r[1]]}
BY DEF ReferencesIn, ColumnRefs

\* A column refers to the keys it holds, in the table of its target.
LEMMA ColumnRefsFacts ==
    ASSUME NEW c, NEW n, NEW v
    PROVE  /\ \A f \in ColumnRefs(c, n, v) :
                 /\ f = <<n, f[2], Columns[c][n].target, f[4]>>
                 /\ f[1] = n /\ f[3] = Columns[c][n].target /\ f[4] # Null
                 /\ f[4] \in KeysIn(Columns[c][n], v)
                 /\ \E e \in Positions(Columns[c][n], v) : f[2] = e[1] /\ f[4] = e[2]
           /\ \A k \in KeysIn(Columns[c][n], v) : \E f \in ColumnRefs(c, n, v) : f[4] = k
<1>1. ASSUME NEW f \in ColumnRefs(c, n, v)
      PROVE  /\ f = <<n, f[2], Columns[c][n].target, f[4]>>
             /\ f[1] = n /\ f[3] = Columns[c][n].target /\ f[4] # Null
             /\ f[4] \in KeysIn(Columns[c][n], v)
             /\ \E e \in Positions(Columns[c][n], v) : f[2] = e[1] /\ f[4] = e[2]
  <2>1. PICK e \in Positions(Columns[c][n], v) :
            e[2] # Null /\ f = <<n, e[1], Columns[c][n].target, e[2]>>
    BY <1>1 DEF ColumnRefs
  <2>2. f[1] = n /\ f[2] = e[1] /\ f[3] = Columns[c][n].target /\ f[4] = e[2]
    BY <2>1
  <2>3. e[2] \in KeysIn(Columns[c][n], v)
    BY <2>1 DEF KeysIn
  <2>4. QED
    BY <2>1, <2>2, <2>3
<1>2. ASSUME NEW k \in KeysIn(Columns[c][n], v)
      PROVE  \E f \in ColumnRefs(c, n, v) : f[4] = k
  <2>1. PICK e \in Positions(Columns[c][n], v) : e[2] = k /\ k # Null
    BY <1>2 DEF KeysIn
  <2>2. <<n, e[1], Columns[c][n].target, e[2]>> \in ColumnRefs(c, n, v)
    BY <2>1 DEF ColumnRefs
  <2>3. QED
    BY <2>1, <2>2
<1>3. QED
  BY <1>1, <1>2

\* A row with the same columns in another store refers to the same rows.
LEMMA SameReferences ==
    ASSUME NEW store, NEW others, NEW r, store[r] = others[r]
    PROVE  ReferencesIn(others, r) = ReferencesIn(store, r) /\ RefersTo(others, r) = RefersTo(store, r)
BY DEF ReferencesIn, RefersTo

Live(store) == \A r \in DOMAIN store : RefersTo(store, r) \subseteq DOMAIN store

\* No embedded row is referred to twice.
Sole(store) ==
    \A r, s \in DOMAIN store :
        \A f \in ReferencesIn(store, r), g \in ReferencesIn(store, s) :
            (f[3] \in Embedded /\ f[3] = g[3] /\ f[4] = g[4]) => r = s /\ f = g

HasOwner(store, e) == \E r \in DOMAIN store : e \in RefersTo(store, r)

\* Every embedded row has an owner, but for one that is new.
OwnedBut(store, new) ==
    \A e \in DOMAIN store : (e[1] \in Embedded /\ e # new) => HasOwner(store, e)

Owned(store) == \A e \in DOMAIN store : e[1] \in Embedded => HasOwner(store, e)

\* Of a sound store in which embedded rows may have lost their owner, the
\* sweep leaves a sound one, and every top-level row.
LEMMA SweepKeeps ==
    ASSUME NEW store, Live(store), Sole(store)
    PROVE  /\ Live(Sweep(store)) /\ Sole(Sweep(store)) /\ Owned(Sweep(store))
           /\ DOMAIN Sweep(store) \subseteq DOMAIN store
           /\ \A r \in DOMAIN store : r[1] \notin Embedded => r \in DOMAIN Sweep(store)
           /\ \A r \in DOMAIN Sweep(store) : Sweep(store)[r] = store[r]
<1> DEFINE owns == Ownerships(store)
           loose == Loose(store, owns)
           gone == Adrift(loose, owns)
           left == Without(store, gone)
           Floats(es) == \A e \in es : \E o \in owns : o[2] = e /\ o[1] \notin loose \ es
<1>1. Sweep(store) = left
  BY DEF Sweep, WithoutAdrift
<1>2. /\ DOMAIN left = {r \in DOMAIN store : r \notin gone}
      /\ \A r \in DOMAIN left : left[r] = store[r]
  BY DEF Without
<1>3. gone = loose \ UNION {es \in SUBSET loose : Floats(es)}
  BY DEF Adrift
<1>4. loose = {r \in DOMAIN store : r[1] \in Embedded /\ \A o \in owns : o[2] = r => o[1][1] \in Embedded}
  BY DEF Loose
<1>5. /\ \A o \in owns : o[1] \in DOMAIN store /\ o[2] \in RefersTo(store, o[1])
      /\ \A r \in DOMAIN store : \A e \in RefersTo(store, r) : <<r, e>> \in owns
  BY DEF Ownerships
<1> HIDE DEF owns, loose, gone, left
<1>6. \A r \in DOMAIN left :
          ReferencesIn(left, r) = ReferencesIn(store, r) /\ RefersTo(left, r) = RefersTo(store, r)
  BY <1>2, SameReferences
<1>7. ASSUME NEW r \in DOMAIN left, NEW e \in RefersTo(left, r)
      PROVE  e \in DOMAIN left
  <2>1. r \in DOMAIN store /\ r \notin gone /\ e \in DOMAIN store /\ e \in RefersTo(store, r)
    BY <1>2, <1>6, <1>7 DEF Live
  <2>2. <<r, e>> \in owns
    BY <2>1, <1>5
  <2>3. SUFFICES ASSUME e \in loose PROVE e \notin gone
    BY <2>1, <1>2, <1>3
  <2>4. CASE r \notin loose
    <3>1. Floats({e})
      BY <2>2, <2>4
    <3>2. QED
      BY <3>1, <2>3, <1>3
  <2>5. CASE r \in loose
    <3>1. PICK es \in SUBSET loose : r \in es /\ Floats(es)
      BY <2>1, <2>5, <1>3
    <3>2. \A x \in es : \E o \in owns : o[2] = x /\ o[1] \notin loose \ (es \cup {e})
      BY <3>1
    <3>3. <<r, e>>[2] = e /\ <<r, e>>[1] \notin loose \ (es \cup {e})
      BY <3>1
    <3>4. Floats(es \cup {e})
      BY <3>2, <3>3, <2>2
    <3>5. es \cup {e} \in SUBSET loose
      BY <2>3
    <3>6. QED
      BY <3>4, <3>5, <1>3
  <2>6. QED
    BY <2>4, <2>5
<1>8. ASSUME NEW e \in DOMAIN left, e[1] \in Embedded
      PROVE  HasOwner(left, e)
  <2>1. e \in DOMAIN store /\ e \notin gone
    BY <1>2
  <2>2. PICK o \in owns : o[2] = e /\ o[1] \notin gone
    <3>1. CASE e \notin loose
      <4>1. PICK o \in owns : o[2] = e /\ o[1][1] \notin Embedded
        BY <3>1, <2>1, <1>4, <1>8
      <4>2. o[1] \notin loose
        BY <4>1, <1>4
      <4>3. QED
        BY <4>1, <4>2, <1>3
    <3>2. CASE e \in loose
      <4>1. PICK es \in SUBSET loose : e \in es /\ Floats(es)
        BY <2>1, <3>2, <1>3
      <4>2. PICK o \in owns : o[2] = e /\ o[1] \notin loose \ es
        BY <4>1
      <4>3. o[1] \notin gone
        BY <4>1, <4>2, <1>3
      <4>4. QED
        BY <4>2, <4>3
    <3>3. QED
      BY <3>1, <3>2
  <2>3. o[1] \in DOMAIN left /\ e \in RefersTo(store, o[1])
    BY <2>2, <1>2, <1>5
  <2>4. QED
    BY <2>3, <1>6 DEF HasOwner
<1>9. Live(left) /\ Owned(left)
  BY <1>7, <1>8 DEF Live, Owned
<1>10. Sole(left)
  BY <1>2, <1>6 DEF Sole
<1>11. \A r \in DOMAIN store : r[1] \notin Embedded => r \in DOMAIN left
  BY <1>2, <1>3, <1>4
<1>12. QED
  BY <1>1, <1>2, <1>9, <1>10, <1>11

(* ----- sound stores ----- *)

TypedRow(S, r) ==
    /\ r \in Classes \X Nat /\ r[2] < S.next[r[1]]
    /\ DOMAIN S.rows[r] = DOMAIN Columns[r[1]]
    /\ \A p \in Properties(r[1]) : Column(p, S.rows[r][p.name])

Typed(S) == S.next \in [Classes -> Nat] /\ \A r \in DOMAIN S.rows : TypedRow(S, r)

OneKey(store) ==
    \A r, s \in DOMAIN store :
        (r[1] = s[1] /\ HasPrimaryKeyProperty(r[1]) /\ PkOf(r[1], store[r]) = PkOf(r[1], store[s])) => r = s

\* A store between two steps of a call.
Sound(S) == Typed(S) /\ Live(S.rows) /\ Sole(S.rows) /\ Owned(S.rows) /\ OneKey(S.rows)

\* A store in which the embedded row `new` waits to be attached.
SoundBut(S, new) ==
    /\ Typed(S) /\ Live(S.rows) /\ Sole(S.rows) /\ OwnedBut(S.rows, new) /\ OneKey(S.rows)
    /\ new[1] \in Embedded => \A r \in DOMAIN S.rows : new \notin RefersTo(S.rows, r)

\* Of the top-level rows of S only those of ws differ in U, all are there,
\* and they have the same primary keys.
Keeps(S, U, ws) ==
    \A w \in DOMAIN S.rows : w[1] \notin Embedded =>
        /\ w \in DOMAIN U.rows
        /\ w \notin ws => U.rows[w] = S.rows[w]
        /\ HasPrimaryKeyProperty(w[1]) => PkOf(w[1], U.rows[w]) = PkOf(w[1], S.rows[w])

\* What may be written to a property of r: references to live rows, and, if
\* it owns them, those it has already or the new row, and none twice.
Fits(S, new, r, prop, v) ==
    /\ Column(prop, v)
    /\ prop.kind = "pk" => v = S.rows[r][prop.name]
    /\ prop.kind \in LinkKinds => \A k \in KeysIn(prop, v) : <<prop.target, k>> \in DOMAIN S.rows
    /\ Owns(prop) =>
          /\ \A k \in KeysIn(prop, v) :
                k \in KeysIn(prop, S.rows[r][prop.name]) \/ <<prop.target, k>> = new
          /\ \A e, f \in Positions(prop, v) : (e[2] = f[2] /\ e[2] # Null) => e = f
    /\ (new \in DOMAIN S.rows /\ new[1] \in Embedded) =>
          Owns(prop) /\ \E k \in KeysIn(prop, v) : <<prop.target, k>> = new

\* What a call that does nothing keeps.
LEMMA KeepsItself ==
    ASSUME NEW S, NEW ws
    PROVE  Keeps(S, S, ws)
BY DEF Keeps

\* What two steps keep, one after the other.
LEMMA KeepsOn ==
    ASSUME NEW S, NEW T, NEW U, NEW ws, Keeps(S, T, ws), Keeps(T, U, ws)
    PROVE  Keeps(S, U, ws)
BY DEF Keeps

\* What is kept by a call that may write fewer rows.
LEMMA KeepsMore ==
    ASSUME NEW S, NEW T, NEW vs, NEW ws, Keeps(S, T, vs), vs \subseteq ws
    PROVE  Keeps(S, T, ws)
BY DEF Keeps

Rewritten(S, r, prop, v) == [S.rows EXCEPT ![r][prop.name] = v]

\* Writing a column changes that column.
LEMMA WriteIs ==
    ASSUME NEW S, Typed(S), NEW r \in DOMAIN S.rows, NEW prop \in Properties(r[1]), NEW v,
           NEW w, w = Rewritten(S, r, prop, v)
    PROVE  /\ r[1] \in Classes /\ DOMAIN w = DOMAIN S.rows
           /\ \A s \in DOMAIN S.rows : s # r => w[s] = S.rows[s]
           /\ DOMAIN w[r] = DOMAIN S.rows[r] /\ w[r][prop.name] = v
           /\ \A n \in DOMAIN S.rows[r] : n # prop.name => w[r][n] = S.rows[r][n]
<1>1. r[1] \in Classes /\ DOMAIN S.rows[r] = DOMAIN Columns[r[1]]
  BY DEF Typed, TypedRow
<1>2. prop.name \in DOMAIN S.rows[r]
  BY <1>1, PropertyFacts
<1>3. DOMAIN w = DOMAIN S.rows /\ w[r] = [S.rows[r] EXCEPT ![prop.name] = v]
  BY DEF Rewritten
<1>4. \A s \in DOMAIN S.rows : s # r => w[s] = S.rows[s]
  BY DEF Rewritten
<1>5. QED
  BY <1>1, <1>2, <1>3, <1>4

\* A write leaves the rows typed, and primary keys as they are.
LEMMA WriteTypes ==
    ASSUME NEW S, NEW new, SoundBut(S, new), NEW r \in DOMAIN S.rows,
           NEW prop \in Properties(r[1]), NEW v, Fits(S, new, r, prop, v),
           NEW w, w = Rewritten(S, r, prop, v)
    PROVE  /\ \A s \in DOMAIN w : TypedRow(Written(S, w), s)
           /\ \A s \in DOMAIN w : HasPrimaryKeyProperty(s[1]) => PkOf(s[1], w[s]) = PkOf(s[1], S.rows[s])
           /\ OneKey(w)
<1>1. /\ r[1] \in Classes /\ DOMAIN w = DOMAIN S.rows
      /\ \A s \in DOMAIN S.rows : s # r => w[s] = S.rows[s]
      /\ DOMAIN w[r] = DOMAIN S.rows[r] /\ w[r][prop.name] = v
      /\ \A n \in DOMAIN S.rows[r] : n # prop.name => w[r][n] = S.rows[r][n]
  <2>1. Typed(S)
    BY DEF SoundBut
  <2>2. QED
    BY <2>1, WriteIs
<1>2. \A s \in DOMAIN S.rows : TypedRow(S, s)
  BY DEF SoundBut, Typed
<1>3. Written(S, w).next = S.next /\ Written(S, w).rows = w
  BY DEF Written
<1>4. ASSUME NEW s \in DOMAIN w
      PROVE  TypedRow(Written(S, w), s)
  <2>1. /\ s \in Classes \X Nat /\ s[2] < S.next[s[1]]
        /\ DOMAIN S.rows[s] = DOMAIN Columns[s[1]]
        /\ \A p \in Properties(s[1]) : Column(p, S.rows[s][p.name])
    BY <1>1, <1>2 DEF TypedRow
  <2>2. DOMAIN w[s] = DOMAIN Columns[s[1]]
    BY <1>1, <2>1
  <2>3. ASSUME NEW p \in Properties(s[1]) PROVE Column(p, w[s][p.name])
    <3>1. CASE s = r /\ p.name = prop.name
      <4>1. p = prop
        BY <3>1, <1>1, PropertyFacts
      <4>2. QED
        BY <3>1, <4>1, <1>1 DEF Fits
    <3>2. CASE s # r \/ p.name # prop.name
      <4>1. p.name \in DOMAIN S.rows[s]
        BY <2>1, PropertyFacts
      <4>2. w[s][p.name] = S.rows[s][p.name]
        BY <3>2, <4>1, <1>1
      <4>3. QED
        BY <4>2, <2>1
    <3>3. QED
      BY <3>1, <3>2
  <2>4. QED
    BY <1>3, <2>1, <2>2, <2>3 DEF TypedRow
<1>5. ASSUME NEW s \in DOMAIN w, HasPrimaryKeyProperty(s[1])
      PROVE  PkOf(s[1], w[s]) = PkOf(s[1], S.rows[s])
  <2>1. s \in DOMAIN S.rows /\ s[1] \in Classes /\ DOMAIN S.rows[s] = DOMAIN Columns[s[1]]
    BY <1>1, <1>2 DEF TypedRow
  <2>2. PICK n \in DOMAIN Columns[s[1]] :
            /\ Columns[s[1]][n].kind = "pk"
            /\ PkOf(s[1], w[s]) = w[s][n] /\ PkOf(s[1], S.rows[s]) = S.rows[s][n]
    BY <2>1, <1>5, PrimaryKeyFacts
  <2>3. CASE s = r /\ n = prop.name
    <3>1. prop.kind = "pk"
      BY <2>1, <2>2, <2>3, PropertyFacts
    <3>2. v = S.rows[r][prop.name]
      BY <3>1 DEF Fits
    <3>3. QED
      BY <3>2, <2>2, <2>3, <1>1
  <2>4. CASE s # r \/ n # prop.name
    BY <2>1, <2>2, <2>4, <1>1
  <2>5. QED
    BY <2>3, <2>4
<1>6. OneKey(w)
  BY <1>1, <1>5 DEF OneKey, SoundBut
<1>7. QED
  BY <1>4, <1>5, <1>6

\* The references after a write are those of the other columns and of v.
LEMMA WriteRefs ==
    ASSUME NEW S, Typed(S), NEW r \in DOMAIN S.rows, NEW prop \in Properties(r[1]), NEW v,
           NEW w, w = Rewritten(S, r, prop, v)
    PROVE  /\ \A s \in DOMAIN S.rows : s # r => ReferencesIn(w, s) = ReferencesIn(S.rows, s)
           /\ prop.kind \notin LinkKinds => ReferencesIn(w, r) = ReferencesIn(S.rows, r)
           /\ prop.kind \in LinkKinds =>
                 /\ \A f \in ReferencesIn(w, r) :
                       \/ f \in ReferencesIn(S.rows, r) /\ f[1] # prop.name
                       \/ f \in ColumnRefs(r[1], prop.name, v)
                 /\ ColumnRefs(r[1], prop.name, v) \subseteq ReferencesIn(w, r)
                 /\ ColumnRefs(r[1], prop.name, S.rows[r][prop.name]) \subseteq ReferencesIn(S.rows, r)
                 /\ \A f \in ReferencesIn(S.rows, r) :
                       \/ f \in ReferencesIn(w, r)
                       \/ f \in ColumnRefs(r[1], prop.name, S.rows[r][prop.name])
<1> DEFINE c == r[1]
           n == prop.name
<1>1. /\ c \in Classes
      /\ \A s \in DOMAIN S.rows : s # r => w[s] = S.rows[s]
      /\ DOMAIN S.rows[r] = DOMAIN Columns[c] /\ w[r][n] = v
      /\ \A m \in DOMAIN S.rows[r] : m # n => w[r][m] = S.rows[r][m]
  <2>1. DOMAIN S.rows[r] = DOMAIN Columns[c]
    BY DEF Typed, TypedRow
  <2>2. QED
    BY <2>1, WriteIs
<1>2. n \in LinkColumns[c] <=> prop.kind \in LinkKinds
  BY <1>1, PropertyFacts
<1>3. \A m \in LinkColumns[c] : m \in DOMAIN Columns[c]
  BY <1>1, LinkColumnFacts
<1>4. /\ ReferencesIn(w, r) = UNION {ColumnRefs(c, m, w[r][m]) : m \in LinkColumns[c]}
      /\ ReferencesIn(S.rows, r) = UNION {ColumnRefs(c, m, S.rows[r][m]) : m \in LinkColumns[c]}
  BY ReferencesAre
<1>5. \A m \in LinkColumns[c] : m # n => w[r][m] = S.rows[r][m]
  BY <1>1, <1>3
<1>6. \A m, u : \A f \in ColumnRefs(c, m, u) : f[1] = m
  BY ColumnRefsFacts
<1>7. \A s \in DOMAIN S.rows : s # r => ReferencesIn(w, s) = ReferencesIn(S.rows, s)
  BY <1>1, SameReferences
<1>8. ASSUME prop.kind \notin LinkKinds
      PROVE  ReferencesIn(w, r) = ReferencesIn(S.rows, r)
  <2>1. \A m \in LinkColumns[c] : w[r][m] = S.rows[r][m]
    BY <1>2, <1>5, <1>8
  <2>2. {ColumnRefs(c, m, w[r][m]) : m \in LinkColumns[c]} = {ColumnRefs(c, m, S.rows[r][m]) : m \in LinkColumns[c]}
    BY <2>1
  <2>3. QED
    BY <2>2, <1>4
<1>9. ASSUME prop.kind \in LinkKinds
      PROVE  /\ \A f \in ReferencesIn(w, r) :
                   \/ f \in ReferencesIn(S.rows, r) /\ f[1] # n
                   \/ f \in ColumnRefs(c, n, v)
             /\ ColumnRefs(c, n, v) \subseteq ReferencesIn(w, r)
             /\ ColumnRefs(c, n, S.rows[r][n]) \subseteq ReferencesIn(S.rows, r)
             /\ \A f \in ReferencesIn(S.rows, r) :
                   f \in ReferencesIn(w, r) \/ f \in ColumnRefs(c, n, S.rows[r][n])
  <2>1. n \in LinkColumns[c]
    BY <1>2, <1>9
  <2>2. ASSUME NEW f \in ReferencesIn(w, r)
        PROVE  (f \in ReferencesIn(S.rows, r) /\ f[1] # n) \/ f \in ColumnRefs(c, n, v)
    <3>1. PICK m \in LinkColumns[c] : f \in ColumnRefs(c, m, w[r][m])
      BY <1>4
    <3>2. CASE m = n
      BY <3>1, <3>2, <1>1
    <3>3. CASE m # n
      BY <3>1, <3>3, <1>4, <1>5, <1>6
    <3>4. QED
      BY <3>2, <3>3
  <2>3. ASSUME NEW f \in ReferencesIn(S.rows, r)
        PROVE  f \in ReferencesIn(w, r) \/ f \in ColumnRefs(c, n, S.rows[r][n])
    <3>1. PICK m \in LinkColumns[c] : f \in ColumnRefs(c, m, S.rows[r][m])
      BY <1>4
    <3>2. QED
      BY <3>1, <1>4, <1>5
  <2>4. ColumnRefs(c, n, v) \subseteq ReferencesIn(w, r)
    BY <1>1, <1>4, <2>1
  <2>5. ColumnRefs(c, n, S.rows[r][n]) \subseteq ReferencesIn(S.rows, r)
    BY <1>4, <2>1
  <2>6. QED
    BY <2>2, <2>3, <2>4, <2>5
<1>10. QED
  BY <1>7, <1>8, <1>9

\* A write that fits leaves references live, and no embedded row shared.
LEMMA WriteReferencesFacts ==
    ASSUME NEW S, NEW new, SoundBut(S, new), NEW r \in DOMAIN S.rows,
           NEW prop \in Properties(r[1]), NEW v, Fits(S, new, r, prop, v),
           NEW w, w = Rewritten(S, r, prop, v)
    PROVE  Live(w) /\ Sole(w)
<1> DEFINE c == r[1]
           n == prop.name
<1>0. Typed(S) /\ Live(S.rows) /\ Sole(S.rows)
  BY DEF SoundBut
<1>1. c \in Classes /\ DOMAIN w = DOMAIN S.rows
  BY <1>0, WriteIs
<1>2. Columns[c][n] = prop
  BY <1>1, PropertyFacts
<1>3. /\ \A s \in DOMAIN S.rows : s # r => ReferencesIn(w, s) = ReferencesIn(S.rows, s)
      /\ prop.kind \notin LinkKinds => ReferencesIn(w, r) = ReferencesIn(S.rows, r)
      /\ prop.kind \in LinkKinds =>
            /\ \A f \in ReferencesIn(w, r) :
                  \/ f \in ReferencesIn(S.rows, r) /\ f[1] # n
                  \/ f \in ColumnRefs(c, n, v)
            /\ ColumnRefs(c, n, S.rows[r][n]) \subseteq ReferencesIn(S.rows, r)
  BY <1>0, WriteRefs
<1>4. \A f \in ColumnRefs(c, n, v) :
          /\ f = <<n, f[2], prop.target, f[4]>> /\ f[1] = n /\ f[3] = prop.target /\ f[4] # Null
          /\ f[4] \in KeysIn(prop, v)
          /\ \E e \in Positions(prop, v) : f[2] = e[1] /\ f[4] = e[2]
  BY <1>2, ColumnRefsFacts
<1>5. ASSUME prop.kind \notin LinkKinds
      PROVE  Live(w) /\ Sole(w)
  <2>1. \A s \in DOMAIN S.rows : ReferencesIn(w, s) = ReferencesIn(S.rows, s)
    BY <1>3, <1>5
  <2>2. \A s \in DOMAIN S.rows : RefersTo(w, s) = RefersTo(S.rows, s)
    BY <2>1 DEF RefersTo
  <2>3. QED
    BY <2>1, <2>2, <1>0, <1>1 DEF Live, Sole
<1>6. ASSUME prop.kind \in LinkKinds
      PROVE  Live(w)
  <2>1. ASSUME NEW s \in DOMAIN w, NEW f \in ReferencesIn(w, s)
        PROVE  <<f[3], f[4]>> \in DOMAIN w
    <3>1. CASE f \in ReferencesIn(S.rows, s)
      <4>1. <<f[3], f[4]>> \in RefersTo(S.rows, s)
        BY <3>1 DEF RefersTo
      <4>2. QED
        BY <4>1, <1>0, <1>1 DEF Live
    <3>2. CASE s = r /\ f \in ColumnRefs(c, n, v)
      <4>1. f[3] = prop.target /\ f[4] \in KeysIn(prop, v)
        BY <3>2, <1>4
      <4>2. <<prop.target, f[4]>> \in DOMAIN S.rows
        BY <4>1, <1>6 DEF Fits
      <4>3. QED
        BY <4>1, <4>2, <1>1
    <3>3. QED
      BY <3>1, <3>2, <1>1, <1>3, <1>6
  <2>2. QED
    BY <2>1 DEF Live, RefersTo
<1>7. ASSUME prop.kind \in LinkKinds
      PROVE  Sole(w)
  <2>1. ASSUME NEW s \in DOMAIN w, NEW f \in ReferencesIn(w, s), f[3] \in Embedded
        PROVE  \/ f \in ReferencesIn(S.rows, s) /\ (s = r => f[1] # n)
               \/ s = r /\ f \in ColumnRefs(c, n, v)
    BY <1>1, <1>3, <1>7
  <2>2. ASSUME NEW f \in ColumnRefs(c, n, v), f[3] \in Embedded,
               NEW t \in DOMAIN w, NEW g \in ReferencesIn(S.rows, t), t = r => g[1] # n
        PROVE  ~(f[3] = g[3] /\ f[4] = g[4])
    <3> SUFFICES ASSUME f[3] = g[3] /\ f[4] = g[4] PROVE FALSE
      OBVIOUS
    <3>1. f[3] = prop.target /\ f[4] \in KeysIn(prop, v) /\ Owns(prop)
      BY <1>4, <2>2, <1>7 DEF Owns
    <3>2. CASE f[4] \in KeysIn(prop, S.rows[r][n])
      <4>1. PICK h \in ColumnRefs(c, n, S.rows[r][n]) : h[4] = f[4]
        BY <3>2, <1>2, ColumnRefsFacts
      <4>2. h[1] = n /\ h[3] = prop.target /\ h \in ReferencesIn(S.rows, r)
        BY <1>2, <1>3, <1>7, ColumnRefsFacts
      <4>3. r = t /\ h = g
        <5>1. h[3] \in Embedded /\ h[3] = g[3] /\ h[4] = g[4] /\ t \in DOMAIN S.rows
          BY <4>1, <4>2, <3>1, <2>2, <1>1
        <5>2. QED
          BY <5>1, <4>2, <1>0 DEF Sole
      <4>4. QED
        BY <4>2, <4>3, <2>2
    <3>3. CASE <<prop.target, f[4]>> = new
      <4>1. <<g[3], g[4]>> \in RefersTo(S.rows, t)
        BY DEF RefersTo
      <4>2. <<g[3], g[4]>> = new /\ new[1] \in Embedded
        BY <3>1, <3>3, <2>2
      <4>3. QED
        BY <4>1, <4>2, <1>1 DEF SoundBut
    <3>4. QED
      BY <3>1, <3>2, <3>3 DEF Fits
  <2>3. ASSUME NEW f \in ColumnRefs(c, n, v), NEW g \in ColumnRefs(c, n, v),
               f[3] \in Embedded, f[4] = g[4]
        PROVE  f = g
    <3>1. PICK d \in Positions(prop, v) : f[2] = d[1] /\ f[4] = d[2]
      BY <1>4
    <3>2. PICK e \in Positions(prop, v) : g[2] = e[1] /\ g[4] = e[2]
      BY <1>4
    <3>3. Owns(prop) /\ d[2] = e[2] /\ d[2] # Null
      BY <3>1, <3>2, <2>3, <1>4, <1>7 DEF Owns
    <3>4. d = e
      BY <3>3 DEF Fits
    <3>5. QED
      BY <3>1, <3>2, <3>4, <1>4
  <2>4. ASSUME NEW s \in DOMAIN w, NEW t \in DOMAIN w, NEW f \in ReferencesIn(w, s),
               NEW g \in ReferencesIn(w, t),
               f[3] \in Embedded, f[3] = g[3], f[4] = g[4]
        PROVE  s = t /\ f = g
    <3>0. g[3] \in Embedded
      BY <2>4
    <3>1. CASE f \in ReferencesIn(S.rows, s) /\ g \in ReferencesIn(S.rows, t)
      BY <3>1, <2>4, <1>0, <1>1 DEF Sole
    <3>2. CASE s = r /\ f \in ColumnRefs(c, n, v) /\ g \in ReferencesIn(S.rows, t) /\ (t = r => g[1] # n)
      BY <3>2, <2>2, <2>4
    <3>3. CASE t = r /\ g \in ColumnRefs(c, n, v) /\ f \in ReferencesIn(S.rows, s) /\ (s = r => f[1] # n)
      BY <3>0, <3>3, <2>2, <2>4
    <3>4. CASE s = r /\ t = r /\ f \in ColumnRefs(c, n, v) /\ g \in ColumnRefs(c, n, v)
      BY <3>4, <2>3, <2>4
    <3>5. QED
      BY <3>0, <3>1, <3>2, <3>3, <3>4, <2>1, <2>4
  <2>5. QED
    BY <2>4 DEF Sole
<1>8. QED
  BY <1>5, <1>6, <1>7

\* If a write lets no key go, every embedded row keeps its owner, and the
\* new one gets one.
LEMMA WriteOwns ==
    ASSUME NEW S, NEW new, SoundBut(S, new), NEW r \in DOMAIN S.rows,
           NEW prop \in Properties(r[1]), NEW v, Fits(S, new, r, prop, v),
           Owns(prop) => KeysIn(prop, S.rows[r][prop.name]) \subseteq KeysIn(prop, v),
           NEW w, w = Rewritten(S, r, prop, v)
    PROVE  Owned(w)
<1> DEFINE c == r[1]
           n == prop.name
<1>0. Typed(S)
  BY DEF SoundBut
<1>1. c \in Classes /\ DOMAIN w = DOMAIN S.rows
  BY <1>0, WriteIs
<1>2. Columns[c][n] = prop
  BY <1>1, PropertyFacts
<1>3. /\ \A s \in DOMAIN S.rows : s # r => ReferencesIn(w, s) = ReferencesIn(S.rows, s)
      /\ prop.kind \notin LinkKinds => ReferencesIn(w, r) = ReferencesIn(S.rows, r)
      /\ prop.kind \in LinkKinds =>
            /\ ColumnRefs(c, n, v) \subseteq ReferencesIn(w, r)
            /\ \A f \in ReferencesIn(S.rows, r) :
                  f \in ReferencesIn(w, r) \/ f \in ColumnRefs(c, n, S.rows[r][n])
  BY <1>0, WriteRefs
<1>4. ASSUME NEW k \in KeysIn(prop, v), Owns(prop)
      PROVE  <<prop.target, k>> \in RefersTo(w, r)
  <2>0. k \in KeysIn(Columns[c][n], v)
    BY <1>2, <1>4
  <2>1. PICK f \in ColumnRefs(c, n, v) : f[4] = k
    BY <2>0, ColumnRefsFacts
  <2>2. f[3] = prop.target /\ f \in ReferencesIn(w, r)
    BY <1>2, <1>3, <1>4, ColumnRefsFacts DEF Owns
  <2>3. QED
    BY <2>1, <2>2 DEF RefersTo
<1>5. ASSUME NEW e \in DOMAIN w, e[1] \in Embedded
      PROVE  HasOwner(w, e)
  <2>1. CASE e = new
    <3>1. Owns(prop) /\ \E k \in KeysIn(prop, v) : <<prop.target, k>> = new
      BY <2>1, <1>1, <1>5 DEF Fits
    <3>2. QED
      BY <3>1, <2>1, <1>1, <1>4 DEF HasOwner
  <2>2. CASE e # new
    <3>1. PICK s \in DOMAIN S.rows : e \in RefersTo(S.rows, s)
      BY <2>2, <1>1, <1>5 DEF SoundBut, OwnedBut, HasOwner
    <3>2. PICK f \in ReferencesIn(S.rows, s) : e = <<f[3], f[4]>>
      BY <3>1 DEF RefersTo
    <3>3. CASE f \in ReferencesIn(w, s)
      <4>1. e \in RefersTo(w, s)
        BY <3>2, <3>3 DEF RefersTo
      <4>2. QED
        BY <4>1, <1>1 DEF HasOwner
    <3>4. CASE s = r /\ prop.kind \in LinkKinds /\ f \in ColumnRefs(c, n, S.rows[r][n])
      <4>1. f[3] = prop.target /\ f[4] \in KeysIn(prop, S.rows[r][n])
        BY <3>4, <1>2, ColumnRefsFacts
      <4>2. Owns(prop)
        BY <4>1, <3>2, <3>4, <1>5 DEF Owns
      <4>3. f[4] \in KeysIn(prop, v)
        BY <4>1, <4>2
      <4>4. e \in RefersTo(w, r)
        BY <4>1, <4>2, <4>3, <1>4, <3>2
      <4>5. QED
        BY <4>4, <1>1 DEF HasOwner
    <3>5. QED
      BY <3>3, <3>4, <1>3
  <2>3. QED
    BY <2>1, <2>2
<1>6. QED
  BY <1>5 DEF Owned

\* Rows that stay as they are, and no others, stay typed.
LEMMA SweepTypes ==
    ASSUME NEW S, NEW w, NEW u, \A s \in DOMAIN w : TypedRow(Written(S, w), s),
           DOMAIN u \subseteq DOMAIN w, \A s \in DOMAIN u : u[s] = w[s]
    PROVE  \A s \in DOMAIN u : TypedRow(Written(S, u), s)
BY DEF Written, TypedRow

\* A write of what fits leaves a sound store.  Only r and embedded rows
\* change, and what a column that owns no rows is given is there.
LEMMA WriteKeeps ==
    ASSUME NEW S, NEW new, SoundBut(S, new), NEW r \in DOMAIN S.rows,
           NEW prop \in Properties(r[1]), NEW v, Fits(S, new, r, prop, v)
    PROVE  /\ Sound(ObjSet(S, r, prop, v)) /\ Keeps(S, ObjSet(S, r, prop, v), {r})
           /\ ObjSet(S, r, prop, v).ok = S.ok /\ ObjSet(S, r, prop, v).next = S.next
           /\ DOMAIN ObjSet(S, r, prop, v).rows \subseteq DOMAIN S.rows
           /\ ~Owns(prop) => /\ r \in DOMAIN ObjSet(S, r, prop, v).rows
                             /\ ObjSet(S, r, prop, v).rows[r][prop.name] = v
<1> DEFINE w == Rewritten(S, r, prop, v)
           letsGo == Owns(prop) /\ ~(KeysIn(prop, ObjGet(S, r, prop)) \subseteq KeysIn(prop, v))
           u == IF letsGo THEN Sweep(w) ELSE w
           U == ObjSet(S, r, prop, v)
<1>1. U = Written(S, u)
  BY DEF ObjSet, Rewritten
<1>2. U.rows = u /\ U.ok = S.ok /\ U.next = S.next
  BY <1>1 DEF Written
<1>3. /\ \A s \in DOMAIN w : TypedRow(Written(S, w), s)
      /\ \A s \in DOMAIN w : HasPrimaryKeyProperty(s[1]) => PkOf(s[1], w[s]) = PkOf(s[1], S.rows[s])
      /\ OneKey(w)
  BY WriteTypes
<1>4. Live(w) /\ Sole(w)
  BY WriteReferencesFacts
<1>5. Typed(S) /\ S.next \in [Classes -> Nat]
  BY DEF SoundBut, Typed
<1>6. /\ DOMAIN w = DOMAIN S.rows /\ w[r][prop.name] = v
      /\ \A s \in DOMAIN S.rows : s # r => w[s] = S.rows[s]
  BY <1>5, WriteIs
<1>7. /\ Live(u) /\ Sole(u) /\ Owned(u) /\ DOMAIN u \subseteq DOMAIN w
      /\ \A s \in DOMAIN w : s[1] \notin Embedded => s \in DOMAIN u
      /\ \A s \in DOMAIN u : u[s] = w[s]
  <2>1. CASE letsGo
    <3>1. u = Sweep(w)
      BY <2>1
    <3> HIDE DEF w, u
    <3>2. QED
      BY <3>1, <1>4, SweepKeeps
  <2>2. CASE ~letsGo
    <3>1. Owned(w)
      BY <2>2, WriteOwns DEF ObjGet
    <3>2. QED
      BY <2>2, <3>1, <1>4
  <2>3. QED
    BY <2>1, <2>2
<1>8. ~Owns(prop) => u = w
  OBVIOUS
<1> HIDE DEF u, w, U
<1>9. \A s \in DOMAIN u : TypedRow(Written(S, u), s)
  BY <1>3, <1>7, SweepTypes
<1>10. Typed(U)
  BY <1>1, <1>2, <1>5, <1>9 DEF Typed
<1>11. OneKey(u)
  BY <1>3, <1>7 DEF OneKey
<1>12. Keeps(S, U, {r})
  BY <1>2, <1>3, <1>6, <1>7 DEF Keeps
<1>13. QED
  BY <1>2, <1>6, <1>7, <1>8, <1>10, <1>11, <1>12 DEF Sound, U

(* ----- new rows ----- *)

\* A row whose link columns hold no key refers to nothing.
LEMMA NoReferences ==
    ASSUME NEW store, NEW r, \A n \in LinkColumns[r[1]] : KeysIn(Columns[r[1]][n], store[r][n]) = {}
    PROVE  ReferencesIn(store, r) = {} /\ RefersTo(store, r) = {}
<1>1. \A n \in LinkColumns[r[1]] : ColumnRefs(r[1], n, store[r][n]) = {}
  BY ColumnRefsFacts
<1>2. ReferencesIn(store, r) = {}
  BY <1>1, ReferencesAre
<1>3. QED
  BY <1>2 DEF RefersTo

\* The values of a new row have their types and refer to nothing.
LEMMA BlankFacts ==
    ASSUME NEW c \in Classes
    PROVE  /\ DOMAIN Blank(c) = DOMAIN Columns[c]
           /\ \A p \in Properties(c) : Column(p, Blank(c)[p.name])
           /\ \A n \in LinkColumns[c] : KeysIn(Columns[c][n], Blank(c)[n]) = {}
<1> DEFINE Default(p) ==
               CASE p.kind \in {"pk", "number"} -> 0
                 [] p.kind \in {"value", "link"} -> Null
                 [] p.kind \in {"list", "boolList", "insertList", "linkList"} -> <<>>
                 [] p.kind \in {"set", "linkSet"} -> {}
                 [] OTHER -> <<>>
<1>1. Blank(c) = [n \in DOMAIN Columns[c] |-> Default(Columns[c][n])]
  BY DEF Blank
<1> HIDE DEF Default
<1>2. \A p \in Properties(c) : Blank(c)[p.name] = Default(p)
  BY <1>1, PropertyFacts
<1>e. DOMAIN <<>> = {} /\ <<>> \in Seq(Nat)
  BY EmptySeq
<1>3. ASSUME NEW p \in Properties(c)
      PROVE  Column(p, Default(p))
  <2>1. p.kind \in Kinds
    BY PropertyFacts
  <2>2. CASE p.kind \in {"pk", "number", "value", "link"}
    BY <2>2 DEF Column, Default, ListKinds, ValueLists
  <2>3. CASE p.kind \in ListKinds
    BY <2>3, <1>e DEF Column, Default, ListKinds, ValueLists
  <2>4. CASE p.kind \in {"set", "linkSet"}
    <3>1. IsFiniteSet({})
      BY FS_EmptySet
    <3>2. Default(p) = {}
      BY <2>4 DEF Default
    <3>3. QED
      BY <2>4, <3>1, <3>2 DEF Column, ListKinds, ValueLists
  <2>5. CASE p.kind \in {"map", "linkMap"}
    <3>1. Default(p) = <<>>
      BY <2>5 DEF Default
    <3>2. QED
      BY <2>5, <3>1, <1>e DEF Column, ListKinds, ValueLists
  <2>6. QED
    BY <2>1, <2>2, <2>3, <2>4, <2>5 DEF Kinds, LinkKinds, ListKinds, ValueLists
<1>4. ASSUME NEW n \in LinkColumns[c]
      PROVE  KeysIn(Columns[c][n], Blank(c)[n]) = {}
  <2> DEFINE p == Columns[c][n]
  <2>1. p \in Properties(c) /\ p.kind \in LinkKinds /\ p.name = n
    BY LinkColumnFacts, ColumnIsProperty
  <2>2. Blank(c)[n] = Default(p)
    BY <2>1, <1>2
  <2>s. SUFFICES KeysIn(p, Default(p)) = {}
    BY <2>2
  <2> HIDE DEF p
  <2>3. CASE p.kind = "link"
    <3>1. Default(p) = Null
      BY <2>3 DEF Default
    <3>2. Positions(p, Null) = {<<0, Null>>}
      BY <2>3 DEF Positions
    <3>3. \A e \in Positions(p, Null) : e[2] = Null
      BY <3>2
    <3>4. QED
      BY <3>1, <3>3 DEF KeysIn
  <2>4. CASE p.kind = "linkSet"
    <3>1. Default(p) = {}
      BY <2>4 DEF Default
    <3>2. Positions(p, {}) = {}
      BY <2>4 DEF Positions
    <3>3. QED
      BY <3>1, <3>2 DEF KeysIn
  <2>5. CASE p.kind \in {"linkList", "linkMap"}
    <3>1. Default(p) = <<>>
      BY <2>5 DEF Default
    <3>2. Positions(p, <<>>) = {<<i, <<>>[i]>> : i \in DOMAIN <<>>}
      BY <2>5 DEF Positions
    <3>3. Positions(p, <<>>) = {}
      BY <3>2, <1>e
    <3>4. QED
      BY <3>1, <3>3 DEF KeysIn
  <2>6. QED
    BY <2>1, <2>3, <2>4, <2>5 DEF LinkKinds
<1>5. QED
  BY <1>1, <1>2, <1>3, <1>4

\* U is S with a row more, under the next key of its table, that refers to
\* nothing and whose primary key no other row has.
Created(S, c, rec, U, new) ==
    /\ c \in Classes
    /\ DOMAIN rec = DOMAIN Columns[c]
    /\ \A p \in Properties(c) : Column(p, rec[p.name])
    /\ \A n \in LinkColumns[c] : KeysIn(Columns[c][n], rec[n]) = {}
    /\ HasPrimaryKeyProperty(c) =>
          \A r \in DOMAIN S.rows : r[1] = c => PkOf(c, S.rows[r]) # PkOf(c, rec)
    /\ new = <<c, S.next[c]>>
    /\ DOMAIN U.rows = DOMAIN S.rows \cup {new} /\ U.rows[new] = rec
    /\ \A r \in DOMAIN S.rows : r # new => U.rows[r] = S.rows[r]
    /\ U.next = [S.next EXCEPT ![c] = @ + 1]

\* A new row leaves the store sound, but that an embedded one has no owner yet.
LEMMA CreateKeeps ==
    ASSUME NEW S, Sound(S), NEW c, NEW rec, NEW U, NEW new, Created(S, c, rec, U, new)
    PROVE  /\ SoundBut(U, new)
           /\ new \in Classes \X Nat /\ new \notin DOMAIN S.rows
           /\ \A r \in DOMAIN S.rows : U.rows[r] = S.rows[r]
           /\ c \notin Embedded => Sound(U)
<1>0. /\ c \in Classes
      /\ DOMAIN rec = DOMAIN Columns[c]
      /\ \A p \in Properties(c) : Column(p, rec[p.name])
      /\ \A n \in LinkColumns[c] : KeysIn(Columns[c][n], rec[n]) = {}
      /\ HasPrimaryKeyProperty(c) =>
            \A r \in DOMAIN S.rows : r[1] = c => PkOf(c, S.rows[r]) # PkOf(c, rec)
      /\ new = <<c, S.next[c]>>
      /\ DOMAIN U.rows = DOMAIN S.rows \cup {new} /\ U.rows[new] = rec
      /\ \A r \in DOMAIN S.rows : r # new => U.rows[r] = S.rows[r]
      /\ U.next = [S.next EXCEPT ![c] = @ + 1]
  BY DEF Created
<1>1. /\ S.next \in [Classes -> Nat] /\ \A r \in DOMAIN S.rows : TypedRow(S, r)
      /\ Live(S.rows) /\ Sole(S.rows) /\ Owned(S.rows) /\ OneKey(S.rows)
  BY DEF Sound, Typed
<1>2. new \in Classes \X Nat /\ new[1] = c /\ new[2] = S.next[c]
  BY <1>0, <1>1
<1>3. new \notin DOMAIN S.rows
  BY <1>0, <1>1, <1>2 DEF TypedRow
<1>4. \A r \in DOMAIN S.rows : U.rows[r] = S.rows[r]
  BY <1>0, <1>3
<1>5. U.next \in [Classes -> Nat] /\ \A d \in Classes : S.next[d] <= U.next[d]
  BY <1>0, <1>1
<1>5a. U.next[c] = S.next[c] + 1
  BY <1>0, <1>1
<1>6. \A r \in DOMAIN S.rows : TypedRow(U, r)
  <2> SUFFICES ASSUME NEW r \in DOMAIN S.rows PROVE TypedRow(U, r)
    OBVIOUS
  <2>1. TypedRow(S, r)
    BY <1>0, <1>1
  <2>2. r \in Classes \X Nat /\ r[2] < S.next[r[1]]
    BY <1>0, <2>1 DEF TypedRow
  <2>3. r[2] \in Nat /\ S.next[r[1]] \in Nat /\ U.next[r[1]] \in Nat /\ S.next[r[1]] <= U.next[r[1]]
    BY <1>0, <2>2, <1>1, <1>5
  <2>4. r[2] < U.next[r[1]]
    BY <1>0, <2>2, <2>3
  <2>5. QED
    BY <1>0, <2>1, <2>4, <1>4 DEF TypedRow
<1>7. TypedRow(U, new)
  <2>1. new[2] < U.next[new[1]]
    BY <1>0, <1>1, <1>2, <1>5a
  <2>2. QED
    BY <1>0, <2>1, <1>2 DEF TypedRow
<1>8. Typed(U)
  BY <1>0, <1>5, <1>6, <1>7 DEF Typed
<1>9. ReferencesIn(U.rows, new) = {} /\ RefersTo(U.rows, new) = {}
  BY <1>0, <1>2, NoReferences
<1>10. \A r \in DOMAIN S.rows :
           /\ ReferencesIn(U.rows, r) = ReferencesIn(S.rows, r)
           /\ RefersTo(U.rows, r) = RefersTo(S.rows, r)
  BY <1>0, <1>4, SameReferences
<1>11. Live(U.rows)
  BY <1>0, <1>1, <1>9, <1>10 DEF Live
<1>12. Sole(U.rows)
  BY <1>0, <1>1, <1>9, <1>10 DEF Sole
<1>13. \A e \in DOMAIN S.rows : e[1] \in Embedded => HasOwner(U.rows, e)
  BY <1>0, <1>1, <1>10 DEF Owned, HasOwner
<1>14. OwnedBut(U.rows, new)
  BY <1>0, <1>13 DEF OwnedBut
<1>15. \A r \in DOMAIN U.rows : new \notin RefersTo(U.rows, r)
  BY <1>0, <1>1, <1>3, <1>9, <1>10 DEF Live
<1>16. OneKey(U.rows)
  <2> SUFFICES ASSUME NEW r \in DOMAIN U.rows, NEW s \in DOMAIN U.rows, r[1] = s[1],
                      HasPrimaryKeyProperty(r[1]),
                      PkOf(r[1], U.rows[r]) = PkOf(r[1], U.rows[s])
               PROVE  r = s
    BY DEF OneKey
  <2>1. CASE r \in DOMAIN S.rows /\ s \in DOMAIN S.rows
    BY <1>0, <2>1, <1>1, <1>4 DEF OneKey
  <2>2. CASE r = new /\ s \in DOMAIN S.rows
    BY <1>0, <2>2, <1>2, <1>4
  <2>3. CASE s = new /\ r \in DOMAIN S.rows
    BY <1>0, <2>3, <1>2, <1>4
  <2>4. QED
    BY <1>0, <2>1, <2>2, <2>3
<1>17. c \notin Embedded => Sound(U)
  BY <1>0, <1>2, <1>8, <1>11, <1>12, <1>13, <1>16 DEF Sound, Owned
<1>18. QED
  BY <1>0, <1>2, <1>3, <1>4, <1>8, <1>11, <1>12, <1>14, <1>15, <1>16, <1>17 DEF SoundBut

\* The row an unmanaged object goes to: it is new, or has its primary key.
RowFits(S, p, N) ==
    LET c == ClassOf[p]
    IN  /\ SoundBut(N.s, N.r) /\ N.r \in DOMAIN N.s.rows /\ N.r \in Classes \X Nat /\ N.r[1] = c
        /\ c \notin Embedded => Sound(N.s)
        /\ DOMAIN S.rows \subseteq DOMAIN N.s.rows
        /\ \A r \in DOMAIN S.rows : N.s.rows[r] = S.rows[r]
        /\ N.s.ok = S.ok
        /\ HasPrimaryKeyProperty(c) => PkOf(c, N.s.rows[N.r]) = PkOf(c, Heap[p])
        /\ N.r \in DOMAIN S.rows =>
              HasPrimaryKeyProperty(c) /\ PkOf(c, S.rows[N.r]) = PkOf(c, Heap[p])

\* The row an object goes to is one its class and key allow.
LEMMA RowForKeeps ==
    ASSUME NEW S, Sound(S), NEW p \in Pointers
    PROVE  RowFits(S, p, RowFor(S, p))
<1> DEFINE c == ClassOf[p]
           new == <<c, S.next[c]>>
           C == CoreCreate(S, c)
           N == RowFor(S, p)
           pk == PkOf(c, Heap[p])
           same == {r \in DOMAIN S.rows : r[1] = c /\ PkOf(c, S.rows[r]) = pk}
<1>0. c \in Classes
  BY HeapAssumption
<1>1. /\ C.r = new /\ C.s.ok = S.ok /\ C.s.next = [S.next EXCEPT ![c] = @ + 1]
      /\ DOMAIN C.s.rows = DOMAIN S.rows \cup {new} /\ C.s.rows[new] = Blank(c)
      /\ \A r \in DOMAIN S.rows : r # new => C.s.rows[r] = S.rows[r]
  BY DEF CoreCreate
<1>2. /\ DOMAIN Blank(c) = DOMAIN Columns[c]
      /\ \A q \in Properties(c) : Column(q, Blank(c)[q.name])
      /\ \A n \in LinkColumns[c] : KeysIn(Columns[c][n], Blank(c)[n]) = {}
  BY <1>0, BlankFacts
<1>3. CASE ~HasPrimaryKeyProperty(c)
  <2>1. N = C
    BY <1>3 DEF RowFor
  <2>2. Created(S, c, Blank(c), C.s, new)
    <3> HIDE DEF C
    <3>1. new = <<c, S.next[c]>>
      OBVIOUS
    <3>2. C.r = new
      BY <1>1
    <3> HIDE DEF c, new
    <3>3. QED
      BY <1>0, <1>1, <1>2, <1>3, <3>1 DEF Created
  <2>3. new[1] = c
    OBVIOUS
  <2> HIDE DEF C, new
  <2>4. /\ SoundBut(C.s, new) /\ new \in Classes \X Nat /\ new \notin DOMAIN S.rows
        /\ \A r \in DOMAIN S.rows : C.s.rows[r] = S.rows[r]
        /\ c \notin Embedded => Sound(C.s)
    <3> HIDE DEF c
    <3>1. QED
      BY <2>2, CreateKeeps
  <2>5. RowFits(S, p, C)
    BY <1>1, <1>3, <2>3, <2>4 DEF RowFits
  <2>6. QED
    BY <2>1, <2>5
<1>4. CASE HasPrimaryKeyProperty(c)
  <2>1. N = CoreUpsert(S, c, pk)
    BY <1>4 DEF RowFor
  <2>2. c \notin Embedded
    BY <1>0, <1>4, PrimaryKeyFacts
  <2>3. CASE same # {}
    <3> DEFINE r == CHOOSE r \in same : TRUE
    <3>1. N = [s |-> S, r |-> r]
      BY <2>1, <2>3 DEF CoreUpsert
    <3>2. r \in same
      BY <2>3
    <3> HIDE DEF r
    <3>3. r \in DOMAIN S.rows /\ r[1] = c /\ PkOf(c, S.rows[r]) = pk /\ r \in Classes \X Nat
      BY <3>2 DEF Sound, Typed, TypedRow
    <3>4. SoundBut(S, r)
      BY <2>2, <3>3 DEF Sound, SoundBut, Owned, OwnedBut
    <3> DEFINE M == [s |-> S, r |-> r]
    <3>5. M.s = S /\ M.r = r
      OBVIOUS
    <3> HIDE DEF M
    <3>6. RowFits(S, p, M)
      BY <3>3, <3>4, <3>5, <1>4, <2>2 DEF RowFits
    <3>7. QED
      BY <3>1, <3>6 DEF M
  <2>4. CASE same = {}
    <3>1. PICK name \in DOMAIN Columns[c] :
              /\ name = CHOOSE m \in PrimaryKeys[c] : TRUE
              /\ PrimaryKeys[c] = {name} /\ Columns[c][name].kind = "pk"
              /\ \A rec : PkOf(c, rec) = rec[name]
      BY <1>0, <1>4, PrimaryKeyFacts
    <3> DEFINE U == N.s
               rec == [Blank(c) EXCEPT ![name] = pk]
    <3>2. N = [s |-> Written(C.s, [C.s.rows EXCEPT ![C.r][name] = pk]), r |-> C.r]
      BY <2>1, <2>4, <3>1 DEF CoreUpsert
    <3>3. N.r = new /\ U.ok = S.ok /\ U.next = C.s.next /\ U.rows = [C.s.rows EXCEPT ![new][name] = pk]
      <4> HIDE DEF C, N
      <4>1. QED
        BY <3>2, <1>1 DEF Written
    <3>4. U.next = [S.next EXCEPT ![c] = @ + 1]
      BY <3>3, <1>1
    <3>5. /\ DOMAIN U.rows = DOMAIN S.rows \cup {new} /\ U.rows[new] = rec
          /\ \A r \in DOMAIN S.rows : r # new => U.rows[r] = S.rows[r]
      <4> HIDE DEF C, U, new
      <4>1. QED
        BY <3>3, <1>1
    <3>6. DOMAIN rec = DOMAIN Columns[c] /\ rec[name] = pk
          /\ \A n \in DOMAIN Columns[c] : n # name => rec[n] = Blank(c)[n]
      BY <1>2
    <3>7. pk \in Nat
      <4> DEFINE prop == Columns[c][name]
      <4>1. prop \in Properties(c) /\ prop.name = name /\ prop.kind = "pk"
        BY <3>1, <1>0, ColumnIsProperty
      <4>2. Member(prop, Heap[p][prop.name])
        BY <4>1, MemberFacts
      <4>3. Heap[p][name] \in Nat
        BY <4>1, <4>2 DEF Member, ValueLists
      <4>4. QED
        BY <3>1, <4>3
    <3> HIDE DEF rec, pk, U, N, C
    <3>8. \A q \in Properties(c) : Column(q, rec[q.name])
      <4> SUFFICES ASSUME NEW q \in Properties(c) PROVE Column(q, rec[q.name])
        OBVIOUS
      <4>1. q.name \in DOMAIN Columns[c] /\ Columns[c][q.name] = q
        BY <1>0, PropertyFacts
      <4>2. CASE q.name = name
        <5>1. q.kind = "pk" /\ rec[q.name] = pk
          BY <4>1, <4>2, <3>1, <3>6
        <5>2. QED
          BY <5>1, <3>7 DEF Column, ListKinds, ValueLists
      <4>3. CASE q.name # name
        BY <4>1, <4>3, <3>6, <1>2
      <4>4. QED
        BY <4>2, <4>3
    <3>9. \A n \in LinkColumns[c] : KeysIn(Columns[c][n], rec[n]) = {}
      <4> SUFFICES ASSUME NEW n \in LinkColumns[c] PROVE KeysIn(Columns[c][n], rec[n]) = {}
        OBVIOUS
      <4>1. n \in DOMAIN Columns[c] /\ Columns[c][n].kind \in LinkKinds
        BY <1>0, LinkColumnFacts
      <4>2. n # name
        BY <4>1, <3>1 DEF LinkKinds
      <4>3. QED
        BY <4>1, <4>2, <3>6, <1>2
    <3>10. /\ PkOf(c, rec) = pk
           /\ \A r \in DOMAIN S.rows : r[1] = c => PkOf(c, S.rows[r]) # PkOf(c, rec)
      BY <3>1, <3>6, <2>4
    <3>11. new[1] = c /\ new = <<c, S.next[c]>>
      OBVIOUS
    <3>12. pk = PkOf(c, Heap[p]) /\ c = ClassOf[p]
      BY DEF pk
    <3> HIDE DEF new, c
    <3>13. Created(S, c, rec, U, new)
      BY <3>4, <3>5, <3>6, <3>8, <3>9, <3>10, <3>11, <1>0, <1>2 DEF Created
    <3>14. /\ SoundBut(U, new) /\ new \in Classes \X Nat /\ new \notin DOMAIN S.rows
           /\ \A r \in DOMAIN S.rows : U.rows[r] = S.rows[r]
           /\ c \notin Embedded => Sound(U)
      BY <3>13, CreateKeeps
    <3>15. PkOf(c, U.rows[new]) = pk
      BY <3>5, <3>10
    <3>16. N.s = U
      BY DEF U
    <3> HIDE DEF U
    <3>17. RowFits(S, p, N)
      BY <3>3, <3>5, <3>11, <3>12, <3>14, <3>15, <3>16, <2>2 DEF RowFits
    <3>18. QED
      BY <3>17 DEF N
  <2>5. QED
    BY <2>3, <2>4
<1>5. QED
  BY <1>3, <1>4

(* ----- what goes into a column ----- *)

\* A list with an element more.
LEMMA InsertedFacts ==
    ASSUME NEW X, NEW s \in Seq(X), NEW m \in 1..Len(s) + 1, NEW x \in X
    PROVE  /\ InsertAt(s, m, x) \in Seq(X) /\ Len(InsertAt(s, m, x)) = Len(s) + 1
           /\ InsertAt(s, m, x)[m] = x
           /\ \A i \in 1..Len(s) + 1 : i # m =>
                  InsertAt(s, m, x)[i] = s[IF i < m THEN i ELSE i - 1]
<1> DEFINE n == m - 1
           l == SubSeq(s, 1, n)
           e == <<x>>
           u == SubSeq(s, m, Len(s))
<1>1. Len(s) \in Nat /\ \A i \in 1..Len(s) : s[i] \in X
  BY LenProperties, ElementOfSeq
<1>2. n \in Nat /\ n <= Len(s) /\ m = n + 1
  BY <1>1
<1>3. l \in Seq(X) /\ Len(l) = n /\ \A i \in 1..n : l[i] = s[i]
  <2>0. 1 \in Int /\ n \in Int /\ \A i \in 1..n : s[i] \in X
    BY <1>1, <1>2
  <2> HIDE DEF n
  <2>1. /\ l \in Seq(X) /\ Len(l) = IF 1 <= n THEN n - 1 + 1 ELSE 0
        /\ \A i \in 1..n - 1 + 1 : l[i] = s[1 + i - 1]
    BY <2>0, SubSeqProperties
  <2>2. QED
    BY <2>1, <1>2
<1>4. u \in Seq(X) /\ Len(u) = Len(s) - n /\ \A i \in 1..Len(s) - n : u[i] = s[n + i]
  <2>0. m \in Int /\ Len(s) \in Int /\ \A i \in m..Len(s) : s[i] \in X
    BY <1>1
  <2>1. /\ u \in Seq(X) /\ Len(u) = IF m <= Len(s) THEN Len(s) - m + 1 ELSE 0
        /\ \A i \in 1..Len(s) - m + 1 : u[i] = s[m + i - 1]
    BY <2>0, SubSeqProperties
  <2>2. QED
    BY <2>1, <1>1, <1>2
<1>5. e \in Seq(X) /\ Len(e) = 1 /\ e[1] = x
  OBVIOUS
<1>6. InsertAt(s, m, x) = l \o e \o u
  BY DEF InsertAt
<1> HIDE DEF l, e, u, n
<1> DEFINE le == l \o e
<1>7. le \in Seq(X) /\ Len(le) = m /\ le[m] = x /\ \A i \in 1..n : le[i] = s[i]
  <2>1. /\ le \in Seq(X) /\ Len(le) = Len(l) + Len(e)
        /\ \A i \in 1..Len(l) + Len(e) : le[i] = IF i <= Len(l) THEN l[i] ELSE e[i - Len(l)]
    BY <1>3, <1>5, ConcatProperties
  <2>2. le[m] = e[m - n] /\ m - n = 1
    BY <2>1, <1>2, <1>3, <1>5
  <2>3. \A i \in 1..n : le[i] = l[i]
    BY <2>1, <1>2, <1>3, <1>5
  <2>4. QED
    BY <2>1, <2>2, <2>3, <1>2, <1>3, <1>5
<1> HIDE DEF le
<1> DEFINE t == le \o u
<1>8. /\ t \in Seq(X) /\ Len(t) = Len(s) + 1
      /\ \A i \in 1..Len(s) + 1 : t[i] = IF i <= m THEN le[i] ELSE u[i - m]
  <2>1. /\ t \in Seq(X) /\ Len(t) = Len(le) + Len(u)
        /\ \A i \in 1..Len(le) + Len(u) : t[i] = IF i <= Len(le) THEN le[i] ELSE u[i - Len(le)]
    BY <1>4, <1>7, ConcatProperties
  <2>2. Len(le) + Len(u) = Len(s) + 1
    BY <1>1, <1>2, <1>4, <1>7
  <2>3. QED
    BY <2>1, <2>2, <1>7
<1>9. InsertAt(s, m, x) = t
  BY <1>6 DEF t, le
<1> HIDE DEF t
<1>10. t[m] = x
  BY <1>1, <1>7, <1>8
<1>11. ASSUME NEW i \in 1..Len(s) + 1, i # m
       PROVE  t[i] = s[IF i < m THEN i ELSE i - 1]
  <2>1. CASE i < m
    <3>1. i \in 1..n /\ i <= m
      BY <2>1, <1>1, <1>2
    <3>2. QED
      BY <2>1, <3>1, <1>7, <1>8
  <2>2. CASE ~(i < m)
    <3>1. t[i] = u[i - m]
      BY <2>2, <1>1, <1>8, <1>11
    <3>2. i - m \in 1..Len(s) - n /\ n + (i - m) = i - 1
      BY <2>2, <1>1, <1>2, <1>11
    <3>3. QED
      BY <2>2, <3>1, <3>2, <1>4
  <2>3. QED
    BY <2>1, <2>2
<1>12. QED
  BY <1>8, <1>9, <1>10, <1>11

\* A list with an element less.
LEMMA RemoveFacts ==
    ASSUME NEW X, NEW s \in Seq(X), NEW n \in 1..Len(s)
    PROVE  /\ RemoveAt(s, n) \in Seq(X) /\ Len(RemoveAt(s, n)) = Len(s) - 1
           /\ \A i \in 1..Len(s) - 1 : RemoveAt(s, n)[i] = s[IF i < n THEN i ELSE i + 1]
<1> DEFINE l == SubSeq(s, 1, n - 1)
           u == SubSeq(s, n + 1, Len(s))
<1>1. Len(s) \in Nat /\ \A i \in 1..Len(s) : s[i] \in X
  BY LenProperties, ElementOfSeq
<1>3. l \in Seq(X) /\ Len(l) = n - 1 /\ \A i \in 1..n - 1 : l[i] = s[i]
  <2>0. 1 \in Int /\ n - 1 \in Int /\ \A i \in 1..n - 1 : s[i] \in X
    BY <1>1
  <2>1. /\ l \in Seq(X) /\ Len(l) = IF 1 <= n - 1 THEN n - 1 - 1 + 1 ELSE 0
        /\ \A i \in 1..n - 1 - 1 + 1 : l[i] = s[1 + i - 1]
    BY <2>0, SubSeqProperties
  <2>2. QED
    BY <2>1, <1>1
<1>4. u \in Seq(X) /\ Len(u) = Len(s) - n /\ \A i \in 1..Len(s) - n : u[i] = s[n + i]
  <2>0. n + 1 \in Int /\ Len(s) \in Int /\ \A i \in n + 1..Len(s) : s[i] \in X
    BY <1>1
  <2>1. /\ u \in Seq(X) /\ Len(u) = IF n + 1 <= Len(s) THEN Len(s) - (n + 1) + 1 ELSE 0
        /\ \A i \in 1..Len(s) - (n + 1) + 1 : u[i] = s[n + 1 + i - 1]
    BY <2>0, SubSeqProperties
  <2>2. QED
    BY <2>1, <1>1
<1>6. RemoveAt(s, n) = l \o u
  BY DEF RemoveAt
<1> HIDE DEF l, u
<1>7. /\ l \o u \in Seq(X) /\ Len(l \o u) = n - 1 + (Len(s) - n)
      /\ \A i \in 1..n - 1 + (Len(s) - n) :
             (l \o u)[i] = IF i <= n - 1 THEN l[i] ELSE u[i - (n - 1)]
  <2>1. /\ l \o u \in Seq(X) /\ Len(l \o u) = Len(l) + Len(u)
        /\ \A i \in 1..Len(l) + Len(u) : (l \o u)[i] = IF i <= Len(l) THEN l[i] ELSE u[i - Len(l)]
    BY <1>3, <1>4, ConcatProperties
  <2>2. QED
    BY <2>1, <1>3, <1>4
<1> DEFINE t == l \o u
<1>8. t \in Seq(X) /\ Len(t) = Len(s) - 1
  BY <1>1, <1>7
<1>9. \A i \in 1..Len(s) - 1 : t[i] = s[IF i < n THEN i ELSE i + 1]
  <2> SUFFICES ASSUME NEW i \in 1..Len(s) - 1 PROVE t[i] = s[IF i < n THEN i ELSE i + 1]
    OBVIOUS
  <2>1. CASE i < n
    BY <2>1, <1>1, <1>3, <1>7
  <2>2. CASE ~(i < n)
    <3>1. t[i] = u[i - (n - 1)]
      BY <2>2, <1>1, <1>7
    <3>2. i - (n - 1) \in 1..Len(s) - n /\ n + (i - (n - 1)) = i + 1
      BY <2>2, <1>1
    <3>3. QED
      BY <2>2, <3>1, <3>2, <1>4
  <2>3. QED
    BY <2>1, <2>2
<1>10. QED
  BY <1>6, <1>8, <1>9

Values(v) == {v[i] : i \in DOMAIN v}
NoneTwice(v) == \A i, j \in DOMAIN v : (v[i] = v[j] /\ v[i] # Null) => i = j

\* No key is at two positions.
Distinct(prop, v) == \A e, f \in Positions(prop, v) : (e[2] = f[2] /\ e[2] # Null) => e = f

\* The keys of each kind of column, and when they are distinct.
LEMMA LinkFacts ==
    ASSUME NEW prop, prop.kind = "link", NEW v
    PROVE  KeysIn(prop, v) = {v} \ {Null} /\ Distinct(prop, v)
<1>1. Positions(prop, v) = {<<0, v>>}
  BY DEF Positions
<1>2. \A e \in Positions(prop, v) : e[2] = v /\ e = <<0, v>>
  BY <1>1
<1>3. KeysIn(prop, v) = {v} \ {Null}
  BY <1>1, <1>2 DEF KeysIn
<1>4. QED
  BY <1>2, <1>3 DEF Distinct

\* A set holds each key once.
LEMMA LinkSetFacts ==
    ASSUME NEW prop, prop.kind = "linkSet", NEW v
    PROVE  KeysIn(prop, v) = v \ {Null} /\ Distinct(prop, v)
<1>1. Positions(prop, v) = {<<0, k>> : k \in v}
  BY DEF Positions
<1>2. \A e \in Positions(prop, v) : e[2] \in v /\ e = <<0, e[2]>>
  BY <1>1
<1>3. ASSUME NEW k \in v PROVE \E e \in Positions(prop, v) : e[2] = k
  <2>1. <<0, k>> \in Positions(prop, v)
    BY <1>1
  <2>2. QED
    BY <2>1
<1>4. KeysIn(prop, v) = v \ {Null}
  BY <1>2, <1>3 DEF KeysIn
<1>5. QED
  BY <1>2, <1>4 DEF Distinct

\* A list or dictionary holds each key once if no two of its values are equal.
LEMMA LinkManyFacts ==
    ASSUME NEW prop, prop.kind \in {"linkList", "linkMap"}, NEW v
    PROVE  /\ KeysIn(prop, v) = Values(v) \ {Null}
           /\ Distinct(prop, v) <=> NoneTwice(v)
<1>1. Positions(prop, v) = {<<i, v[i]>> : i \in DOMAIN v}
  BY DEF Positions
<1>2. \A e \in Positions(prop, v) : e[1] \in DOMAIN v /\ e[2] = v[e[1]] /\ e = <<e[1], v[e[1]]>>
  BY <1>1
<1>3. \A i \in DOMAIN v : <<i, v[i]>> \in Positions(prop, v)
  BY <1>1
<1>4. KeysIn(prop, v) = {v[i] : i \in DOMAIN v} \ {Null}
  <2>1. {e[2] : e \in Positions(prop, v)} = {v[i] : i \in DOMAIN v}
    BY <1>2, <1>3
  <2>2. QED
    BY <2>1 DEF KeysIn
<1>5. ASSUME Distinct(prop, v), NEW i \in DOMAIN v, NEW j \in DOMAIN v, v[i] = v[j], v[i] # Null
      PROVE  i = j
  <2> DEFINE e == <<i, v[i]>>
             f == <<j, v[j]>>
  <2>1. e \in Positions(prop, v) /\ f \in Positions(prop, v)
    BY <1>3
  <2>2. e[1] = i /\ f[1] = j /\ e[2] = v[i] /\ f[2] = v[j]
    OBVIOUS
  <2> HIDE DEF e, f
  <2>3. e = f
    BY <2>1, <2>2, <1>5 DEF Distinct
  <2>4. QED
    BY <2>2, <2>3
<1>6. ASSUME \A i, j \in DOMAIN v : (v[i] = v[j] /\ v[i] # Null) => i = j
      PROVE  Distinct(prop, v)
  <2> SUFFICES ASSUME NEW e \in Positions(prop, v), NEW f \in Positions(prop, v),
                      e[2] = f[2], e[2] # Null
               PROVE  e = f
    BY DEF Distinct
  <2>1. e[1] = f[1]
    BY <1>2, <1>6
  <2>2. QED
    BY <2>1, <1>2
<1>7. QED
  BY <1>4, <1>5, <1>6 DEF Values, NoneTwice

\* What a property of a row of a sound store holds.
LEMMA OldFacts ==
    ASSUME NEW S, NEW new, SoundBut(S, new), NEW r \in DOMAIN S.rows, NEW prop \in Properties(r[1]),
           NEW old, old = S.rows[r][prop.name]
    PROVE  /\ r[1] \in Classes /\ r \in Classes \X Nat /\ prop.kind \in Kinds /\ Column(prop, old)
           /\ prop.kind \in LinkKinds => \A k \in KeysIn(prop, old) : <<prop.target, k>> \in DOMAIN S.rows
           /\ Owns(prop) =>
                 /\ Distinct(prop, old)
                 /\ new[1] \in Embedded => \A k \in KeysIn(prop, old) : <<prop.target, k>> # new
<1> DEFINE c == r[1]
           n == prop.name
<1>1. /\ c \in Classes /\ r \in Classes \X Nat /\ Column(prop, old)
      /\ Live(S.rows) /\ Sole(S.rows)
  BY DEF SoundBut, Typed, TypedRow
<1>2. /\ n \in DOMAIN Columns[c] /\ Columns[c][n] = prop /\ prop.kind \in Kinds
      /\ n \in LinkColumns[c] <=> prop.kind \in LinkKinds
  BY <1>1, PropertyFacts
<1>3. ASSUME prop.kind \in LinkKinds
      PROVE  ColumnRefs(c, n, old) \subseteq ReferencesIn(S.rows, r)
  BY <1>2, <1>3, ReferencesAre
<1>4. ASSUME prop.kind \in LinkKinds, NEW k \in KeysIn(prop, old)
      PROVE  <<prop.target, k>> \in RefersTo(S.rows, r)
  <2>0. k \in KeysIn(Columns[c][n], old)
    BY <1>2, <1>4
  <2>1. PICK f \in ColumnRefs(c, n, old) : f[4] = k
    BY <2>0, ColumnRefsFacts
  <2>2. f[3] = prop.target /\ f \in ReferencesIn(S.rows, r)
    BY <1>2, <1>3, <1>4, ColumnRefsFacts
  <2>3. QED
    BY <2>1, <2>2 DEF RefersTo
<1>5. ASSUME Owns(prop)
      PROVE  Distinct(prop, old)
  <2>1. prop.kind \in LinkKinds /\ prop.target \in Embedded
    BY <1>5 DEF Owns
  <2>2. CASE prop.kind \in {"linkList", "linkMap"}
    <3>1. SUFFICES ASSUME NEW i \in DOMAIN old, NEW j \in DOMAIN old, old[i] = old[j], old[i] # Null
                   PROVE  i = j
      BY <2>2, LinkManyFacts DEF NoneTwice
    <3>2. Positions(prop, old) = {<<m, old[m]>> : m \in DOMAIN old}
      BY <2>2 DEF Positions
    <3> DEFINE f == <<n, i, prop.target, old[i]>>
               g == <<n, j, prop.target, old[j]>>
    <3>3. f \in ColumnRefs(c, n, old) /\ g \in ColumnRefs(c, n, old)
      <4>1. \A m \in DOMAIN old : <<m, old[m]>> \in Positions(prop, old)
        BY <3>2
      <4>2. ASSUME NEW m \in DOMAIN old, old[m] # Null
            PROVE  <<n, m, prop.target, old[m]>> \in ColumnRefs(c, n, old)
        <5> DEFINE e == <<m, old[m]>>
        <5>1. e \in Positions(Columns[c][n], old) /\ e[1] = m /\ e[2] = old[m]
          BY <4>1, <1>2
        <5> HIDE DEF e
        <5>2. <<n, e[1], Columns[c][n].target, e[2]>> \in ColumnRefs(c, n, old)
          BY <5>1, <4>2 DEF ColumnRefs
        <5>3. QED
          BY <5>1, <5>2, <1>2
      <4>3. QED
        BY <4>2, <3>1
    <3>4. f \in ReferencesIn(S.rows, r) /\ g \in ReferencesIn(S.rows, r)
      BY <3>3, <1>3, <2>1
    <3>5. f[3] \in Embedded /\ f[3] = g[3] /\ f[4] = g[4] /\ f[2] = i /\ g[2] = j
      BY <2>1, <3>1
    <3> HIDE DEF f, g
    <3>6. f = g
      BY <3>4, <3>5, <1>1 DEF Sole
    <3>7. QED
      BY <3>5, <3>6
  <2>3. QED
    BY <2>1, <2>2, LinkFacts, LinkSetFacts DEF LinkKinds
<1>6. ASSUME prop.kind \in LinkKinds, NEW k \in KeysIn(prop, old)
      PROVE  /\ <<prop.target, k>> \in DOMAIN S.rows
             /\ new[1] \in Embedded => <<prop.target, k>> # new
  BY <1>1, <1>4, <1>6 DEF Live, SoundBut
<1>7. QED
  BY <1>1, <1>2, <1>5, <1>6 DEF Owns

\* U is S after v was written to a property of r.
Wrote(S, U, r, prop, v) ==
    /\ Sound(U) /\ Keeps(S, U, {r}) /\ U.ok = S.ok /\ U.next = S.next
    /\ DOMAIN U.rows \subseteq DOMAIN S.rows
    /\ ~Owns(prop) => r \in DOMAIN U.rows /\ U.rows[r][prop.name] = v

\* A sound store is one in which a row that is not there waits.
LEMMA FreshRow ==
    ASSUME NEW S, Sound(S), NEW c \in Classes
    PROVE  <<c, S.next[c]>> \notin DOMAIN S.rows /\ SoundBut(S, <<c, S.next[c]>>)
<1> DEFINE new == <<c, S.next[c]>>
<1>1. Typed(S) /\ Live(S.rows) /\ Sole(S.rows) /\ Owned(S.rows) /\ OneKey(S.rows)
  BY DEF Sound
<1>2. new[1] = c /\ new[2] = S.next[c] /\ S.next[c] \in Nat
  BY <1>1 DEF Typed
<1> HIDE DEF new
<1>3. new \notin DOMAIN S.rows
  BY <1>1, <1>2 DEF Typed, TypedRow
<1>4. SoundBut(S, new)
  BY <1>1, <1>3 DEF SoundBut, Owned, OwnedBut, Live
<1>5. QED
  BY <1>3, <1>4 DEF new

\* What may be written to a store in which no row waits.
Suits(S, r, prop, v) ==
    /\ Column(prop, v)
    /\ prop.kind = "pk" => v = S.rows[r][prop.name]
    /\ prop.kind \in LinkKinds => \A k \in KeysIn(prop, v) : <<prop.target, k>> \in DOMAIN S.rows
    /\ Owns(prop) => KeysIn(prop, v) \subseteq KeysIn(prop, S.rows[r][prop.name]) /\ Distinct(prop, v)

\* A write that suits is performed, and the store is sound after it.
LEMMA SuitingWrite ==
    ASSUME NEW S, Sound(S), NEW r \in DOMAIN S.rows, NEW prop \in Properties(r[1]), NEW v,
           Suits(S, r, prop, v)
    PROVE  Wrote(S, ObjSet(S, r, prop, v), r, prop, v)
<1>1. r[1] \in Classes
  BY DEF Sound, Typed, TypedRow
<1> DEFINE new == <<r[1], S.next[r[1]]>>
<1>2. new \notin DOMAIN S.rows /\ SoundBut(S, new)
  BY <1>1, FreshRow
<1> HIDE DEF new
<1>3. Fits(S, new, r, prop, v)
  BY <1>2 DEF Fits, Suits, Distinct
<1> DEFINE U == ObjSet(S, r, prop, v)
<1>4. /\ Sound(U) /\ Keeps(S, U, {r}) /\ U.ok = S.ok /\ U.next = S.next
      /\ DOMAIN U.rows \subseteq DOMAIN S.rows
      /\ ~Owns(prop) => r \in DOMAIN U.rows /\ U.rows[r][prop.name] = v
  BY <1>2, <1>3, WriteKeeps
<1>5. QED
  BY <1>4 DEF Wrote

\* A value with a key more.
Grown(prop, old, v, k) ==
    /\ Column(prop, v)
    /\ KeysIn(prop, v) \subseteq KeysIn(prop, old) \cup {k} /\ k \in KeysIn(prop, v)
    /\ (Distinct(prop, old) /\ k \notin KeysIn(prop, old)) => Distinct(prop, v)

\* The key is that of a live row: the one that waits, if one waits, or if
\* the column owns the rows it refers to.
Grows(S, new, r, prop, k) ==
    /\ prop.kind \in LinkKinds /\ k \in Nat /\ <<prop.target, k>> \in DOMAIN S.rows
    /\ Owns(prop) => <<prop.target, k>> = new
    /\ (new \in DOMAIN S.rows /\ new[1] \in Embedded) => <<prop.target, k>> = new

\* So is one that adds the key of a live row.
LEMMA GrowingWrite ==
    ASSUME NEW S, NEW new, SoundBut(S, new), NEW r \in DOMAIN S.rows, NEW prop \in Properties(r[1]),
           NEW k, Grows(S, new, r, prop, k), NEW v, Grown(prop, S.rows[r][prop.name], v, k)
    PROVE  Wrote(S, ObjSet(S, r, prop, v), r, prop, v)
<1> DEFINE old == S.rows[r][prop.name]
<1>1. /\ prop.kind \in LinkKinds => \A m \in KeysIn(prop, old) : <<prop.target, m>> \in DOMAIN S.rows
      /\ Owns(prop) => /\ Distinct(prop, old)
                       /\ new[1] \in Embedded => \A m \in KeysIn(prop, old) : <<prop.target, m>> # new
  BY OldFacts
<1>2. /\ Column(prop, v)
      /\ KeysIn(prop, v) \subseteq KeysIn(prop, old) \cup {k} /\ k \in KeysIn(prop, v)
      /\ (Distinct(prop, old) /\ k \notin KeysIn(prop, old)) => Distinct(prop, v)
  BY DEF Grown
<1> HIDE DEF old
<1>3. prop.kind \in LinkKinds /\ prop.kind # "pk"
  BY DEF Grows, LinkKinds
<1>4. \A m \in KeysIn(prop, v) : <<prop.target, m>> \in DOMAIN S.rows
  BY <1>1, <1>2, <1>3 DEF Grows
<1>5. ASSUME Owns(prop)
      PROVE  /\ \A m \in KeysIn(prop, v) : m \in KeysIn(prop, old) \/ <<prop.target, m>> = new
             /\ Distinct(prop, v)
  <2>1. <<prop.target, k>> = new /\ new[1] \in Embedded
    BY <1>5 DEF Grows, Owns
  <2>2. k \notin KeysIn(prop, old)
    BY <2>1, <1>1, <1>5
  <2>3. QED
    BY <2>1, <2>2, <1>1, <1>2, <1>5
<1>6. ASSUME new \in DOMAIN S.rows, new[1] \in Embedded
      PROVE  Owns(prop) /\ \E m \in KeysIn(prop, v) : <<prop.target, m>> = new
  <2>1. <<prop.target, k>> = new
    BY <1>6 DEF Grows
  <2>2. prop.target = new[1]
    BY <2>1
  <2>3. Owns(prop)
    BY <2>2, <1>3, <1>6 DEF Owns
  <2>4. QED
    BY <2>1, <2>3, <1>2
<1>7. Fits(S, new, r, prop, v)
  BY <1>2, <1>3, <1>4, <1>5, <1>6 DEF Fits, Distinct, old
<1> DEFINE U == ObjSet(S, r, prop, v)
<1>8. /\ Sound(U) /\ Keeps(S, U, {r}) /\ U.ok = S.ok /\ U.next = S.next
      /\ DOMAIN U.rows \subseteq DOMAIN S.rows
      /\ ~Owns(prop) => r \in DOMAIN U.rows /\ U.rows[r][prop.name] = v
  BY <1>7, WriteKeeps
<1>9. QED
  BY <1>8 DEF Wrote

\* The value that Attach makes of what the property holds.
WithKey(prop, old, at, k) ==
    CASE prop.kind = "link" -> k
      [] prop.kind = "linkList" /\ prop.target \in Embedded -> InsertAt(old, at + 1, k)
      [] prop.kind = "linkList" /\ prop.target \notin Embedded -> Append(old, k)
      [] prop.kind = "linkSet" -> old \cup {k}
      [] prop.kind = "linkMap" -> MapInsert(old, [m \in {at} |-> k])

\* A place in a list or map.
Place(prop, old, at) ==
    /\ (prop.kind = "linkList" /\ prop.target \in Embedded) => at \in Nat /\ at <= Len(old)
    /\ prop.kind = "linkMap" => at \in MapKeys

\* Null is neither a key nor an object.
LEMMA NullFacts == Null \notin Nat /\ Null \notin Pointers
BY HeapAssumption

\* A list with an element more, wherever it is.
LEMMA ListGrown ==
    ASSUME NEW prop, prop.kind = "linkList", NEW old \in Seq(Nat), NEW k \in Nat,
           NEW v \in Seq(Nat), NEW n \in 1..Len(v), v[n] = k, Len(v) = Len(old) + 1,
           \A i \in 1..Len(v) : i # n => v[i] = old[IF i < n THEN i ELSE i - 1]
    PROVE  Grown(prop, old, v, k)
<1>1. /\ DOMAIN v = 1..Len(v) /\ Len(v) \in Nat
      /\ DOMAIN old = 1..Len(old) /\ Len(old) \in Nat
      /\ \A i \in 1..Len(v) : v[i] \in Nat
  BY LenProperties, ElementOfSeq
<1>2. /\ KeysIn(prop, v) = {v[i] : i \in DOMAIN v} \ {Null}
      /\ KeysIn(prop, old) = {old[i] : i \in DOMAIN old} \ {Null}
      /\ Distinct(prop, v) <=> NoneTwice(v)
      /\ Distinct(prop, old) <=> NoneTwice(old)
  <2>1. \A w : KeysIn(prop, w) = Values(w) \ {Null} /\ (Distinct(prop, w) <=> NoneTwice(w))
    BY LinkManyFacts
  <2>2. QED
    BY <2>1 DEF Values
<1>3. ASSUME NEW i \in 1..Len(v), i # n
      PROVE  /\ (IF i < n THEN i ELSE i - 1) \in DOMAIN old
             /\ v[i] = old[IF i < n THEN i ELSE i - 1]
  BY <1>1, <1>3
<1>4. Column(prop, v)
  BY DEF Column, ListKinds
<1>5. KeysIn(prop, v) \subseteq KeysIn(prop, old) \cup {k} /\ k \in KeysIn(prop, v)
  <2>1. ASSUME NEW m \in KeysIn(prop, v) PROVE m \in KeysIn(prop, old) \cup {k}
    <3>1. PICK i \in 1..Len(v) : m = v[i] /\ m # Null
      BY <1>1, <1>2
    <3>2. QED
      BY <3>1, <1>2, <1>3
  <2>2. QED
    BY <2>1, <1>1, <1>2, NullFacts
<1>6. ASSUME Distinct(prop, old), k \notin KeysIn(prop, old)
      PROVE  Distinct(prop, v)
  <2> SUFFICES ASSUME NEW i \in 1..Len(v), NEW j \in 1..Len(v), v[i] = v[j], v[i] # Null
               PROVE  i = j
    BY <1>1, <1>2 DEF NoneTwice
  <2>0. \A x \in DOMAIN old : old[x] # k
    BY <1>2, <1>6, NullFacts
  <2>1. CASE i = n
    BY <2>0, <2>1, <1>3
  <2>2. CASE j = n
    BY <2>0, <2>2, <1>3
  <2>3. CASE i # n /\ j # n
    <3> DEFINE x == IF i < n THEN i ELSE i - 1
               y == IF j < n THEN j ELSE j - 1
    <3>1. x \in DOMAIN old /\ y \in DOMAIN old /\ v[i] = old[x] /\ v[j] = old[y]
      BY <2>3, <1>3
    <3> HIDE DEF x, y
    <3>2. x = y
      BY <3>1, <1>2, <1>6, <2>0 DEF NoneTwice
    <3>3. QED
      <4>1. i \in Int /\ j \in Int /\ n \in Int
        BY <1>1
      <4>2. (IF i < n THEN i ELSE i - 1) = (IF j < n THEN j ELSE j - 1)
        BY <3>2 DEF x, y
      <4>3. QED
        BY <4>1, <4>2, <2>3
  <2>4. QED
    BY <2>1, <2>2, <2>3
<1>7. QED
  BY <1>4, <1>5, <1>6 DEF Grown

\* A dictionary after an insertion: the new entries, and the old under other keys.
LEMMA MapInsertFacts ==
    ASSUME NEW old, NEW new
    PROVE  /\ DOMAIN MapInsert(old, new) = DOMAIN old \cup DOMAIN new
           /\ \A m \in DOMAIN new : MapInsert(old, new)[m] = new[m]
           /\ \A m \in DOMAIN old : m \notin DOMAIN new => MapInsert(old, new)[m] = old[m]
BY DEF MapInsert

\* What Attach makes of a value has one key more.
LEMMA WithKeyGrown ==
    ASSUME NEW prop, prop.kind \in LinkKinds, NEW old, Column(prop, old), NEW k \in Nat,
           NEW at, Place(prop, old, at)
    PROVE  /\ Grown(prop, old, WithKey(prop, old, at, k), k)
           /\ prop.kind = "linkSet" => WithKey(prop, old, at, k) = old \cup {k}
<1>1. CASE prop.kind = "link"
  <2>1. WithKey(prop, old, at, k) = k
    BY <1>1 DEF WithKey
  <2>2. KeysIn(prop, k) = {k} \ {Null} /\ Distinct(prop, k)
    BY <1>1, LinkFacts
  <2>3. Column(prop, k)
    BY <1>1 DEF Column, ListKinds, ValueLists
  <2>4. QED
    BY <1>1, <2>1, <2>2, <2>3, NullFacts DEF Grown
<1>2. CASE prop.kind = "linkList"
  <2>0. old \in Seq(Nat)
    BY <1>2 DEF Column, ListKinds
  <2>1. Len(old) \in Nat
    BY <2>0, LenProperties
  <2>2. CASE prop.target \in Embedded
    <3> DEFINE v == InsertAt(old, at + 1, k)
    <3>1. WithKey(prop, old, at, k) = v
      BY <1>2, <2>2 DEF WithKey
    <3>2. at \in Nat /\ at <= Len(old)
      BY <1>2, <2>2 DEF Place
    <3> DEFINE n == at + 1
    <3>3. n \in 1..Len(old) + 1
      BY <2>1, <3>2
    <3>4. /\ v \in Seq(Nat) /\ Len(v) = Len(old) + 1 /\ v[n] = k
          /\ \A i \in 1..Len(old) + 1 : i # n => v[i] = old[IF i < n THEN i ELSE i - 1]
      <4> DEFINE X == Nat
      <4>1. old \in Seq(X) /\ k \in X
        BY <2>0
      <4> HIDE DEF n, X
      <4>2. /\ InsertAt(old, n, k) \in Seq(X) /\ Len(InsertAt(old, n, k)) = Len(old) + 1
            /\ InsertAt(old, n, k)[n] = k
            /\ \A i \in 1..Len(old) + 1 : i # n =>
                   InsertAt(old, n, k)[i] = old[IF i < n THEN i ELSE i - 1]
        BY <4>1, <3>3, InsertedFacts
      <4>3. QED
        BY <4>2 DEF n, X
    <3>5. n \in 1..Len(v)
      BY <3>3, <3>4
    <3> HIDE DEF v
    <3> HIDE DEF n
    <3>6. Grown(prop, old, v, k)
      BY <1>2, <2>0, <3>4, <3>5, ListGrown
    <3>7. QED
      BY <1>2, <3>1, <3>6
  <2>3. CASE prop.target \notin Embedded
    <3> DEFINE v == Append(old, k)
               n == Len(old) + 1
    <3>1. WithKey(prop, old, at, k) = v
      BY <1>2, <2>3 DEF WithKey
    <3>2. v \in Seq(Nat) /\ Len(v) = n /\ v[n] = k /\ \A i \in 1..Len(old) : v[i] = old[i]
      BY <2>0, AppendProperties
    <3>3. n \in 1..Len(v) /\ Len(v) = Len(old) + 1
      BY <2>1, <3>2
    <3> HIDE DEF v
    <3>4. \A i \in 1..Len(v) : i # n => v[i] = old[IF i < n THEN i ELSE i - 1]
      BY <2>1, <3>2
    <3> HIDE DEF n
    <3>5. Grown(prop, old, v, k)
      BY <1>2, <2>0, <3>2, <3>3, <3>4, ListGrown
    <3>6. QED
      BY <1>2, <3>1, <3>5
  <2>4. QED
    BY <2>2, <2>3
<1>3. CASE prop.kind = "linkSet"
  <2> DEFINE v == old \cup {k}
  <2>1. WithKey(prop, old, at, k) = v
    BY <1>3 DEF WithKey
  <2>2. KeysIn(prop, v) = v \ {Null} /\ KeysIn(prop, old) = old \ {Null} /\ Distinct(prop, v)
    BY <1>3, LinkSetFacts
  <2>3. old \subseteq Nat /\ IsFiniteSet(old)
    BY <1>3 DEF Column, ListKinds, ValueLists
  <2>4. v \subseteq Nat /\ IsFiniteSet(v)
    BY <2>3, FS_AddElement
  <2>5. Column(prop, v)
    BY <1>3, <2>4 DEF Column, ListKinds, ValueLists
  <2>6. Grown(prop, old, v, k)
    BY <2>2, <2>5, NullFacts DEF Grown
  <2>7. QED
    BY <2>1, <2>6
<1>4. CASE prop.kind = "linkMap"
  <2> DEFINE v == WithKey(prop, old, at, k)
  <2>1. v = MapInsert(old, [m \in {at} |-> k])
    BY <1>4 DEF WithKey
  <2> HIDE DEF v
  <2>2. DOMAIN v = DOMAIN old \cup {at} /\ v[at] = k /\ \A m \in DOMAIN old : m # at => v[m] = old[m]
    <3> DEFINE new == [m \in {at} |-> k]
    <3>1. v = MapInsert(old, new) /\ DOMAIN new = {at} /\ new[at] = k
      BY <2>1
    <3> HIDE DEF new
    <3>2. /\ DOMAIN MapInsert(old, new) = DOMAIN old \cup DOMAIN new
          /\ \A m \in DOMAIN new : MapInsert(old, new)[m] = new[m]
          /\ \A m \in DOMAIN old : m \notin DOMAIN new => MapInsert(old, new)[m] = old[m]
      BY MapInsertFacts
    <3>3. QED
      BY <3>1, <3>2
  <2>3. /\ at \in MapKeys /\ DOMAIN old \subseteq MapKeys
        /\ \A m \in DOMAIN old : old[m] \in Nat \cup {Null}
    BY <1>4 DEF Column, Place, ListKinds, ValueLists
  <2>4. DOMAIN v \subseteq MapKeys /\ \A m \in DOMAIN v : v[m] \in Nat \cup {Null}
    BY <2>2, <2>3
  <2>5. Column(prop, v)
    BY <1>4, <2>4 DEF Column, ListKinds, ValueLists
  <2>6. /\ KeysIn(prop, v) = {v[i] : i \in DOMAIN v} \ {Null}
        /\ KeysIn(prop, old) = {old[i] : i \in DOMAIN old} \ {Null}
        /\ Distinct(prop, v) <=> NoneTwice(v)
        /\ Distinct(prop, old) <=> NoneTwice(old)
    <3>1. \A w : KeysIn(prop, w) = Values(w) \ {Null} /\ (Distinct(prop, w) <=> NoneTwice(w))
      BY <1>4, LinkManyFacts
    <3>2. QED
      BY <3>1 DEF Values
  <2>7. KeysIn(prop, v) \subseteq KeysIn(prop, old) \cup {k} /\ k \in KeysIn(prop, v)
    BY <2>2, <2>6, NullFacts
  <2>8. ASSUME Distinct(prop, old), k \notin KeysIn(prop, old)
        PROVE  Distinct(prop, v)
    <3>1. \A i \in DOMAIN old : old[i] # k
      BY <2>6, <2>8, NullFacts
    <3>2. NoneTwice(v)
      BY <3>1, <2>2, <2>6, <2>8 DEF NoneTwice
    <3>3. QED
      BY <3>2, <2>6
  <2>9. Grown(prop, old, v, k)
    BY <2>5, <2>7, <2>8 DEF Grown
  <2>10. QED
    BY <1>4, <2>9 DEF v
<1>5. QED
  BY <1>1, <1>2, <1>3, <1>4 DEF LinkKinds

\* Attaching a key to a row and its property.
LEMMA AttachKeeps ==
    ASSUME NEW S, NEW new, SoundBut(S, new), NEW r \in DOMAIN S.rows, NEW prop \in Properties(r[1]),
           NEW k, Grows(S, new, r, prop, k), NEW at, Place(prop, S.rows[r][prop.name], at)
    PROVE  Wrote(S, Attach(S, r, prop, at, k), r, prop, WithKey(prop, S.rows[r][prop.name], at, k))
<1> DEFINE old == S.rows[r][prop.name]
           v == WithKey(prop, old, at, k)
<1>1. Column(prop, old)
  BY OldFacts
<1>2. prop.kind \in LinkKinds /\ k \in Nat
  BY DEF Grows
<1>3. Grown(prop, old, v, k)
  BY <1>1, <1>2, WithKeyGrown
<1>4. Attach(S, r, prop, at, k) = ObjSet(S, r, prop, v)
  BY DEF Attach, WithKey, ObjGet
<1> HIDE DEF v
<1>5. QED
  BY <1>3, <1>4, GrowingWrite DEF v

(* ----- calls under way ----- *)

Closed(ps) == ps \subseteq Pointers /\ \A q \in ps : Children(q) \subseteq ps

Many == {"linkList", "linkSet", "linkMap"}

Tasks ==
    [do : {"copy", "make", "put"}, row : Classes \X Nat,
     prop : UNION {Properties(c) : c \in Classes},
     at : Nat \cup MapKeys \cup {Null}, from : Pointers \cup Nat \cup {Null}]

\* What there is to do in a call that is given the objects of ps and may
\* write the rows of ws: an object goes to a row that has its primary key.
Fair(S, ps, ws, t) ==
    /\ t.row \in ws /\ t.prop \in Properties(t.row[1])
    /\ t.do = "copy" =>
          /\ t.from \in ps /\ ClassOf[t.from] = t.row[1]
          /\ HasPrimaryKeyProperty(t.row[1]) =>
                /\ t.row \in DOMAIN S.rows
                /\ PkOf(t.row[1], S.rows[t.row]) = PkOf(t.row[1], Heap[t.from])
    /\ t.do = "make" =>
          /\ t.prop.kind \in Many
          /\ t.from = Null \/ (t.from \in ps /\ ClassOf[t.from] = t.prop.target)
          /\ t.prop.kind = "linkList" => t.at \in Nat
          /\ t.prop.kind = "linkMap" => t.at \in MapKeys
    /\ t.do = "put" =>
          /\ t.prop.kind \in Many /\ t.from \in Nat
          /\ t.prop.kind = "linkList" => t.prop.target \notin Embedded
          /\ t.prop.kind = "linkMap" => t.at \in MapKeys

Work(S, ps, ws) == {t \in Tasks : Fair(S, ps, ws, t)}

\* A call on the store B may write the rows it creates, embedded rows, and
\* those with the primary key of an object it is given.
Wide(B, ps, ws) ==
    \A w \in Classes \X Nat :
        \/ w \in ws
        \/ /\ w[1] \notin Embedded /\ w \in DOMAIN B.rows
           /\ HasPrimaryKeyProperty(w[1]) =>
                 \A q \in ps : ClassOf[q] = w[1] => PkOf(w[1], B.rows[w]) # PkOf(w[1], Heap[q])

Ready(B, ps, ws, S) == Sound(S) /\ Keeps(B, S, ws) /\ Wide(B, ps, ws) /\ Closed(ps)

\* A call that began with the store B, and a step of it from S to T.
Under(B, ps, ws, T) == Sound(T.s) /\ Keeps(B, T.s, ws) /\ T.todo \in Seq(Work(T.s, ps, ws))
Goes(B, ps, ws, S, T) == Under(B, ps, ws, T) /\ Keeps(S, T.s, ws) /\ (T.s.ok => S.ok)

\* What is to be done is not spoiled by a step that keeps the store.
LEMMA WorkStays ==
    ASSUME NEW S, NEW U, NEW vs, Keeps(S, U, vs), NEW ps, NEW ws
    PROVE  Work(S, ps, ws) \subseteq Work(U, ps, ws)
<1> SUFFICES ASSUME NEW t \in Tasks, Fair(S, ps, ws, t) PROVE Fair(U, ps, ws, t)
  BY DEF Work
<1>1. ASSUME HasPrimaryKeyProperty(t.row[1]), t.row \in DOMAIN S.rows
      PROVE  t.row \in DOMAIN U.rows /\ PkOf(t.row[1], U.rows[t.row]) = PkOf(t.row[1], S.rows[t.row])
  <2>1. t.row[1] \in Classes
    BY DEF Tasks
  <2>2. t.row[1] \notin Embedded
    BY <2>1, <1>1, PrimaryKeyFacts
  <2>3. QED
    BY <2>2, <1>1 DEF Keeps
<1>2. QED
  BY <1>1 DEF Fair

\* Nothing left to do.
LEMMA DoneGoes ==
    ASSUME NEW B, NEW ps, NEW ws, NEW S, Ready(B, ps, ws, S), NEW U, Sound(U),
           NEW vs, Keeps(S, U, vs), vs \subseteq ws, U.ok => S.ok
    PROVE  Goes(B, ps, ws, S, Done(U))
<1>1. Keeps(B, S, ws)
  BY DEF Ready
<1>2. Keeps(S, U, ws) /\ Keeps(B, U, ws)
  BY <1>1, KeepsMore, KeepsOn
<1>3. Done(U).s = U /\ Done(U).todo = <<>>
  BY DEF Done
<1>4. <<>> \in Seq(Work(U, ps, ws))
  BY EmptySeq
<1>5. QED
  BY <1>2, <1>3, <1>4 DEF Goes, Under

\* An exception ends a call with a sound store.
LEMMA ThrowGoes ==
    ASSUME NEW B, NEW ps, NEW ws, NEW S, Ready(B, ps, ws, S)
    PROVE  Goes(B, ps, ws, S, Done(Throw(S))) /\ Sound(Throw(S)) /\ Keeps(S, Throw(S), {})
<1> DEFINE U == Throw(S)
<1>1. U.rows = S.rows /\ U.next = S.next /\ U.ok = FALSE
  BY DEF Throw
<1>2. Sound(S)
  BY DEF Ready
<1> HIDE DEF U
<1>3. Sound(U)
  BY <1>1, <1>2 DEF Sound, Typed, TypedRow
<1>4. Keeps(S, U, {})
  BY <1>1 DEF Keeps
<1>5. Goes(B, ps, ws, S, Done(U))
  BY <1>1, <1>3, <1>4, DoneGoes
<1>6. QED
  BY <1>3, <1>4, <1>5 DEF U

\* The members of an object are copied one after the other.
LEMMA ImportIsWork ==
    ASSUME NEW U, NEW ps, NEW ws, Closed(ps), NEW p \in ps, NEW r \in Classes \X Nat, r \in ws,
           r[1] = ClassOf[p],
           HasPrimaryKeyProperty(r[1]) => r \in DOMAIN U.rows /\ PkOf(r[1], U.rows[r]) = PkOf(r[1], Heap[p])
    PROVE  Import(r, p) \in Seq(Work(U, ps, ws))
<1> DEFINE c == r[1]
           n == Len(Schema[c])
           do == Import(r, p)
           X == Work(U, ps, ws)
<1>1. c \in Classes
  OBVIOUS
<1>2. n \in Nat /\ DOMAIN Schema[c] = 1..n
  BY <1>1, SchemaFacts
<1>3. do = [i \in 1..n |-> CopyMember(r, Schema[c][i], p)]
  BY <1>2 DEF Import
<1>4. ASSUME NEW i \in 1..n
      PROVE  CopyMember(r, Schema[c][i], p) \in X
  <2> DEFINE prop == Schema[c][i]
             t == CopyMember(r, prop, p)
  <2>1. prop \in Properties(c)
    BY <1>1, <1>2, SchemaIsProperty
  <2>2. p \in Pointers
    BY DEF Closed
  <2> HIDE DEF prop
  <2>3. t.do = "copy" /\ t.row = r /\ t.prop = prop /\ t.at = Null /\ t.from = p
    BY DEF CopyMember
  <2>4. t \in Tasks
    BY <1>1, <2>1, <2>2 DEF CopyMember, Tasks
  <2> HIDE DEF t
  <2>5. Fair(U, ps, ws, t)
    BY <2>1, <2>3 DEF Fair
  <2>6. QED
    BY <2>4, <2>5 DEF Work, t, prop
<1> HIDE DEF X, n, c
<1>5. [i \in 1..n |-> CopyMember(r, Schema[c][i], p)] \in Seq(X)
  BY <1>2, <1>4
<1>6. QED
  BY <1>3, <1>5 DEF X

\* The row an object goes to is one the call may write.
LEMMA RowIsWide ==
    ASSUME NEW B, NEW ps, NEW ws, NEW S, Ready(B, ps, ws, S), NEW p \in ps, NEW N, N = RowFor(S, p)
    PROVE  /\ p \in Pointers /\ ClassOf[p] \in Classes /\ RowFits(S, p, N) /\ Keeps(S, N.s, {})
           /\ N.r \in Classes \X Nat /\ N.r \in ws /\ N.r[1] = ClassOf[p] /\ N.s.ok = S.ok
<1>1. Sound(S) /\ p \in Pointers /\ Wide(B, ps, ws) /\ Keeps(B, S, ws)
  BY DEF Ready, Closed
<1>2. RowFits(S, p, N) /\ ClassOf[p] \in Classes
  BY <1>1, RowForKeeps, HeapAssumption
<1> DEFINE c == ClassOf[p]
<1>3. /\ N.r \in Classes \X Nat /\ N.r[1] = c /\ N.s.ok = S.ok
      /\ DOMAIN S.rows \subseteq DOMAIN N.s.rows
      /\ \A r \in DOMAIN S.rows : N.s.rows[r] = S.rows[r]
      /\ N.r \in DOMAIN S.rows => HasPrimaryKeyProperty(c) /\ PkOf(c, S.rows[N.r]) = PkOf(c, Heap[p])
  BY <1>2 DEF RowFits
<1>4. Keeps(S, N.s, {})
  BY <1>3 DEF Keeps
<1>5. N.r \in ws
  <2> SUFFICES ASSUME N.r \notin ws PROVE FALSE
    OBVIOUS
  <2>1. /\ c \notin Embedded /\ N.r \in DOMAIN B.rows
        /\ HasPrimaryKeyProperty(c) => PkOf(c, B.rows[N.r]) # PkOf(c, Heap[p])
    BY <1>1, <1>3 DEF Wide
  <2>2. /\ N.r \in DOMAIN S.rows
        /\ HasPrimaryKeyProperty(c) => PkOf(c, S.rows[N.r]) = PkOf(c, B.rows[N.r])
    BY <2>1, <1>1, <1>3 DEF Keeps
  <2>3. QED
    BY <2>1, <2>2, <1>3
<1>6. QED
  BY <1>1, <1>2, <1>3, <1>4, <1>5

\* An object is imported to its row once that is there.
LEMMA ImportGoes ==
    ASSUME NEW B, NEW ps, NEW ws, NEW S, Ready(B, ps, ws, S), NEW p \in ps, NEW N, N = RowFor(S, p),
           NEW U, Sound(U), NEW vs, Keeps(N.s, U, vs), vs \subseteq ws, U.ok = S.ok
    PROVE  /\ Goes(B, ps, ws, S, [s |-> U, todo |-> Import(N.r, p)])
           /\ Keeps(S, U, vs) /\ Import(N.r, p) \in Seq(Work(U, ps, ws))
<1> DEFINE c == ClassOf[p]
<1>1. /\ p \in Pointers /\ c \in Classes /\ RowFits(S, p, N) /\ Keeps(S, N.s, {})
      /\ N.r \in Classes \X Nat /\ N.r \in ws /\ N.r[1] = c
  BY RowIsWide
<1>2. Keeps(S, U, vs)
  <2>1. Keeps(S, N.s, vs)
    BY <1>1, KeepsMore
  <2>2. QED
    BY <2>1, KeepsOn
<1>3. Keeps(B, U, ws) /\ Keeps(S, U, ws) /\ Closed(ps)
  <2>1. Keeps(B, S, ws) /\ Closed(ps)
    BY DEF Ready
  <2>2. Keeps(S, U, ws)
    BY <1>2, KeepsMore
  <2>3. QED
    BY <2>1, <2>2, KeepsOn
<1>4. ASSUME HasPrimaryKeyProperty(c)
      PROVE  N.r \in DOMAIN U.rows /\ PkOf(c, U.rows[N.r]) = PkOf(c, Heap[p])
  <2>1. c \notin Embedded
    BY <1>1, <1>4, PrimaryKeyFacts
  <2>2. N.r \in DOMAIN N.s.rows /\ PkOf(c, N.s.rows[N.r]) = PkOf(c, Heap[p])
    BY <1>1, <1>4 DEF RowFits
  <2>3. QED
    BY <2>1, <2>2, <1>1, <1>4 DEF Keeps
<1>5. Import(N.r, p) \in Seq(Work(U, ps, ws))
  <2> DEFINE r == N.r
  <2>1. r \in Classes \X Nat /\ r \in ws /\ r[1] = ClassOf[p]
    BY <1>1
  <2>2. HasPrimaryKeyProperty(r[1]) => r \in DOMAIN U.rows /\ PkOf(r[1], U.rows[r]) = PkOf(r[1], Heap[p])
    BY <1>1, <1>4
  <2> HIDE DEF r
  <2>3. Import(r, p) \in Seq(Work(U, ps, ws))
    BY <1>3, <2>1, <2>2, ImportIsWork
  <2>4. QED
    BY <2>3 DEF r
<1> DEFINE T == [s |-> U, todo |-> Import(N.r, p)]
<1>6. T.s = U /\ T.todo = Import(N.r, p)
  OBVIOUS
<1> HIDE DEF T
<1>7. Goes(B, ps, ws, S, T)
  BY <1>3, <1>5, <1>6 DEF Goes, Under
<1>8. QED
  BY <1>2, <1>5, <1>7 DEF T

\* A top-level object is given a row, and its members are to be copied there.
LEMMA AddGoes ==
    ASSUME NEW B, NEW ps, NEW ws, NEW S, Ready(B, ps, ws, S), NEW p \in ps, ClassOf[p] \notin Embedded
    PROVE  Goes(B, ps, ws, S, AddTo(S, p))
<1> DEFINE N == RowFor(S, p)
<1>1. AddTo(S, p) = [s |-> N.s, todo |-> Import(N.r, p)]
  BY DEF AddTo
<1> HIDE DEF N
<1>2. RowFits(S, p, N) /\ N.s.ok = S.ok
  BY RowIsWide DEF N
<1>3. Sound(N.s)
  BY <1>2 DEF RowFits
<1> DEFINE U == N.s
           vs == {}
<1>4. Sound(U) /\ Keeps(N.s, U, vs) /\ U.ok = S.ok /\ N = RowFor(S, p) /\ vs \subseteq ws
  <2>1. \A V, us : Keeps(V, V, us)
    BY KeepsItself
  <2>2. QED
    BY <1>2, <1>3, <2>1 DEF N
<1> HIDE DEF U, vs
<1>5. Goes(B, ps, ws, S, [s |-> U, todo |-> Import(N.r, p)])
  BY <1>4, ImportGoes
<1>6. QED
  BY <1>1, <1>5 DEF U

\* A place to attach a new row for p.
Fitting(S, ws, r, prop, at, p) ==
    /\ r \in DOMAIN S.rows /\ r \in ws /\ prop \in Properties(r[1]) /\ prop.kind \in LinkKinds
    /\ prop.target = ClassOf[p] /\ Place(prop, S.rows[r][prop.name], at)

\* The new row is attached: it has an owner, if it needs one.
LEMMA AttachedNew ==
    ASSUME NEW B, NEW ps, NEW ws, NEW S, Ready(B, ps, ws, S), NEW p \in ps, NEW N, N = RowFor(S, p),
           NEW r, NEW prop, NEW at, Fitting(S, ws, r, prop, at, p),
           NEW A, A = Attach(N.s, r, prop, at, N.r[2]), NEW vs, vs = {r}
    PROVE  Sound(A) /\ Keeps(N.s, A, vs) /\ A.ok = S.ok /\ vs \subseteq ws
<1> DEFINE c == ClassOf[p]
           k == N.r[2]
           new == N.r
<1>1. /\ p \in Pointers /\ c \in Classes /\ RowFits(S, p, N)
      /\ N.r \in Classes \X Nat /\ N.r[1] = c /\ N.s.ok = S.ok
  BY RowIsWide
<1>2. /\ SoundBut(N.s, new) /\ new \in DOMAIN N.s.rows
      /\ DOMAIN S.rows \subseteq DOMAIN N.s.rows
      /\ \A x \in DOMAIN S.rows : N.s.rows[x] = S.rows[x]
  BY <1>1 DEF RowFits
<1>3. /\ r \in DOMAIN S.rows /\ r \in ws /\ prop \in Properties(r[1]) /\ prop.kind \in LinkKinds
      /\ prop.target = c /\ Place(prop, S.rows[r][prop.name], at)
  BY DEF Fitting
<1>4. r \in DOMAIN N.s.rows /\ Place(prop, N.s.rows[r][prop.name], at)
  BY <1>2, <1>3
<1>5. k \in Nat /\ <<prop.target, k>> = new
  BY <1>1, <1>3
<1> HIDE DEF k, new, c
<1>6. Grows(N.s, new, r, prop, k)
  BY <1>2, <1>3, <1>5 DEF Grows
<1>a. A = Attach(N.s, r, prop, at, k)
  BY DEF k
<1>7. Wrote(N.s, A, r, prop, WithKey(prop, N.s.rows[r][prop.name], at, k))
  BY <1>a, <1>2, <1>3, <1>4, <1>6, AttachKeeps
<1>8. Sound(A) /\ Keeps(N.s, A, {r}) /\ A.ok = N.s.ok
  BY <1>7 DEF Wrote
<1>9. QED
  BY <1>1, <1>3, <1>8

\* An element that is attached before its members are copied.
LEMMA AttachFirstGoes ==
    ASSUME NEW B, NEW ps, NEW ws, NEW S, Ready(B, ps, ws, S), NEW p \in ps,
           NEW r, NEW prop, NEW at, Fitting(S, ws, r, prop, at, p)
    PROVE  Goes(B, ps, ws, S, AttachFirst(RowFor(S, p), p, r, prop, at))
<1> DEFINE N == RowFor(S, p)
           A == Attach(N.s, r, prop, at, N.r[2])
<1>1. AttachFirst(N, p, r, prop, at) = [s |-> A, todo |-> Import(N.r, p)]
  BY DEF AttachFirst
<1>2. N = RowFor(S, p)
  OBVIOUS
<1> DEFINE vs == {r}
<1>3. A = Attach(N.s, r, prop, at, N.r[2]) /\ vs = {r}
  OBVIOUS
<1> HIDE DEF N, A, vs
<1>4. Sound(A) /\ Keeps(N.s, A, vs) /\ A.ok = S.ok /\ vs \subseteq ws
  BY <1>2, <1>3, AttachedNew
<1>5. Goes(B, ps, ws, S, [s |-> A, todo |-> Import(N.r, p)])
  BY <1>2, <1>4, ImportGoes
<1>6. AttachFirst(N, p, r, prop, at) = [s |-> A, todo |-> Import(N.r, p)]
  BY <1>1 DEF A
<1> HIDE DEF N
<1>7. QED
  BY <1>2, <1>5, <1>6

\* The key of the new row is put to its place at the end.
LEMMA ThenPut ==
    ASSUME NEW B, NEW ps, NEW ws, NEW S, Ready(B, ps, ws, S), NEW U, NEW do,
           Goes(B, ps, ws, S, [s |-> U, todo |-> do]),
           NEW r \in Classes \X Nat, r \in ws, NEW prop \in Properties(r[1]), prop.kind \in Many,
           prop.kind = "linkList" => prop.target \notin Embedded,
           NEW at \in Nat \cup MapKeys \cup {Null}, prop.kind = "linkMap" => at \in MapKeys,
           NEW k \in Nat
    PROVE  Goes(B, ps, ws, S, [s |-> U, todo |-> do \o <<PutKey(r, prop, at, k)>>])
<1> DEFINE X == Work(U, ps, ws)
           t == PutKey(r, prop, at, k)
           D == [s |-> U, todo |-> do]
           T == [s |-> U, todo |-> do \o <<t>>]
<1>1. D.s = U /\ D.todo = do /\ T.s = U /\ T.todo = do \o <<t>>
  OBVIOUS
<1>2. t.do = "put" /\ t.row = r /\ t.prop = prop /\ t.at = at /\ t.from = k
  BY DEF PutKey
<1>3. t \in Tasks
  BY DEF PutKey, Tasks
<1> HIDE DEF t, D, T
<1>4. Fair(U, ps, ws, t)
  BY <1>2 DEF Fair
<1>5. t \in X
  BY <1>3, <1>4 DEF Work
<1>6. Goes(B, ps, ws, S, D)
  BY DEF D
<1>7. Sound(U) /\ Keeps(B, U, ws) /\ Keeps(S, U, ws) /\ do \in Seq(X) /\ (U.ok => S.ok)
  BY <1>1, <1>6 DEF Goes, Under
<1> HIDE DEF X
<1>8. do \o <<t>> \in Seq(X)
  <2>1. <<t>> \in Seq(X)
    BY <1>5
  <2>2. QED
    BY <2>1, <1>7, ConcatProperties
<1>9. Goes(B, ps, ws, S, T)
  BY <1>1, <1>7, <1>8 DEF Goes, Under, X
<1>10. QED
  BY <1>9 DEF T, t

\* A row has the key of a table.
LEMMA RowIsTyped ==
    ASSUME NEW S, Sound(S), NEW r \in DOMAIN S.rows
    PROVE  r \in Classes \X Nat /\ r[1] \in Classes
BY DEF Sound, Typed, TypedRow

\* A dictionary entry, which is attached once more afterwards.
LEMMA AttachTwiceGoes ==
    ASSUME NEW B, NEW ps, NEW ws, NEW S, Ready(B, ps, ws, S), NEW p \in ps,
           NEW r, NEW prop, NEW at, Fitting(S, ws, r, prop, at, p), prop.kind = "linkMap"
    PROVE  Goes(B, ps, ws, S, AttachTwice(RowFor(S, p), p, r, prop, at))
<1> DEFINE N == RowFor(S, p)
           U == Attach(N.s, r, prop, at, N.r[2])
           do == Import(N.r, p)
           k == N.r[2]
<1>1. /\ AttachTwice(N, p, r, prop, at) = [s |-> U, todo |-> do \o <<PutKey(r, prop, at, k)>>]
      /\ AttachFirst(N, p, r, prop, at) = [s |-> U, todo |-> do]
  BY DEF AttachFirst, AttachTwice
<1>2. Goes(B, ps, ws, S, [s |-> U, todo |-> do])
  BY <1>1, AttachFirstGoes
<1>3. /\ r \in DOMAIN S.rows /\ r \in ws /\ prop \in Properties(r[1])
      /\ Place(prop, S.rows[r][prop.name], at)
  BY DEF Fitting
<1>4. r \in Classes \X Nat
  BY <1>3, RowIsTyped DEF Ready
<1>5. k \in Nat
  <2>1. N.r \in Classes \X Nat
    BY RowIsWide
  <2> HIDE DEF N
  <2>2. QED
    BY <2>1
<1>6. prop.kind \in Many /\ at \in MapKeys
  BY <1>3 DEF Many, Place
<1> HIDE DEF k, U, do, N
<1>7. Goes(B, ps, ws, S, [s |-> U, todo |-> do \o <<PutKey(r, prop, at, k)>>])
  BY <1>2, <1>3, <1>4, <1>5, <1>6, ThenPut
<1>8. QED
  BY <1>1, <1>7 DEF N

\* An element that is attached after its members were copied.
LEMMA AttachLastGoes ==
    ASSUME NEW B, NEW ps, NEW ws, NEW S, Ready(B, ps, ws, S), NEW p \in ps,
           NEW r \in DOMAIN S.rows, r \in ws, NEW prop \in Properties(r[1]),
           prop.kind \in {"linkList", "linkSet"}, prop.target \notin Embedded, prop.target = ClassOf[p],
           NEW at \in Nat \cup MapKeys \cup {Null}
    PROVE  Goes(B, ps, ws, S, AttachLast(RowFor(S, p), p, r, prop, at))
<1> DEFINE N == RowFor(S, p)
           U == N.s
           do == Import(N.r, p)
           k == N.r[2]
<1>1. AttachLast(N, p, r, prop, at) = [s |-> U, todo |-> do \o <<PutKey(r, prop, at, k)>>]
  BY DEF AttachLast
<1>2. AddTo(S, p) = [s |-> U, todo |-> do]
  BY DEF AddTo
<1>3. Goes(B, ps, ws, S, [s |-> U, todo |-> do])
  BY <1>2, AddGoes
<1>4. r \in Classes \X Nat
  BY RowIsTyped DEF Ready
<1>5. k \in Nat
  <2>1. N.r \in Classes \X Nat
    BY RowIsWide
  <2> HIDE DEF N
  <2>2. QED
    BY <2>1
<1>6. prop.kind \in Many /\ prop.kind # "linkMap"
  BY DEF Many
<1> HIDE DEF k, U, do, N
<1>7. Goes(B, ps, ws, S, [s |-> U, todo |-> do \o <<PutKey(r, prop, at, k)>>])
  BY <1>3, <1>4, <1>5, <1>6, ThenPut
<1>8. QED
  BY <1>1, <1>7 DEF N

(* ----- the steps of a call ----- *)

\* A write is a step of a call that may write the row.
LEMMA WroteGoes ==
    ASSUME NEW B, NEW ps, NEW ws, NEW S, Ready(B, ps, ws, S), NEW r \in ws, NEW prop, NEW v,
           NEW U, Wrote(S, U, r, prop, v)
    PROVE  Goes(B, ps, ws, S, Done(U))
<1> DEFINE vs == {r}
<1>1. Sound(U) /\ Keeps(S, U, vs) /\ U.ok = S.ok /\ vs \subseteq ws
  BY DEF Wrote
<1> HIDE DEF vs
<1>2. QED
  BY <1>1, DoneGoes

\* So is a step that does nothing.
LEMMA StayGoes ==
    ASSUME NEW B, NEW ps, NEW ws, NEW S, Ready(B, ps, ws, S)
    PROVE  Goes(B, ps, ws, S, Done(S))
<1> DEFINE vs == {}
<1>1. Sound(S) /\ Keeps(S, S, vs) /\ vs \subseteq ws
  BY DEF Ready, Keeps
<1> HIDE DEF vs
<1>2. QED
  BY <1>1, DoneGoes

\* A null in a dictionary.
LEMMA NullInMap ==
    ASSUME NEW S, Sound(S), NEW r \in DOMAIN S.rows, NEW prop \in Properties(r[1]),
           prop.kind = "linkMap", NEW k \in MapKeys
    PROVE  \E v : /\ DictInsert(S, r, prop, k, Null) = ObjSet(S, r, prop, v)
                  /\ Suits(S, r, prop, v)
<1> DEFINE old == S.rows[r][prop.name]
           new == [m \in {k} |-> Null]
           v == MapInsert(old, new)
<1>1. DictInsert(S, r, prop, k, Null) = ObjSet(S, r, prop, v)
  BY DEF DictInsert, ObjGet
<1>2. DOMAIN new = {k} /\ new[k] = Null
  OBVIOUS
<1> HIDE DEF new
<1>3. /\ DOMAIN v = DOMAIN old \cup {k} /\ v[k] = Null
      /\ \A m \in DOMAIN old : m # k => v[m] = old[m]
  <2>1. /\ DOMAIN v = DOMAIN old \cup DOMAIN new
        /\ \A m \in DOMAIN new : v[m] = new[m]
        /\ \A m \in DOMAIN old : m \notin DOMAIN new => v[m] = old[m]
    BY MapInsertFacts
  <2>2. QED
    BY <2>1, <1>2
<1> HIDE DEF v
<1>4. r[1] \in Classes /\ \E x : SoundBut(S, x)
  BY FreshRow, RowIsTyped
<1>5. /\ Column(prop, old)
      /\ prop.kind \in LinkKinds => \A m \in KeysIn(prop, old) : <<prop.target, m>> \in DOMAIN S.rows
      /\ Owns(prop) => Distinct(prop, old)
  BY <1>4, OldFacts
<1> HIDE DEF old
<1>6. /\ DOMAIN old \subseteq MapKeys
      /\ \A m \in DOMAIN old : old[m] \in Nat \cup {Null}
  BY <1>5 DEF Column, ListKinds, ValueLists
<1>7. DOMAIN v \subseteq MapKeys /\ \A m \in DOMAIN v : v[m] \in Nat \cup {Null}
  BY <1>3, <1>6
<1>8. Column(prop, v)
  BY <1>7 DEF Column, ListKinds, ValueLists
<1>9. /\ KeysIn(prop, v) = {v[i] : i \in DOMAIN v} \ {Null}
      /\ KeysIn(prop, old) = {old[i] : i \in DOMAIN old} \ {Null}
      /\ Distinct(prop, v) <=> NoneTwice(v)
      /\ Distinct(prop, old) <=> NoneTwice(old)
  <2>1. \A w : KeysIn(prop, w) = Values(w) \ {Null} /\ (Distinct(prop, w) <=> NoneTwice(w))
    BY LinkManyFacts
  <2>2. QED
    BY <2>1 DEF Values
<1>10. KeysIn(prop, v) \subseteq KeysIn(prop, old)
  <2> SUFFICES ASSUME NEW i \in DOMAIN v, v[i] # Null
               PROVE  v[i] \in KeysIn(prop, old)
    BY <1>9
  <2>1. i \in DOMAIN old /\ v[i] = old[i]
    BY <1>3
  <2>2. QED
    BY <2>1, <1>9
<1>11. Distinct(prop, old) => Distinct(prop, v)
  BY <1>3, <1>9 DEF NoneTwice
<1>12. prop.kind \in LinkKinds /\ prop.kind # "pk"
  BY DEF LinkKinds
<1>13. Suits(S, r, prop, v)
  BY <1>5, <1>8, <1>10, <1>11, <1>12 DEF Suits, old
<1>14. QED
  BY <1>1, <1>13

\* The element at a place of a list, set or dictionary is made.
LEMMA MakeGoes ==
    ASSUME NEW B, NEW ps, NEW ws, NEW S, Ready(B, ps, ws, S), NEW t \in Work(S, ps, ws),
           t.do = "make", t.row \in DOMAIN S.rows
    PROVE  Goes(B, ps, ws, S, Element(S, t.row, t.prop, t.at, t.from))
<1> DEFINE r == t.row
           prop == t.prop
           at == t.at
           p == t.from
           E == Element(S, r, prop, at, p)
           old == S.rows[r][prop.name]
<1>1. /\ r \in ws /\ r \in DOMAIN S.rows /\ r \in Classes \X Nat /\ prop \in Properties(r[1])
      /\ prop.kind \in Many /\ at \in Nat \cup MapKeys \cup {Null}
      /\ p = Null \/ (p \in ps /\ ClassOf[p] = prop.target)
      /\ prop.kind = "linkList" => at \in Nat
      /\ prop.kind = "linkMap" => at \in MapKeys
  BY DEF Work, Fair, Tasks
<1>2. Sound(S) /\ Closed(ps)
  BY DEF Ready
<1>3. p # Null => prop.target = ClassOf[p]
  BY <1>1
<1>4. r[1] \in Classes /\ \E x : SoundBut(S, x)
  BY <1>1, <1>2, FreshRow
<1>5. Column(prop, old)
  BY <1>1, <1>4, OldFacts
<1>6. prop.kind = "linkSet" => prop.target \notin Embedded
  BY <1>1, <1>4, PropertyFacts
<1> HIDE DEF r, prop, at, p, E, old
<1>7. CASE p = Null /\ prop.kind \in {"linkList", "linkSet"}
  <2>1. E = Done(S)
    BY <1>7 DEF E, Element, ListElement, SetElement
  <2>2. QED
    BY <2>1, StayGoes DEF r, prop, at, p, E
<1>8. CASE p = Null /\ prop.kind = "linkMap"
  <2>1. E = Done(DictInsert(S, r, prop, at, Null))
    BY <1>8 DEF E, Element, MapElement
  <2>2. PICK v : DictInsert(S, r, prop, at, Null) = ObjSet(S, r, prop, v) /\ Suits(S, r, prop, v)
    BY <1>1, <1>2, <1>8, NullInMap
  <2>3. Wrote(S, ObjSet(S, r, prop, v), r, prop, v)
    BY <2>2, <1>1, <1>2, SuitingWrite
  <2>4. Goes(B, ps, ws, S, Done(ObjSet(S, r, prop, v)))
    BY <2>3, <1>1, WroteGoes
  <2>5. QED
    BY <2>1, <2>2, <2>4 DEF r, prop, at, p, E
<1>9. CASE p # Null /\ prop.kind = "linkMap"
  <2>1. E = AttachTwice(RowFor(S, p), p, r, prop, at)
    BY <1>9 DEF E, Element, MapElement
  <2>2. Fitting(S, ws, r, prop, at, p)
    BY <1>1, <1>3, <1>9 DEF Fitting, Place, LinkKinds
  <2>3. Goes(B, ps, ws, S, AttachTwice(RowFor(S, p), p, r, prop, at))
    BY <2>2, <1>1, <1>9, AttachTwiceGoes
  <2>4. QED
    BY <2>1, <2>3 DEF r, prop, at, p, E
<1>10. CASE p # Null /\ prop.kind \in {"linkList", "linkSet"} /\ prop.target \notin Embedded
  <2> DEFINE place == IF prop.kind = "linkList" THEN at ELSE Null
  <2>1. E = AttachLast(RowFor(S, p), p, r, prop, place)
    BY <1>10 DEF E, Element, ListElement, SetElement
  <2>2. place \in Nat \cup MapKeys \cup {Null}
    BY <1>1
  <2> HIDE DEF place
  <2>3. Goes(B, ps, ws, S, AttachLast(RowFor(S, p), p, r, prop, place))
    BY <2>2, <1>1, <1>3, <1>10, AttachLastGoes
  <2>4. QED
    BY <2>1, <2>3 DEF r, prop, at, p, E
<1>11. CASE p # Null /\ prop.kind = "linkList" /\ prop.target \in Embedded
  <2>0. at \in Nat /\ Len(old) \in Nat
    <3>1. old \in Seq(Nat)
      BY <1>5, <1>11 DEF Column, ListKinds
    <3>2. QED
      BY <3>1, <1>1, <1>11, LenProperties
  <2>1. E = IF at > Len(old) THEN Done(Throw(S)) ELSE AttachFirst(RowFor(S, p), p, r, prop, at)
    BY <1>11 DEF E, Element, ListElement, ObjGet, old
  <2>2. CASE at > Len(old)
    <3>1. Goes(B, ps, ws, S, Done(Throw(S)))
      BY ThrowGoes
    <3>2. QED
      BY <2>1, <2>2, <3>1 DEF r, prop, at, p, E
  <2>3. CASE ~(at > Len(old))
    <3>1. at <= Len(old)
      BY <2>0, <2>3
    <3>2. Fitting(S, ws, r, prop, at, p)
      BY <3>1, <1>1, <1>3, <1>11 DEF Fitting, Place, LinkKinds, old
    <3>3. Goes(B, ps, ws, S, AttachFirst(RowFor(S, p), p, r, prop, at))
      BY <3>2, <1>1, <1>11, AttachFirstGoes
    <3>4. QED
      BY <2>1, <2>3, <3>3 DEF r, prop, at, p, E
  <2>4. QED
    BY <2>2, <2>3
<1>12. QED
  BY <1>1, <1>6, <1>7, <1>8, <1>9, <1>10, <1>11 DEF Many

\* A key of a live row goes to a property that owns none.
LEMMA PlainAttach ==
    ASSUME NEW S, Sound(S), NEW r \in DOMAIN S.rows, NEW prop \in Properties(r[1]),
           prop.kind \in LinkKinds, prop.target \notin Embedded, NEW k \in Nat,
           <<prop.target, k>> \in DOMAIN S.rows, NEW at, Place(prop, S.rows[r][prop.name], at)
    PROVE  Wrote(S, Attach(S, r, prop, at, k), r, prop, WithKey(prop, S.rows[r][prop.name], at, k))
<1>1. r[1] \in Classes
  BY RowIsTyped
<1> DEFINE new == <<r[1], S.next[r[1]]>>
<1>2. new \notin DOMAIN S.rows /\ SoundBut(S, new)
  BY <1>1, FreshRow
<1> HIDE DEF new
<1>3. Grows(S, new, r, prop, k)
  BY <1>2 DEF Grows, Owns
<1>4. QED
  BY <1>2, <1>3, AttachKeeps

\* A key is put into the collection it is for.
LEMMA PutGoes ==
    ASSUME NEW B, NEW ps, NEW ws, NEW S, Ready(B, ps, ws, S), NEW t \in Work(S, ps, ws),
           t.do = "put", t.row \in DOMAIN S.rows
    PROVE  Goes(B, ps, ws, S, Done(Attached(S, t.row, t.prop, t.at, t.from)))
<1> DEFINE r == t.row
           prop == t.prop
           at == t.at
           k == t.from
           A == Attached(S, r, prop, at, k)
<1>1. /\ r \in ws /\ r \in DOMAIN S.rows /\ r \in Classes \X Nat /\ prop \in Properties(r[1])
      /\ prop.kind \in Many /\ k \in Nat
      /\ prop.kind = "linkList" => prop.target \notin Embedded
      /\ prop.kind = "linkMap" => at \in MapKeys
  BY DEF Work, Fair, Tasks
<1>2. Sound(S) /\ r[1] \in Classes
  BY <1>1 DEF Ready
<1>3. prop.kind = "linkSet" => prop.target \notin Embedded
  BY <1>1, <1>2, PropertyFacts
<1>4. prop.kind \in LinkKinds
  BY <1>1 DEF Many, LinkKinds
<1> HIDE DEF r, prop, at, k, A
<1>5. CASE <<prop.target, k>> \notin DOMAIN S.rows
  <2>1. A = Throw(S)
    BY <1>5 DEF A, Attached
  <2>2. Goes(B, ps, ws, S, Done(Throw(S)))
    BY ThrowGoes
  <2>3. QED
    BY <2>1, <2>2 DEF r, prop, at, k, A
<1>6. CASE <<prop.target, k>> \in DOMAIN S.rows /\ prop.kind = "linkMap" /\ prop.target \in Embedded
  <2>1. A = S
    BY <1>6 DEF A, Attached
  <2>2. QED
    BY <2>1, StayGoes DEF r, prop, at, k, A
<1>7. CASE <<prop.target, k>> \in DOMAIN S.rows /\ prop.target \notin Embedded
  <2>1. A = Attach(S, r, prop, at, k)
    BY <1>7 DEF A, Attached
  <2>2. Place(prop, S.rows[r][prop.name], at)
    BY <1>1, <1>7 DEF Place
  <2>3. Wrote(S, A, r, prop, WithKey(prop, S.rows[r][prop.name], at, k))
    BY <2>1, <2>2, <1>1, <1>2, <1>4, <1>7, PlainAttach
  <2>4. Goes(B, ps, ws, S, Done(A))
    BY <2>3, <1>1, WroteGoes
  <2>5. QED
    BY <2>4 DEF r, prop, at, k, A
<1>8. QED
  BY <1>1, <1>3, <1>5, <1>6, <1>7 DEF Many

\* A value goes to a property that holds no references.
LEMMA PlainWrite ==
    ASSUME NEW S, Sound(S), NEW r \in DOMAIN S.rows, NEW prop \in Properties(r[1]), NEW v,
           prop.kind \notin LinkKinds, Column(prop, v), prop.kind = "pk" => v = S.rows[r][prop.name]
    PROVE  Wrote(S, ObjSet(S, r, prop, v), r, prop, v)
<1>1. Suits(S, r, prop, v)
  BY DEF Suits, Owns
<1>2. QED
  BY <1>1, SuitingWrite

In(q, w) ==
    CASE q.kind = "link" -> {w}
      [] q.kind = "linkSet" -> w
      [] q.kind \in {"linkList", "linkMap"} -> Range(w)
      [] OTHER -> {}

\* The pointers of a member are children of its object.
LEMMA ChildFacts ==
    ASSUME NEW p \in Pointers, NEW prop \in Properties(ClassOf[p]), NEW v, v = Heap[p][prop.name]
    PROVE  /\ (prop.kind = "link" /\ v # Null) => v \in Children(p)
           /\ prop.kind = "linkSet" => \A x \in v : x # Null => x \in Children(p)
           /\ prop.kind \in {"linkList", "linkMap"} => \A i \in DOMAIN v : v[i] # Null => v[i] \in Children(p)
<1>1. Children(p) = (UNION {In(q, Heap[p][q.name]) : q \in Properties(ClassOf[p])}) \ {Null}
  BY DEF Children, In
<1>2. prop.kind = "link" => In(prop, v) = {v}
  BY DEF In
<1>3. prop.kind = "linkSet" => In(prop, v) = v
  BY DEF In
<1>4. prop.kind \in {"linkList", "linkMap"} => In(prop, v) = Range(v)
  <2>1. prop.kind = "linkList" => In(prop, v) = Range(v)
    BY DEF In
  <2>2. prop.kind = "linkMap" => In(prop, v) = Range(v)
    BY DEF In
  <2>3. QED
    BY <2>1, <2>2
<1>5. \A x \in In(prop, v) : x # Null => x \in Children(p)
  <2> SUFFICES ASSUME NEW x \in In(prop, v), x # Null
               PROVE  x \in Children(p)
    OBVIOUS
  <2>1. \E q \in Properties(ClassOf[p]) : x \in In(q, Heap[p][q.name])
    <3> WITNESS prop \in Properties(ClassOf[p])
    <3>1. QED
      OBVIOUS
  <2>2. x \in UNION {In(q, Heap[p][q.name]) : q \in Properties(ClassOf[p])}
    BY <2>1, Zenon
  <2> DEFINE all == UNION {In(q, Heap[p][q.name]) : q \in Properties(ClassOf[p])}
  <2>3. Children(p) = all \ {Null}
    BY <1>1
  <2>4. x \in all
    BY <2>2
  <2> HIDE DEF all
  <2>5. QED
    BY <2>3, <2>4
<1>6. prop.kind \in {"linkList", "linkMap"} => \A i \in DOMAIN v : v[i] \in In(prop, v)
  BY <1>4 DEF Range
<1>7. QED
  BY <1>2, <1>3, <1>5, <1>6

\* The elements of a finite set, one after the other.
LEMMA SetToSeqFacts ==
    ASSUME NEW X, IsFiniteSet(X), NEW s, s = SetToSeq(X)
    PROVE  /\ Cardinality(X) \in Nat /\ s \in [1..Cardinality(X) -> X]
           /\ DOMAIN s = 1..Cardinality(X) /\ \A i \in DOMAIN s : s[i] \in X
<1> DEFINE n == Cardinality(X)
<1>1. n \in Nat /\ ExistsBijection(1..n, X)
  BY FS_CardinalityType
<1> HIDE DEF n
<1>2. \E f : f \in [1..n -> X] /\ IsInjective(f)
  BY <1>1 DEF ExistsBijection, Bijection, Injection
<1>3. s \in [1..n -> X]
  BY <1>2 DEF SetToSeq, n
<1>4. QED
  BY <1>1, <1>3 DEF n

\* The elements of a list, set or dictionary are made one after the other.
Makes(r, prop, ps, n, at, p, do) ==
    /\ n \in Nat /\ do = [i \in 1..n |-> MakeElement(r, prop, at[i], p[i])]
    /\ \A i \in 1..n :
          /\ at[i] \in Nat \cup MapKeys \cup {Null}
          /\ p[i] = Null \/ (p[i] \in ps /\ ClassOf[p[i]] = prop.target)
          /\ prop.kind = "linkList" => at[i] \in Nat
          /\ prop.kind = "linkMap" => at[i] \in MapKeys

\* The elements of a collection may be made by a call that may write its row.
LEMMA MakesAreWork ==
    ASSUME NEW S, NEW ps, NEW ws, Closed(ps), NEW r \in Classes \X Nat, r \in ws,
           NEW prop \in Properties(r[1]), prop.kind \in Many, NEW n, NEW at, NEW p, NEW do,
           Makes(r, prop, ps, n, at, p, do)
    PROVE  do \in Seq(Work(S, ps, ws))
<1> DEFINE X == Work(S, ps, ws)
<1>1. ASSUME NEW i \in 1..n
      PROVE  MakeElement(r, prop, at[i], p[i]) \in X
  <2> DEFINE a == at[i]
             q == p[i]
             t == MakeElement(r, prop, a, q)
  <2>1. /\ a \in Nat \cup MapKeys \cup {Null}
        /\ q = Null \/ (q \in ps /\ ClassOf[q] = prop.target)
        /\ prop.kind = "linkList" => a \in Nat
        /\ prop.kind = "linkMap" => a \in MapKeys
    BY DEF Makes
  <2>2. q \in Pointers \cup Nat \cup {Null}
    BY <2>1 DEF Closed
  <2> HIDE DEF a, q
  <2>3. t.do = "make" /\ t.row = r /\ t.prop = prop /\ t.at = a /\ t.from = q
    BY DEF MakeElement
  <2>4. t \in Tasks
    BY <2>1, <2>2 DEF MakeElement, Tasks
  <2> HIDE DEF t
  <2>5. Fair(S, ps, ws, t)
    BY <2>1, <2>3 DEF Fair
  <2>6. QED
    BY <2>4, <2>5 DEF Work, t, a, q
<1> HIDE DEF X
<1>2. n \in Nat /\ do = [i \in 1..n |-> MakeElement(r, prop, at[i], p[i])]
  BY DEF Makes
<1>3. [i \in 1..n |-> MakeElement(r, prop, at[i], p[i])] \in Seq(X)
  BY <1>1, <1>2
<1>4. QED
  BY <1>2, <1>3 DEF X

\* What may be done is left to be done.
LEMMA MakesGo ==
    ASSUME NEW B, NEW ps, NEW ws, NEW S, Ready(B, ps, ws, S), NEW T, T.s = S,
           T.todo \in Seq(Work(S, ps, ws))
    PROVE  Goes(B, ps, ws, S, T)
BY KeepsItself DEF Goes, Under, Ready

\* A member of an object is copied to its property.
LEMMA CopyGoes ==
    ASSUME NEW B, NEW ps, NEW ws, NEW S, Ready(B, ps, ws, S), NEW t \in Work(S, ps, ws),
           t.do = "copy", t.row \in DOMAIN S.rows
    PROVE  Goes(B, ps, ws, S, Accessor(S, t.row, t.prop, Heap[t.from][t.prop.name]))
<1> DEFINE r == t.row
           prop == t.prop
           p == t.from
           v == Heap[p][prop.name]
           A == Accessor(S, r, prop, v)
           old == S.rows[r][prop.name]
<1>1. /\ r \in ws /\ r \in DOMAIN S.rows /\ r \in Classes \X Nat /\ prop \in Properties(r[1])
      /\ p \in ps /\ ClassOf[p] = r[1]
      /\ HasPrimaryKeyProperty(r[1]) => PkOf(r[1], S.rows[r]) = PkOf(r[1], Heap[p])
  BY DEF Work, Fair, Tasks
<1>2. Sound(S) /\ Closed(ps) /\ r[1] \in Classes
  BY <1>1 DEF Ready
<1>3. p \in Pointers /\ Children(p) \subseteq ps
  BY <1>1, <1>2 DEF Closed
<1>4. Member(prop, v)
  BY <1>1, <1>3, MemberFacts
<1>5. /\ (prop.kind = "link" /\ v # Null) => v \in ps
      /\ prop.kind = "linkSet" => \A x \in v : x # Null => x \in ps
      /\ prop.kind \in {"linkList", "linkMap"} => \A i \in DOMAIN v : v[i] # Null => v[i] \in ps
  <2> HIDE DEF v, p, prop, r
  <2>1. prop \in Properties(ClassOf[p]) /\ v = Heap[p][prop.name]
    BY <1>1 DEF v
  <2>2. QED
    BY <2>1, <1>3, ChildFacts
<1>6. prop.kind \in Kinds /\ (prop.kind = "linkSet" => prop.target \notin Embedded)
  BY <1>1, <1>2, PropertyFacts
<1>7. \E x : SoundBut(S, x)
  BY <1>2, FreshRow
<1>8. Column(prop, old)
  BY <1>1, <1>7, OldFacts
<1>9. ASSUME prop.kind = "pk"
      PROVE  v = old
  <2>1. prop.name \in PrimaryKeys[r[1]]
    BY <1>1, <1>2, <1>9, PropertyFacts
  <2>2. HasPrimaryKeyProperty(r[1])
    BY <2>1 DEF HasPrimaryKeyProperty
  <2>3. PICK n \in DOMAIN Columns[r[1]] :
            PrimaryKeys[r[1]] = {n} /\ \A rec : PkOf(r[1], rec) = rec[n]
    BY <2>2, <1>2, PrimaryKeyFacts
  <2>4. n = prop.name
    BY <2>1, <2>3
  <2>5. QED
    BY <2>2, <2>3, <2>4, <1>1
<1> HIDE DEF r, prop, p, v, A, old
<1>w. ASSUME NEW u, A = Done(ObjSet(S, r, prop, u)), prop.kind \notin LinkKinds, Column(prop, u),
             prop.kind = "pk" => u = old
      PROVE  Goes(B, ps, ws, S, A)
  <2>1. Wrote(S, ObjSet(S, r, prop, u), r, prop, u)
    BY <1>1, <1>2, <1>w, PlainWrite DEF old
  <2>2. QED
    BY <2>1, <1>1, <1>w, WroteGoes
<1>10. CASE prop.kind = "pk"
  <2>1. A = Done(ObjSet(S, r, prop, v))
    BY <1>10 DEF A, Accessor, AccessorPrimaryKey, ValueLists
  <2>2. Column(prop, v) /\ prop.kind \notin LinkKinds
    <3>1. v \in Nat
      BY <1>4, <1>10 DEF Member, ValueLists
    <3>2. QED
      BY <3>1, <1>10 DEF Column, ListKinds, ValueLists, LinkKinds
  <2>3. Goes(B, ps, ws, S, A)
    BY <2>1, <2>2, <1>9, <1>w
  <2>4. QED
    BY <2>3 DEF A, r, prop, v, p
<1>11. CASE prop.kind \in {"number", "value"}
  <2>1. A = Done(ObjSet(S, r, prop, v))
    BY <1>11 DEF A, Accessor, AccessorNumber, AccessorValue, ObjSetNull, ValueLists
  <2>2. Column(prop, v) /\ prop.kind \notin LinkKinds /\ prop.kind # "pk"
    <3>1. v \in Nat \cup {Null}
      BY <1>4, <1>11 DEF Member, ValueLists
    <3>2. QED
      BY <3>1, <1>11 DEF Column, ListKinds, ValueLists, LinkKinds
  <2>3. Goes(B, ps, ws, S, A)
    BY <2>1, <2>2, <1>w
  <2>4. QED
    BY <2>3 DEF A, r, prop, v, p
<1>12. CASE prop.kind \in ValueLists
  <2> DEFINE u == CASE prop.kind = "list" -> v
                    [] prop.kind = "boolList" -> old \o v
                    [] prop.kind = "insertList" -> v \o old
  <2>1. A = Done(ObjSet(S, r, prop, u))
    BY <1>12 DEF A, Accessor, AccessorList, SetListValues, ObjGet, ValueLists, old
  <2>2. v \in Seq(Nat) /\ old \in Seq(Nat)
    BY <1>4, <1>8, <1>12 DEF Member, Column, ListKinds, ValueLists
  <2>3. old \o v \in Seq(Nat) /\ v \o old \in Seq(Nat)
    BY <2>2, ConcatProperties
  <2>4. u \in Seq(Nat)
    BY <2>2, <2>3, <1>12 DEF ValueLists
  <2> HIDE DEF u
  <2>5. Column(prop, u) /\ prop.kind \notin LinkKinds /\ prop.kind # "pk"
    BY <2>4, <1>12 DEF Column, ListKinds, ValueLists, LinkKinds
  <2>6. Goes(B, ps, ws, S, A)
    BY <2>1, <2>5, <1>w
  <2>7. QED
    BY <2>6 DEF A, r, prop, v, p
<1>13. CASE prop.kind = "set"
  <2> DEFINE u == old \cup v
  <2>1. A = Done(ObjSet(S, r, prop, u))
    BY <1>13 DEF A, Accessor, AccessorSet, ObjGet, ValueLists, old
  <2>2. v \subseteq Nat /\ old \subseteq Nat /\ IsFiniteSet(v) /\ IsFiniteSet(old)
    BY <1>4, <1>8, <1>13 DEF Member, Column, ListKinds, ValueLists
  <2>3. u \subseteq Nat /\ IsFiniteSet(u)
    BY <2>2, FS_Union
  <2> HIDE DEF u
  <2>4. Column(prop, u) /\ prop.kind \notin LinkKinds /\ prop.kind # "pk"
    BY <2>3, <1>13 DEF Column, ListKinds, ValueLists, LinkKinds
  <2>5. Goes(B, ps, ws, S, A)
    BY <2>1, <2>4, <1>w
  <2>6. QED
    BY <2>5 DEF A, r, prop, v, p
<1>14. CASE prop.kind = "map"
  <2> DEFINE u == MapInsert(old, v)
  <2>1. A = Done(ObjSet(S, r, prop, u))
    BY <1>14 DEF A, Accessor, AccessorMap, ObjGet, ValueLists, old
  <2>2. /\ DOMAIN v \subseteq MapKeys /\ \A k \in DOMAIN v : v[k] \in Nat
        /\ DOMAIN old \subseteq MapKeys /\ \A k \in DOMAIN old : old[k] \in Nat \cup {Null}
    BY <1>4, <1>8, <1>14 DEF Member, Column, ListKinds, ValueLists
  <2>3. /\ DOMAIN u = DOMAIN old \cup DOMAIN v
        /\ \A m \in DOMAIN v : u[m] = v[m]
        /\ \A m \in DOMAIN old : m \notin DOMAIN v => u[m] = old[m]
    BY MapInsertFacts
  <2> HIDE DEF u
  <2>4. DOMAIN u \subseteq MapKeys /\ \A k \in DOMAIN u : u[k] \in Nat \cup {Null}
    BY <2>2, <2>3
  <2>5. Column(prop, u) /\ prop.kind \notin LinkKinds /\ prop.kind # "pk"
    BY <2>4, <1>14 DEF Column, ListKinds, ValueLists, LinkKinds
  <2>6. Goes(B, ps, ws, S, A)
    BY <2>1, <2>5, <1>w
  <2>7. QED
    BY <2>6 DEF A, r, prop, v, p
<1>15. CASE prop.kind = "link"
  <2>1. A = AccessorLink(S, r, prop, v)
    BY <1>15 DEF A, Accessor, ValueLists
  <2>2. CASE v = Null
    <3>1. A = Done(S)
      BY <2>1, <2>2 DEF AccessorLink
    <3>2. QED
      BY <3>1, StayGoes DEF A, r, prop, v, p
  <2>3. CASE v # Null
    <3>1. A = AttachFirst(RowFor(S, v), v, r, prop, Null)
      BY <2>1, <2>3 DEF AccessorLink
    <3>2. v \in ps /\ prop.target = ClassOf[v]
      BY <2>3, <1>4, <1>5, <1>15 DEF Member, ValueLists, PointersTo
    <3>3. Fitting(S, ws, r, prop, Null, v)
      BY <3>2, <1>1, <1>15 DEF Fitting, Place, LinkKinds
    <3>4. Goes(B, ps, ws, S, AttachFirst(RowFor(S, v), v, r, prop, Null))
      BY <3>2, <3>3, AttachFirstGoes
    <3>5. QED
      BY <3>1, <3>4 DEF A, r, prop, v, p
  <2>4. QED
    BY <2>2, <2>3
<1>m. ASSUME NEW n, NEW at, NEW q, NEW do, Makes(r, prop, ps, n, at, q, do), prop.kind \in Many,
             A.s = S, A.todo = do
      PROVE  Goes(B, ps, ws, S, A)
  <2>1. do \in Seq(Work(S, ps, ws))
    BY <1>1, <1>2, <1>m, MakesAreWork
  <2>2. QED
    BY <2>1, <1>m, MakesGo
<1>16. CASE prop.kind = "linkList"
  <2>1. v \in Seq(PointersTo(prop.target) \cup {Null})
    BY <1>4, <1>16 DEF Member, ValueLists
  <2> DEFINE n == Len(v)
             at == [i \in 1..n |-> i - 1]
  <2>2. n \in Nat /\ DOMAIN v = 1..n /\ \A i \in 1..n : v[i] \in PointersTo(prop.target) \cup {Null}
    BY <2>1, LenProperties, ElementOfSeq
  <2>3. A = [s |-> S, todo |-> [i \in DOMAIN v |-> MakeElement(r, prop, i - 1, v[i])]]
    BY <1>16 DEF A, Accessor, AccessorLinkList, ValueLists
  <2>4. \A i \in 1..n : at[i] = i - 1 /\ at[i] \in Nat
    BY <2>2
  <2> HIDE DEF n, at
  <2> DEFINE do == [i \in 1..n |-> MakeElement(r, prop, at[i], v[i])]
  <2>5. A.s = S /\ A.todo = do
    BY <2>2, <2>3, <2>4
  <2>d. do = [i \in 1..n |-> MakeElement(r, prop, at[i], v[i])]
    OBVIOUS
  <2> HIDE DEF do
  <2>6. \A i \in 1..n :
            /\ at[i] \in Nat \cup MapKeys \cup {Null}
            /\ v[i] = Null \/ (v[i] \in ps /\ ClassOf[v[i]] = prop.target)
            /\ at[i] \in Nat
    BY <2>2, <2>4, <1>5, <1>16 DEF PointersTo
  <2>7. Makes(r, prop, ps, n, at, v, do)
    BY <2>2, <2>d, <2>6, <1>16 DEF Makes
  <2>m. Goes(B, ps, ws, S, A)
    BY <2>5, <2>7, <1>16, <1>m DEF Many
  <2>8. QED
    BY <2>m DEF A, r, prop, v, p
<1>17. CASE prop.kind = "linkSet"
  <2>1. v \subseteq PointersTo(prop.target) \cup {Null} /\ IsFiniteSet(v)
    BY <1>4, <1>17 DEF Member, ValueLists
  <2> DEFINE n == Cardinality(v)
             each == SetToSeq(v)
             at == [i \in 1..n |-> Null]
  <2>2. n \in Nat /\ DOMAIN each = 1..n /\ \A i \in 1..n : each[i] \in v
    BY <2>1, SetToSeqFacts
  <2>3. A = [s |-> S, todo |-> [i \in DOMAIN each |-> MakeElement(r, prop, Null, each[i])]]
    BY <1>17 DEF A, Accessor, AccessorLinkSet, ValueLists
  <2>4. \A i \in 1..n : at[i] = Null
    OBVIOUS
  <2> HIDE DEF n, at, each
  <2> DEFINE do == [i \in 1..n |-> MakeElement(r, prop, at[i], each[i])]
  <2>5. A.s = S /\ A.todo = do
    BY <2>2, <2>3, <2>4
  <2>d. do = [i \in 1..n |-> MakeElement(r, prop, at[i], each[i])]
    OBVIOUS
  <2> HIDE DEF do
  <2>6. \A i \in 1..n :
            /\ at[i] \in Nat \cup MapKeys \cup {Null}
            /\ each[i] = Null \/ (each[i] \in ps /\ ClassOf[each[i]] = prop.target)
    BY <2>1, <2>2, <2>4, <1>5, <1>17 DEF PointersTo
  <2>7. Makes(r, prop, ps, n, at, each, do)
    BY <2>2, <2>d, <2>6, <1>17 DEF Makes
  <2>m. Goes(B, ps, ws, S, A)
    BY <2>5, <2>7, <1>17, <1>m DEF Many
  <2>8. QED
    BY <2>m DEF A, r, prop, v, p
<1>18. CASE prop.kind = "linkMap"
  <2>1. /\ DOMAIN v \subseteq MapKeys /\ IsFiniteSet(DOMAIN v)
        /\ \A k \in DOMAIN v : v[k] \in PointersTo(prop.target) \cup {Null}
    <3>1. DOMAIN v \subseteq MapKeys /\ \A k \in DOMAIN v : v[k] \in PointersTo(prop.target) \cup {Null}
      BY <1>4, <1>18 DEF Member, ValueLists
    <3>2. IsFiniteSet(DOMAIN v)
      BY <3>1, HeapAssumption, FS_Subset
    <3>3. QED
      BY <3>1, <3>2
  <2> DEFINE n == Cardinality(DOMAIN v)
             each == SetToSeq(DOMAIN v)
             q == [i \in 1..n |-> v[each[i]]]
  <2>2. n \in Nat /\ DOMAIN each = 1..n /\ \A i \in 1..n : each[i] \in DOMAIN v
    BY <2>1, SetToSeqFacts
  <2>3. A = [s |-> S, todo |-> [i \in DOMAIN each |-> MakeElement(r, prop, each[i], v[each[i]])]]
    BY <1>18 DEF A, Accessor, AccessorLinkMap, ValueLists
  <2>4. \A i \in 1..n : q[i] = v[each[i]]
    OBVIOUS
  <2> HIDE DEF n, q, each
  <2> DEFINE do == [i \in 1..n |-> MakeElement(r, prop, each[i], q[i])]
  <2>5. A.s = S /\ A.todo = do
    BY <2>2, <2>3, <2>4
  <2>d. do = [i \in 1..n |-> MakeElement(r, prop, each[i], q[i])]
    OBVIOUS
  <2> HIDE DEF do
  <2>6. \A i \in 1..n :
            /\ each[i] \in Nat \cup MapKeys \cup {Null} /\ each[i] \in MapKeys
            /\ q[i] = Null \/ (q[i] \in ps /\ ClassOf[q[i]] = prop.target)
    BY <2>1, <2>2, <2>4, <1>5, <1>18 DEF PointersTo
  <2>7. Makes(r, prop, ps, n, each, q, do)
    BY <2>2, <2>d, <2>6, <1>18 DEF Makes
  <2>m. Goes(B, ps, ws, S, A)
    BY <2>5, <2>7, <1>18, <1>m DEF Many
  <2>8. QED
    BY <2>m DEF A, r, prop, v, p
<1>19. QED
  BY <1>6, <1>10, <1>11, <1>12, <1>13, <1>14, <1>15, <1>16, <1>17, <1>18 DEF Kinds, LinkKinds, ValueLists

(* ----- a call from its first step to its last ----- *)

\* A step is performed, or throws.
LEMMA PerformGoes ==
    ASSUME NEW B, NEW ps, NEW ws, NEW S, Ready(B, ps, ws, S), NEW t \in Work(S, ps, ws),
           NEW U, U = IF t.row \in DOMAIN S.rows THEN Perform(S, t) ELSE Done(Throw(S))
    PROVE  Goes(B, ps, ws, S, U)
<1>1. CASE t.row \notin DOMAIN S.rows
  BY <1>1, ThrowGoes
<1>2. CASE t.row \in DOMAIN S.rows /\ t.do = "copy"
  <2>1. U = Accessor(S, t.row, t.prop, Heap[t.from][t.prop.name])
    BY <1>2 DEF Perform
  <2>2. QED
    BY <1>2, <2>1, CopyGoes
<1>3. CASE t.row \in DOMAIN S.rows /\ t.do = "make"
  <2>1. U = Element(S, t.row, t.prop, t.at, t.from)
    BY <1>3 DEF Perform
  <2>2. QED
    BY <1>3, <2>1, MakeGoes
<1>4. CASE t.row \in DOMAIN S.rows /\ t.do = "put"
  <2>1. U = Done(Attached(S, t.row, t.prop, t.at, t.from))
    BY <1>4 DEF Perform
  <2>2. QED
    BY <1>4, <2>1, PutGoes
<1>5. t.do \in {"copy", "make", "put"}
  BY DEF Work, Tasks
<1>6. QED
  BY <1>1, <1>2, <1>3, <1>4, <1>5

\* A step, and what is left to do after it.
LEMMA StepIs ==
    ASSUME NEW B, NEW ps, NEW ws, Wide(B, ps, ws), Closed(ps), NEW T, Under(B, ps, ws, T), T.todo # <<>>
    PROVE  \E t, U :
              /\ t \in Work(T.s, ps, ws) /\ t = Head(T.todo)
              /\ U = IF t.row \in DOMAIN T.s.rows THEN Perform(T.s, t) ELSE Done(Throw(T.s))
              /\ Ready(B, ps, ws, T.s) /\ Goes(B, ps, ws, T.s, U)
              /\ Tail(T.todo) \in Seq(Work(T.s, ps, ws)) /\ Tail(T.todo) \in Seq(Work(U.s, ps, ws))
              /\ Onward(T) = Before(U, Tail(T.todo))
<1> DEFINE S == T.s
           X == Work(S, ps, ws)
           t == Head(T.todo)
           rest == Tail(T.todo)
           U == IF t.row \in DOMAIN S.rows THEN Perform(S, t) ELSE Done(Throw(S))
<1>1. Ready(B, ps, ws, S) /\ T.todo \in Seq(X)
  BY DEF Ready, Under
<1> HIDE DEF X
<1>2. t \in X /\ rest \in Seq(X)
  BY <1>1, HeadTailProperties
<1>3. Onward(T) = Before(U, rest)
  BY DEF Onward, Step
<1>4. U = IF t.row \in DOMAIN S.rows THEN Perform(S, t) ELSE Done(Throw(S))
  OBVIOUS
<1> HIDE DEF t, rest, U, S
<1>5. Goes(B, ps, ws, S, U)
  BY <1>1, <1>2, <1>4, PerformGoes DEF X
<1>6. Keeps(S, U.s, ws)
  BY <1>5 DEF Goes
<1>7. X \subseteq Work(U.s, ps, ws)
  BY <1>6, WorkStays DEF X
<1>8. rest \in Seq(Work(U.s, ps, ws))
  BY <1>2, <1>7, SeqMonotonic
<1>9. t \in Work(T.s, ps, ws) /\ t = Head(T.todo)
  BY <1>2 DEF X, S, t
<1>10. QED
  BY <1>1, <1>2, <1>3, <1>4, <1>5, <1>8, <1>9 DEF X, S, rest

\* Every step of a call keeps it on its way.
LEMMA OnwardKeeps ==
    ASSUME NEW B, NEW ps, NEW ws, Wide(B, ps, ws), Closed(ps), NEW T, Under(B, ps, ws, T)
    PROVE  Under(B, ps, ws, Onward(T)) /\ (Onward(T).s.ok => T.s.ok)
<1>1. CASE T.todo = <<>>
  BY <1>1 DEF Onward
<1>2. CASE T.todo # <<>>
  <2>1. PICK t, U :
            /\ t \in Work(T.s, ps, ws) /\ Ready(B, ps, ws, T.s) /\ Goes(B, ps, ws, T.s, U)
            /\ Tail(T.todo) \in Seq(Work(U.s, ps, ws))
            /\ Onward(T) = Before(U, Tail(T.todo))
    BY <1>2, StepIs
  <2> DEFINE X == Work(U.s, ps, ws)
             rest == Tail(T.todo)
             N == Before(U, rest)
  <2>2. N.s = U.s /\ N.todo = IF U.s.ok THEN U.todo \o rest ELSE <<>>
    BY DEF Before
  <2>3. Under(B, ps, ws, U) /\ (U.s.ok => T.s.ok)
    BY <2>1 DEF Goes
  <2>4. U.todo \in Seq(X) /\ rest \in Seq(X) /\ Sound(U.s) /\ Keeps(B, U.s, ws)
    BY <2>1, <2>3 DEF Under
  <2> HIDE DEF X, rest, N
  <2>5. U.todo \o rest \in Seq(X) /\ <<>> \in Seq(X)
    BY <2>4, ConcatProperties, EmptySeq
  <2>6. N.todo \in Seq(Work(N.s, ps, ws))
    BY <2>2, <2>5 DEF X
  <2>7. Under(B, ps, ws, N)
    BY <2>2, <2>4, <2>6 DEF Under
  <2>8. QED
    BY <2>1, <2>2, <2>3, <2>7 DEF N, rest
<1>3. QED
  BY <1>1, <1>2

\* Every set of naturals that has an element has a least one.
LEMMA LeastNatural ==
    ASSUME NEW T, T \subseteq Nat, T # {}
    PROVE  \E n \in T : \A m \in T : ~(m < n)
<1> DEFINE R == OpToRel(<, Nat)
<1>1. IsWellFoundedOn(R, Nat)
  BY NatLessThanWellFounded
<1>2. \A x, y \in Nat : x < y => <<x, y>> \in R
  BY DEF OpToRel
<1> HIDE DEF R
<1>3. PICK n \in T : \A m \in T : ~(<<m, n>> \in R)
  BY <1>1, WFMin
<1>4. QED
  BY <1>2, <1>3

\* A set that has the first of 0..n, and each that follows one it has.
LEMMA Induction ==
    ASSUME NEW n \in Nat, NEW S, 0 \in S, \A i \in 1..n : i - 1 \in S => i \in S
    PROVE  0..n \subseteq S
<1> SUFFICES ASSUME ~(0..n \subseteq S) PROVE FALSE
  OBVIOUS
<1> DEFINE T == (0..n) \ S
<1>0. T \subseteq Nat /\ T # {}
  OBVIOUS
<1> HIDE DEF T
<1>a. PICK i \in T : \A m \in T : ~(m < i)
  BY <1>0, LeastNatural
<1>1. i \in (0..n) \ S /\ \A m \in (0..n) \ S : ~(m < i)
  BY <1>a DEF T
<1>2. i \in 1..n /\ i - 1 \in 0..n /\ i - 1 < i
  BY <1>1
<1>3. i - 1 \in S
  BY <1>1, <1>2
<1>4. QED
  BY <1>1, <1>2, <1>3

\* The steps of a call.
LEMMA RunIs ==
    ASSUME NEW T
    PROVE  \E f : /\ f[0] = T /\ \A i \in 1..MaxSteps : f[i] = Onward(f[i - 1])
                  /\ Run(T) = f[MaxSteps]
<1> DEFINE n == MaxSteps
           Steps(m, f) == f = [i \in 0..m |-> IF i = 0 THEN T ELSE Onward(f[i - 1])]
           E == {m \in 0..n : \E f : Steps(m, f)}
<1>0. n \in Nat
  BY StepsAssumption
<1> HIDE DEF n
<1>1. 0 \in E
  <2> DEFINE f == [i \in 0..0 |-> T]
  <2>1. Steps(0, f)
    OBVIOUS
  <2> HIDE DEF Steps, f
  <2>2. QED
    BY <1>0, <2>1
<1>2. ASSUME NEW m \in 1..n, m - 1 \in E
      PROVE  m \in E
  <2>1. PICK f : Steps(m - 1, f)
    BY <1>2
  <2> DEFINE g == [i \in 0..m |-> IF i = m THEN Onward(f[m - 1]) ELSE f[i]]
             Following(i) == IF i = 0 THEN T ELSE Onward(g[i - 1])
  <2>2. ASSUME NEW i \in 0..m
        PROVE  g[i] = Following(i)
    <3>1. CASE i = 0
      <4>1. 0 \in 0..m - 1 /\ m # 0
        OBVIOUS
      <4>2. g[i] = f[0] /\ f[0] = T
        BY <3>1, <2>1, <4>1
      <4>3. QED
        BY <3>1, <4>2
    <3>2. CASE i = m
      BY <3>2
    <3>3. CASE i # 0 /\ i # m
      <4>1. i \in 1..m - 1 /\ i - 1 \in 0..m - 1
        BY <3>3
      <4>2. f[i] = Onward(f[i - 1])
        BY <2>1, <4>1
      <4>3. g[i] = f[i] /\ g[i - 1] = f[i - 1]
        BY <4>1, <3>3
      <4>4. QED
        BY <3>3, <4>2, <4>3
    <3>4. QED
      BY <3>1, <3>2, <3>3
  <2>3. g = [i \in 0..m |-> Following(i)]
    BY <2>2
  <2> HIDE DEF g
  <2>4. Steps(m, g)
    BY <2>3
  <2> HIDE DEF Steps
  <2>5. QED
    BY <1>0, <2>4
<1>3. n \in E
  <2> HIDE DEF E
  <2>1. 0..n \subseteq E
    BY <1>0, <1>1, <1>2, Induction
  <2>2. QED
    BY <1>0, <2>1
<1> HIDE DEF E
<1>4. PICK f0 : Steps(n, f0)
  BY <1>3 DEF E
<1> DEFINE P == CHOOSE f : Steps(n, f)
<1>6. Steps(n, P)
  BY <1>4
<1>7. Run(T) = P[n]
  BY DEF Run, n
<1> HIDE DEF P
<1>9. P[0] = T /\ \A i \in 1..n : P[i] = Onward(P[i - 1])
  BY <1>0, <1>6
<1>10. QED
  BY <1>7, <1>9 DEF n

\* So does the whole call, by induction on its steps.
LEMMA RunKeeps ==
    ASSUME NEW B, NEW ps, NEW ws, Wide(B, ps, ws), Closed(ps), NEW T, Under(B, ps, ws, T)
    PROVE  Under(B, ps, ws, Run(T)) /\ (Run(T).s.ok => T.s.ok)
<1>1. PICK f : /\ f[0] = T /\ \A i \in 1..MaxSteps : f[i] = Onward(f[i - 1])
               /\ Run(T) = f[MaxSteps]
  BY RunIs
<1> DEFINE M == {i \in 0..MaxSteps : Under(B, ps, ws, f[i]) /\ (f[i].s.ok => T.s.ok)}
<1>2. MaxSteps \in Nat
  BY StepsAssumption
<1>3. 0 \in M
  BY <1>1, <1>2
<1>4. ASSUME NEW i \in 1..MaxSteps, i - 1 \in M
      PROVE  i \in M
  <2> DEFINE U == f[i - 1]
  <2>1. Under(B, ps, ws, U) /\ (U.s.ok => T.s.ok) /\ f[i] = Onward(U) /\ i \in 0..MaxSteps
    BY <1>1, <1>2, <1>4
  <2> HIDE DEF U
  <2>2. QED
    BY <2>1, OnwardKeeps
<1>5. 0..MaxSteps \subseteq M
  <2> HIDE DEF M
  <2>1. QED
    BY <1>2, <1>3, <1>4, Induction
<1>6. QED
  BY <1>1, <1>2, <1>5

(* ----- what a call may write ----- *)

\* Objects refer to objects of the heap.
LEMMA ChildrenArePointers ==
    ASSUME NEW p \in Pointers
    PROVE  Children(p) \subseteq Pointers
<1> SUFFICES ASSUME NEW x \in Children(p) PROVE x \in Pointers
  OBVIOUS
<1>1. Children(p) = (UNION {In(q, Heap[p][q.name]) : q \in Properties(ClassOf[p])}) \ {Null}
  BY DEF Children, In
<1>2. PICK q \in Properties(ClassOf[p]) : x \in In(q, Heap[p][q.name])
  BY <1>1
<1> DEFINE v == Heap[p][q.name]
<1>3. Member(q, v)
  BY MemberFacts
<1> HIDE DEF v
<1>4. x \in In(q, v) /\ x # Null
  BY <1>1, <1>2 DEF v
<1>5. CASE q.kind = "link"
  <2>1. v \in PointersTo(q.target) \cup {Null}
    BY <1>3, <1>5 DEF Member, ValueLists
  <2>2. x = v
    BY <1>4, <1>5 DEF In
  <2>3. QED
    BY <1>4, <2>1, <2>2 DEF PointersTo
<1>6. CASE q.kind = "linkSet"
  <2>1. v \subseteq PointersTo(q.target) \cup {Null}
    BY <1>3, <1>6 DEF Member, ValueLists
  <2>2. x \in v
    BY <1>4, <1>6 DEF In
  <2>3. QED
    BY <1>4, <2>1, <2>2 DEF PointersTo
<1>7. CASE q.kind = "linkList"
  <2>1. v \in Seq(PointersTo(q.target) \cup {Null})
    BY <1>3, <1>7 DEF Member, ValueLists
  <2>2. x \in Range(v)
    BY <1>4, <1>7 DEF In
  <2>3. PICK i \in DOMAIN v : x = v[i]
    BY <2>2 DEF Range
  <2>4. v[i] \in PointersTo(q.target) \cup {Null}
    BY <2>1, LenProperties, ElementOfSeq
  <2>5. QED
    BY <1>4, <2>3, <2>4 DEF PointersTo
<1>8. CASE q.kind = "linkMap"
  <2>1. \A k \in DOMAIN v : v[k] \in PointersTo(q.target) \cup {Null}
    BY <1>3, <1>8 DEF Member, ValueLists
  <2>2. x \in Range(v)
    BY <1>4, <1>8 DEF In
  <2>3. PICK i \in DOMAIN v : x = v[i]
    BY <2>2 DEF Range
  <2>4. QED
    BY <1>4, <2>1, <2>3 DEF PointersTo
<1>9. CASE q.kind \notin LinkKinds
  BY <1>4, <1>9 DEF In, LinkKinds
<1>10. QED
  BY <1>5, <1>6, <1>7, <1>8, <1>9 DEF LinkKinds

\* An object reaches itself and all that its pointers lead to.
LEMMA ReachedFacts ==
    ASSUME NEW p \in Pointers
    PROVE  p \in Reached(p) /\ Closed(Reached(p))
<1>1. Reached(p) = {q \in Pointers : \A ps \in SUBSET Pointers :
                        (p \in ps /\ \A q1 \in ps : Children(q1) \subseteq ps) => q \in ps}
  BY DEF Reached
<1>2. p \in Reached(p) /\ Reached(p) \subseteq Pointers
  BY <1>1
<1>3. ASSUME NEW q \in Reached(p), NEW x \in Children(q)
      PROVE  x \in Reached(p)
  <2>1. x \in Pointers
    BY <1>2, ChildrenArePointers
  <2>2. ASSUME NEW ps \in SUBSET Pointers, p \in ps, \A q1 \in ps : Children(q1) \subseteq ps
        PROVE  x \in ps
    BY <1>1, <2>2
  <2>3. QED
    BY <1>1, <2>1, <2>2
<1>4. QED
  BY <1>2, <1>3 DEF Closed

\* The rows a call on r may write, given objects with the primary keys `names`.
Writable(S, r, names) ==
    {w \in Classes \X Nat :
        \/ w[1] \in Embedded \/ w \notin DOMAIN S.rows \/ w = r
        \/ HasPrimaryKeyProperty(w[1]) /\ <<w[1], PkOf(w[1], S.rows[w])>> \in names}

Does(S, U, r, names) == Sound(U) /\ Keeps(S, U, Writable(S, r, names))

\* The primary keys of the objects of ps are among the names.
Tells(names, ps) ==
    \A q \in ps : HasPrimaryKeyProperty(ClassOf[q]) => <<ClassOf[q], PkOf(ClassOf[q], Heap[q])>> \in names

\* A call names the primary keys of all it reaches.
LEMMA NamedTells ==
    ASSUME NEW p \in Pointers
    PROVE  Tells(Named[p], Reached(p))
<1>1. Named[p] = {<<ClassOf[q], PkOf(ClassOf[q], Heap[q])>> :
                    q \in {q \in Reached(p) : HasPrimaryKeyProperty(ClassOf[q])}}
  BY DEF Named
<1> SUFFICES ASSUME NEW q \in Reached(p), HasPrimaryKeyProperty(ClassOf[q])
             PROVE  <<ClassOf[q], PkOf(ClassOf[q], Heap[q])>> \in Named[p]
  BY DEF Tells
<1>2. q \in {x \in Reached(p) : HasPrimaryKeyProperty(ClassOf[x])}
  OBVIOUS
<1>3. QED
  BY <1>1, <1>2

\* A call on a sound store may begin.
LEMMA CallIsReady ==
    ASSUME NEW S, Sound(S), NEW ps, Closed(ps), NEW r, NEW names, Tells(names, ps),
           NEW ws, ws = Writable(S, r, names)
    PROVE  Ready(S, ps, ws, S) /\ Wide(S, ps, ws) /\ Closed(ps)
<1>1. Wide(S, ps, ws)
  <2> SUFFICES ASSUME NEW w \in Classes \X Nat, w \notin ws
               PROVE  /\ w[1] \notin Embedded /\ w \in DOMAIN S.rows
                      /\ HasPrimaryKeyProperty(w[1]) =>
                            \A q \in ps : ClassOf[q] = w[1] => PkOf(w[1], S.rows[w]) # PkOf(w[1], Heap[q])
    BY DEF Wide
  <2>1. /\ w[1] \notin Embedded /\ w \in DOMAIN S.rows /\ w # r
        /\ HasPrimaryKeyProperty(w[1]) => <<w[1], PkOf(w[1], S.rows[w])>> \notin names
    BY DEF Writable
  <2>2. ASSUME HasPrimaryKeyProperty(w[1]), NEW q \in ps, ClassOf[q] = w[1]
        PROVE  PkOf(w[1], S.rows[w]) # PkOf(w[1], Heap[q])
    <3>1. <<w[1], PkOf(w[1], Heap[q])>> \in names
      BY <2>2 DEF Tells
    <3>2. QED
      BY <3>1, <2>1, <2>2
  <2>3. QED
    BY <2>1, <2>2
<1>2. QED
  BY <1>1, KeepsItself DEF Ready

\* A call that is run to its end.
LEMMA RunDoes ==
    ASSUME NEW S, NEW ps, NEW r, NEW names, NEW ws, ws = Writable(S, r, names),
           Ready(S, ps, ws, S), NEW T, Goes(S, ps, ws, S, T)
    PROVE  Does(S, Run(T).s, r, names) /\ (Run(T).s.ok => T.s.ok)
<1>1. Wide(S, ps, ws) /\ Closed(ps)
  BY DEF Ready
<1>2. Under(S, ps, ws, T)
  BY DEF Goes
<1>3. Under(S, ps, ws, Run(T)) /\ (Run(T).s.ok => T.s.ok)
  BY <1>1, <1>2, RunKeeps
<1>4. QED
  BY <1>3 DEF Under, Does

\* A call with nothing left to do is at its end.
LEMMA DoneRuns ==
    ASSUME NEW T, T.todo = <<>>
    PROVE  Run(T) = T
<1>1. PICK f : /\ f[0] = T /\ \A i \in 1..MaxSteps : f[i] = Onward(f[i - 1])
               /\ Run(T) = f[MaxSteps]
  BY RunIs
<1> DEFINE M == {i \in 0..MaxSteps : f[i] = T}
<1>2. MaxSteps \in Nat
  BY StepsAssumption
<1>3. 0 \in M
  BY <1>1, <1>2
<1>4. ASSUME NEW i \in 1..MaxSteps, i - 1 \in M
      PROVE  i \in M
  <2>1. f[i - 1] = T /\ f[i] = Onward(f[i - 1]) /\ i \in 0..MaxSteps
    BY <1>1, <1>2, <1>4
  <2>2. Onward(T) = T
    BY DEF Onward
  <2>3. QED
    BY <2>1, <2>2
<1>5. 0..MaxSteps \subseteq M
  <2> HIDE DEF M
  <2>1. QED
    BY <1>2, <1>3, <1>4, Induction
<1>6. QED
  BY <1>1, <1>2, <1>5

\* A single write is a call.
LEMMA WroteDoes ==
    ASSUME NEW S, Sound(S), NEW r \in DOMAIN S.rows, NEW prop, NEW v, NEW U, Wrote(S, U, r, prop, v),
           NEW names
    PROVE  Does(S, U, r, names)
<1> DEFINE vs == {r}
           ws == Writable(S, r, names)
<1>1. Sound(U) /\ Keeps(S, U, vs)
  BY DEF Wrote
<1>2. vs \subseteq ws
  BY RowIsTyped DEF Writable
<1> HIDE DEF vs, ws
<1>3. Keeps(S, U, ws)
  BY <1>1, <1>2, KeepsMore
<1>4. QED
  BY <1>1, <1>3 DEF Does, ws

\* So is doing nothing, with an exception or without.
LEMMA StayDoes ==
    ASSUME NEW S, Sound(S), NEW r, NEW names
    PROVE  Does(S, S, r, names) /\ Does(S, Throw(S), r, names)
<1> DEFINE U == Throw(S)
<1>1. U.rows = S.rows /\ U.next = S.next /\ U.ok = FALSE
  BY DEF Throw
<1> HIDE DEF U
<1>2. Sound(U)
  BY <1>1 DEF Sound, Typed, TypedRow
<1>3. Keeps(S, U, Writable(S, r, names))
  BY <1>1 DEF Keeps
<1>4. QED
  BY <1>2, <1>3, KeepsItself DEF Does, U

(* ----- removing a row ----- *)

\* A list without the elements that are k.
LEMMA DroppedFacts ==
    ASSUME NEW X, NEW s \in Seq(X), NEW k
    PROVE  /\ Dropped(s, k) \in Seq(X)
           /\ \A j \in DOMAIN Dropped(s, k) : Dropped(s, k)[j] # k /\ \E i \in DOMAIN s : s[i] = Dropped(s, k)[j]
<1> DEFINE n == Len(s)
           Next1(i, x) == IF s[i] = k THEN x ELSE Append(x, s[i])
           Steps(m, f) == f = [i \in 0..m |-> IF i = 0 THEN <<>> ELSE Next1(i, f[i - 1])]
           E == {m \in 0..n : \E f : Steps(m, f)}
<1>0. n \in Nat /\ DOMAIN s = 1..n /\ \A i \in 1..n : s[i] \in X
  BY LenProperties, ElementOfSeq
<1> HIDE DEF n, Next1
<1>1. 0 \in E
  <2> DEFINE f == [i \in 0..0 |-> <<>>]
  <2>1. Steps(0, f)
    OBVIOUS
  <2> HIDE DEF Steps, f
  <2>2. QED
    BY <1>0, <2>1
<1>2. ASSUME NEW m \in 1..n, m - 1 \in E
      PROVE  m \in E
  <2>1. PICK f : Steps(m - 1, f)
    BY <1>2
  <2> DEFINE g == [i \in 0..m |-> IF i = m THEN Next1(m, f[m - 1]) ELSE f[i]]
             Following(i) == IF i = 0 THEN <<>> ELSE Next1(i, g[i - 1])
  <2>2. ASSUME NEW i \in 0..m
        PROVE  g[i] = Following(i)
    <3>1. CASE i = 0
      <4>1. 0 \in 0..m - 1 /\ m # 0
        OBVIOUS
      <4>2. g[i] = f[0] /\ f[0] = <<>>
        BY <3>1, <2>1, <4>1
      <4>3. QED
        BY <3>1, <4>2
    <3>2. CASE i = m
      BY <3>2
    <3>3. CASE i # 0 /\ i # m
      <4>1. i \in 1..m - 1 /\ i - 1 \in 0..m - 1
        BY <3>3
      <4>2. f[i] = Next1(i, f[i - 1])
        BY <2>1, <4>1
      <4>3. g[i] = f[i] /\ g[i - 1] = f[i - 1]
        BY <4>1, <3>3
      <4>4. QED
        BY <3>3, <4>2, <4>3
    <3>4. QED
      BY <3>1, <3>2, <3>3
  <2>3. g = [i \in 0..m |-> Following(i)]
    BY <2>2
  <2> HIDE DEF g
  <2>4. Steps(m, g)
    BY <2>3
  <2> HIDE DEF Steps
  <2>5. QED
    BY <1>0, <2>4
<1>3. n \in E
  <2> HIDE DEF E
  <2>1. 0..n \subseteq E
    BY <1>0, <1>1, <1>2, Induction
  <2>2. QED
    BY <1>0, <2>1
<1> HIDE DEF E
<1>4. PICK f0 : Steps(n, f0)
  BY <1>3 DEF E
<1> DEFINE P == CHOOSE f : Steps(n, f)
<1>5. Steps(n, P)
  BY <1>4
<1>6. Dropped(s, k) = P[n]
  BY DEF Dropped, n, Next1
<1> HIDE DEF P
<1>7. P[0] = <<>> /\ \A i \in 1..n : P[i] = Next1(i, P[i - 1])
  BY <1>0, <1>5
<1> HIDE DEF Steps
<1> DEFINE Y == {x \in X : x # k /\ \E i \in DOMAIN s : s[i] = x}
           M == {i \in 0..n : P[i] \in Seq(Y)}
<1>8. \A i \in DOMAIN s : s[i] # k => s[i] \in Y
  BY <1>0
<1>9. \A y \in Y : y \in X /\ y # k /\ \E i \in DOMAIN s : s[i] = y
  OBVIOUS
<1> HIDE DEF Y
<1>10. 0 \in M
  <2>1. <<>> \in Seq(Y)
    BY EmptySeq
  <2>2. 0 \in 0..n
    BY <1>0
  <2>3. QED
    BY <2>1, <2>2, <1>7
<1>11. ASSUME NEW i \in 1..n, i - 1 \in M
       PROVE  i \in M
  <2> DEFINE x == P[i - 1]
  <2>1. x \in Seq(Y) /\ P[i] = Next1(i, x) /\ i \in DOMAIN s /\ i \in 0..n
    BY <1>0, <1>7, <1>11
  <2> HIDE DEF x
  <2>2. CASE s[i] = k
    BY <2>1, <2>2 DEF Next1
  <2>3. CASE s[i] # k
    <3>1. s[i] \in Y
      BY <1>8, <2>1, <2>3
    <3>2. Append(x, s[i]) \in Seq(Y)
      BY <2>1, <3>1, AppendProperties
    <3>3. QED
      BY <2>1, <2>3, <3>2 DEF Next1
  <2>4. QED
    BY <2>2, <2>3
<1>12. n \in M
  <2> HIDE DEF M
  <2>1. 0..n \subseteq M
    BY <1>0, <1>10, <1>11, Induction
  <2>2. QED
    BY <1>0, <2>1
<1> DEFINE d == Dropped(s, k)
<1>13. d \in Seq(Y)
  BY <1>6, <1>12
<1> HIDE DEF d
<1>14. d \in Seq(X)
  BY <1>9, <1>13, SeqMonotonic
<1>15. \A j \in DOMAIN d : d[j] \in Y
  BY <1>13, LenProperties, ElementOfSeq
<1>16. QED
  BY <1>9, <1>14, <1>15 DEF d

\* Clearing a value of what names a row that goes.
LEMMA NullifyFacts ==
    ASSUME NEW c \in Classes, NEW prop \in Properties(c), NEW gone \in Classes \X Nat, NEW v, Column(prop, v),
           NEW new, new = Nullify(prop, v, gone)
    PROVE  /\ Column(prop, new) /\ (prop.kind \notin LinkKinds => new = v)
           /\ prop.kind \in LinkKinds =>
                 /\ KeysIn(prop, new) \subseteq KeysIn(prop, v)
                 /\ prop.target = gone[1] => gone[2] \notin KeysIn(prop, new)
                 /\ prop.target # gone[1] => Positions(prop, new) \subseteq Positions(prop, v)
<1>0. gone[2] \in Nat /\ Null \notin Nat /\ gone[2] # Null /\ prop.kind \in Kinds
  BY NullFacts, PropertyFacts
<1> DEFINE Dead(k) == prop.target = gone[1] /\ k = gone[2]
<1>1. CASE prop.kind \notin LinkKinds
  <2>1. new = v
    BY <1>1 DEF Nullify, LinkKinds
  <2>2. QED
    BY <1>1, <2>1
<1>2. CASE prop.kind = "link"
  <2>1. new = IF Dead(v) THEN Null ELSE v
    BY <1>2 DEF Nullify
  <2>2. /\ KeysIn(prop, v) = {v} \ {Null} /\ KeysIn(prop, new) = {new} \ {Null}
    BY <1>2, LinkFacts
  <2>3. v \in Nat \cup {Null}
    BY <1>2 DEF Column, ListKinds, ValueLists
  <2>4. new \in Nat \cup {Null}
    BY <2>1, <2>3
  <2>5. Column(prop, new)
    BY <1>2, <2>4 DEF Column, ListKinds, ValueLists
  <2>6. prop.target # gone[1] => new = v
    BY <2>1
  <2>7. QED
    BY <1>0, <1>2, <2>1, <2>2, <2>5, <2>6 DEF LinkKinds
<1>3. CASE prop.kind = "linkSet"
  <2>1. new = {k \in v : ~Dead(k)}
    BY <1>3 DEF Nullify
  <2>2. KeysIn(prop, v) = v \ {Null} /\ KeysIn(prop, new) = new \ {Null}
    BY <1>3, LinkSetFacts
  <2>3. v \subseteq Nat /\ IsFiniteSet(v)
    BY <1>3 DEF Column, ListKinds, ValueLists
  <2>4. new \subseteq v /\ (prop.target = gone[1] => gone[2] \notin new) /\ (prop.target # gone[1] => new = v)
    BY <2>1
  <2> HIDE DEF Dead
  <2>5. new \subseteq Nat /\ IsFiniteSet(new)
    BY <2>3, <2>4, FS_Subset
  <2>6. Column(prop, new)
    BY <1>3, <2>5 DEF Column, ListKinds, ValueLists
  <2>7. QED
    BY <1>0, <1>3, <2>2, <2>4, <2>6 DEF LinkKinds
<1>4. CASE prop.kind = "linkList"
  <2>1. new = IF prop.target = gone[1] THEN Dropped(v, gone[2]) ELSE v
    BY <1>4 DEF Nullify
  <2>2. KeysIn(prop, v) = Values(v) \ {Null} /\ KeysIn(prop, new) = Values(new) \ {Null}
    BY <1>4, LinkManyFacts
  <2>3. v \in Seq(Nat)
    BY <1>4 DEF Column, ListKinds, ValueLists
  <2>4. CASE prop.target # gone[1]
    BY <1>4, <2>1, <2>4 DEF LinkKinds
  <2>5. CASE prop.target = gone[1]
    <3> DEFINE X == Nat
               k == gone[2]
    <3>1. v \in Seq(X) /\ new = Dropped(v, k)
      BY <2>1, <2>3, <2>5
    <3> HIDE DEF X, k
    <3>2. /\ new \in Seq(X)
          /\ \A j \in DOMAIN new : new[j] # k /\ \E i \in DOMAIN v : v[i] = new[j]
      BY <3>1, DroppedFacts
    <3>3. Column(prop, new)
      BY <1>4, <3>2 DEF X, Column, ListKinds, ValueLists
    <3>4. Values(new) \subseteq Values(v) /\ k \notin Values(new)
      BY <3>2 DEF Values
    <3>5. QED
      BY <1>4, <2>2, <2>5, <3>3, <3>4 DEF k, LinkKinds
  <2>6. QED
    BY <2>4, <2>5
<1>5. CASE prop.kind = "linkMap"
  <2>1. new = [m \in DOMAIN v |-> IF Dead(v[m]) THEN Null ELSE v[m]]
    BY <1>5 DEF Nullify
  <2>2. DOMAIN new = DOMAIN v /\ \A m \in DOMAIN v : new[m] = IF Dead(v[m]) THEN Null ELSE v[m]
    BY <2>1
  <2>3. KeysIn(prop, v) = Values(v) \ {Null} /\ KeysIn(prop, new) = Values(new) \ {Null}
    BY <1>5, LinkManyFacts
  <2>4. DOMAIN v \subseteq MapKeys /\ \A m \in DOMAIN v : v[m] \in Nat \cup {Null}
    BY <1>5 DEF Column, ListKinds, ValueLists
  <2>5. DOMAIN new \subseteq MapKeys /\ \A m \in DOMAIN new : new[m] \in Nat \cup {Null}
    BY <2>2, <2>4
  <2>6. Column(prop, new)
    BY <1>5, <2>5 DEF Column, ListKinds, ValueLists
  <2>7. ASSUME NEW x \in Values(new) \ {Null}
        PROVE  x \in Values(v) /\ (prop.target = gone[1] => x # gone[2])
    <3>1. PICK m \in DOMAIN new : x = new[m]
      BY DEF Values
    <3>2. x = v[m] /\ ~Dead(v[m]) /\ m \in DOMAIN v
      BY <2>2, <3>1
    <3>3. QED
      BY <3>2 DEF Values
  <2>8. prop.target # gone[1] => Positions(prop, new) \subseteq Positions(prop, v)
    <3> SUFFICES ASSUME prop.target # gone[1] PROVE Positions(prop, new) \subseteq Positions(prop, v)
      OBVIOUS
    <3>1. \A m \in DOMAIN v : new[m] = v[m]
      BY <2>2
    <3>2. /\ Positions(prop, new) = {<<i, new[i]>> : i \in DOMAIN new}
          /\ Positions(prop, v) = {<<i, v[i]>> : i \in DOMAIN v}
      BY <1>5 DEF Positions
    <3>3. QED
      BY <2>2, <3>1, <3>2
  <2> HIDE DEF Dead
  <2>9. KeysIn(prop, new) \subseteq KeysIn(prop, v) /\ (prop.target = gone[1] => gone[2] \notin KeysIn(prop, new))
    BY <1>0, <2>3, <2>7
  <2>10. QED
    BY <1>5, <2>6, <2>8, <2>9 DEF LinkKinds
<1>6. QED
  BY <1>1, <1>2, <1>3, <1>4, <1>5 DEF LinkKinds

\* Nothing refers to a row that goes any more, and all else stays.
LEMMA UnlinkedFacts ==
    ASSUME NEW S, Sound(S), NEW gone \in DOMAIN S.rows, gone[1] \notin Embedded,
           NEW w, w = Unlinked(S.rows, gone)
    PROVE  /\ DOMAIN w = DOMAIN S.rows \ {gone} /\ Live(w) /\ Sole(w) /\ OneKey(w)
           /\ \A r \in DOMAIN w : TypedRow(Written(S, w), r)
           /\ \A r \in DOMAIN w : gone \notin RefersTo(S.rows, r) => w[r] = S.rows[r]
<1>0. Typed(S) /\ Live(S.rows) /\ Sole(S.rows) /\ OneKey(S.rows) /\ gone \in Classes \X Nat
  BY RowIsTyped DEF Sound
<1>1. /\ DOMAIN w = DOMAIN S.rows \ {gone}
      /\ \A r \in DOMAIN w : gone \notin RefersTo(S.rows, r) => w[r] = S.rows[r]
      /\ \A r \in DOMAIN w : gone \in RefersTo(S.rows, r) =>
            /\ DOMAIN w[r] = DOMAIN S.rows[r]
            /\ \A n \in DOMAIN S.rows[r] : w[r][n] = Nullify(Columns[r[1]][n], S.rows[r][n], gone)
  BY DEF Unlinked
<1>2. ASSUME NEW r \in DOMAIN w
      PROVE  /\ r[1] \in Classes /\ TypedRow(S, r) /\ DOMAIN w[r] = DOMAIN S.rows[r]
             /\ DOMAIN S.rows[r] = DOMAIN Columns[r[1]]
  BY <1>0, <1>1 DEF Typed, TypedRow
<1>3. ASSUME NEW r \in DOMAIN w, gone \in RefersTo(S.rows, r), NEW n \in DOMAIN Columns[r[1]],
             NEW prop, prop = Columns[r[1]][n]
      PROVE  /\ prop \in Properties(r[1]) /\ prop.name = n
             /\ Column(prop, w[r][n]) /\ (prop.kind \notin LinkKinds => w[r][n] = S.rows[r][n])
             /\ prop.kind \in LinkKinds =>
                  /\ KeysIn(prop, w[r][n]) \subseteq KeysIn(prop, S.rows[r][n])
                  /\ prop.target = gone[1] => gone[2] \notin KeysIn(prop, w[r][n])
                  /\ prop.target # gone[1] => Positions(prop, w[r][n]) \subseteq Positions(prop, S.rows[r][n])
  <2> DEFINE v == S.rows[r][n]
             new == w[r][n]
  <2>1. prop \in Properties(r[1]) /\ prop.name = n /\ r[1] \in Classes
    BY <1>2, <1>3, ColumnIsProperty
  <2>2. Column(prop, v)
    BY <1>2, <2>1 DEF TypedRow
  <2>3. new = Nullify(prop, v, gone)
    BY <1>1, <1>2, <1>3
  <2> HIDE DEF v, new
  <2>4. /\ Column(prop, new) /\ (prop.kind \notin LinkKinds => new = v)
        /\ prop.kind \in LinkKinds =>
              /\ KeysIn(prop, new) \subseteq KeysIn(prop, v)
              /\ prop.target = gone[1] => gone[2] \notin KeysIn(prop, new)
              /\ prop.target # gone[1] => Positions(prop, new) \subseteq Positions(prop, v)
    BY <1>0, <2>1, <2>2, <2>3, NullifyFacts
  <2>5. QED
    BY <2>1, <2>4 DEF v, new
<1>4. ASSUME NEW r \in DOMAIN w
      PROVE  TypedRow(Written(S, w), r)
  <2>1. TypedRow(S, r) /\ DOMAIN w[r] = DOMAIN S.rows[r]
    BY <1>2
  <2>2. \A p \in Properties(r[1]) : Column(p, w[r][p.name])
    <3> SUFFICES ASSUME NEW p \in Properties(r[1]) PROVE Column(p, w[r][p.name])
      OBVIOUS
    <3>1. CASE gone \notin RefersTo(S.rows, r)
      BY <1>1, <2>1, <3>1 DEF TypedRow
    <3>2. CASE gone \in RefersTo(S.rows, r)
      <4>1. p.name \in DOMAIN Columns[r[1]] /\ p = Columns[r[1]][p.name]
        BY <1>2, PropertyFacts
      <4>2. QED
        BY <1>3, <3>2, <4>1
    <3>3. QED
      BY <3>1, <3>2
  <2>3. QED
    BY <2>1, <2>2 DEF TypedRow, Written
<1>5. ASSUME NEW r \in DOMAIN w, HasPrimaryKeyProperty(r[1])
      PROVE  PkOf(r[1], w[r]) = PkOf(r[1], S.rows[r])
  <2>1. PICK n \in DOMAIN Columns[r[1]] :
            Columns[r[1]][n].kind = "pk" /\ \A rec : PkOf(r[1], rec) = rec[n]
    BY <1>2, <1>5, PrimaryKeyFacts
  <2>2. w[r][n] = S.rows[r][n]
    <3>1. CASE gone \notin RefersTo(S.rows, r)
      BY <1>1, <3>1
    <3>2. CASE gone \in RefersTo(S.rows, r)
      <4>1. Columns[r[1]][n].kind \notin LinkKinds
        BY <2>1 DEF LinkKinds
      <4>2. QED
        BY <1>3, <3>2, <4>1
    <3>3. QED
      BY <3>1, <3>2
  <2>3. QED
    BY <2>1, <2>2
<1>6. OneKey(w)
  BY <1>0, <1>1, <1>5 DEF OneKey
<1>7. ASSUME NEW r \in DOMAIN w, NEW f \in ReferencesIn(w, r)
      PROVE  /\ <<f[3], f[4]>> \in DOMAIN S.rows /\ <<f[3], f[4]>> # gone
             /\ f[3] \in Embedded => f \in ReferencesIn(S.rows, r)
  <2>0. r \in DOMAIN S.rows /\ RefersTo(S.rows, r) \subseteq DOMAIN S.rows
    BY <1>0, <1>1 DEF Live
  <2>1. CASE gone \notin RefersTo(S.rows, r)
    <3>1. S.rows[r] = w[r]
      BY <1>1, <2>1
    <3> DEFINE old == S.rows
    <3>2. old[r] = w[r]
      BY <3>1
    <3> HIDE DEF old
    <3>3. ReferencesIn(w, r) = ReferencesIn(old, r)
      BY <3>2, SameReferences
    <3>4. <<f[3], f[4]>> \in RefersTo(S.rows, r)
      BY <3>3 DEF old, RefersTo
    <3>5. QED
      BY <2>0, <2>1, <3>3, <3>4 DEF old
  <2>2. CASE gone \in RefersTo(S.rows, r)
    <3>1. PICK n \in LinkColumns[r[1]] : f \in ColumnRefs(r[1], n, w[r][n])
      BY ReferencesAre
    <3> DEFINE c == r[1]
               prop == Columns[c][n]
               v == S.rows[r][n]
               new == w[r][n]
    <3>2. c \in Classes /\ n \in DOMAIN Columns[c] /\ prop.kind \in LinkKinds
      BY <1>2, LinkColumnFacts
    <3>3. /\ KeysIn(prop, new) \subseteq KeysIn(prop, v)
          /\ prop.target = gone[1] => gone[2] \notin KeysIn(prop, new)
          /\ prop.target # gone[1] => Positions(prop, new) \subseteq Positions(prop, v)
      BY <1>3, <2>2, <3>2
    <3>a. \A g \in ColumnRefs(c, n, v) : g \in ReferencesIn(S.rows, r)
      BY ReferencesAre
    <3>b. f \in ColumnRefs(c, n, new)
      BY <3>1
    <3> HIDE DEF v, new
    <3>4. /\ f[3] = prop.target /\ f[4] \in KeysIn(prop, new) /\ f[4] # Null
          /\ f = <<n, f[2], prop.target, f[4]>>
          /\ \E e \in Positions(prop, new) : f[2] = e[1] /\ f[4] = e[2]
      BY <3>b, ColumnRefsFacts
    <3>5. f[4] \in KeysIn(Columns[c][n], v)
      BY <3>3, <3>4
    <3>6. PICK g \in ColumnRefs(c, n, v) : g[4] = f[4]
      BY <3>5, ColumnRefsFacts
    <3>7. g[3] = prop.target /\ g \in ReferencesIn(S.rows, r)
      BY <3>a, <3>6, ColumnRefsFacts
    <3>8. <<f[3], f[4]>> \in RefersTo(S.rows, r)
      BY <3>4, <3>6, <3>7 DEF RefersTo
    <3>9. <<f[3], f[4]>> # gone
      BY <3>3, <3>4
    <3>10. ASSUME f[3] \in Embedded
           PROVE  f \in ReferencesIn(S.rows, r)
      <4>1. prop.target # gone[1]
        BY <3>4, <3>10
      <4>2. PICK e \in Positions(prop, v) : f[2] = e[1] /\ f[4] = e[2]
        BY <3>3, <3>4, <4>1
      <4>3. f \in ColumnRefs(c, n, v)
        BY <3>4, <4>2 DEF ColumnRefs
      <4>4. QED
        BY <3>a, <4>3
    <3>11. QED
      BY <2>0, <3>8, <3>9, <3>10
  <2>3. QED
    BY <2>1, <2>2
<1>8. Live(w)
  <2> SUFFICES ASSUME NEW r \in DOMAIN w, NEW x \in RefersTo(w, r) PROVE x \in DOMAIN w
    BY DEF Live
  <2>1. PICK f \in ReferencesIn(w, r) : x = <<f[3], f[4]>>
    BY DEF RefersTo
  <2>2. QED
    BY <1>1, <1>7, <2>1
<1>9. Sole(w)
  <2> SUFFICES ASSUME NEW r \in DOMAIN w, NEW s \in DOMAIN w,
                      NEW f \in ReferencesIn(w, r), NEW g \in ReferencesIn(w, s),
                      f[3] \in Embedded, f[3] = g[3], f[4] = g[4]
               PROVE  r = s /\ f = g
    BY DEF Sole
  <2>1. f \in ReferencesIn(S.rows, r) /\ g \in ReferencesIn(S.rows, s)
    BY <1>7
  <2>2. QED
    BY <1>0, <1>1, <2>1 DEF Sole
<1>10. QED
  BY <1>1, <1>4, <1>6, <1>8, <1>9

\* Removing a row leaves a sound store, every other top-level row, and as it
\* was what did not refer to the row.
LEMMA RemoveKeeps ==
    ASSUME NEW S, Sound(S), NEW gone \in DOMAIN S.rows, gone[1] \notin Embedded,
           NEW U, U.rows = CoreRemove(S.rows, gone), U.next = S.next
    PROVE  /\ Sound(U)
           /\ \A r \in DOMAIN S.rows : (r[1] \notin Embedded /\ r # gone) =>
                 /\ r \in DOMAIN U.rows
                 /\ gone \notin RefersTo(S.rows, r) => U.rows[r] = S.rows[r]
<1> DEFINE w == Unlinked(S.rows, gone)
           u == Sweep(w)
<1>1. U.rows = u /\ U.next = S.next
  BY DEF CoreRemove
<1>2. w = Unlinked(S.rows, gone)
  OBVIOUS
<1>3. u = Sweep(w)
  OBVIOUS
<1> HIDE DEF w, u
<1>4. /\ DOMAIN w = DOMAIN S.rows \ {gone} /\ Live(w) /\ Sole(w) /\ OneKey(w)
      /\ \A r \in DOMAIN w : TypedRow(Written(S, w), r)
      /\ \A r \in DOMAIN w : gone \notin RefersTo(S.rows, r) => w[r] = S.rows[r]
  BY <1>2, UnlinkedFacts
<1>5. /\ Live(u) /\ Sole(u) /\ Owned(u) /\ DOMAIN u \subseteq DOMAIN w
      /\ \A r \in DOMAIN w : r[1] \notin Embedded => r \in DOMAIN u
      /\ \A r \in DOMAIN u : u[r] = w[r]
  BY <1>3, <1>4, SweepKeeps
<1>6. \A r \in DOMAIN u : TypedRow(Written(S, u), r)
  BY <1>4, <1>5, SweepTypes
<1>7. S.next \in [Classes -> Nat]
  BY DEF Sound, Typed
<1>8. Typed(U)
  BY <1>1, <1>6, <1>7 DEF Typed, TypedRow, Written
<1>9. OneKey(u)
  BY <1>4, <1>5 DEF OneKey
<1>10. Sound(U)
  BY <1>1, <1>5, <1>8, <1>9 DEF Sound
<1>11. QED
  BY <1>1, <1>4, <1>5, <1>10

(* ----- the calls of a program ----- *)

Bounded == ops \in 0..MaxOps /\ \A c \in Classes : next[c] <= MaxKeys

\* An iterator belongs to a set.
Iterating ==
    it = NoIterator \/
        (/\ it.row \in Classes \X Nat /\ it.prop \in Properties(it.row[1])
         /\ it.prop.kind \in {"set", "linkSet"} /\ it.i \in Nat)

Inv == Sound(Store) /\ Bounded /\ Iterating

RowsChange ==
    \A r \in DOMAIN rows :
        \/ r[1] \in Embedded
        \/ r \in DOMAIN rows' /\ rows'[r] = rows[r]
        \/ r = last'.row
        \/ last'.op = "remove" /\ last'.row \in RefersTo(rows, r) /\ r \in DOMAIN rows'
        \/ /\ HasPrimaryKeyProperty(r[1])
           /\ <<r[1], PkOf(r[1], rows[r])>> \in last'.names
           /\ r \in DOMAIN rows'

\* What every call does.
StoreStep == Sound(Store)' /\ Bounded' /\ RowsChange

\* The store between calls.
LEMMA StoreIs == Store.rows = rows /\ Store.next = next /\ Store.ok = TRUE
BY DEF Store

\* What a call that returns leaves behind.
LEMMA ReturnIs ==
    ASSUME NEW U, Sound(U), Inv, ops < MaxOps, NEW op, NEW r, NEW names, NEW key,
           Return(U, Call(op, r, names, key))
    PROVE  /\ rows' = U.rows /\ next' = U.next /\ Sound(Store)' /\ Bounded'
           /\ last'.op = op /\ last'.row = r /\ last'.names = names /\ last'.key = key /\ last'.ok = U.ok
<1>1. /\ \A c \in Classes : U.next[c] <= MaxKeys
      /\ rows' = U.rows /\ next' = U.next /\ ops' = ops + 1
      /\ last' = [Call(op, r, names, key) EXCEPT !.ok = U.ok]
  BY DEF Return
<1>2. last'.op = op /\ last'.row = r /\ last'.names = names /\ last'.key = key /\ last'.ok = U.ok
  BY <1>1 DEF Call
<1>3. Bounded'
  BY <1>1, BoundsAssumption DEF Inv, Bounded
<1>4. Store'.rows = U.rows /\ Store'.next = U.next
  BY <1>1 DEF Store
<1>5. Sound(Store)'
  BY <1>4 DEF Sound, Typed, TypedRow
<1>6. QED
  BY <1>1, <1>2, <1>3, <1>5

\* A call on the store is a step that keeps the invariant.
LEMMA DoneSteps ==
    ASSUME Inv, ops < MaxOps, NEW U, NEW op, NEW r, NEW names, NEW key,
           Return(U, Call(op, r, names, key)), Does(Store, U, r, names)
    PROVE  StoreStep
<1>1. Sound(U) /\ Keeps(Store, U, Writable(Store, r, names))
  BY DEF Does
<1>2. /\ rows' = U.rows /\ Sound(Store)' /\ Bounded' /\ last'.row = r /\ last'.names = names
  BY <1>1, ReturnIs
<1>3. Sound(Store) /\ Store.rows = rows
  BY StoreIs DEF Inv
<1>4. ASSUME NEW w \in DOMAIN rows, w[1] \notin Embedded
      PROVE  \/ w \in DOMAIN rows' /\ rows'[w] = rows[w]
             \/ w = r
             \/ /\ HasPrimaryKeyProperty(w[1])
                /\ <<w[1], PkOf(w[1], rows[w])>> \in names
                /\ w \in DOMAIN rows'
  <2>1. w \in DOMAIN Store.rows /\ w \in Classes \X Nat
    BY <1>3, RowIsTyped
  <2>2. w \in DOMAIN U.rows /\ (w \notin Writable(Store, r, names) => U.rows[w] = Store.rows[w])
    BY <1>1, <1>4, <2>1 DEF Keeps
  <2>3. w \in Writable(Store, r, names) =>
            w = r \/ (HasPrimaryKeyProperty(w[1]) /\ <<w[1], PkOf(w[1], rows[w])>> \in names)
    BY <1>3, <1>4, <2>1 DEF Writable
  <2>4. QED
    BY <1>2, <1>3, <2>2, <2>3
<1>5. RowsChange
  BY <1>2, <1>4 DEF RowsChange
<1>6. QED
  BY <1>2, <1>5 DEF StoreStep

\* A call that does nothing.
LEMMA StaySteps ==
    ASSUME Inv, ops < MaxOps, NEW op, NEW r, NEW names, NEW key
    PROVE  /\ Return(Store, Call(op, r, names, key)) => StoreStep
           /\ Return(Throw(Store), Call(op, r, names, key)) => StoreStep
<1>1. Does(Store, Store, r, names) /\ Does(Store, Throw(Store), r, names)
  BY StayDoes DEF Inv
<1>2. QED
  BY <1>1, DoneSteps

\* A call that writes one property.
LEMMA WroteSteps ==
    ASSUME Inv, ops < MaxOps, NEW r \in DOMAIN rows, NEW prop, NEW v, NEW U,
           Wrote(Store, U, r, prop, v), NEW op, NEW names, NEW key, Return(U, Call(op, r, names, key))
    PROVE  StoreStep
<1>1. Sound(Store) /\ r \in DOMAIN Store.rows
  BY StoreIs DEF Inv
<1>2. Does(Store, U, r, names)
  BY <1>1, WroteDoes
<1>3. QED
  BY <1>2, DoneSteps

\* A call that writes one property with a value that suits it.
LEMMA WriteSteps ==
    ASSUME Inv, ops < MaxOps, NEW r \in DOMAIN rows, NEW prop \in Properties(r[1]), NEW v,
           Suits(Store, r, prop, v), NEW op, NEW names, NEW key,
           Return(ObjSet(Store, r, prop, v), Call(op, r, names, key))
    PROVE  StoreStep
<1>1. Sound(Store) /\ r \in DOMAIN Store.rows
  BY StoreIs DEF Inv
<1>2. Wrote(Store, ObjSet(Store, r, prop, v), r, prop, v)
  BY <1>1, SuitingWrite
<1>3. QED
  BY <1>2, WroteSteps

\* A call that carries out its work to the end.
LEMMA RunSteps ==
    ASSUME Inv, ops < MaxOps, NEW op, NEW r, NEW names, NEW key, NEW ps, NEW ws,
           ws = Writable(Store, r, names), Ready(Store, ps, ws, Store),
           NEW T, Goes(Store, ps, ws, Store, T), Finish(T, Call(op, r, names, key))
    PROVE  StoreStep
<1>1. Return(Run(T).s, Call(op, r, names, key))
  BY DEF Finish, ReturnWhenDone
<1>2. Does(Store, Run(T).s, r, names)
  BY RunDoes
<1>3. QED
  BY <1>1, <1>2, DoneSteps

\* remove() clears the links to the row, and what it owned goes with it.
LEMMA RemoveSteps ==
    ASSUME Inv, ops < MaxOps, NEW gone \in DOMAIN rows, RemoveObject(gone)
    PROVE  StoreStep
<1> DEFINE S == Store
           U == [S EXCEPT !.rows = CoreRemove(@, gone)]
           call == Call("remove", gone, {}, Null)
<1>1. gone[1] \notin Embedded /\ Return(U, call)
  BY DEF RemoveObject
<1>2. S.rows = rows /\ S.next = next /\ Sound(S) /\ gone \in DOMAIN S.rows
  BY StoreIs DEF Inv
<1>3. U.rows = CoreRemove(S.rows, gone) /\ U.next = S.next
  BY DEF Store
<1> HIDE DEF S, U
<1>4. /\ Sound(U)
      /\ \A r \in DOMAIN S.rows : (r[1] \notin Embedded /\ r # gone) =>
            /\ r \in DOMAIN U.rows
            /\ gone \notin RefersTo(S.rows, r) => U.rows[r] = S.rows[r]
  BY <1>1, <1>2, <1>3, RemoveKeeps
<1>5. /\ rows' = U.rows /\ Sound(Store)' /\ Bounded' /\ last'.row = gone /\ last'.op = "remove"
  BY <1>1, <1>4, ReturnIs
<1>6. RowsChange
  BY <1>2, <1>4, <1>5 DEF RowsChange
<1>7. QED
  BY <1>5, <1>6 DEF StoreStep

\* What may be written to each kind of property.
LEMMA SuitsPlain ==
    ASSUME NEW S, NEW r, NEW prop, NEW v, prop.kind \notin LinkKinds, prop.kind # "pk", Column(prop, v)
    PROVE  Suits(S, r, prop, v)
BY DEF Suits, Owns

\* Some of the references a property has may be left.
LEMMA SuitsFewer ==
    ASSUME NEW S, Sound(S), NEW r \in DOMAIN S.rows, NEW prop \in Properties(r[1]), NEW v,
           prop.kind \in LinkKinds, Column(prop, v), NEW old, old = S.rows[r][prop.name],
           KeysIn(prop, v) \subseteq KeysIn(prop, old), Distinct(prop, old) => Distinct(prop, v)
    PROVE  Suits(S, r, prop, v)
<1>1. r[1] \in Classes /\ \E x : SoundBut(S, x)
  BY FreshRow, RowIsTyped
<1>2. /\ \A k \in KeysIn(prop, old) : <<prop.target, k>> \in DOMAIN S.rows
      /\ Owns(prop) => Distinct(prop, old)
  BY <1>1, OldFacts
<1>3. prop.kind # "pk"
  BY DEF LinkKinds
<1>4. QED
  BY <1>2, <1>3 DEF Suits

\* All of them may be.
LEMMA SuitsNone ==
    ASSUME NEW S, NEW r, NEW prop, NEW v, prop.kind \in LinkKinds, Column(prop, v), KeysIn(prop, v) = {},
           Distinct(prop, v)
    PROVE  Suits(S, r, prop, v)
BY DEF Suits, LinkKinds

\* What a property of a live row holds.
LEMMA HeldFacts ==
    ASSUME NEW S, Sound(S), NEW r \in DOMAIN S.rows, NEW prop \in Properties(r[1])
    PROVE  /\ r[1] \in Classes /\ prop.kind \in Kinds /\ Column(prop, S.rows[r][prop.name])
           /\ (prop.kind \in LinkKinds => prop.target \in Classes)
           /\ (prop.kind = "linkSet" => prop.target \notin Embedded)
<1>1. r[1] \in Classes /\ \E x : SoundBut(S, x)
  BY FreshRow, RowIsTyped
<1> DEFINE old == S.rows[r][prop.name]
<1>2. Column(prop, old)
  <2>1. old = S.rows[r][prop.name]
    OBVIOUS
  <2> HIDE DEF old
  <2>2. QED
    BY <2>1, <1>1, OldFacts
<1>3. QED
  BY <1>1, <1>2, PropertyFacts

(* ----- scalars and links ----- *)

\* What a managed value is, in a state of the program.
LEMMA ValueIs ==
    ASSUME Inv, NEW r \in DOMAIN rows, NEW prop \in Properties(r[1])
    PROVE  /\ Sound(Store) /\ Store.rows = rows /\ Store.next = next /\ r \in DOMAIN Store.rows
           /\ r \in Classes \X Nat /\ r[1] \in Classes
           /\ prop.kind \in Kinds /\ Column(prop, rows[r][prop.name])
           /\ (prop.kind \in LinkKinds => prop.target \in Classes)
           /\ (prop.kind = "linkSet" => prop.target \notin Embedded)
<1>1. Sound(Store) /\ Store.rows = rows /\ Store.next = next
  BY StoreIs DEF Inv
<1> DEFINE S == Store
<1>2. Sound(S) /\ S.rows = rows /\ r \in DOMAIN S.rows
  BY <1>1
<1> HIDE DEF S
<1>3. /\ r[1] \in Classes /\ prop.kind \in Kinds /\ Column(prop, S.rows[r][prop.name])
      /\ (prop.kind \in LinkKinds => prop.target \in Classes)
      /\ (prop.kind = "linkSet" => prop.target \notin Embedded)
      /\ r \in Classes \X Nat
  BY <1>2, HeldFacts, RowIsTyped
<1>4. QED
  BY <1>1, <1>2, <1>3

\* A property without references.
LEMMA PlainSteps ==
    ASSUME Inv, ops < MaxOps, NEW r \in DOMAIN rows, NEW prop \in Properties(r[1]), NEW v,
           prop.kind \notin LinkKinds, prop.kind # "pk", Column(prop, v), NEW op, NEW names, NEW key,
           Return(ObjSet(Store, r, prop, v), Call(op, r, names, key))
    PROVE  StoreStep
<1>1. Suits(Store, r, prop, v)
  BY SuitsPlain
<1>2. QED
  BY <1>1, WriteSteps

\* Assignment of a scalar, number or string.
LEMMA AssignSteps ==
    ASSUME Inv, ops < MaxOps, NEW r \in DOMAIN rows, NEW prop \in Properties(r[1]),
           NEW v \in Numbers \cup {Null}, Assign(r, prop, v)
    PROVE  StoreStep
<1>1. prop.kind \in {"number", "value"} /\ Return(ObjSet(Store, r, prop, v), Call("assign", r, {}, Null))
  BY DEF Assign, ObjSetNull
<1>2. Column(prop, v)
  BY <1>1, BoundsAssumption DEF Column, ListKinds, ValueLists
<1>3. prop.kind \notin LinkKinds /\ prop.kind # "pk"
  BY <1>1 DEF LinkKinds
<1>4. QED
  BY <1>1, <1>2, <1>3, PlainSteps

\* A link is set to null.
LEMMA NullSteps ==
    ASSUME Inv, ops < MaxOps, NEW r \in DOMAIN rows, NEW prop \in Properties(r[1]), prop.kind = "link",
           NEW op, NEW names, NEW key, Return(ObjSetNull(Store, r, prop), Call(op, r, names, key))
    PROVE  StoreStep
<1> DEFINE v == Null
<1>1. Column(prop, v)
  BY DEF Column, ListKinds, ValueLists
<1>2. KeysIn(prop, v) = {} /\ Distinct(prop, v)
  <2>1. \A w : KeysIn(prop, w) = {w} \ {Null} /\ Distinct(prop, w)
    BY LinkFacts
  <2>2. QED
    BY <2>1
<1>3. Return(ObjSet(Store, r, prop, v), Call(op, r, names, key))
  BY DEF ObjSetNull
<1>4. prop.kind \in LinkKinds
  BY DEF LinkKinds
<1> HIDE DEF v
<1>5. Suits(Store, r, prop, v)
  BY <1>1, <1>2, <1>4, SuitsNone
<1>6. QED
  BY <1>3, <1>5, WriteSteps

\* A link is set to a key.
LEMMA KeySteps ==
    ASSUME Inv, ops < MaxOps, NEW r \in DOMAIN rows, NEW prop \in Properties(r[1]), prop.kind = "link",
           NEW k, NEW op, NEW names, NEW key, Return(ObjSetKey(Store, r, prop, k), Call(op, r, names, key))
    PROVE  StoreStep
<1>1. Sound(Store) /\ Store.rows = rows
  BY ValueIs
<1>2. CASE <<prop.target, k>> \notin DOMAIN Store.rows \/ prop.target \in Embedded
  <2>1. Return(Throw(Store), Call(op, r, names, key))
    BY <1>2 DEF ObjSetKey
  <2>2. QED
    BY <2>1, StaySteps
<1>3. CASE <<prop.target, k>> \in DOMAIN Store.rows /\ prop.target \notin Embedded
  <2>1. Return(ObjSet(Store, r, prop, k), Call(op, r, names, key))
    BY <1>3 DEF ObjSetKey
  <2> DEFINE x == <<prop.target, k>>
  <2>2. x \in Classes \X Nat
    <3>1. x \in DOMAIN Store.rows
      BY <1>3
    <3> HIDE DEF x
    <3>2. QED
      BY <3>1, <1>1, RowIsTyped
  <2>3. k \in Nat
    BY <2>2
  <2>4. Column(prop, k)
    BY <2>3 DEF Column, ListKinds, ValueLists
  <2>5. \A m \in KeysIn(prop, k) : m = k
    BY LinkFacts
  <2>6. Suits(Store, r, prop, k)
    BY <1>3, <2>4, <2>5 DEF Suits, Owns
  <2>7. QED
    BY <2>1, <2>6, WriteSteps
<1>4. QED
  BY <1>2, <1>3

\* The objects of a pointer are written, and what refers to it.
LEMMA PointerIsReady ==
    ASSUME Inv, NEW p \in Pointers, NEW r, NEW ws, ws = Writable(Store, r, Named[p]), NEW ps, ps = Reached(p)
    PROVE  Ready(Store, ps, ws, Store) /\ p \in ps /\ Closed(ps)
<1>1. p \in ps /\ Closed(ps) /\ Sound(Store)
  BY ReachedFacts DEF Inv
<1>2. Tells(Named[p], ps)
  BY NamedTells
<1> DEFINE S == Store
           names == Named[p]
<1>3. ws = Writable(S, r, names) /\ Tells(names, ps) /\ Sound(S)
  BY <1>1, <1>2
<1> HIDE DEF S, names
<1>4. Ready(S, ps, ws, S)
  BY <1>1, <1>3, CallIsReady
<1>5. QED
  BY <1>1, <1>4 DEF S

\* Calls that make one element and attach it first.
LEMMA AttachFirstSteps ==
    ASSUME Inv, ops < MaxOps, NEW r \in DOMAIN rows, NEW prop \in Properties(r[1]), prop.kind \in LinkKinds,
           NEW p \in PointersTo(prop.target), NEW at, Place(prop, rows[r][prop.name], at), NEW op, NEW key,
           Finish(AttachFirst(RowFor(Store, p), p, r, prop, at), Call(op, r, Named[p], key))
    PROVE  StoreStep
<1> DEFINE S == Store
           ps == Reached(p)
           names == Named[p]
           ws == Writable(S, r, names)
           T == AttachFirst(RowFor(S, p), p, r, prop, at)
<1>1. p \in Pointers /\ prop.target = ClassOf[p]
  BY DEF PointersTo
<1>2. Ready(S, ps, ws, S) /\ p \in ps
  BY <1>1, PointerIsReady
<1>3. S.rows = rows /\ r \in Classes \X Nat
  BY ValueIs
<1>4. r \in ws
  BY <1>3 DEF Writable
<1>5. Finish(T, Call(op, r, names, key)) /\ T = AttachFirst(RowFor(S, p), p, r, prop, at)
      /\ ws = Writable(Store, r, names) /\ S = Store
  OBVIOUS
<1> HIDE DEF S, ps, ws, T, names
<1>6. Fitting(S, ws, r, prop, at, p)
  BY <1>1, <1>3, <1>4 DEF Fitting
<1>7. Goes(S, ps, ws, S, T)
  BY <1>2, <1>5, <1>6, AttachFirstGoes
<1>8. QED
  BY <1>2, <1>5, <1>7, RunSteps

\* Assignment of an unmanaged object to a link.
LEMMA LinkPointerSteps ==
    ASSUME Inv, ops < MaxOps, NEW r \in DOMAIN rows, NEW prop \in Properties(r[1]),
           NEW p \in PointersTo(prop.target) \cup {Null}, LinkAssignPointer(r, prop, p)
    PROVE  StoreStep
<1>1. /\ prop.kind = "link"
      /\ Finish(IF p = Null THEN Done(ObjSetNull(Store, r, prop)) ELSE AccessorLink(Store, r, prop, p),
                Call("link", r, IF p = Null THEN {} ELSE Named[p], Null))
  BY DEF LinkAssignPointer
<1>2. CASE p = Null
  <2> DEFINE U == ObjSetNull(Store, r, prop)
             D == Done(U)
             call == Call("link", r, {}, Null)
  <2>1. Finish(D, call)
    BY <1>1, <1>2
  <2>2. D.s = U /\ D.todo = <<>>
    BY DEF Done
  <2> HIDE DEF D, U
  <2>3. Run(D) = D
    BY <2>2, DoneRuns
  <2>4. Return(U, call)
    BY <2>1, <2>2, <2>3 DEF Finish, ReturnWhenDone
  <2>5. QED
    BY <1>1, <2>4, NullSteps DEF U
<1>3. CASE p # Null
  <2>1. Finish(AttachFirst(RowFor(Store, p), p, r, prop, Null), Call("link", r, Named[p], Null))
    BY <1>1, <1>3 DEF AccessorLink
  <2>2. Place(prop, rows[r][prop.name], Null) /\ prop.kind \in LinkKinds
    BY <1>1 DEF Place, LinkKinds
  <2>3. p \in PointersTo(prop.target)
    BY <1>3
  <2>4. QED
    BY <2>1, <2>2, <2>3, AttachFirstSteps
<1>4. QED
  BY <1>2, <1>3

(* ----- lists ----- *)

\* Lists hold keys and numbers.
LEMMA ListColumn ==
    ASSUME NEW prop, prop.kind \in ListKinds, NEW v
    PROVE  Column(prop, v) <=> v \in Seq(Nat)
<1>1. ~(prop.kind \in {"set", "linkSet", "map", "linkMap", "pk"})
  BY DEF ListKinds, ValueLists
<1>2. QED
  BY <1>1 DEF Column

\* An element of a list or set is made.
LEMMA ElementSteps ==
    ASSUME Inv, ops < MaxOps, NEW r \in DOMAIN rows, NEW prop \in Properties(r[1]),
           prop.kind \in {"linkList", "linkSet"}, NEW p \in PointersTo(prop.target),
           NEW at \in Nat \cup {Null}, prop.kind = "linkList" => at \in Nat, NEW op, NEW key,
           Finish(Element(Store, r, prop, at, p), Call(op, r, Named[p], key))
    PROVE  StoreStep
<1> DEFINE S == Store
           ps == Reached(p)
           names == Named[p]
           ws == Writable(S, r, names)
           T == Element(S, r, prop, at, p)
           t == MakeElement(r, prop, at, p)
<1>1. p \in Pointers /\ prop.target = ClassOf[p]
  BY DEF PointersTo
<1>2. Ready(S, ps, ws, S) /\ p \in ps
  BY <1>1, PointerIsReady
<1>3. S.rows = rows /\ r \in Classes \X Nat /\ r[1] \in Classes
  BY ValueIs
<1>4. r \in ws
  BY <1>3 DEF Writable
<1>5. Finish(T, Call(op, r, names, key)) /\ ws = Writable(Store, r, names) /\ S = Store
  OBVIOUS
<1>6. t.do = "make" /\ t.row = r /\ t.prop = prop /\ t.at = at /\ t.from = p
  BY DEF MakeElement
<1>7. t \in Tasks
  BY <1>1, <1>3 DEF MakeElement, Tasks
<1>8. T = Element(S, t.row, t.prop, t.at, t.from)
  BY <1>6
<1> HIDE DEF S, ps, ws, T, names, t
<1>9. Fair(S, ps, ws, t)
  BY <1>1, <1>2, <1>4, <1>6 DEF Fair, Many
<1>10. t \in Work(S, ps, ws) /\ t.row \in DOMAIN S.rows
  BY <1>3, <1>6, <1>7, <1>9 DEF Work
<1>11. Goes(S, ps, ws, S, T)
  BY <1>2, <1>6, <1>8, <1>10, MakeGoes
<1>12. QED
  BY <1>2, <1>5, <1>11, RunSteps

\* A key of a live row is attached.
LEMMA AttachSteps ==
    ASSUME Inv, ops < MaxOps, NEW r \in DOMAIN rows, NEW prop \in Properties(r[1]), prop.kind \in LinkKinds,
           prop.target \notin Embedded, NEW k, <<prop.target, k>> \in DOMAIN rows,
           NEW at, Place(prop, rows[r][prop.name], at), NEW op, NEW names, NEW key,
           Return(Attach(Store, r, prop, at, k), Call(op, r, names, key))
    PROVE  StoreStep
<1> DEFINE S == Store
           x == <<prop.target, k>>
           v == WithKey(prop, S.rows[r][prop.name], at, k)
           U == Attach(S, r, prop, at, k)
<1>1. Sound(S) /\ S.rows = rows
  BY ValueIs
<1>2. x \in Classes \X Nat
  <2>1. x \in DOMAIN S.rows
    BY <1>1
  <2> HIDE DEF x, S
  <2>2. QED
    BY <2>1, <1>1, RowIsTyped
<1>3. k \in Nat
  BY <1>2
<1>4. Return(U, Call(op, r, names, key))
  OBVIOUS
<1>5. Wrote(S, U, r, prop, v)
  <2> HIDE DEF S
  <2>1. QED
    BY <1>1, <1>3, PlainAttach
<1> HIDE DEF v, U
<1>6. QED
  BY <1>4, <1>5, WroteSteps

\* push_back() of a value.
LEMMA ListPushSteps ==
    ASSUME Inv, ops < MaxOps, NEW r \in DOMAIN rows, NEW prop \in Properties(r[1]), NEW v \in Numbers,
           ListPush(r, prop, v)
    PROVE  StoreStep
<1> DEFINE old == rows[r][prop.name]
           new == Append(old, v)
<1>1. prop.kind \in ValueLists /\ Return(ObjSet(Store, r, prop, new), Call("list", r, {}, Null))
  BY StoreIs DEF ListPush, ListAdd, ObjGet
<1>2. Column(prop, old)
  BY ValueIs
<1> HIDE DEF old
<1>3. old \in Seq(Nat) /\ v \in Nat
  <2>1. prop.kind \in ListKinds
    BY <1>1 DEF ListKinds
  <2>2. QED
    BY <1>2, <2>1, BoundsAssumption, ListColumn
<1>4. new \in Seq(Nat)
  BY <1>3, AppendProperties
<1> HIDE DEF new
<1>5. Column(prop, new)
  <2>1. prop.kind \in ListKinds
    BY <1>1 DEF ListKinds
  <2>2. QED
    BY <1>4, <2>1, ListColumn
<1>6. prop.kind \notin LinkKinds /\ prop.kind # "pk"
  BY <1>1 DEF LinkKinds, ValueLists
<1>7. QED
  BY <1>1, <1>5, <1>6, PlainSteps

\* push_back() of an unmanaged object.
LEMMA ListPushPointerSteps ==
    ASSUME Inv, ops < MaxOps, NEW r \in DOMAIN rows, NEW prop \in Properties(r[1]),
           NEW p \in PointersTo(prop.target), ListPushPointer(r, prop, p)
    PROVE  StoreStep
<1> DEFINE old == rows[r][prop.name]
           at == Len(old)
<1>1. /\ prop.kind = "linkList"
      /\ Finish(ListElement(Store, r, prop, at, p), Call("list", r, Named[p], Null))
  BY DEF ListPushPointer
<1>2. Column(prop, old)
  BY ValueIs
<1> HIDE DEF old
<1>3. at \in Nat
  <2>1. old \in Seq(Nat)
    <3>1. prop.kind \in ListKinds
      BY <1>1 DEF ListKinds
    <3>2. QED
      BY <1>2, <3>1, ListColumn
  <2>2. QED
    BY <2>1, LenProperties
<1> HIDE DEF at
<1>4. Finish(Element(Store, r, prop, at, p), Call("list", r, Named[p], Null))
  BY <1>1 DEF Element
<1>5. QED
  BY <1>1, <1>3, <1>4, ElementSteps

\* push_back() of a managed object.
LEMMA ListPushManagedSteps ==
    ASSUME Inv, ops < MaxOps, NEW r \in DOMAIN rows, NEW prop \in Properties(r[1]), NEW k,
           ListPushManaged(r, prop, k)
    PROVE  StoreStep
<1>1. /\ prop.kind = "linkList"
      /\ Return(IF <<prop.target, k>> \notin DOMAIN rows \/ prop.target \in Embedded
                THEN Throw(Store) ELSE ListAdd(Store, r, prop, k), Call("list", r, {}, Null))
  BY DEF ListPushManaged
<1>2. CASE <<prop.target, k>> \notin DOMAIN rows \/ prop.target \in Embedded
  <2>1. Return(Throw(Store), Call("list", r, {}, Null))
    BY <1>1, <1>2
  <2>2. QED
    BY <2>1, StaySteps
<1>3. CASE <<prop.target, k>> \in DOMAIN rows /\ prop.target \notin Embedded
  <2>1. ListAdd(Store, r, prop, k) = Attach(Store, r, prop, Null, k)
    BY <1>1, <1>3 DEF ListAdd, Attach
  <2>2. Return(Attach(Store, r, prop, Null, k), Call("list", r, {}, Null))
    BY <1>1, <1>3, <2>1
  <2>3. Place(prop, rows[r][prop.name], Null) /\ prop.kind \in LinkKinds
    BY <1>1, <1>3 DEF Place, LinkKinds
  <2>4. QED
    BY <1>3, <2>2, <2>3, AttachSteps
<1>4. QED
  BY <1>2, <1>3

\* A list that holds some of what it held, once each if it was so, or none.
LEMMA ShorterSteps ==
    ASSUME Inv, ops < MaxOps, NEW r \in DOMAIN rows, NEW prop \in Properties(r[1]),
           prop.kind \in ListKinds, NEW v \in Seq(Nat), NEW old, old = rows[r][prop.name],
           Values(v) \subseteq Values(old), NoneTwice(old) => NoneTwice(v),
           NEW op, NEW names, NEW key, Return(ObjSet(Store, r, prop, v), Call(op, r, names, key))
    PROVE  StoreStep
<1>1. Column(prop, v)
  BY ListColumn
<1>2. CASE prop.kind \in ValueLists
  <2>1. prop.kind \notin LinkKinds /\ prop.kind # "pk"
    BY <1>2 DEF LinkKinds, ValueLists
  <2>2. QED
    BY <1>1, <2>1, PlainSteps
<1>3. CASE prop.kind = "linkList"
  <2>1. \A w : KeysIn(prop, w) = Values(w) \ {Null} /\ (Distinct(prop, w) <=> NoneTwice(w))
    BY <1>3, LinkManyFacts
  <2>2. KeysIn(prop, v) \subseteq KeysIn(prop, old) /\ (Distinct(prop, old) => Distinct(prop, v))
    BY <2>1
  <2>3. /\ Sound(Store) /\ r \in DOMAIN Store.rows /\ old = Store.rows[r][prop.name]
        /\ prop.kind \in LinkKinds
    BY <1>3, ValueIs DEF LinkKinds
  <2>4. Suits(Store, r, prop, v)
    BY <1>1, <2>2, <2>3, SuitsFewer
  <2>5. QED
    BY <2>4, WriteSteps
<1>4. QED
  BY <1>2, <1>3 DEF ListKinds

\* Removal of an element of a list.
LEMMA ListRemoveSteps ==
    ASSUME Inv, ops < MaxOps, NEW r \in DOMAIN rows, NEW prop \in Properties(r[1]),
           prop.kind \in ListKinds, NEW i, NEW op, ListRemoveAt(r, prop, i, op)
    PROVE  StoreStep
<1> DEFINE old == rows[r][prop.name]
           v == RemoveAt(old, i)
<1>1. Return(IF i \in DOMAIN old THEN ObjSet(Store, r, prop, v) ELSE Throw(Store), Call(op, r, {}, Null))
  BY DEF ListRemoveAt
<1>2. Column(prop, old)
  BY ValueIs
<1>3. old = rows[r][prop.name]
  OBVIOUS
<1> HIDE DEF old
<1>4. CASE i \notin DOMAIN old
  <2>1. Return(Throw(Store), Call(op, r, {}, Null))
    BY <1>1, <1>4
  <2>2. QED
    BY <2>1, StaySteps
<1>5. CASE i \in DOMAIN old
  <2> DEFINE X == Nat
  <2>1. old \in Seq(X)
    BY <1>2, ListColumn
  <2> HIDE DEF X
  <2>2. i \in 1..Len(old) /\ Len(old) \in Nat /\ DOMAIN old = 1..Len(old)
    BY <1>5, <2>1, LenProperties
  <2>3. /\ v \in Seq(X) /\ Len(v) = Len(old) - 1
        /\ \A j \in 1..Len(old) - 1 : v[j] = old[IF j < i THEN j ELSE j + 1]
    BY <2>1, <2>2, RemoveFacts
  <2> HIDE DEF v
  <2>4. DOMAIN v = 1..Len(old) - 1
    BY <2>3, LenProperties
  <2>5. \A j \in DOMAIN v : (IF j < i THEN j ELSE j + 1) \in DOMAIN old
    BY <2>2, <2>4
  <2>6. Values(v) \subseteq Values(old)
    BY <2>3, <2>4, <2>5 DEF Values
  <2>7. NoneTwice(old) => NoneTwice(v)
    <3> SUFFICES ASSUME NoneTwice(old), NEW j \in DOMAIN v, NEW m \in DOMAIN v, v[j] = v[m], v[j] # Null
                 PROVE  j = m
      BY DEF NoneTwice
    <3> DEFINE a == IF j < i THEN j ELSE j + 1
               b == IF m < i THEN m ELSE m + 1
    <3>1. a \in DOMAIN old /\ b \in DOMAIN old /\ v[j] = old[a] /\ v[m] = old[b]
      BY <2>3, <2>4, <2>5
    <3>2. a = b => j = m
      BY <2>2, <2>4
    <3> HIDE DEF a, b
    <3>3. QED
      BY <3>1, <3>2 DEF NoneTwice
  <2>8. v \in Seq(Nat) /\ Return(ObjSet(Store, r, prop, v), Call(op, r, {}, Null))
    BY <1>1, <1>5, <2>3 DEF X
  <2>9. QED
    BY <1>3, <2>6, <2>7, <2>8, ShorterSteps
<1>6. QED
  BY <1>4, <1>5

\* Removal of all of them.
LEMMA ListClearSteps ==
    ASSUME Inv, ops < MaxOps, NEW r \in DOMAIN rows, NEW prop \in Properties(r[1]), ListClear(r, prop)
    PROVE  StoreStep
<1> DEFINE v == <<>>
           old == rows[r][prop.name]
<1>1. prop.kind \in ListKinds /\ Return(ObjSet(Store, r, prop, v), Call("list", r, {}, Null))
  BY DEF ListClear
<1>2. v \in Seq(Nat) /\ DOMAIN v = {} /\ old = rows[r][prop.name]
  OBVIOUS
<1> HIDE DEF v, old
<1>3. Values(v) \subseteq Values(old) /\ (NoneTwice(old) => NoneTwice(v))
  BY <1>2 DEF Values, NoneTwice
<1>4. QED
  BY <1>1, <1>2, <1>3, ShorterSteps

\* set() of an element of a list.
LEMMA ListSetSteps ==
    ASSUME Inv, ops < MaxOps, NEW r \in DOMAIN rows, NEW prop \in Properties(r[1]), NEW i, NEW x \in Numbers,
           ListSet(r, prop, i, x)
    PROVE  StoreStep
<1> DEFINE old == rows[r][prop.name]
           v == [old EXCEPT ![i] = x]
<1>1. /\ prop.kind \in ListKinds \ {"linkList"}
      /\ Return(IF i \in DOMAIN old THEN ObjSet(Store, r, prop, v) ELSE Throw(Store), Call("list", r, {}, Null))
  BY DEF ListSet
<1>2. Column(prop, old)
  BY ValueIs
<1> HIDE DEF old
<1>3. CASE i \notin DOMAIN old
  <2>1. Return(Throw(Store), Call("list", r, {}, Null))
    BY <1>1, <1>3
  <2>2. QED
    BY <2>1, StaySteps
<1>4. CASE i \in DOMAIN old
  <2>1. old \in Seq(Nat) /\ x \in Nat
    BY <1>1, <1>2, BoundsAssumption, ListColumn
  <2>2. i \in 1..Len(old)
    BY <1>4, <2>1, LenProperties
  <2>3. v \in Seq(Nat)
    BY <2>1, <2>2, ExceptSeq
  <2> HIDE DEF v
  <2>4. Column(prop, v)
    BY <1>1, <2>3, ListColumn
  <2>5. prop.kind \notin LinkKinds /\ prop.kind # "pk"
    BY <1>1 DEF LinkKinds, ListKinds, ValueLists
  <2>6. Return(ObjSet(Store, r, prop, v), Call("list", r, {}, Null))
    BY <1>1, <1>4
  <2>7. QED
    BY <2>4, <2>5, <2>6, PlainSteps
<1>5. QED
  BY <1>3, <1>4

(* ----- sets ----- *)

\* Sets hold keys and numbers, finitely many.
LEMMA SetColumn ==
    ASSUME NEW prop, prop.kind \in {"set", "linkSet"}, NEW v, Column(prop, v)
    PROVE  v \in SUBSET Nat /\ IsFiniteSet(v)
<1>1. ~(prop.kind \in ListKinds)
  BY DEF ListKinds, ValueLists
<1>2. QED
  BY <1>1 DEF Column

\* Every such set may be a value.
LEMMA ColumnOfSet ==
    ASSUME NEW prop, prop.kind \in {"set", "linkSet"}, NEW v \in SUBSET Nat, IsFiniteSet(v)
    PROVE  Column(prop, v)
<1>1. ~(prop.kind \in ListKinds)
  BY DEF ListKinds, ValueLists
<1>2. QED
  BY <1>1 DEF Column

\* insert() of a value into a set.
LEMMA SetInsertValueSteps ==
    ASSUME Inv, ops < MaxOps, NEW r \in DOMAIN rows, NEW prop \in Properties(r[1]), NEW v \in Numbers,
           SetInsertValue(r, prop, v)
    PROVE  StoreStep
<1> DEFINE held == rows[r][prop.name]
           more == held \cup {v}
<1>1. prop.kind = "set" /\ Return(ObjSet(Store, r, prop, more), Call("set insert", r, {}, v))
  BY StoreIs DEF SetInsertValue, SetInsert, ObjGet
<1>2. Column(prop, held)
  BY ValueIs
<1> HIDE DEF held
<1>3. more \in SUBSET Nat /\ IsFiniteSet(more)
  <2>0. prop.kind \in {"set", "linkSet"}
    BY <1>1
  <2>1. held \subseteq Nat /\ IsFiniteSet(held) /\ v \in Nat
    BY <1>2, <2>0, SetColumn, BoundsAssumption
  <2>2. QED
    BY <2>1, FS_AddElement
<1> HIDE DEF more
<1>4. Column(prop, more)
  <2>1. prop.kind \in {"set", "linkSet"}
    BY <1>1
  <2>2. QED
    BY <1>3, <2>1, ColumnOfSet
<1>5. prop.kind \notin LinkKinds /\ prop.kind # "pk"
  BY <1>1 DEF LinkKinds
<1>6. QED
  BY <1>1, <1>4, <1>5, PlainSteps

\* insert() of an unmanaged object.
LEMMA SetInsertPointerSteps ==
    ASSUME Inv, ops < MaxOps, NEW r \in DOMAIN rows, NEW prop \in Properties(r[1]),
           NEW p \in PointersTo(prop.target), SetInsertPointer(r, prop, p)
    PROVE  StoreStep
<1> DEFINE k == RowFor(Store, p).r[2]
<1>1. /\ prop.kind = "linkSet"
      /\ Finish(AttachLast(RowFor(Store, p), p, r, prop, Null), Call("set insert", r, Named[p], k))
  BY DEF SetInsertPointer
<1> HIDE DEF k
<1>2. p # Null
  BY NullFacts DEF PointersTo
<1>3. Finish(Element(Store, r, prop, Null, p), Call("set insert", r, Named[p], k))
  BY <1>1, <1>2 DEF Element, SetElement
<1>4. QED
  BY <1>1, <1>3, ElementSteps

\* insert() of a managed object.
LEMMA SetInsertManagedSteps ==
    ASSUME Inv, ops < MaxOps, NEW r \in DOMAIN rows, NEW prop \in Properties(r[1]),
           NEW to \in DOMAIN rows, to[1] = prop.target, SetInsertManaged(r, prop, to)
    PROVE  StoreStep
<1>1. prop.kind = "linkSet" /\ Return(SetInsert(Store, r, prop, to[2]), Call("set insert", r, {}, to[2]))
  BY DEF SetInsertManaged
<1>2. SetInsert(Store, r, prop, to[2]) = Attach(Store, r, prop, Null, to[2])
  BY <1>1 DEF SetInsert, Attach
<1>3. prop.target \notin Embedded /\ prop.kind \in LinkKinds
  BY <1>1, ValueIs DEF LinkKinds
<1>4. <<prop.target, to[2]>> \in DOMAIN rows
  <2> DEFINE S == Store
  <2>1. Sound(S) /\ to \in DOMAIN S.rows
    BY StoreIs DEF Inv
  <2> HIDE DEF S
  <2>2. to \in Classes \X Nat
    BY <2>1, RowIsTyped
  <2>3. to = <<prop.target, to[2]>>
    BY <2>2
  <2>4. QED
    BY <2>3
<1>5. Place(prop, rows[r][prop.name], Null)
  BY <1>1 DEF Place
<1>6. Return(Attach(Store, r, prop, Null, to[2]), Call("set insert", r, {}, to[2]))
  BY <1>1, <1>2
<1>7. QED
  BY <1>3, <1>4, <1>5, <1>6, AttachSteps

\* A set that holds some of what it held.
LEMMA SmallerSteps ==
    ASSUME Inv, ops < MaxOps, NEW r \in DOMAIN rows, NEW prop \in Properties(r[1]),
           prop.kind \in {"set", "linkSet"}, NEW v, v \subseteq rows[r][prop.name],
           NEW op, NEW names, NEW key, Return(ObjSet(Store, r, prop, v), Call(op, r, names, key))
    PROVE  StoreStep
<1> DEFINE held == rows[r][prop.name]
<1>1. v \subseteq held /\ held = rows[r][prop.name]
  OBVIOUS
<1>2. Column(prop, held)
  BY ValueIs
<1> HIDE DEF held
<1>3. v \in SUBSET Nat /\ IsFiniteSet(v)
  <2>1. held \subseteq Nat /\ IsFiniteSet(held)
    BY <1>2, SetColumn
  <2>2. QED
    BY <1>1, <2>1, FS_Subset
<1>4. Column(prop, v)
  BY <1>3, ColumnOfSet
<1>5. CASE prop.kind = "set"
  <2>1. prop.kind \notin LinkKinds /\ prop.kind # "pk"
    BY <1>5 DEF LinkKinds
  <2>2. QED
    BY <1>4, <2>1, PlainSteps
<1>6. CASE prop.kind = "linkSet"
  <2>1. \A w : KeysIn(prop, w) = w \ {Null} /\ Distinct(prop, w)
    BY <1>6, LinkSetFacts
  <2>2. KeysIn(prop, v) \subseteq KeysIn(prop, held) /\ Distinct(prop, v)
    BY <1>1, <2>1
  <2>3. /\ Sound(Store) /\ r \in DOMAIN Store.rows /\ held = Store.rows[r][prop.name]
        /\ prop.kind \in LinkKinds
    BY <1>1, <1>6, ValueIs DEF LinkKinds
  <2>4. Suits(Store, r, prop, v)
    BY <1>4, <2>2, <2>3, SuitsFewer
  <2>5. QED
    BY <2>4, WriteSteps
<1>7. QED
  BY <1>5, <1>6

\* erase() of what an iterator is at.
LEMMA SetEraseSteps ==
    ASSUME Inv, ops < MaxOps, SetErase
    PROVE  StoreStep
<1> DEFINE r == it.row
           prop == it.prop
           held == rows[r][prop.name]
           v == held \ {ElementAt(held, it.i)}
<1>1. /\ it # NoIterator /\ r \in DOMAIN rows
      /\ Return(ObjSet(Store, r, prop, v), Call("set erase", r, {}, Null))
  BY DEF SetErase
<1>2. prop \in Properties(r[1]) /\ prop.kind \in {"set", "linkSet"} /\ v \subseteq rows[r][prop.name]
  BY <1>1 DEF Inv, Iterating
<1> HIDE DEF r, prop, v, held
<1>3. QED
  BY <1>1, <1>2, SmallerSteps

\* clear() of a set.
LEMMA SetClearSteps ==
    ASSUME Inv, ops < MaxOps, NEW r \in DOMAIN rows, NEW prop \in Properties(r[1]), SetClear(r, prop)
    PROVE  StoreStep
<1> DEFINE v == {}
<1>1. /\ prop.kind \in {"set", "linkSet"} /\ v \subseteq rows[r][prop.name]
      /\ Return(ObjSet(Store, r, prop, v), Call("set clear", r, {}, Null))
  BY DEF SetClear
<1> HIDE DEF v
<1>2. QED
  BY <1>1, SmallerSteps

\* Operations of sets and iterators that write nothing.
LEMMA SetReadSteps ==
    ASSUME Inv, ops < MaxOps, NEW r, NEW prop, NEW v
    PROVE  /\ SetFind(r, prop, v) => StoreStep
           /\ SetBegin(r, prop) => StoreStep
           /\ IteratorNext => StoreStep
           /\ IteratorPostfixNext => StoreStep
<1> DEFINE op == IF v \in rows[r][prop.name] THEN "set find" ELSE "set miss"
<1>1. SetFind(r, prop, v) => Return(Store, Call(op, r, {}, v))
  BY DEF SetFind
<1> HIDE DEF op
<1>2. SetBegin(r, prop) => Return(Store, Call("begin", r, {}, Null))
  BY DEF SetBegin
<1>3. /\ IteratorNext => Return(Store, Call("next", it.row, {}, Null))
      /\ IteratorPostfixNext => Return(Store, Call("next", it.row, {}, Null))
  BY DEF IteratorNext, IteratorPostfixNext
<1>4. QED
  BY <1>1, <1>2, <1>3, StaySteps

(* ----- dictionaries ----- *)

\* Dictionaries hold keys, numbers and null.
LEMMA MapColumn ==
    ASSUME NEW prop, prop.kind \in {"map", "linkMap"}, NEW v
    PROVE  Column(prop, v) <=>
              (DOMAIN v \subseteq MapKeys /\ \A k \in DOMAIN v : v[k] \in Nat \cup {Null})
<1>1. ~(prop.kind \in ListKinds) /\ ~(prop.kind \in {"set", "linkSet"})
  BY DEF ListKinds, ValueLists
<1>2. QED
  BY <1>1 DEF Column

\* Assignment of a value to an entry of a dictionary.
LEMMA BoxAssignSteps ==
    ASSUME Inv, ops < MaxOps, NEW r \in DOMAIN rows, NEW prop \in Properties(r[1]), NEW k \in MapKeys,
           NEW v \in Numbers, BoxAssign(r, prop, k, v)
    PROVE  StoreStep
<1> DEFINE held == rows[r][prop.name]
           one == [m \in {k} |-> v]
           more == MapInsert(held, one)
<1>1. prop.kind = "map" /\ Return(ObjSet(Store, r, prop, more), Call("map", r, {}, Null))
  BY StoreIs DEF BoxAssign, DictInsert, ObjGet
<1>2. Column(prop, held)
  BY ValueIs
<1>3. DOMAIN one = {k} /\ one[k] = v
  OBVIOUS
<1> HIDE DEF held, one
<1>4. /\ DOMAIN more = DOMAIN held \cup DOMAIN one
      /\ \A m \in DOMAIN one : more[m] = one[m]
      /\ \A m \in DOMAIN held : m \notin DOMAIN one => more[m] = held[m]
  BY MapInsertFacts
<1> HIDE DEF more
<1>5. DOMAIN held \subseteq MapKeys /\ \A m \in DOMAIN held : held[m] \in Nat \cup {Null}
  BY <1>1, <1>2, MapColumn
<1>6. DOMAIN more \subseteq MapKeys /\ \A m \in DOMAIN more : more[m] \in Nat \cup {Null}
  BY <1>3, <1>4, <1>5, BoundsAssumption
<1>7. Column(prop, more)
  BY <1>1, <1>6, MapColumn
<1>8. prop.kind \notin LinkKinds /\ prop.kind # "pk"
  BY <1>1 DEF LinkKinds
<1>9. QED
  BY <1>1, <1>7, <1>8, PlainSteps

\* A call with nothing left to do returns.
LEMMA FinishDone ==
    ASSUME NEW U, NEW call, Finish(Done(U), call)
    PROVE  Return(U, call)
<1> DEFINE D == Done(U)
<1>1. D.s = U /\ D.todo = <<>> /\ Finish(D, call)
  BY DEF Done
<1> HIDE DEF D
<1>2. Run(D) = D
  BY <1>1, DoneRuns
<1>3. QED
  BY <1>1, <1>2 DEF Finish, ReturnWhenDone

\* Assignment of an unmanaged object, or null, to an entry.
LEMMA BoxAssignPointerSteps ==
    ASSUME Inv, ops < MaxOps, NEW r \in DOMAIN rows, NEW prop \in Properties(r[1]), NEW k \in MapKeys,
           NEW p \in PointersTo(prop.target) \cup {Null}, BoxAssignPointer(r, prop, k, p)
    PROVE  StoreStep
<1>1. /\ prop.kind = "linkMap"
      /\ Finish(IF p = Null THEN Done(DictInsert(Store, r, prop, k, Null))
                ELSE AttachFirst(RowFor(Store, p), p, r, prop, k),
                Call("map", r, IF p = Null THEN {} ELSE Named[p], Null))
  BY DEF BoxAssignPointer
<1>2. CASE p = Null
  <2>1. Finish(Done(DictInsert(Store, r, prop, k, Null)), Call("map", r, {}, Null))
    BY <1>1, <1>2
  <2>2. Return(DictInsert(Store, r, prop, k, Null), Call("map", r, {}, Null))
    BY <2>1, FinishDone
  <2>3. PICK v : DictInsert(Store, r, prop, k, Null) = ObjSet(Store, r, prop, v) /\ Suits(Store, r, prop, v)
    BY <1>1, ValueIs, NullInMap
  <2>4. Return(ObjSet(Store, r, prop, v), Call("map", r, {}, Null))
    BY <2>2, <2>3
  <2>5. QED
    BY <2>3, <2>4, WriteSteps
<1>3. CASE p # Null
  <2>1. Finish(AttachFirst(RowFor(Store, p), p, r, prop, k), Call("map", r, Named[p], Null))
    BY <1>1, <1>3
  <2>2. Place(prop, rows[r][prop.name], k) /\ prop.kind \in LinkKinds /\ p \in PointersTo(prop.target)
    BY <1>1, <1>3 DEF Place, LinkKinds
  <2>3. QED
    BY <2>1, <2>2, AttachFirstSteps
<1>4. QED
  BY <1>2, <1>3

\* Assignment of a managed object to an entry.
LEMMA BoxAssignManagedSteps ==
    ASSUME Inv, ops < MaxOps, NEW r \in DOMAIN rows, NEW prop \in Properties(r[1]), NEW k \in MapKeys,
           NEW to \in DOMAIN rows, to[1] = prop.target, BoxAssignManaged(r, prop, k, to)
    PROVE  StoreStep
<1>1. /\ prop.kind = "linkMap" /\ prop.target \notin Embedded
      /\ Return(DictInsert(Store, r, prop, k, to[2]), Call("map", r, {}, Null))
  BY DEF BoxAssignManaged
<1>2. DictInsert(Store, r, prop, k, to[2]) = Attach(Store, r, prop, k, to[2])
  BY <1>1 DEF DictInsert, Attach
<1>3. prop.kind \in LinkKinds /\ Place(prop, rows[r][prop.name], k)
  BY <1>1 DEF LinkKinds, Place
<1>4. <<prop.target, to[2]>> \in DOMAIN rows
  <2> DEFINE S == Store
  <2>1. Sound(S) /\ to \in DOMAIN S.rows
    BY StoreIs DEF Inv
  <2> HIDE DEF S
  <2>2. to \in Classes \X Nat
    BY <2>1, RowIsTyped
  <2>3. to = <<prop.target, to[2]>>
    BY <2>2
  <2>4. QED
    BY <2>3
<1>5. Return(Attach(Store, r, prop, k, to[2]), Call("map", r, {}, Null))
  BY <1>1, <1>2
<1>6. QED
  BY <1>1, <1>3, <1>4, <1>5, AttachSteps

\* erase() of an entry.
LEMMA DictEraseSteps ==
    ASSUME Inv, ops < MaxOps, NEW r \in DOMAIN rows, NEW prop \in Properties(r[1]), NEW k,
           DictErase(r, prop, k)
    PROVE  StoreStep
<1> DEFINE held == rows[r][prop.name]
           v == [m \in DOMAIN held \ {k} |-> held[m]]
<1>1. /\ prop.kind \in {"map", "linkMap"}
      /\ Return(IF k \notin DOMAIN held THEN Throw(Store) ELSE ObjSet(Store, r, prop, v),
                Call("map", r, {}, Null))
  BY DEF DictErase
<1>2. Column(prop, held) /\ held = rows[r][prop.name]
  BY ValueIs
<1>3. DOMAIN v = DOMAIN held \ {k} /\ \A m \in DOMAIN v : v[m] = held[m]
  OBVIOUS
<1> HIDE DEF held, v
<1>4. Column(prop, v)
  <2>1. DOMAIN held \subseteq MapKeys /\ \A m \in DOMAIN held : held[m] \in Nat \cup {Null}
    BY <1>1, <1>2, MapColumn
  <2>2. DOMAIN v \subseteq MapKeys /\ \A m \in DOMAIN v : v[m] \in Nat \cup {Null}
    BY <1>3, <2>1
  <2>3. QED
    BY <1>1, <2>2, MapColumn
<1>5. CASE k \notin DOMAIN held
  <2>1. Return(Throw(Store), Call("map", r, {}, Null))
    BY <1>1, <1>5
  <2>2. QED
    BY <2>1, StaySteps
<1>6. CASE k \in DOMAIN held
  <2>1. Return(ObjSet(Store, r, prop, v), Call("map", r, {}, Null))
    BY <1>1, <1>6
  <2>2. CASE prop.kind = "map"
    <3>1. prop.kind \notin LinkKinds /\ prop.kind # "pk"
      BY <2>2 DEF LinkKinds
    <3>2. QED
      BY <1>4, <2>1, <3>1, PlainSteps
  <2>3. CASE prop.kind = "linkMap"
    <3>1. \A w : KeysIn(prop, w) = Values(w) \ {Null} /\ (Distinct(prop, w) <=> NoneTwice(w))
      BY <2>3, LinkManyFacts
    <3>2. Values(v) \subseteq Values(held) /\ (NoneTwice(held) => NoneTwice(v))
      BY <1>3 DEF Values, NoneTwice
    <3>3. KeysIn(prop, v) \subseteq KeysIn(prop, held) /\ (Distinct(prop, held) => Distinct(prop, v))
      BY <3>1, <3>2
    <3>4. /\ Sound(Store) /\ r \in DOMAIN Store.rows /\ held = Store.rows[r][prop.name]
          /\ prop.kind \in LinkKinds
      BY <1>2, <2>3, ValueIs DEF LinkKinds
    <3>5. Suits(Store, r, prop, v)
      BY <1>4, <3>3, <3>4, SuitsFewer
    <3>6. QED
      BY <2>1, <3>5, WriteSteps
  <2>4. QED
    BY <1>1, <2>2, <2>3
<1>7. QED
  BY <1>5, <1>6

(* ----- whole objects, and what the other calls on links and lists are ----- *)

\* db::add() of an object.
LEMMA AddSteps ==
    ASSUME Inv, ops < MaxOps, NEW p \in Pointers, Add(p)
    PROVE  StoreStep
<1> DEFINE S == Store
           ps == Reached(p)
           names == Named[p]
           r == RowOf(p)
           ws == Writable(S, r, names)
           T == AddTo(S, p)
<1>1. ClassOf[p] \notin Embedded /\ Finish(T, Call("add", r, names, p))
  BY DEF Add
<1>2. Ready(S, ps, ws, S) /\ p \in ps
  BY PointerIsReady
<1>3. ws = Writable(Store, r, names) /\ S = Store /\ T = AddTo(S, p)
  OBVIOUS
<1> HIDE DEF S, ps, ws, T, names, r
<1>4. Goes(S, ps, ws, S, T)
  BY <1>1, <1>2, <1>3, AddGoes
<1>5. QED
  BY <1>1, <1>2, <1>3, <1>4, RunSteps

\* Two objects of one call name the keys of all they reach.
LEMMA TellsMore ==
    ASSUME NEW p \in Pointers, NEW q \in Pointers, NEW ps, ps = Reached(p) \cup Reached(q),
           NEW names, names = Named[p] \cup Named[q]
    PROVE  Tells(names, ps) /\ Closed(ps) /\ p \in ps /\ q \in ps
<1>1. Tells(Named[p], Reached(p)) /\ Tells(Named[q], Reached(q))
  BY NamedTells
<1>2. p \in Reached(p) /\ Closed(Reached(p)) /\ q \in Reached(q) /\ Closed(Reached(q))
  BY ReachedFacts
<1>3. Tells(names, ps)
  BY <1>1 DEF Tells
<1>4. Closed(ps)
  BY <1>2 DEF Closed
<1>5. QED
  BY <1>2, <1>3, <1>4

\* db::insert() of two objects, of which the second is not added if the first throws.
LEMMA InsertSteps ==
    ASSUME Inv, ops < MaxOps, NEW p \in Pointers, NEW q \in Pointers, InsertAll(p, q)
    PROVE  StoreStep
<1> DEFINE S == Store
           ps == Reached(p) \cup Reached(q)
           names == Named[p] \cup Named[q]
           r == RowOf(p)
           ws == Writable(S, r, names)
           T == AddTo(S, p)
           first == Run(T)
           then == AddTo(first.s, q)
           call == Call("insert", r, names, Null)
<1>1. /\ ClassOf[p] \notin Embedded /\ ClassOf[q] \notin Embedded
      /\ first.todo = <<>>
      /\ Finish(IF first.s.ok THEN then ELSE first, call)
  BY DEF InsertAll
<1>2. Tells(names, ps) /\ Closed(ps) /\ p \in ps /\ q \in ps
  BY TellsMore
<1>3. Sound(S) /\ S = Store /\ ws = Writable(S, r, names) /\ T = AddTo(S, p)
      /\ then = AddTo(first.s, q) /\ first = Run(T) /\ call = Call("insert", r, names, Null)
  BY DEF Inv
<1> HIDE DEF S, ps, ws, T, names, r, first, then, call
<1>4. Ready(S, ps, ws, S)
  BY <1>2, <1>3, CallIsReady
<1>5. Goes(S, ps, ws, S, T)
  BY <1>1, <1>2, <1>3, <1>4, AddGoes
<1>6. Does(S, first.s, r, names)
  BY <1>3, <1>4, <1>5, RunDoes
<1>7. Ready(S, ps, ws, first.s)
  BY <1>3, <1>4, <1>6 DEF Ready, Does
<1>8. CASE first.s.ok
  <2>1. Goes(S, ps, ws, first.s, then)
    <3> DEFINE M == first.s
    <3>1. Ready(S, ps, ws, M) /\ then = AddTo(M, q)
      BY <1>3, <1>7
    <3> HIDE DEF M
    <3>2. Goes(S, ps, ws, M, then)
      BY <1>1, <1>2, <3>1, AddGoes
    <3>3. QED
      BY <3>2 DEF M
  <2>2. Does(S, Run(then).s, r, names)
    <3>1. Wide(S, ps, ws) /\ Closed(ps)
      BY <1>4 DEF Ready
    <3>2. Under(S, ps, ws, then)
      BY <2>1 DEF Goes
    <3>3. Under(S, ps, ws, Run(then))
      BY <3>1, <3>2, RunKeeps
    <3>4. QED
      BY <1>3, <3>3 DEF Under, Does
  <2>3. Return(Run(then).s, call)
    BY <1>1, <1>8 DEF Finish, ReturnWhenDone
  <2>4. QED
    BY <1>3, <2>2, <2>3, DoneSteps
<1>9. CASE ~first.s.ok
  <2>1. Run(first) = first
    BY <1>1, DoneRuns
  <2>2. Return(first.s, call)
    BY <1>1, <1>9, <2>1 DEF Finish, ReturnWhenDone
  <2>3. QED
    BY <1>3, <1>6, <2>2, DoneSteps
<1>10. QED
  BY <1>8, <1>9

\* Assignments of null and of managed objects to a link.
LEMMA LinkSteps ==
    ASSUME Inv, ops < MaxOps, NEW r \in DOMAIN rows, NEW prop \in Properties(r[1]), NEW x
    PROVE  /\ LinkAssignNull(r, prop) => StoreStep
           /\ LinkAssignManaged(r, prop, x) => StoreStep
           /\ LinkAssignLink(r, prop, x) => StoreStep
<1>1. LinkAssignNull(r, prop) => StoreStep
  BY NullSteps DEF LinkAssignNull
<1> DEFINE k == x[2]
           l == x[1][2]
<1>2. /\ LinkAssignManaged(r, prop, x) =>
            prop.kind = "link" /\ Return(ObjSetKey(Store, r, prop, k), Call("link", r, {}, Null))
      /\ LinkAssignLink(r, prop, x) =>
            prop.kind = "link" /\ Return(ObjSetKey(Store, r, prop, l), Call("link", r, {}, Null))
  BY DEF LinkAssignManaged, LinkAssignLink
<1> HIDE DEF k, l
<1>3. QED
  BY <1>1, <1>2, KeySteps

\* Operations of lists that are made of others.
LEMMA ListSteps ==
    ASSUME Inv, ops < MaxOps, NEW r \in DOMAIN rows, NEW prop \in Properties(r[1]), NEW x
    PROVE  /\ ListPushLink(r, prop, x) => StoreStep
           /\ ListErase(r, prop, x) => StoreStep
           /\ ListPopBack(r, prop) => StoreStep
<1> DEFINE l == x[1][2]
           n == Len(rows[r][prop.name])
<1>1. /\ ListPushLink(r, prop, x) => ListPushManaged(r, prop, l)
      /\ ListErase(r, prop, x) => prop.kind \in ListKinds /\ ListRemoveAt(r, prop, x, "list")
      /\ ListPopBack(r, prop) => prop.kind \in ListKinds /\ ListRemoveAt(r, prop, n, "list")
  BY DEF ListPushLink, ListErase, ListPopBack
<1> HIDE DEF l, n
<1>2. QED
  BY <1>1, ListPushManagedSteps, ListRemoveSteps

\* A managed value belongs to a live row.
LEMMA OnFacts ==
    ASSUME NEW kinds, NEW c \in On(kinds)
    PROVE  /\ c[1] \in DOMAIN rows /\ c[2] \in Properties(c[1][1]) /\ c[2].kind \in kinds
<1>1. PICK r \in DOMAIN rows : c \in {<<r, p>> : p \in {p \in Properties(r[1]) : p.kind \in kinds}}
  BY DEF On
<1>2. PICK p \in Properties(r[1]) : p.kind \in kinds /\ c = <<r, p>>
  BY <1>1
<1>3. c[1] = r /\ c[2] = p
  BY <1>2
<1>4. QED
  BY <1>2, <1>3

(* ----- iterators into sets ----- *)

\* The elements of a set are in order.
LEMMA IndexFacts ==
    ASSUME NEW set \in SUBSET Nat, IsFiniteSet(set), NEW v \in set
    PROVE  /\ Index(set, v) \in Nat /\ Index(set, v) < Cardinality(set)
           /\ ElementAt(set, Index(set, v)) = v
<1> DEFINE Below(x) == {w \in set : w < x}
<1>1. \A x \in set : Below(x) \in SUBSET set /\ x \notin Below(x) /\ Index(set, x) = Cardinality(Below(x))
  BY DEF Index
<1>2. ASSUME NEW x \in set, NEW y \in set, x < y
      PROVE  Below(x) \in SUBSET Below(y) /\ x \in Below(y)
  <2>1. ASSUME NEW w \in Below(x)
        PROVE  w \in set /\ w < y
    BY <1>2
  <2>2. QED
    BY <1>2, <2>1
<1>3. Cardinality(set) \in Nat
  BY FS_CardinalityType
<1> HIDE DEF Below
<1>4. ASSUME NEW a \in SUBSET set, NEW b \in SUBSET set, a \in SUBSET b, NEW x \in b, x \notin a
      PROVE  Cardinality(a) \in Nat /\ Cardinality(b) \in Nat /\ Cardinality(a) < Cardinality(b)
  <2>1. IsFiniteSet(a) /\ IsFiniteSet(b)
    BY <1>4, FS_Subset
  <2>2. Cardinality(a) \in Nat /\ Cardinality(b) \in Nat
    BY <2>1, FS_CardinalityType
  <2>3. Cardinality(a) <= Cardinality(b) /\ (Cardinality(b) = Cardinality(a) => b = a)
    BY <1>4, <2>1, FS_Subset
  <2>4. QED
    BY <1>4, <2>2, <2>3
<1>5. ASSUME NEW x \in set
      PROVE  Index(set, x) \in Nat /\ Index(set, x) < Cardinality(set)
  <2>1. Below(x) \in SUBSET set /\ x \notin Below(x) /\ Index(set, x) = Cardinality(Below(x))
    BY <1>1
  <2>2. QED
    BY <2>1, <1>4
<1>6. ASSUME NEW x \in set, NEW y \in set, x < y
      PROVE  Index(set, x) < Index(set, y)
  <2>1. Below(x) \in SUBSET Below(y) /\ x \in Below(y) /\ x \notin Below(x)
    BY <1>1, <1>2, <1>6
  <2>2. /\ Below(x) \in SUBSET set /\ Index(set, x) = Cardinality(Below(x))
        /\ Below(y) \in SUBSET set /\ Index(set, y) = Cardinality(Below(y))
    BY <1>1
  <2>3. QED
    BY <2>1, <2>2, <1>4
<1>7. \A x, y \in set : Index(set, x) = Index(set, y) => x = y
  <2> SUFFICES ASSUME NEW x \in set, NEW y \in set, Index(set, x) = Index(set, y), x # y
               PROVE  FALSE
    OBVIOUS
  <2>1. x \in Nat /\ y \in Nat /\ Index(set, x) \in Nat /\ Index(set, y) \in Nat
    BY <1>5
  <2>2. x < y \/ y < x
    BY <2>1
  <2>3. QED
    BY <2>1, <2>2, <1>6
<1>8. ElementAt(set, Index(set, v)) = v
  BY <1>7 DEF ElementAt
<1>9. QED
  BY <1>5, <1>8

\* What insert() has to put is put in the last step, on a row that is there.
Puts(T, t) ==
    T.s.ok =>
        \/ T.todo # <<>> /\ T.todo[Len(T.todo)] = t
        \/ T.todo = <<>> /\ t.row \in DOMAIN T.s.rows /\ t.from \in T.s.rows[t.row][t.prop.name]

\* A key that was put into a set is in it.
LEMMA PutFacts ==
    ASSUME NEW S, Sound(S), NEW r \in DOMAIN S.rows, NEW prop \in Properties(r[1]), prop.kind = "linkSet",
           NEW k \in Nat, NEW at, NEW U, U = Attached(S, r, prop, at, k), S.ok, U.ok
    PROVE  r \in DOMAIN U.rows /\ k \in U.rows[r][prop.name]
<1>1. CASE <<prop.target, k>> \notin DOMAIN S.rows
  <2>1. U = Throw(S)
    BY <1>1 DEF Attached
  <2>2. QED
    BY <2>1 DEF Throw
<1>2. CASE <<prop.target, k>> \in DOMAIN S.rows
  <2>1. prop.kind \in LinkKinds /\ prop.target \notin Embedded /\ Place(prop, S.rows[r][prop.name], at)
    BY HeldFacts DEF LinkKinds, Place
  <2>2. Wrote(S, Attach(S, r, prop, at, k), r, prop, WithKey(prop, S.rows[r][prop.name], at, k))
    BY <1>2, <2>1, PlainAttach
  <2>3. U = Attach(S, r, prop, at, k)
    BY <1>2 DEF Attached
  <2>4. k \in WithKey(prop, S.rows[r][prop.name], at, k)
    BY DEF WithKey
  <2>5. QED
    BY <2>1, <2>2, <2>3, <2>4 DEF Wrote, Owns
<1>3. QED
  BY <1>1, <1>2

\* What insert() has to put stays its last step.
LEMMA OnwardPuts ==
    ASSUME NEW B, NEW ps, NEW ws, Wide(B, ps, ws), Closed(ps), NEW T, Under(B, ps, ws, T),
           NEW t, t.do = "put", t.prop.kind = "linkSet", Puts(T, t)
    PROVE  Puts(Onward(T), t)
<1>1. CASE T.todo = <<>>
  BY <1>1 DEF Onward
<1>2. CASE T.todo # <<>>
  <2>1. PICK h, U :
            /\ h \in Work(T.s, ps, ws) /\ h = Head(T.todo)
            /\ U = IF h.row \in DOMAIN T.s.rows THEN Perform(T.s, h) ELSE Done(Throw(T.s))
            /\ Ready(B, ps, ws, T.s) /\ Goes(B, ps, ws, T.s, U)
            /\ Tail(T.todo) \in Seq(Work(U.s, ps, ws))
            /\ Onward(T) = Before(U, Tail(T.todo))
    BY <1>2, StepIs
  <2> DEFINE X == Work(T.s, ps, ws)
             Y == Work(U.s, ps, ws)
             rest == Tail(T.todo)
             N == Before(U, rest)
             S == T.s
  <2>2. N.s = U.s /\ N.todo = IF U.s.ok THEN U.todo \o rest ELSE <<>>
    BY DEF Before
  <2>3. SUFFICES ASSUME U.s.ok PROVE Puts(N, t)
    BY <2>1, <2>2 DEF Puts
  <2>4. S.ok /\ Sound(S)
    BY <2>1, <2>3 DEF Goes, Ready
  <2>5. T.todo[Len(T.todo)] = t
    BY <1>2, <2>4 DEF Puts
  <2>6. T.todo \in Seq(X) /\ U.todo \in Seq(Y) /\ rest \in Seq(Y)
    BY <2>1 DEF Under, Goes
  <2> HIDE DEF X, Y, N, S, rest
  <2>7. /\ Len(T.todo) \in Nat /\ Len(T.todo) # 0 /\ Len(rest) = Len(T.todo) - 1
        /\ \A i \in 1..Len(rest) : rest[i] = T.todo[i + 1]
        /\ h = T.todo[1]
    BY <1>2, <2>1, <2>6, HeadTailProperties, LenProperties, EmptySeq DEF rest
  <2>8. /\ Len(U.todo) \in Nat /\ Len(U.todo \o rest) = Len(U.todo) + Len(rest)
        /\ \A i \in 1..Len(U.todo) + Len(rest) :
              (U.todo \o rest)[i] = IF i <= Len(U.todo) THEN U.todo[i] ELSE rest[i - Len(U.todo)]
        /\ U.todo \o rest \in Seq(Y)
    BY <2>6, ConcatProperties, LenProperties
  <2>9. CASE Len(T.todo) > 1
    <3>1. Len(rest) \in 1..Len(rest) /\ rest[Len(rest)] = t
      BY <2>5, <2>7, <2>9
    <3>2. (U.todo \o rest)[Len(U.todo \o rest)] = t /\ Len(U.todo \o rest) # 0
      <4> DEFINE a == Len(U.todo)
                 b == Len(rest)
      <4>1. a \in Nat /\ b \in Nat /\ b # 0 /\ rest[b] = t
        BY <2>7, <2>8, <2>9, <3>1
      <4>2. a + b \in 1..a + b /\ ~(a + b <= a) /\ a + b - a = b /\ a + b # 0
        BY <4>1
      <4>3. (U.todo \o rest)[a + b] = rest[a + b - a]
        BY <2>8, <4>2
      <4>4. QED
        BY <2>8, <4>1, <4>2, <4>3
    <3>3. U.todo \o rest # <<>>
      BY <3>2, EmptySeq
    <3>4. QED
      BY <2>2, <2>3, <3>2, <3>3 DEF Puts
  <2>10. CASE Len(T.todo) = 1
    <3>1. h = t
      BY <2>5, <2>7, <2>10
    <3>2. h.row \in DOMAIN S.rows
      <4>1. CASE h.row \notin DOMAIN S.rows
        <5>1. U = Done(Throw(S))
          BY <2>1, <4>1 DEF S
        <5>2. QED
          BY <2>3, <5>1 DEF Done, Throw
      <4>2. QED
        BY <4>1
    <3>3. U = Done(Attached(S, t.row, t.prop, t.at, t.from))
      BY <2>1, <3>1, <3>2 DEF Perform, S
    <3>4. U.s = Attached(S, t.row, t.prop, t.at, t.from) /\ U.todo = <<>>
      BY <3>3 DEF Done
    <3>5. t.prop \in Properties(t.row[1]) /\ t.from \in Nat
      BY <2>1, <3>1 DEF Work, Fair
    <3>6. t.row \in DOMAIN U.s.rows /\ t.from \in U.s.rows[t.row][t.prop.name]
      BY <2>3, <2>4, <3>1, <3>2, <3>4, <3>5, PutFacts
    <3>7. U.todo \o rest = <<>>
      BY <2>7, <2>8, <2>10, <3>4, EmptySeq
    <3>8. QED
      BY <2>2, <2>3, <3>6, <3>7 DEF Puts
  <2>11. Len(T.todo) > 1 \/ Len(T.todo) = 1
    <3> DEFINE n == Len(T.todo)
    <3>1. n \in Nat /\ n # 0
      BY <2>7
    <3> HIDE DEF n
    <3>2. n > 1 \/ n = 1
      BY <3>1
    <3>3. QED
      BY <3>2 DEF n
  <2>12. QED
    BY <2>9, <2>10, <2>11
<1>3. QED
  BY <1>1, <1>2

\* So it has been put when the call ends without an exception.
LEMMA RunPuts ==
    ASSUME NEW B, NEW ps, NEW ws, Wide(B, ps, ws), Closed(ps), NEW T, Under(B, ps, ws, T),
           NEW t, t.do = "put", t.prop.kind = "linkSet", Puts(T, t)
    PROVE  Puts(Run(T), t)
<1>1. PICK f : /\ f[0] = T /\ \A i \in 1..MaxSteps : f[i] = Onward(f[i - 1])
               /\ Run(T) = f[MaxSteps]
  BY RunIs
<1> DEFINE M == {i \in 0..MaxSteps : Under(B, ps, ws, f[i]) /\ Puts(f[i], t)}
<1>2. MaxSteps \in Nat
  BY StepsAssumption
<1>3. 0 \in M
  BY <1>1, <1>2
<1>4. ASSUME NEW i \in 1..MaxSteps, i - 1 \in M
      PROVE  i \in M
  <2> DEFINE U == f[i - 1]
  <2>1. Under(B, ps, ws, U) /\ Puts(U, t) /\ f[i] = Onward(U) /\ i \in 0..MaxSteps
    BY <1>1, <1>2, <1>4
  <2> HIDE DEF U
  <2>2. Under(B, ps, ws, Onward(U)) /\ Puts(Onward(U), t)
    BY <2>1, OnwardKeeps, OnwardPuts
  <2>3. QED
    BY <2>1, <2>2
<1>5. 0..MaxSteps \subseteq M
  <2> HIDE DEF M
  <2>1. QED
    BY <1>2, <1>3, <1>4, Induction
<1>6. QED
  BY <1>1, <1>2, <1>5

(* ----- what a call says of itself, and its iterator ----- *)

Denotes ==
    (last'.op \in {"set insert", "set find"} /\ last'.ok) =>
        /\ it'.row = last'.row
        /\ it'.i < Cardinality(rows'[it'.row][it'.prop.name])
        /\ ElementAt(rows'[it'.row][it'.prop.name], it'.i) = last'.key

\* A call that is neither insert() nor find(), and leaves the iterator.
Quiet == it' = it /\ last'.op \notin {"set insert", "set find"}

\* What every call does, and what it says of an iterator.
CallStep == StoreStep /\ Iterating' /\ Denotes

\* Calls that say nothing of an iterator.
LEMMA QuietCall ==
    ASSUME Inv, StoreStep, Quiet
    PROVE  CallStep
BY DEF CallStep, Quiet, Denotes, Inv, Iterating

\* An iterator to an element of a set that is there.
LEMMA PointCall ==
    ASSUME Inv, StoreStep, NEW r \in DOMAIN rows, NEW prop \in Properties(r[1]),
           prop.kind \in {"set", "linkSet"}, NEW v, r \in DOMAIN rows', v \in rows'[r][prop.name],
           PointTo(r, prop, v), last'.row = r, last'.key = v
    PROVE  CallStep
<1> DEFINE set == rows'[r][prop.name]
<1>1. r \in Classes \X Nat
  BY ValueIs
<1>2. set \in SUBSET Nat /\ IsFiniteSet(set)
  <2> DEFINE S == Store'
  <2>1. Sound(S) /\ S.rows = rows'
    BY DEF StoreStep, Store
  <2> HIDE DEF S
  <2>2. Column(prop, S.rows[r][prop.name])
    BY <2>1, HeldFacts
  <2>3. QED
    BY <2>1, <2>2, SetColumn
<1>3. it' = Iterator(r, prop, Index(set, v)) /\ v \in set /\ set = rows'[r][prop.name]
  BY DEF PointTo
<1> HIDE DEF set
<1>4. /\ Index(set, v) \in Nat /\ Index(set, v) < Cardinality(set)
      /\ ElementAt(set, Index(set, v)) = v
  BY <1>2, <1>3, IndexFacts
<1>5. it'.row = r /\ it'.prop = prop /\ it'.i = Index(set, v)
  BY <1>3 DEF Iterator
<1>6. Iterating'
  BY <1>1, <1>4, <1>5 DEF Iterating
<1>7. Denotes
  BY <1>3, <1>4, <1>5 DEF Denotes
<1>8. QED
  BY <1>6, <1>7 DEF CallStep

\* What a call tells of itself.
LEMMA ReturnTells ==
    ASSUME NEW U, NEW op, NEW r, NEW names, NEW key, Return(U, Call(op, r, names, key))
    PROVE  /\ rows' = U.rows /\ next' = U.next
           /\ last'.op = op /\ last'.row = r /\ last'.key = key /\ last'.ok = U.ok
BY DEF Return, Call

\* insert() of a value, with the iterator it returns.
LEMMA SetInsertValueCall ==
    ASSUME Inv, ops < MaxOps, NEW r \in DOMAIN rows, NEW prop \in Properties(r[1]), NEW v \in Numbers,
           SetInsertValue(r, prop, v)
    PROVE  CallStep
<1> DEFINE more == rows[r][prop.name] \cup {v}
           U == ObjSet(Store, r, prop, more)
<1>1. prop.kind = "set" /\ Return(U, Call("set insert", r, {}, v)) /\ PointTo(r, prop, v)
  BY StoreIs DEF SetInsertValue, SetInsert, ObjGet
<1>2. StoreStep
  BY SetInsertValueSteps
<1>3. rows' = U.rows /\ last'.row = r /\ last'.key = v
  <2> HIDE DEF U
  <2>1. QED
    BY <1>1, ReturnTells
<1>4. r \in DOMAIN rows' /\ v \in rows'[r][prop.name]
  <2>1. v \in more
    OBVIOUS
  <2> HIDE DEF more
  <2>2. prop.name \in DOMAIN rows[r]
    <3> DEFINE S == Store
    <3>1. Sound(S) /\ S.rows = rows
      BY ValueIs
    <3> HIDE DEF S
    <3>2. DOMAIN S.rows[r] = DOMAIN Columns[r[1]] /\ r[1] \in Classes
      BY <3>1, RowIsTyped DEF Sound, Typed, TypedRow
    <3>3. QED
      BY <3>1, <3>2, PropertyFacts
  <2>3. U.rows = [rows EXCEPT ![r][prop.name] = more]
    BY <1>1, StoreIs DEF ObjSet, Written, Owns, LinkKinds
  <2>4. QED
    BY <1>3, <2>1, <2>2, <2>3
<1>5. QED
  BY <1>1, <1>2, <1>3, <1>4, PointCall

\* insert() of a managed object, with the iterator it returns.
LEMMA SetInsertManagedCall ==
    ASSUME Inv, ops < MaxOps, NEW r \in DOMAIN rows, NEW prop \in Properties(r[1]),
           NEW to \in DOMAIN rows, to[1] = prop.target, SetInsertManaged(r, prop, to)
    PROVE  CallStep
<1> DEFINE k == to[2]
           more == rows[r][prop.name] \cup {k}
           U == ObjSet(Store, r, prop, more)
<1>1. prop.kind = "linkSet" /\ Return(U, Call("set insert", r, {}, k)) /\ PointTo(r, prop, k)
  BY StoreIs DEF SetInsertManaged, SetInsert, ObjGet
<1>2. StoreStep
  BY SetInsertManagedSteps
<1>3. rows' = U.rows /\ last'.row = r /\ last'.key = k
  <2> HIDE DEF U, k
  <2>1. QED
    BY <1>1, ReturnTells
<1>4. r \in DOMAIN rows' /\ k \in rows'[r][prop.name]
  <2>1. k \in more
    OBVIOUS
  <2> HIDE DEF more
  <2>2. prop.name \in DOMAIN rows[r]
    <3> DEFINE S == Store
    <3>1. Sound(S) /\ S.rows = rows
      BY ValueIs
    <3> HIDE DEF S
    <3>2. DOMAIN S.rows[r] = DOMAIN Columns[r[1]] /\ r[1] \in Classes
      BY <3>1, RowIsTyped DEF Sound, Typed, TypedRow
    <3>3. QED
      BY <3>1, <3>2, PropertyFacts
  <2>3. ~Owns(prop)
    BY <1>1, ValueIs DEF Owns
  <2>4. U.rows = [rows EXCEPT ![r][prop.name] = more]
    BY <2>3, StoreIs DEF ObjSet, Written
  <2>5. QED
    BY <1>3, <2>1, <2>2, <2>4
<1> HIDE DEF k, more, U
<1>5. QED
  BY <1>1, <1>2, <1>3, <1>4, PointCall

\* insert() of an unmanaged object: the iterator is at the key it was given.
LEMMA SetInsertPointerCall ==
    ASSUME Inv, ops < MaxOps, NEW r \in DOMAIN rows, NEW prop \in Properties(r[1]),
           NEW p \in PointersTo(prop.target), SetInsertPointer(r, prop, p)
    PROVE  CallStep
<1> DEFINE S == Store
           N == RowFor(S, p)
           k == N.r[2]
           ps == Reached(p)
           names == Named[p]
           ws == Writable(S, r, names)
           T == AttachLast(N, p, r, prop, Null)
           t == PutKey(r, prop, Null, k)
           do == Import(N.r, p)
<1>1. /\ prop.kind = "linkSet" /\ Finish(T, Call("set insert", r, names, k))
      /\ IF last'.ok THEN PointTo(r, prop, k) ELSE it' = it
  BY DEF SetInsertPointer
<1>2. StoreStep
  BY SetInsertPointerSteps
<1>3. T.s = N.s /\ T.todo = do \o <<t>>
  BY DEF AttachLast
<1>4. t.do = "put" /\ t.row = r /\ t.prop = prop /\ t.from = k
  BY DEF PutKey
<1>5. S.rows = rows /\ r \in Classes \X Nat /\ Sound(S) /\ prop.target \notin Embedded
      /\ p \in Pointers /\ prop.target = ClassOf[p]
  BY <1>1, ValueIs DEF PointersTo
<1>6. Ready(S, ps, ws, S) /\ p \in ps
  BY <1>5, PointerIsReady
<1>7. r \in ws
  BY <1>5 DEF Writable
<1>8. T = AttachLast(RowFor(S, p), p, r, prop, Null) /\ N = RowFor(S, p) /\ do = Import(N.r, p)
  OBVIOUS
<1> HIDE DEF S, N, k, ps, names, ws, T, t, do
<1>9. Goes(S, ps, ws, S, T)
  BY <1>1, <1>5, <1>6, <1>7, <1>8, AttachLastGoes
<1>10. Under(S, ps, ws, T) /\ Wide(S, ps, ws) /\ Closed(ps)
  BY <1>6, <1>9 DEF Goes, Ready
<1>11. Puts(T, t)
  <2>1. Len(do) \in Nat /\ do \in Seq(Work(N.s, ps, ws))
    <3>1. /\ N.r \in Classes \X Nat /\ N.r \in ws /\ N.r[1] = ClassOf[p] /\ RowFits(S, p, N)
      BY <1>6, <1>8, RowIsWide
    <3>2. HasPrimaryKeyProperty(N.r[1]) => N.r \in DOMAIN N.s.rows /\ PkOf(N.r[1], N.s.rows[N.r]) = PkOf(N.r[1], Heap[p])
      BY <3>1 DEF RowFits
    <3> DEFINE V == N.s
               to == N.r
    <3>3. /\ to \in Classes \X Nat /\ to \in ws /\ to[1] = ClassOf[p] /\ do = Import(to, p)
          /\ HasPrimaryKeyProperty(to[1]) => to \in DOMAIN V.rows /\ PkOf(to[1], V.rows[to]) = PkOf(to[1], Heap[p])
      BY <1>8, <3>1, <3>2
    <3> HIDE DEF V, to
    <3>4. do \in Seq(Work(V, ps, ws))
      BY <1>6, <1>10, <3>3, ImportIsWork
    <3>5. Len(do) \in Nat
      BY <3>4, LenProperties
    <3>6. QED
      BY <3>4, <3>5 DEF V
  <2>2. T.todo # <<>> /\ T.todo[Len(T.todo)] = t
    <3> DEFINE X == Work(N.s, ps, ws) \cup {t}
               one == <<t>>
    <3>1. do \in Seq(X)
      BY <2>1, SeqMonotonic
    <3>2. one \in Seq(X) /\ Len(one) = 1 /\ one[1] = t /\ T.todo = do \o one
      BY <1>3
    <3> HIDE DEF X, one
    <3>3. /\ T.todo \in Seq(X) /\ Len(T.todo) = Len(do) + 1
          /\ \A i \in 1..Len(do) + 1 : T.todo[i] = IF i <= Len(do) THEN do[i] ELSE one[i - Len(do)]
      <4>1. /\ do \o one \in Seq(X) /\ Len(do \o one) = Len(do) + Len(one)
            /\ \A i \in 1..Len(do) + Len(one) :
                  (do \o one)[i] = IF i <= Len(do) THEN do[i] ELSE one[i - Len(do)]
        BY <3>1, <3>2, ConcatProperties
      <4>2. QED
        BY <3>2, <4>1
    <3> DEFINE n == Len(do)
    <3>4. n \in Nat /\ n + 1 \in 1..n + 1 /\ ~(n + 1 <= n) /\ n + 1 - n = 1 /\ n + 1 # 0
      BY <2>1
    <3>5. T.todo[n + 1] = one[n + 1 - n]
      BY <3>3, <3>4
    <3>6. Len(T.todo) # 0
      BY <3>3, <3>4
    <3>7. QED
      BY <3>2, <3>3, <3>4, <3>5, <3>6, EmptySeq
  <2>3. QED
    BY <2>2 DEF Puts
<1>12. Puts(Run(T), t)
  BY <1>1, <1>4, <1>10, <1>11, RunPuts
<1>13. Run(T).todo = <<>> /\ Return(Run(T).s, Call("set insert", r, names, k))
  BY <1>1 DEF Finish, ReturnWhenDone
<1>14. rows' = Run(T).s.rows /\ last'.ok = Run(T).s.ok /\ last'.row = r /\ last'.key = k
  BY <1>13, ReturnTells
<1>15. CASE last'.ok
  <2>1. r \in DOMAIN rows' /\ k \in rows'[r][prop.name]
    BY <1>4, <1>12, <1>13, <1>14, <1>15 DEF Puts
  <2>2. PointTo(r, prop, k)
    BY <1>1, <1>15
  <2>3. QED
    BY <1>1, <1>2, <1>14, <2>1, <2>2, PointCall
<1>16. CASE ~last'.ok
  <2>1. it' = it
    BY <1>1, <1>16
  <2>2. QED
    BY <1>2, <1>16, <2>1 DEF CallStep, Denotes, Inv, Iterating
<1>17. QED
  BY <1>15, <1>16

\* find(), with the iterator it returns.
LEMMA SetFindCall ==
    ASSUME Inv, ops < MaxOps, NEW r \in DOMAIN rows, NEW prop \in Properties(r[1]), NEW v,
           SetFind(r, prop, v)
    PROVE  CallStep
<1> DEFINE set == rows[r][prop.name]
           op == IF v \in set THEN "set find" ELSE "set miss"
           S == Store
<1>1. /\ prop.kind \in {"set", "linkSet"} /\ Return(S, Call(op, r, {}, v))
      /\ it' = Iterator(r, prop, IF v \in set THEN Index(set, v) ELSE Cardinality(set))
  BY DEF SetFind
<1>2. StoreStep
  BY SetReadSteps
<1>3. S.rows = rows /\ (v \in set <=> op = "set find") /\ op # "set insert" /\ set = rows[r][prop.name]
  BY StoreIs
<1>4. Column(prop, set) /\ r \in Classes \X Nat
  BY ValueIs
<1> HIDE DEF op, S, set
<1>5. rows' = rows /\ last'.row = r /\ last'.key = v /\ last'.op = op
  BY <1>1, <1>3, ReturnTells
<1>6. CASE v \in set
  <2>1. PointTo(r, prop, v) /\ r \in DOMAIN rows' /\ v \in rows'[r][prop.name]
    BY <1>1, <1>3, <1>5, <1>6 DEF PointTo
  <2>2. QED
    BY <1>1, <1>2, <1>5, <2>1, PointCall
<1>7. CASE v \notin set
  <2>1. it'.row = r /\ it'.prop = prop /\ it'.i = Cardinality(set)
    BY <1>1, <1>7 DEF Iterator
  <2>2. Cardinality(set) \in Nat
    BY <1>1, <1>4, SetColumn, FS_CardinalityType
  <2>3. Iterating'
    BY <1>1, <1>4, <2>1, <2>2 DEF Iterating
  <2>4. Denotes
    BY <1>3, <1>5, <1>7 DEF Denotes
  <2>5. QED
    BY <1>2, <2>3, <2>4 DEF CallStep
<1>8. QED
  BY <1>6, <1>7

\* begin() of a set.
LEMMA SetBeginCall ==
    ASSUME Inv, ops < MaxOps, NEW r \in DOMAIN rows, NEW prop \in Properties(r[1]), SetBegin(r, prop)
    PROVE  CallStep
<1>1. /\ prop.kind \in {"set", "linkSet"} /\ Return(Store, Call("begin", r, {}, Null))
      /\ it' = Iterator(r, prop, 0)
  BY DEF SetBegin
<1>2. StoreStep
  BY SetReadSteps
<1>3. r \in Classes \X Nat /\ last'.op = "begin"
  BY <1>1, ValueIs, ReturnTells
<1>4. it'.row = r /\ it'.prop = prop /\ it'.i = 0
  BY <1>1 DEF Iterator
<1>5. Iterating' /\ Denotes
  BY <1>1, <1>3, <1>4 DEF Iterating, Denotes
<1>6. QED
  BY <1>2, <1>5 DEF CallStep

\* Operations of the iterators.
LEMMA SetIteratorsCall ==
    ASSUME Inv, ops < MaxOps, SetIterators
    PROVE  CallStep
<1>1. CASE IteratorNext
  <2>1. StoreStep
    BY <1>1, SetReadSteps
  <2>2. /\ it # NoIterator /\ it' = [it EXCEPT !.i = @ + 1]
        /\ Return(Store, Call("next", it.row, {}, Null))
    BY <1>1 DEF IteratorNext
  <2>3. last'.op = "next"
    BY <2>2, ReturnTells
  <2>4. /\ it.row \in Classes \X Nat /\ it.prop \in Properties(it.row[1])
        /\ it.prop.kind \in {"set", "linkSet"} /\ it.i \in Nat
    BY <2>2 DEF Inv, Iterating
  <2>5. Iterating'
    <3>1. PICK a : a = it' /\ a = [it EXCEPT !.i = @ + 1]
      BY <2>2
    <3>2. a.row = it.row /\ a.prop = it.prop
      BY <3>1
    <3>3. a.i \in Nat
      BY <3>1, <2>4
    <3>4. QED
      BY <2>4, <3>1, <3>2, <3>3 DEF Iterating
  <2>6. QED
    BY <2>1, <2>3, <2>5 DEF CallStep, Denotes
<1>2. CASE IteratorPostfixNext
  <2>1. StoreStep
    BY <1>2, SetReadSteps
  <2>2. it' = it /\ Return(Store, Call("next", it.row, {}, Null))
    BY <1>2 DEF IteratorPostfixNext
  <2>3. last'.op = "next"
    BY <2>2, ReturnTells
  <2>4. QED
    BY <2>1, <2>2, <2>3, QuietCall DEF Quiet
<1>3. CASE SetErase
  <2>1. StoreStep
    BY <1>3, SetEraseSteps
  <2>2. it' = it /\ last'.op = "set erase"
    BY <1>3 DEF SetErase, Return, Call
  <2>3. QED
    BY <2>1, <2>2, QuietCall DEF Quiet
<1>4. QED
  BY <1>1, <1>2, <1>3 DEF SetIterators

\* The other calls leave the iterator.
LEMMA QuietCalls ==
    ASSUME NEW r, NEW prop, NEW x, NEW y
    PROVE  /\ Add(x) => Quiet
           /\ InsertAll(x, y) => Quiet
           /\ RemoveObject(r) => Quiet
           /\ Assign(r, prop, x) => Quiet
           /\ LinkAssignPointer(r, prop, x) => Quiet
           /\ LinkAssignNull(r, prop) => Quiet
           /\ LinkAssignManaged(r, prop, x) => Quiet
           /\ LinkAssignLink(r, prop, x) => Quiet
           /\ ListPush(r, prop, x) => Quiet
           /\ ListPushPointer(r, prop, x) => Quiet
           /\ ListPushManaged(r, prop, x) => Quiet
           /\ ListPushLink(r, prop, x) => Quiet
           /\ ListErase(r, prop, x) => Quiet
           /\ ListPopBack(r, prop) => Quiet
           /\ ListClear(r, prop) => Quiet
           /\ ListSet(r, prop, x, y) => Quiet
           /\ SetClear(r, prop) => Quiet
           /\ BoxAssign(r, prop, x, y) => Quiet
           /\ BoxAssignPointer(r, prop, x, y) => Quiet
           /\ BoxAssignManaged(r, prop, x, y) => Quiet
           /\ DictErase(r, prop, x) => Quiet
<1>1. Add(x) => Quiet
  BY DEF Quiet, Add, Finish, ReturnWhenDone, Return, Call
<1>2. InsertAll(x, y) => Quiet
  BY DEF Quiet, InsertAll, Finish, ReturnWhenDone, Return, Call
<1>3. RemoveObject(r) => Quiet
  BY DEF Quiet, RemoveObject, Return, Call
<1>4. Assign(r, prop, x) => Quiet
  BY DEF Quiet, Assign, Return, Call
<1>5. LinkAssignPointer(r, prop, x) => Quiet
  BY DEF Quiet, LinkAssignPointer, Finish, ReturnWhenDone, Return, Call
<1>6. LinkAssignNull(r, prop) => Quiet
  BY DEF Quiet, LinkAssignNull, Return, Call
<1>7. LinkAssignManaged(r, prop, x) => Quiet
  BY DEF Quiet, LinkAssignManaged, Return, Call
<1>8. LinkAssignLink(r, prop, x) => Quiet
  BY DEF Quiet, LinkAssignLink, Return, Call
<1>9. ListPush(r, prop, x) => Quiet
  BY DEF Quiet, ListPush, Return, Call
<1>10. ListPushPointer(r, prop, x) => Quiet
  BY DEF Quiet, ListPushPointer, Finish, ReturnWhenDone, Return, Call
<1>11. \A k : ListPushManaged(r, prop, k) => Quiet
  BY DEF Quiet, ListPushManaged, Return, Call
<1>12. ListPushLink(r, prop, x) => Quiet
  BY <1>11 DEF ListPushLink
<1>13. \A i : ListRemoveAt(r, prop, i, "list") => Quiet
  BY DEF Quiet, ListRemoveAt, Return, Call
<1>14. ListErase(r, prop, x) => Quiet
  BY <1>13 DEF ListErase
<1>15. ListPopBack(r, prop) => Quiet
  BY <1>13 DEF ListPopBack
<1>16. ListClear(r, prop) => Quiet
  BY DEF Quiet, ListClear, Return, Call
<1>17. ListSet(r, prop, x, y) => Quiet
  BY DEF Quiet, ListSet, Return, Call
<1>18. SetClear(r, prop) => Quiet
  BY DEF Quiet, SetClear, Return, Call
<1>19. BoxAssign(r, prop, x, y) => Quiet
  BY DEF Quiet, BoxAssign, Return, Call
<1>20. BoxAssignPointer(r, prop, x, y) => Quiet
  BY DEF Quiet, BoxAssignPointer, Finish, ReturnWhenDone, Return, Call
<1>21. BoxAssignManaged(r, prop, x, y) => Quiet
  BY DEF Quiet, BoxAssignManaged, Return, Call
<1>22. DictErase(r, prop, x) => Quiet
  BY DEF Quiet, DictErase, Return, Call
<1>23. QED
  BY <1>1, <1>2, <1>3, <1>4, <1>5, <1>6, <1>7, <1>8, <1>9, <1>10, <1>11, <1>12, <1>14, <1>15,
     <1>16, <1>17, <1>18, <1>19, <1>20, <1>21, <1>22

(* ----- the program ----- *)

\* The calls on scalars and links,
LEMMA ScalarsCall ==
    ASSUME Inv, ops < MaxOps, Scalars
    PROVE  CallStep
<1>1. PICK c \in On({"number", "value", "link"}) :
          \/ \E v \in Numbers \cup {Null} : Assign(c[1], c[2], v)
          \/ \E p \in PointersTo(c[2].target) \cup {Null} : LinkAssignPointer(c[1], c[2], p)
          \/ LinkAssignNull(c[1], c[2])
          \/ \E to \in RowsOf(c[2].target) : LinkAssignManaged(c[1], c[2], to)
          \/ \E from \in {l \in On({"link"}) : l[2].target = c[2].target} :
                LinkAssignLink(c[1], c[2], from)
  BY DEF Scalars
<1> DEFINE r == c[1]
           prop == c[2]
<1>2. r \in DOMAIN rows /\ prop \in Properties(r[1])
  BY OnFacts
<1>3. \/ \E v \in Numbers \cup {Null} : Assign(r, prop, v)
      \/ \E p \in PointersTo(prop.target) \cup {Null} : LinkAssignPointer(r, prop, p)
      \/ LinkAssignNull(r, prop)
      \/ \E to : LinkAssignManaged(r, prop, to)
      \/ \E from : LinkAssignLink(r, prop, from)
  BY <1>1
<1> HIDE DEF r, prop
<1>4. StoreStep
  BY <1>2, <1>3, AssignSteps, LinkPointerSteps, LinkSteps
<1>5. Quiet
  BY <1>3, QuietCalls
<1>6. QED
  BY <1>4, <1>5, QuietCall

\* on lists of values,
LEMMA PrimitiveListsCall ==
    ASSUME Inv, ops < MaxOps, PrimitiveLists
    PROVE  CallStep
<1>1. PICK c \in On(ListKinds \ {"linkList"}) :
          \/ \E v \in Numbers : ListPush(c[1], c[2], v)
          \/ ListPopBack(c[1], c[2])
          \/ \E i \in 1..MaxLen : ListErase(c[1], c[2], i)
          \/ ListClear(c[1], c[2])
          \/ \E i \in 1..MaxLen, v \in Numbers : ListSet(c[1], c[2], i, v)
  BY DEF PrimitiveLists
<1> DEFINE r == c[1]
           prop == c[2]
<1>2. r \in DOMAIN rows /\ prop \in Properties(r[1])
  BY OnFacts
<1>3. \/ \E v \in Numbers : ListPush(r, prop, v)
      \/ ListPopBack(r, prop)
      \/ \E i : ListErase(r, prop, i)
      \/ ListClear(r, prop)
      \/ \E i, v : v \in Numbers /\ ListSet(r, prop, i, v)
  BY <1>1
<1> HIDE DEF r, prop
<1>4. StoreStep
  BY <1>2, <1>3, ListPushSteps, ListSteps, ListClearSteps, ListSetSteps
<1>5. Quiet
  BY <1>3, QuietCalls
<1>6. QED
  BY <1>4, <1>5, QuietCall

\* on lists of links,
LEMMA LinkListsCall ==
    ASSUME Inv, ops < MaxOps, LinkLists
    PROVE  CallStep
<1>1. PICK c \in On({"linkList"}) :
          \/ \E p \in PointersTo(c[2].target) : ListPushPointer(c[1], c[2], p)
          \/ \E to \in RowsOf(c[2].target) : ListPushManaged(c[1], c[2], to[2])
          \/ \E from \in {l \in On({"link"}) : l[2].target = c[2].target} :
                ListPushLink(c[1], c[2], from)
          \/ ListPopBack(c[1], c[2])
          \/ \E i \in 1..MaxLen : ListErase(c[1], c[2], i)
          \/ ListClear(c[1], c[2])
  BY DEF LinkLists
<1> DEFINE r == c[1]
           prop == c[2]
<1>2. r \in DOMAIN rows /\ prop \in Properties(r[1])
  BY OnFacts
<1>3. \/ \E p \in PointersTo(prop.target) : ListPushPointer(r, prop, p)
      \/ \E k : ListPushManaged(r, prop, k)
      \/ \E from : ListPushLink(r, prop, from)
      \/ ListPopBack(r, prop)
      \/ \E i : ListErase(r, prop, i)
      \/ ListClear(r, prop)
  BY <1>1
<1> HIDE DEF r, prop
<1>4. StoreStep
  BY <1>2, <1>3, ListPushPointerSteps, ListPushManagedSteps, ListSteps, ListClearSteps
<1>5. Quiet
  BY <1>3, QuietCalls
<1>6. QED
  BY <1>4, <1>5, QuietCall

\* on sets of values,
LEMMA PrimitiveSetsCall ==
    ASSUME Inv, ops < MaxOps, PrimitiveSets
    PROVE  CallStep
<1>1. PICK c \in On({"set"}) :
          \/ \E v \in Numbers : SetInsertValue(c[1], c[2], v)
          \/ \E v \in Numbers : SetFind(c[1], c[2], v)
          \/ SetBegin(c[1], c[2])
          \/ SetClear(c[1], c[2])
  BY DEF PrimitiveSets
<1> DEFINE r == c[1]
           prop == c[2]
<1>2. r \in DOMAIN rows /\ prop \in Properties(r[1])
  BY OnFacts
<1>3. \/ \E v \in Numbers : SetInsertValue(r, prop, v)
      \/ \E v : SetFind(r, prop, v)
      \/ SetBegin(r, prop)
      \/ SetClear(r, prop)
  BY <1>1
<1> HIDE DEF r, prop
<1>4. SetClear(r, prop) => CallStep
  BY <1>2, SetClearSteps, QuietCalls, QuietCall
<1>5. QED
  BY <1>2, <1>3, <1>4, SetInsertValueCall, SetFindCall, SetBeginCall

\* on sets of links,
LEMMA LinkSetsCall ==
    ASSUME Inv, ops < MaxOps, LinkSets
    PROVE  CallStep
<1>1. PICK c \in On({"linkSet"}) :
          \/ \E p \in PointersTo(c[2].target) : SetInsertPointer(c[1], c[2], p)
          \/ \E to \in RowsOf(c[2].target) : SetInsertManaged(c[1], c[2], to)
          \/ \E to \in RowsOf(c[2].target) : SetFind(c[1], c[2], to[2])
          \/ SetBegin(c[1], c[2])
          \/ SetClear(c[1], c[2])
  BY DEF LinkSets
<1> DEFINE r == c[1]
           prop == c[2]
<1>2. r \in DOMAIN rows /\ prop \in Properties(r[1])
  BY OnFacts
<1>3. \/ \E p \in PointersTo(prop.target) : SetInsertPointer(r, prop, p)
      \/ \E to \in DOMAIN rows : to[1] = prop.target /\ SetInsertManaged(r, prop, to)
      \/ \E v : SetFind(r, prop, v)
      \/ SetBegin(r, prop)
      \/ SetClear(r, prop)
  BY <1>1 DEF RowsOf
<1> HIDE DEF r, prop
<1>4. SetClear(r, prop) => CallStep
  BY <1>2, SetClearSteps, QuietCalls, QuietCall
<1>5. QED
  BY <1>2, <1>3, <1>4, SetInsertPointerCall, SetInsertManagedCall, SetFindCall, SetBeginCall

\* on dictionaries of values,
LEMMA PrimitiveMapsCall ==
    ASSUME Inv, ops < MaxOps, PrimitiveMaps
    PROVE  CallStep
<1>1. PICK c \in On({"map"}), k \in MapKeys :
          \/ \E v \in Numbers : BoxAssign(c[1], c[2], k, v)
          \/ DictErase(c[1], c[2], k)
  BY DEF PrimitiveMaps
<1> DEFINE r == c[1]
           prop == c[2]
<1>2. r \in DOMAIN rows /\ prop \in Properties(r[1])
  BY OnFacts
<1>3. (\E v \in Numbers : BoxAssign(r, prop, k, v)) \/ DictErase(r, prop, k)
  BY <1>1
<1> HIDE DEF r, prop
<1>4. StoreStep
  BY <1>2, <1>3, BoxAssignSteps, DictEraseSteps
<1>5. Quiet
  BY <1>3, QuietCalls
<1>6. QED
  BY <1>4, <1>5, QuietCall

\* and on dictionaries of links.
LEMMA LinkMapsCall ==
    ASSUME Inv, ops < MaxOps, LinkMaps
    PROVE  CallStep
<1>1. PICK c \in On({"linkMap"}), k \in MapKeys :
          \/ \E p \in PointersTo(c[2].target) \cup {Null} : BoxAssignPointer(c[1], c[2], k, p)
          \/ \E to \in RowsOf(c[2].target) : BoxAssignManaged(c[1], c[2], k, to)
          \/ DictErase(c[1], c[2], k)
  BY DEF LinkMaps
<1> DEFINE r == c[1]
           prop == c[2]
<1>2. r \in DOMAIN rows /\ prop \in Properties(r[1])
  BY OnFacts
<1>3. \/ \E p \in PointersTo(prop.target) \cup {Null} : BoxAssignPointer(r, prop, k, p)
      \/ \E to \in DOMAIN rows : to[1] = prop.target /\ BoxAssignManaged(r, prop, k, to)
      \/ DictErase(r, prop, k)
  BY <1>1 DEF RowsOf
<1> HIDE DEF r, prop
<1>4. StoreStep
  BY <1>2, <1>3, BoxAssignPointerSteps, BoxAssignManagedSteps, DictEraseSteps
<1>5. Quiet
  BY <1>3, QuietCalls
<1>6. QED
  BY <1>4, <1>5, QuietCall

\* Every call keeps the invariant, and does what the action properties say.
LEMMA NextCall ==
    ASSUME Inv, Next
    PROVE  CallStep
<1>1. /\ ops < MaxOps
      /\ \/ \E p \in Pointers : Add(p)
         \/ \E p, q \in Pointers : InsertAll(p, q)
         \/ \E r \in DOMAIN rows : RemoveObject(r)
         \/ Scalars
         \/ PrimitiveLists \/ LinkLists
         \/ PrimitiveSets \/ LinkSets \/ SetIterators
         \/ PrimitiveMaps \/ LinkMaps
  BY DEF Next
<1>2. CASE \E p \in Pointers : Add(p)
  BY <1>1, <1>2, AddSteps, QuietCalls, QuietCall
<1>3. CASE \E p, q \in Pointers : InsertAll(p, q)
  BY <1>1, <1>3, InsertSteps, QuietCalls, QuietCall
<1>4. CASE \E r \in DOMAIN rows : RemoveObject(r)
  BY <1>1, <1>4, RemoveSteps, QuietCalls, QuietCall
<1>5. QED
  BY <1>1, <1>2, <1>3, <1>4, ScalarsCall, PrimitiveListsCall, LinkListsCall, PrimitiveSetsCall,
     LinkSetsCall, SetIteratorsCall, PrimitiveMapsCall, LinkMapsCall

\* The invariant holds initially.
LEMMA InitFacts == Init => Inv
<1> SUFFICES ASSUME Init PROVE Inv
  OBVIOUS
<1>1. DOMAIN rows = {} /\ next = [c \in Classes |-> 0] /\ it = NoIterator /\ ops = 0
  BY DEF Init
<1>2. Sound(Store)
  BY <1>1 DEF Store, Sound, Typed, Live, Sole, Owned, OneKey
<1>3. Bounded /\ Iterating
  BY <1>1, BoundsAssumption DEF Bounded, Iterating
<1>4. QED
  BY <1>2, <1>3 DEF Inv

\* It is about the variables alone.
LEMMA StutterFacts == Inv /\ UNCHANGED vars => Inv'
<1> SUFFICES ASSUME Inv, UNCHANGED vars PROVE Inv'
  OBVIOUS
<1>1. rows' = rows /\ next' = next /\ it' = it /\ ops' = ops /\ Store' = Store
  BY DEF vars, Store
<1>2. Sound(Store)'
  BY <1>1 DEF Inv
<1>3. Bounded' /\ Iterating'
  BY <1>1 DEF Inv, Bounded, Iterating
<1>4. QED
  BY <1>2, <1>3 DEF Inv

\* The store is sound between any two calls.  It is what the other theorems
\* rest on: no single call can be shown to leave the graph sound without
\* knowing that no embedded row is shared before it, and that keys are fresh.
THEOREM Invariance == Spec => []Inv
<1>1. Inv /\ [Next]_vars => Inv'
  <2>1. ASSUME Inv, Next PROVE Inv'
    BY <2>1, NextCall DEF CallStep, StoreStep, Inv
  <2>2. QED
    BY <2>1, StutterFacts
<1>2. QED
  BY <1>1, InitFacts, PTL DEF Spec

\* Every row has the columns of its class with values of their kinds, and
\* keys are those the tables have given out.
THEOREM TypeIsOK == Spec => []TypeOK
<1>1. Inv => TypeOK
  <2> SUFFICES ASSUME Inv PROVE TypeOK
    OBVIOUS
  <2>1. Typed(Store) /\ Store.rows = rows /\ Store.next = next
    BY StoreIs DEF Inv, Sound
  <2>2. next \in [Classes -> Nat] /\ \A r \in DOMAIN rows : TypedRow(Store, r)
    BY <2>1 DEF Typed
  <2>3. \A r \in DOMAIN rows :
            /\ r \in Classes \X Nat /\ r[2] < next[r[1]]
            /\ DOMAIN rows[r] = DOMAIN Columns[r[1]]
            /\ \A p \in Properties(r[1]) : Column(p, rows[r][p.name])
    BY <2>1, <2>2 DEF TypedRow
  <2>4. \A c \in Classes : next[c] \in 0..MaxKeys
    BY <2>2, BoundsAssumption DEF Inv, Bounded
  <2>5. ops \in 0..MaxOps /\ (it = NoIterator \/ it.i \in Nat)
    BY DEF Inv, Bounded, Iterating
  <2>6. QED
    BY <2>3, <2>4, <2>5 DEF TypeOK
<1>2. QED
  BY <1>1, Invariance, PTL

\* Whatever a program links, pushes, inserts, upserts or removes, and
\* however a call fails half way, every reference is to a live row, and
\* every embedded object has exactly one owner.
THEOREM GraphStaysSound == Spec => []GraphIsSound
<1>1. Inv => GraphIsSound
  <2> SUFFICES ASSUME Inv PROVE GraphIsSound
    OBVIOUS
  <2>1. Live(rows) /\ Sole(rows) /\ Owned(rows)
    BY StoreIs DEF Inv, Sound
  <2>2. \A r \in DOMAIN rows : RefersTo(rows, r) \subseteq DOMAIN rows
    BY <2>1 DEF Live
  <2>3. ASSUME NEW e \in DOMAIN rows, e[1] \in Embedded
        PROVE  Cardinality(Owners(e)) = 1
    <3>1. PICK r \in DOMAIN rows : e \in RefersTo(rows, r)
      BY <2>1, <2>3 DEF Owned, HasOwner
    <3>2. PICK f \in ReferencesIn(rows, r) : e = <<f[3], f[4]>>
      BY <3>1 DEF RefersTo
    <3> DEFINE All == UNION {{s} \X ReferencesIn(rows, s) : s \in DOMAIN rows}
    <3>3. Owners(e) = {o \in All : <<o[2][3], o[2][4]>> = e}
      BY DEF Owners
    <3>4. \A o \in All : o = <<o[1], o[2]>> /\ o[1] \in DOMAIN rows /\ o[2] \in ReferencesIn(rows, o[1])
      OBVIOUS
    <3>5. <<r, f>> \in All /\ <<r, f>>[2] = f
      OBVIOUS
    <3> HIDE DEF All
    <3>6. <<r, f>> \in Owners(e)
      BY <3>2, <3>3, <3>5
    <3>7. ASSUME NEW o \in Owners(e)
          PROVE  o = <<r, f>>
      <4>1. /\ o = <<o[1], o[2]>> /\ o[1] \in DOMAIN rows /\ o[2] \in ReferencesIn(rows, o[1])
            /\ <<o[2][3], o[2][4]>> = e
        BY <3>3, <3>4
      <4>2. o[2][3] = f[3] /\ o[2][4] = f[4] /\ f[3] \in Embedded
        BY <4>1, <3>2, <2>3
      <4>3. o[1] = r /\ o[2] = f
        BY <4>1, <4>2, <2>1 DEF Sole
      <4>4. QED
        BY <4>1, <4>3
    <3>8. Owners(e) = {<<r, f>>}
      BY <3>6, <3>7
    <3>9. QED
      BY <3>8, FS_Singleton
  <2>4. QED
    BY <2>2, <2>3 DEF GraphIsSound
<1>2. QED
  BY <1>1, Invariance, PTL

\* However an object with a primary key gets in, at any depth of an import,
\* there is one row per key.
THEOREM KeysStayUnique == Spec => []OneRowPerKey
<1>1. Inv => OneRowPerKey
  BY StoreIs DEF Inv, Sound, OneKey, OneRowPerKey
<1>2. QED
  BY <1>1, Invariance, PTL

\* A call writes only the row it is made on, rows it creates, and rows named
\* by primary keys in its unmanaged argument; only remove() deletes a
\* top-level row.
THEOREM OthersStay == Spec => OnlyNamedRowsChange
<1>1. Inv /\ [Next]_vars =>
        [\A r \in DOMAIN rows :
            \/ r[1] \in Embedded
            \/ r \in DOMAIN rows' /\ rows'[r] = rows[r]
            \/ r = last'.row
            \/ last'.op = "remove" /\ last'.row \in RefersTo(rows, r) /\ r \in DOMAIN rows'
            \/ /\ HasPrimaryKeyProperty(r[1])
               /\ <<r[1], PkOf(r[1], rows[r])>> \in last'.names
               /\ r \in DOMAIN rows']_vars
  BY NextCall DEF CallStep, StoreStep, RowsChange
<1>2. QED
  BY <1>1, Invariance, PTL DEF Spec, OnlyNamedRowsChange

\* The iterator that insert() or a successful find() returns denotes the
\* element it was called with, in the set as it is after the call.
THEOREM IteratorsDenote == Spec => IteratorDenotes
<1>1. Inv /\ [Next]_vars =>
        [(last'.op \in {"set insert", "set find"} /\ last'.ok) =>
            /\ it'.row = last'.row
            /\ it'.i < Cardinality(rows'[it'.row][it'.prop.name])
            /\ ElementAt(rows'[it'.row][it'.prop.name], it'.i) = last'.key]_vars
  BY NextCall DEF CallStep, Denotes
<1>2. QED
  BY <1>1, Invariance, PTL DEF Spec, IteratorDenotes

=============================================================================
