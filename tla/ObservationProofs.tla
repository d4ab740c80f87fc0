------------------------- MODULE ObservationProofs -------------------------
(***************************************************************************)
(* Proofs about Observation, for any schema, values, items and number of   *)
(* versions.                                                               *)
(***************************************************************************)
EXTENDS Observation, SequenceTheorems, TLAPS

\* No version after v up to w wrote the property.
Untouched(p, v, w) == \A i \in v + 1 .. w : p \notin file[i].touched

\* A property changes only in the versions that say so, the object is deleted
\* last, and its collection with it.
FileInv ==
    /\ \A v, w \in 1..Latest, p \in Props :
          v <= w /\ Untouched(p, v, w) => file[v].val[p] = file[w].val[p]
    /\ \A v \in 1..Latest : ~file[v].alive => v = Latest /\ file[v].items = {}

\* Callbacks and pending calls of after() belong to a delivery, which leads its
\* observers forward.
DeliveryInv ==
    /\ target = 0 => due = {} /\ inside = "none"
    /\ \A o \in due : told[o] <= target

\* What before() left for after(), or nothing.
NamesInv == told["object"] # 0 =>
    IF "object" \in due
    THEN /\ names \in {{}, Columns(told["object"], target)}
         /\ deleted => ~file[target].alive
         /\ old # Unset => /\ names # {}
                           /\ \E v \in told["object"]..target - 1 : old = Read(names, v)
    ELSE /\ inside # "object" => names = {} /\ old = Unset
         /\ deleted => ~file[told["object"]].alive

IInv ==
    /\ TypeOK
    /\ FileInv
    /\ DeliveryInv
    /\ NamesInv
    /\ ObjectCopyFollows
    /\ CollectionCopyFollows

-----------------------------------------------------------------------------
(* The file.                                                               *)

\* The versions that the observer may be at or have been told of are in the file.
LEMMA FileFacts ==
    ASSUME TypeOK
    PROVE  /\ Latest \in Nat \ {0} /\ seen \in 1..Latest
           /\ target \in 0..seen
           /\ \A o \in Observers : told[o] \in 0..seen
           /\ \A v \in 1..Latest : file[v] \in Version
<1>1. file \in Seq(Version) /\ Latest \in 1..MaxVersion /\ MaxVersion \in Nat
  BY ConstantsAssumption DEF TypeOK
<1>2. \A v \in 1..Len(file) : file[v] \in Version
  BY <1>1, ElementOfSeq
<1>3. QED
  BY <1>1, <1>2 DEF TypeOK, Latest

\* A write adds a version and leaves the others.
LEMMA AppendFacts ==
    ASSUME TypeOK, NEW w \in Version, file' = Append(file, w)
    PROVE  /\ file' \in Seq(Version)
           /\ Latest' = Latest + 1
           /\ \A v \in 1..Latest : file'[v] = file[v]
           /\ file'[Latest'] = w
BY AppendProperties DEF TypeOK, Latest

\* What a write transaction may make of a version.
LEMMA WrittenFacts ==
    ASSUME NEW v \in Version, NEW w \in Written(v) \cup {Removed(v)}
    PROVE  /\ w \in Version
           /\ \A p \in Props : p \notin w.touched => w.val[p] = v.val[p]
           /\ ~w.alive => w.items = {} \/ ~v.alive
<1>1. v \in [alive : BOOLEAN, val : [Props -> Values], items : SUBSET Items,
             touched : SUBSET Names]
  BY DEF Version
<1>2. ASSUME NEW p \in Props, NEW x \in Values, w = PropertySet(v, p, x)
      PROVE  /\ w \in Version /\ w.alive = v.alive
             /\ \A q \in Props : q \notin w.touched => w.val[q] = v.val[q]
  <2>1. w = [alive |-> v.alive, val |-> [v.val EXCEPT ![p] = x], items |-> v.items,
             touched |-> {p}]
    BY <1>1, <1>2 DEF PropertySet
  <2>2. [v.val EXCEPT ![p] = x] \in [Props -> Values] /\ p \in Names
    BY <1>1 DEF Props
  <2>3. w \in Version
    BY <1>1, <2>1, <2>2 DEF Version
  <2>4. QED
    BY <1>1, <2>1, <2>3
<1>3. ASSUME NEW s \in SUBSET Items, w = CollectionSet(v, s)
      PROVE  /\ w \in Version /\ w.alive = v.alive
             /\ \A q \in Props : q \notin w.touched => w.val[q] = v.val[q]
  <2>1. w = [alive |-> v.alive, val |-> v.val, items |-> s, touched |-> {"items"}]
    BY <1>1, <1>3 DEF CollectionSet
  <2>2. w \in Version
    BY <1>1, <2>1, ConstantsAssumption DEF Version
  <2>3. QED
    BY <2>1, <2>2
<1>4. ASSUME w = Removed(v)
      PROVE  /\ w \in Version /\ w.items = {}
             /\ \A q \in Props : q \notin w.touched => w.val[q] = v.val[q]
  <2>1. w = [alive |-> FALSE, val |-> v.val, items |-> {}, touched |-> {}]
    BY <1>1, <1>4 DEF Removed
  <2>2. v.val \in [Props -> Values] /\ {} \in SUBSET Items /\ {} \in SUBSET Names
    BY <1>1
  <2>3. w \in Version
    BY <2>1, <2>2, Zenon DEF Version
  <2>4. QED
    BY <2>1, <2>3
<1>5. \/ \E p \in Props, x \in Values : w = PropertySet(v, p, x)
      \/ \E s \in SUBSET Items : w = CollectionSet(v, s)
      \/ w = Removed(v)
  BY DEF Written
<1>6. QED
  BY <1>2, <1>3, <1>4, <1>5

\* The steps that write: one version is appended, and the Realm stays or moves
\* to it.
Write(w) ==
    /\ w \in Version
    /\ \A p \in Props : p \notin w.touched => w.val[p] = file[Latest].val[p]
    /\ ~w.alive => w.items = {}
    /\ file[Latest].alive
    /\ Latest < MaxVersion
    /\ file' = Append(file, w)
    /\ \/ UNCHANGED seen
       \/ seen' = Latest + 1
    /\ UNCHANGED <<told, initial, names, old, deleted, target, due, inside, copy, held,
                   report>>

\* A write of something else moves the Realm.
Move ==
    /\ seen' = Latest
    /\ UNCHANGED <<file, told, initial, names, old, deleted, target, due, inside, copy,
                   held, report>>

\* Writes, in a callback or outside, add one version or move the Realm.
LEMMA WriteSteps ==
    ASSUME TypeOK, WriteElsewhere \/ WriteHere
    PROVE  (\E w : Write(w)) \/ Move
<1>1. CASE WriteHere /\ UNCHANGED file /\ seen' = Latest
  BY <1>1 DEF WriteHere, Move
<1>2. CASE WriteElsewhere \/ (WriteHere /\ file[Latest].alive /\ Latest < MaxVersion
             /\ seen' = Latest + 1
             /\ \E w \in Written(file[Latest]) \cup {Removed(file[Latest])} :
                   file' = Append(file, w))
  <2>1. PICK w \in Written(file[Latest]) \cup {Removed(file[Latest])} :
          file' = Append(file, w)
    BY <1>2 DEF WriteElsewhere
  <2>2. file[Latest] \in Version /\ file[Latest].alive
    BY <1>2, FileFacts DEF WriteElsewhere
  <2>3. /\ w \in Version
        /\ \A p \in Props : p \notin w.touched => w.val[p] = file[Latest].val[p]
        /\ ~w.alive => w.items = {}
    BY <2>2, WrittenFacts
  <2>4. Write(w)
    BY <1>2, <2>1, <2>2, <2>3 DEF WriteElsewhere, WriteHere, Write
  <2>5. QED
    BY <2>4
<1>3. QED
  BY <1>1, <1>2 DEF WriteHere

\* An appended version leaves what is said of the others as it was.
LEMMA WriteFacts ==
    ASSUME TypeOK, NEW w, Write(w)
    PROVE  /\ file' \in Seq(Version) /\ Latest' = Latest + 1
           /\ \A v \in 1..Latest : file'[v] = file[v]
           /\ file'[Latest'] = w
           /\ seen' \in seen..Latest'
           /\ \A v, u \in 0..Latest : Columns(v, u)' = Columns(v, u)
           /\ \A N : \A v \in 1..Latest : Read(N, v)' = Read(N, v)
<1>1. /\ file' \in Seq(Version) /\ Latest' = Latest + 1
      /\ \A v \in 1..Latest : file'[v] = file[v]
      /\ file'[Latest'] = w
  BY AppendFacts DEF Write
<1>2. seen' \in seen..Latest'
  BY <1>1, FileFacts DEF Write
<1>3. ASSUME NEW v \in 0..Latest, NEW u \in 0..Latest
      PROVE  Columns(v, u)' = Columns(v, u)
  <2>1. \A i \in v + 1 .. u : i \in 1..Latest
    BY FileFacts
  <2>2. \A i \in v + 1 .. u : file'[i].touched = file[i].touched
    BY <1>1, <2>1
  <2>3. {file'[i].touched : i \in v + 1 .. u} = {file[i].touched : i \in v + 1 .. u}
    BY <2>2
  <2>4. QED
    BY <2>3, Zenon DEF Columns
<1>4. \A N : \A v \in 1..Latest : Read(N, v)' = Read(N, v)
  BY <1>1 DEF Read
<1>5. QED
  BY <1>1, <1>2, <1>3, <1>4

-----------------------------------------------------------------------------
(* What core reports, and what is read.                                    *)

\* A property that no version between two wrote is the same in both.
LEMMA ColumnsFacts ==
    ASSUME TypeOK, NEW v \in 0..Latest, NEW w \in 0..Latest
    PROVE  /\ Columns(v, w) \subseteq Names
           /\ \A p : p \notin Columns(v, w) => Untouched(p, v, w)
<1>1. \A i \in v + 1 .. w : file[i].touched \subseteq Names
  BY FileFacts DEF Version
<1>2. \A p : p \in Columns(v, w) <=> \E i \in v + 1 .. w : p \in file[i].touched
  BY DEF Columns
<1>3. QED
  BY <1>1, <1>2 DEF Untouched

\* What is read of a version: the values of the names asked for.
LEMMA ReadFacts ==
    ASSUME TypeOK, NEW N, NEW v \in 1..Latest
    PROVE  /\ Read(N, v) \in Reading
           /\ N = {} => Read(N, v) = Unset
           /\ \A p \in Readable : Read(N, v)[p] = IF p \in N THEN file[v].val[p] ELSE NoValue
           /\ \A p \in Props : file[v].val[p] # NoValue
<1>1. file[v].val \in [Props -> Values]
  BY FileFacts DEF Version
<1>2. Readable \subseteq Props /\ Props \subseteq Names
  BY DEF Readable, Props
<1>3. QED
  BY <1>1, <1>2, ConstantsAssumption DEF Read, Reading, Unset

\* Nothing follows a deletion.
LEMMA AliveBefore ==
    ASSUME TypeOK, FileInv, NEW v \in 1..Latest, NEW w \in 1..Latest,
           v <= w, ~file[v].alive
    PROVE  v = w
BY FileFacts DEF FileInv

\* populate_properties() finds what changed, unless before() did or there is
\* nothing to find.
LEMMA PopulatedFacts ==
    ASSUME TypeOK, NEW w \in 0..Latest,
           names \in {{}, Columns(told["object"], w)}
    PROVE  /\ Populated(w) \in {{}, Columns(told["object"], w)}
           /\ Populated(w) \subseteq Names
           /\ names # {} => Populated(w) = names
           /\ ~RootDeleted(told["object"], w) => Populated(w) = Columns(told["object"], w)
<1>1. told["object"] \in 0..Latest
  BY FileFacts DEF Observers
<1>2. Columns(told["object"], w) \subseteq Names
  BY <1>1, ColumnsFacts
<1>3. QED
  BY <1>2 DEF Populated, NothingChanged

-----------------------------------------------------------------------------
(* Every step preserves each part of the invariant.  A step that only moves   *)
(* the Realm, or runs a callback, leaves the file alone.                      *)

\* A step writes a version or leaves the file.
LEMMA Steps ==
    ASSUME TypeOK, [Next]_vars
    PROVE  (\E w : Write(w)) \/ UNCHANGED file
BY WriteSteps DEF Next, vars, Move, ObserveObject, ObserveCollection, Unregister,
   Notify, AfterObject, AfterObjectThrows, AfterCollection, EndCallback, EndNotify

\* Steps keep the types.
LEMMA TypeStep ==
    ASSUME TypeOK, DeliveryInv, [Next]_vars
    PROVE  TypeOK'
<1> USE FileFacts
<1>1. CASE ObserveObject
  <2>1. seen \in 0..seen /\ file[seen].val \in [Props -> Values] /\ seen # 0
    BY DEF Version
  <2>2. Unset \in Reading /\ {} \subseteq Names
    BY DEF Unset, Reading
  <2>3. QED
    BY <1>1, <2>1, <2>2 DEF ObserveObject, TypeOK, Latest
<1>2. CASE ObserveCollection
  <2>1. seen \in 0..seen /\ file[seen].items \subseteq Items /\ seen # 0
    BY DEF Version
  <2>2. QED
    BY <1>2, <2>1 DEF ObserveCollection, TypeOK, Latest
<1>3. ASSUME NEW o \in Observers, Unregister(o)
      PROVE  TypeOK'
  BY <1>3 DEF Unregister, TypeOK, Latest
<1>4. CASE WriteElsewhere \/ WriteHere
  <2>1. ASSUME NEW w, Write(w)
        PROVE  TypeOK'
    <3>1. /\ file' \in Seq(Version) /\ Latest' \in 1..MaxVersion
          /\ seen' \in seen..Latest'
      BY <2>1, WriteFacts, ConstantsAssumption DEF Write
    <3>2. 0..seen \subseteq 0..seen'
      BY <3>1
    <3>3. QED
      BY <2>1, <3>1, <3>2 DEF Write, TypeOK
  <2>2. CASE Move
    <3>1. Latest' = Latest /\ seen' \in 1..Latest /\ 0..seen \subseteq 0..seen'
      BY <2>2 DEF Move, Latest
    <3>2. QED
      BY <2>2, <3>1 DEF Move, TypeOK
  <2>3. QED
    BY <1>4, <2>1, <2>2, WriteSteps
<1>5. ASSUME NEW w \in seen..Latest, Notify(w)
      PROVE  TypeOK'
  <2>1. seen' = w /\ w \in 1..Latest /\ 0..seen \subseteq 0..w
    BY <1>5 DEF Notify
  <2>2. Due(w) \subseteq {o \in Observers : told[o] # 0}
    BY DEF Due
  <2>3. names' \subseteq Names /\ old' \in Reading /\ deleted' \in BOOLEAN
    <3>1. CASE "object" \in Due(w) /\ seen < w
      <4>1. Columns(told["object"], w) \subseteq Names
        BY <2>1, ColumnsFacts DEF Observers
      <4>2. Populated(w) \subseteq Names /\ FoundDeleted(w) \in BOOLEAN
        BY <4>1 DEF Populated, FoundDeleted, TypeOK
      <4>3. Read(names', seen) \in Reading
        BY ReadFacts
      <4>4. QED
        BY <1>5, <3>1, <4>2, <4>3 DEF Notify
    <3>2. CASE ~("object" \in Due(w) /\ seen < w)
      BY <1>5, <3>2 DEF Notify, TypeOK
    <3>3. QED
      BY <3>1, <3>2
  <2>4. QED
    BY <1>5, <2>1, <2>2, <2>3 DEF Notify, TypeOK, Latest
<1>6. ASSUME NEW o \in Observers, Called(o)
      PROVE  /\ told' \in [Observers -> 0..seen]
             /\ due' \subseteq {a \in Observers : told'[a] # 0}
  <2>1. target \in 0..seen /\ told' = [told EXCEPT ![o] = target] /\ due' = due \ {o}
    BY <1>6 DEF Called
  <2>2. QED
    BY <2>1 DEF TypeOK
<1>7. CASE AfterObject
  <2> DEFINE found == Populated(target)
             now == Read(found, seen)
             changed == found # {} /\ ~NothingChanged(told["object"], target)
  <2>1. found \subseteq Names /\ FoundDeleted(target) \in BOOLEAN
    <3>1. target \in 0..Latest /\ told["object"] \in 0..Latest
      BY DEF Observers
    <3>2. Columns(told["object"], target) \subseteq Names
      BY <3>1, ColumnsFacts
    <3>3. QED
      BY <3>2 DEF Populated, FoundDeleted, TypeOK
  <2>2. Unset \in Reading /\ now \in Reading /\ old \in Reading
    BY ReadFacts DEF Unset, Reading, TypeOK
  <2>3. [p \in Props |-> IF now[p] # NoValue THEN now[p] ELSE copy[p]] \in [Props -> Values]
    BY <2>2 DEF Reading, TypeOK, Props
  <2>4. /\ deleted' \in BOOLEAN
        /\ names' \subseteq Names /\ old' \in Reading
        /\ inside' \in Observers \cup {"none", "exception"}
        /\ copy' \in [Props -> Values]
    <3> HIDE DEF found, now
    <3>1. /\ deleted' = FoundDeleted(target)
          /\ \/ names' = found /\ old' = old /\ inside' = "object" /\ copy' = copy
             \/ /\ names' = found /\ old' = old /\ inside' = "object"
                /\ copy' = [p \in Props |-> IF now[p] # NoValue THEN now[p] ELSE copy[p]]
             \/ names' = {} /\ old' = Unset /\ inside' = inside /\ copy' = copy
      BY <1>7 DEF AfterObject, found, now
    <3>2. QED
      BY <2>1, <2>2, <2>3, <3>1 DEF TypeOK, Observers
  <2>5. report' \in [kind : {"none", "object", "deleted", "collection"},
                     old : Reading, new : Reading, root : BOOLEAN]
    <3> HIDE DEF found, now
    <3>1. \/ report' = [NoReport EXCEPT !.kind = "deleted"]
          \/ report' = [NoReport EXCEPT !.kind = "object", !.old = old, !.new = now]
          \/ report' = report
      BY <1>7 DEF AfterObject, found, now
    <3>2. QED
      BY <2>2, <3>1 DEF NoReport, TypeOK
  <2>6. QED
    BY <1>6, <1>7, <2>4, <2>5 DEF AfterObject, TypeOK, Latest, Observers
<1>8. CASE AfterCollection
  <2>1. held' \subseteq Items
    <3>1. target \in 1..Latest
      BY <1>8 DEF AfterCollection, Called, DeliveryInv
    <3>2. file[target].items \subseteq Items
      BY <3>1 DEF Version
    <3>3. QED
      BY <1>8, <3>2 DEF AfterCollection, Insertions, TypeOK
  <2>2. report' \in [kind : {"none", "object", "deleted", "collection"},
                     old : Reading, new : Reading, root : BOOLEAN]
    <3>1. \/ report' = [NoReport EXCEPT !.kind = "collection"]
          \/ report' = report
      BY <1>8 DEF AfterCollection
    <3>2. Unset \in Reading
      BY DEF Unset, Reading
    <3>3. QED
      BY <3>1, <3>2 DEF NoReport, TypeOK
  <2>3. inside' \in Observers \cup {"none", "exception"}
    BY <1>8 DEF AfterCollection, TypeOK, Observers
  <2>4. QED
    BY <1>6, <1>8, <2>1, <2>2, <2>3 DEF AfterCollection, TypeOK, Latest, Observers
<1>9. CASE EndCallback
  <2>1. Unset \in Reading /\ NoReport \in [kind : {"none", "object", "deleted", "collection"},
                     old : Reading, new : Reading, root : BOOLEAN]
    BY DEF Unset, Reading, NoReport
  <2>2. QED
    BY <1>9, <2>1 DEF EndCallback, TypeOK, Latest
<1>10. CASE EndNotify
  BY <1>10 DEF EndNotify, TypeOK, Latest
<1>11. CASE UNCHANGED vars
  BY <1>11 DEF vars, TypeOK, Latest
<1>12. CASE AfterObjectThrows
  <2>1. target \in 0..Latest /\ told["object"] \in 0..Latest
    BY DEF Observers
  <2>2. Columns(told["object"], target) \subseteq Names
    BY <2>1, ColumnsFacts
  <2>3. names' \subseteq Names
    BY <1>12, <2>2 DEF AfterObjectThrows, Populated, TypeOK
  <2>4. QED
    BY <1>12, <2>3 DEF AfterObjectThrows, TypeOK, Latest
<1>13. QED
  BY <1>1, <1>2, <1>3, <1>4, <1>5, <1>7, <1>8, <1>9, <1>10, <1>11, <1>12 DEF Next

\* A property changes only in versions that say so.
LEMMA FileStep ==
    ASSUME TypeOK, FileInv, [Next]_vars
    PROVE  FileInv'
<1>1. CASE UNCHANGED file
  BY <1>1 DEF FileInv, Untouched, Latest
<1>2. ASSUME NEW x, Write(x)
      PROVE  FileInv'
  <2>1. /\ Latest \in Nat \ {0} /\ Latest' = Latest + 1
        /\ \A v \in 1..Latest : file'[v] = file[v]
        /\ file'[Latest'] = x
    BY <1>2, FileFacts, WriteFacts
  <2>2. ASSUME NEW v \in 1..Latest', NEW w \in 1..Latest', NEW p \in Props,
               v <= w, Untouched(p, v, w)'
        PROVE  file'[v].val[p] = file'[w].val[p]
    <3>1. \A i \in v + 1 .. w : p \notin file'[i].touched
      BY <2>2 DEF Untouched
    <3>2. CASE w \in 1..Latest
      <4>1. v \in 1..Latest /\ \A i \in v + 1 .. w : i \in 1..Latest
        BY <2>1, <2>2, <3>2
      <4>2. Untouched(p, v, w)
        BY <2>1, <3>1, <4>1 DEF Untouched
      <4>3. QED
        BY <2>1, <2>2, <3>2, <4>1, <4>2 DEF FileInv
    <3>3. CASE w = Latest' /\ v \in 1..Latest
      <4>1. Latest \in 1..Latest /\ v <= Latest
        BY <2>1, <3>3
      <4>2. \A i \in v + 1 .. Latest : i \in 1..Latest /\ i \in v + 1 .. w
        BY <2>1, <3>3
      <4>3. Untouched(p, v, Latest)
        BY <2>1, <3>1, <4>2 DEF Untouched
      <4>4. file[v].val[p] = file[Latest].val[p]
        BY <4>1, <4>3, <3>3 DEF FileInv
      <4>5. w \in v + 1 .. w
        BY <2>1, <3>3
      <4>6. p \notin x.touched
        BY <2>1, <3>1, <3>3, <4>5
      <4>7. QED
        BY <1>2, <2>1, <3>3, <4>4, <4>6 DEF Write
    <3>4. CASE v = Latest'
      BY <2>1, <2>2, <3>4
    <3>5. QED
      BY <2>1, <2>2, <3>2, <3>3, <3>4
  <2>3. ASSUME NEW v \in 1..Latest', ~file'[v].alive
        PROVE  v = Latest' /\ file'[v].items = {}
    <3>1. CASE v = Latest'
      BY <1>2, <2>1, <2>3, <3>1 DEF Write
    <3>2. CASE v \in 1..Latest
      BY <1>2, <2>1, <2>3, <3>2 DEF Write, FileInv
    <3>3. QED
      BY <2>1, <3>1, <3>2
  <2>4. QED
    BY <2>2, <2>3 DEF FileInv
<1>3. QED
  BY <1>1, <1>2, Steps

\* A delivery leads its observers forward.
LEMMA DeliveryStep ==
    ASSUME TypeOK, DeliveryInv, [Next]_vars
    PROVE  DeliveryInv'
<1> USE FileFacts
<1>1. CASE ObserveObject
  BY <1>1 DEF ObserveObject, DeliveryInv, TypeOK
<1>2. CASE ObserveCollection
  BY <1>2 DEF ObserveCollection, DeliveryInv, TypeOK
<1>3. ASSUME NEW o \in Observers, Unregister(o)
      PROVE  DeliveryInv'
  BY <1>3 DEF Unregister, DeliveryInv, TypeOK
<1>4. ASSUME NEW w, Write(w)
      PROVE  DeliveryInv'
  BY <1>4 DEF Write, DeliveryInv
<1>5. ASSUME NEW w \in seen..Latest, Notify(w)
      PROVE  DeliveryInv'
  <2>1. \A o \in Due(w) : told[o] <= w
    BY DEF Due
  <2>2. QED
    BY <1>5, <2>1 DEF Notify, DeliveryInv
<1>6. CASE AfterObject
  BY <1>6 DEF AfterObject, Called, DeliveryInv, TypeOK
<1>7. CASE AfterCollection
  BY <1>7 DEF AfterCollection, Called, DeliveryInv, TypeOK
<1>8. CASE EndCallback
  BY <1>8 DEF EndCallback, DeliveryInv
<1>9. CASE EndNotify
  BY <1>9 DEF EndNotify, DeliveryInv
<1>10. CASE UNCHANGED vars
  BY <1>10 DEF vars, DeliveryInv
<1>11. CASE AfterObjectThrows \/ Move
  BY <1>11 DEF AfterObjectThrows, Move, DeliveryInv
<1>12. QED
  BY <1>1, <1>2, <1>3, <1>4, <1>5, <1>6, <1>7, <1>8, <1>9, <1>10, <1>11, WriteSteps
     DEF Next

\* A write says nothing new of the versions a delivery is about.
LEMMA NamesWrite ==
    ASSUME TypeOK, DeliveryInv, NamesInv, NEW w, Write(w)
    PROVE  NamesInv'
<1> USE FileFacts
<1>1. /\ told["object"] \in 0..Latest /\ target \in 0..Latest
      /\ Columns(told["object"], target)' = Columns(told["object"], target)
  <2>1. told["object"] \in 0..Latest /\ target \in 0..Latest
    BY DEF Observers
  <2>2. told' = told /\ target' = target
    BY DEF Write
  <2>3. QED
    BY <2>1, <2>2, WriteFacts DEF Columns
<1>2. \A v \in 1..Latest : file'[v] = file[v] /\ Read(names, v)' = Read(names, v)
  BY WriteFacts DEF Write, Read
<1>3. told["object"] # 0 => \A v \in told["object"]..target - 1 : v \in 1..Latest
  BY <1>1
<1>4. "object" \in due => target # 0
  BY DEF DeliveryInv
<1>5. UNCHANGED <<told, names, old, deleted, target, due, inside, Unset>>
  BY DEF Write, Unset
<1>6. CASE told["object"] # 0 /\ "object" \in due
  <2>1. names' \in {{}, Columns(told["object"], target)'}
    BY <1>1, <1>5, <1>6 DEF NamesInv
  <2>2. deleted' => ~file'[target'].alive
    BY <1>1, <1>2, <1>4, <1>5, <1>6 DEF NamesInv
  <2>3. ASSUME old' # Unset'
        PROVE  /\ names' # {}
               /\ \E v \in told'["object"]..target' - 1 : old' = Read(names, v)'
    <3>1. names # {} /\ \E v \in told["object"]..target - 1 : old = Read(names, v)
      BY <1>5, <1>6, <2>3 DEF NamesInv
    <3>2. PICK v \in told["object"]..target - 1 : old = Read(names, v)
      BY <3>1
    <3>3. Read(names, v)' = Read(names, v)
      BY <1>2, <1>3, <1>6
    <3>4. QED
      BY <1>5, <3>1, <3>2, <3>3
  <2>4. QED
    BY <1>5, <1>6, <2>1, <2>2, <2>3 DEF NamesInv
<1>7. CASE told["object"] # 0 /\ "object" \notin due
  BY <1>1, <1>2, <1>5, <1>7 DEF NamesInv
<1>8. CASE told["object"] = 0
  BY <1>5, <1>8 DEF NamesInv
<1>9. QED
  BY <1>6, <1>7, <1>8

\* What before() left for after() is of this delivery.
LEMMA NamesStep ==
    ASSUME TypeOK, FileInv, DeliveryInv, NamesInv, [Next]_vars
    PROVE  NamesInv'
<1> USE FileFacts
<1>1. CASE ObserveObject
  BY <1>1 DEF ObserveObject, NamesInv, TypeOK, Unset
<1>2. CASE ObserveCollection
  BY <1>2 DEF ObserveCollection, NamesInv, Columns, Read, Unset
<1>3. ASSUME NEW o \in Observers, Unregister(o)
      PROVE  NamesInv'
  <2>1. CASE o = "object"
    BY <1>3, <2>1 DEF Unregister, NamesInv, TypeOK
  <2>2. CASE o # "object"
    <3>1. told'["object"] = told["object"] /\ ("object" \in due' <=> "object" \in due)
      BY <1>3, <2>2 DEF Unregister, TypeOK
    <3>2. QED
      BY <1>3, <3>1 DEF Unregister, NamesInv, Columns, Read, Unset
  <2>3. QED
    BY <2>1, <2>2
<1>4. ASSUME NEW w, Write(w)
      PROVE  NamesInv'
  BY <1>4, NamesWrite
<1>5. ASSUME NEW w \in seen..Latest, Notify(w), told["object"] # 0
      PROVE  NamesInv'
  <2>1. /\ w \in 1..Latest /\ told["object"] \in 1..w /\ told["object"] <= seen
        /\ told' = told /\ file' = file /\ due' = Due(w) /\ inside' = inside
        /\ inside = "none" /\ names = {} /\ old = Unset
        /\ deleted => ~file[told["object"]].alive
    BY <1>5 DEF Notify, DeliveryInv, NamesInv, Observers
  <2>2. "object" \in Due(w) <=> told["object"] < w
    BY <1>5 DEF Due, Observers
  <2>3. Due(w) # {} => target' = w
    BY <1>5 DEF Notify
  <2>4. CASE told["object"] < w
    <3>1. file[told["object"]].alive /\ ~deleted
      BY <2>1, <2>4, AliveBefore
    <3>2. CASE seen < w
      <4>1. /\ names' = Populated(w) /\ deleted' = FoundDeleted(w)
            /\ old' = Read(names', seen)
        BY <1>5, <2>2, <2>4, <3>2 DEF Notify
      <4>2. names' \in {{}, Columns(told["object"], w)}
        BY <2>1, <4>1, PopulatedFacts
      <4>3. deleted' => ~file[w].alive
        BY <3>1, <4>1 DEF FoundDeleted, RootDeleted
      <4>4. old' # Unset => names' # {}
        BY <4>1, ReadFacts
      <4>5. \E v \in told["object"]..w - 1 : old' = Read(names, v)'
        <5>1. seen \in told["object"]..w - 1
          BY <2>1, <3>2
        <5>2. old' = [n \in Names |-> IF n \in names' \cap Readable
                                     THEN file'[seen].val[n] ELSE NoValue]
          BY <2>1, <4>1 DEF Read
        <5>3. QED
          BY <5>1, <5>2 DEF Read
      <4>6. QED
        BY <2>1, <2>2, <2>3, <2>4, <4>2, <4>3, <4>4, <4>5 DEF NamesInv, Columns, Unset
    <3>3. CASE ~(seen < w)
      <4>1. names' = {} /\ old' = Unset /\ ~deleted'
        BY <1>5, <2>1, <3>1, <3>3 DEF Notify
      <4>2. QED
        BY <2>1, <2>2, <2>4, <4>1 DEF NamesInv, Unset
    <3>4. QED
      BY <3>2, <3>3
  <2>5. CASE ~(told["object"] < w)
    <3>1. names' = {} /\ old' = Unset /\ deleted' = deleted
      BY <1>5, <2>1, <2>2, <2>5 DEF Notify
    <3>2. QED
      BY <2>1, <2>2, <2>5, <3>1 DEF NamesInv, Unset
  <2>6. QED
    BY <2>4, <2>5
<1>6. ASSUME NEW w \in seen..Latest, Notify(w), told["object"] = 0
      PROVE  NamesInv'
  BY <1>6 DEF Notify, NamesInv
<1>7. CASE AfterObject
  <2>1. /\ told'["object"] = target /\ "object" \notin due' /\ file' = file
        /\ inside = "none" /\ "object" \in due
    BY <1>7 DEF AfterObject, Called, TypeOK, Observers
  <2>2. told["object"] # 0 /\ (deleted => ~file[target].alive)
    BY <2>1 DEF NamesInv, TypeOK
  <2>3. FoundDeleted(target) => ~file[target].alive
    BY <2>2 DEF FoundDeleted, RootDeleted
  <2>4. deleted' = FoundDeleted(target)
    BY <1>7 DEF AfterObject
  <2>5. inside' # "object" => names' = {} /\ old' = Unset
    BY <1>7, <2>1 DEF AfterObject
  <2>6. QED
    BY <2>1, <2>3, <2>4, <2>5 DEF NamesInv, Unset
<1>8. CASE AfterCollection
  <2>1. /\ told'["object"] = told["object"] /\ inside = "none"
        /\ "object" \in due' <=> "object" \in due
    BY <1>8 DEF AfterCollection, Called, TypeOK, Observers
  <2>2. inside' # "object"
    BY <1>8, <2>1 DEF AfterCollection
  <2>3. QED
    BY <1>8, <2>1, <2>2 DEF AfterCollection, NamesInv, Columns, Read, Unset
<1>9. CASE EndCallback
  <2>1. CASE inside = "object"
    BY <1>9, <2>1 DEF EndCallback, NamesInv, Columns, Unset
  <2>2. CASE inside # "object"
    BY <1>9, <2>2 DEF EndCallback, NamesInv, Columns, Read, Unset
  <2>3. QED
    BY <2>1, <2>2
<1>10. CASE EndNotify
  BY <1>10 DEF EndNotify, NamesInv, Unset
<1>11. CASE UNCHANGED vars
  BY <1>11 DEF vars, NamesInv, Columns, Read, Unset
<1>12. CASE AfterObjectThrows
  <2>1. "object" \in due /\ told["object"] # 0 /\ target \in 0..Latest
    BY <1>12 DEF AfterObjectThrows, TypeOK
  <2>2. /\ names \in {{}, Columns(told["object"], target)}
        /\ deleted => ~file[target].alive
        /\ old # Unset => /\ names # {}
                          /\ \E v \in told["object"]..target - 1 : old = Read(names, v)
    BY <2>1 DEF NamesInv
  <2>3. /\ Populated(target) \in {{}, Columns(told["object"], target)}
        /\ names # {} => Populated(target) = names
    BY <2>1, <2>2, PopulatedFacts
  <2>4. /\ names' = Populated(target)
        /\ UNCHANGED <<file, told, old, deleted, target, due>>
    BY <1>12 DEF AfterObjectThrows
  <2>5. old # Unset => names' = names
    BY <2>2, <2>3, <2>4
  <2>6. QED
    BY <2>1, <2>2, <2>3, <2>4, <2>5 DEF NamesInv, Columns, Read, Unset
<1>13. CASE Move
  BY <1>13 DEF Move, NamesInv, Columns, Read, Unset
<1>14. QED
  BY <1>1, <1>2, <1>3, <1>4, <1>5, <1>6, <1>7, <1>8, <1>9, <1>10, <1>11, <1>12, <1>13,
     WriteSteps DEF Next

\* What after() is told of the object: whether it is deleted, and else the
\* properties that changed since it was told before.
LEMMA ObjectChange ==
    ASSUME TypeOK, FileInv, DeliveryInv, NamesInv, AfterObject
    PROVE  LET found == Populated(target)
               now == Read(found, seen)
           IN  /\ told["object"] \in 1..target /\ target \in 1..seen
               /\ "object" \in due /\ inside = "none"
               /\ told' = [told EXCEPT !["object"] = target]
               /\ names # {} => found = names
               /\ file[target].alive =>
                     /\ found = Columns(told["object"], target)
                     /\ copy' = [p \in Props |-> IF now[p] # NoValue THEN now[p] ELSE copy[p]]
<1> USE FileFacts
<1> DEFINE found == Populated(target)
           now == Read(found, seen)
<1>1. /\ "object" \in due /\ inside = "none"
      /\ told' = [told EXCEPT !["object"] = target]
  BY DEF AfterObject, Called
<1>2. told["object"] \in 1..target /\ target \in 1..seen
  BY <1>1 DEF DeliveryInv, TypeOK
<1>3. names \in {{}, Columns(told["object"], target)} /\ (deleted => ~file[target].alive)
  BY <1>1, <1>2 DEF NamesInv
<1>4. /\ names # {} => found = names
      /\ file[target].alive => found = Columns(told["object"], target)
  BY <1>2, <1>3, PopulatedFacts DEF RootDeleted
<1>5. ASSUME file[target].alive
      PROVE  copy' = [p \in Props |-> IF now[p] # NoValue THEN now[p] ELSE copy[p]]
  <2>1. ~FoundDeleted(target)
    BY <1>3, <1>5 DEF FoundDeleted, RootDeleted
  <2>2. CASE found # {} /\ ~NothingChanged(told["object"], target)
    BY <2>1, <2>2 DEF AfterObject
  <2>3. CASE found = {} \/ NothingChanged(told["object"], target)
    <3>1. found = {}
      BY <1>4, <1>5, <2>3 DEF NothingChanged
    <3>2. now = Unset
      BY <1>2, <3>1, ReadFacts
    <3>3. copy' = copy
      BY <2>1, <2>3 DEF AfterObject
    <3>4. \A p \in Props : now[p] = NoValue
      BY <3>2 DEF Unset, Props
    <3>5. copy \in [Props -> Values]
      BY DEF TypeOK
    <3>6. QED
      BY <3>3, <3>4, <3>5
  <2>4. QED
    BY <2>2, <2>3
<1>6. QED
  BY <1>1, <1>2, <1>4, <1>5

\* The object's observer can follow it.
LEMMA ObjectStep ==
    ASSUME TypeOK, FileInv, DeliveryInv, NamesInv, ObjectCopyFollows, [Next]_vars
    PROVE  ObjectCopyFollows'
<1> USE FileFacts
<1>1. CASE ObserveObject
  <2>1. Readable \subseteq Props /\ seen \in seen..seen
    BY DEF Readable
  <2>2. file' = file /\ seen' = seen /\ told'["object"] = seen /\ copy' = file[seen].val
    BY <1>1 DEF ObserveObject, TypeOK, Observers
  <2>3. QED
    BY <2>1, <2>2 DEF ObjectCopyFollows
<1>2. ASSUME UNCHANGED <<file, copy>>, seen' \in seen..Latest,
             told'["object"] \in {0, told["object"]}
      PROVE  ObjectCopyFollows'
  <2>1. \A t \in Nat : t..seen \subseteq t..seen'
    BY <1>2
  <2>2. told["object"] \in Nat
    BY DEF Observers
  <2>3. QED
    BY <1>2, <2>1, <2>2 DEF ObjectCopyFollows
<1>3. ASSUME NEW w, Write(w)
      PROVE  ObjectCopyFollows'
  <2>1. /\ told["object"] \in 0..seen /\ told' = told /\ copy' = copy
        /\ seen' \in seen..Latest' /\ \A v \in 1..Latest : file'[v] = file[v]
    BY <1>3, WriteFacts DEF Write, Observers
  <2>2. ASSUME told["object"] # 0, file[told["object"]].alive, NEW p \in Readable
        PROVE  \E v \in told["object"]..seen' : copy[p] = file'[v].val[p]
    <3>1. PICK v \in told["object"]..seen : copy[p] = file[v].val[p]
      BY <2>2 DEF ObjectCopyFollows
    <3>2. v \in 1..Latest /\ v \in told["object"]..seen'
      BY <2>1, <2>2
    <3>3. QED
      BY <2>1, <3>1, <3>2
  <2>3. QED
    BY <2>1, <2>2 DEF ObjectCopyFollows
<1>4. CASE AfterObject
  <2> DEFINE found == Populated(target)
             now == Read(found, seen)
  <2>1. /\ told["object"] \in 1..target /\ target \in 1..seen
        /\ told'["object"] = target
        /\ file' = file /\ seen' = seen
    BY <1>4, ObjectChange DEF AfterObject, TypeOK, Observers
  <2>2. ASSUME file[target].alive, NEW p \in Readable
        PROVE  \E v \in target..seen : copy'[p] = file[v].val[p]
    <3>1. file[told["object"]].alive
      BY <2>1, <2>2, AliveBefore
    <3>2. p \in Props
      BY DEF Readable
    <3>3. /\ found = Columns(told["object"], target)
          /\ copy'[p] = IF now[p] # NoValue THEN now[p] ELSE copy[p]
      BY <1>4, <2>2, <3>2, ObjectChange
    <3>4. CASE p \in found
      <4>1. now[p] = file[seen].val[p] /\ now[p] # NoValue
        BY <3>2, <3>4, ReadFacts
      <4>2. QED
        BY <2>1, <3>3, <4>1
    <3>5. CASE p \notin found
      <4>1. copy'[p] = copy[p]
        BY <3>3, <3>5, ReadFacts
      <4>2. PICK v \in told["object"]..seen : copy[p] = file[v].val[p]
        BY <2>1, <3>1 DEF ObjectCopyFollows
      <4>3. CASE v >= target
        BY <2>1, <4>1, <4>2, <4>3
      <4>4. CASE v < target
        <5>1. Untouched(p, told["object"], target)
          BY <2>1, <3>3, <3>5, ColumnsFacts
        <5>2. Untouched(p, v, target)
          BY <2>1, <4>2, <4>4, <5>1 DEF Untouched
        <5>3. file[v].val[p] = file[target].val[p]
          BY <2>1, <3>2, <4>2, <4>4, <5>2 DEF FileInv
        <5>4. QED
          BY <2>1, <4>1, <4>2, <5>3
      <4>5. QED
        BY <2>1, <4>2, <4>3, <4>4
    <3>6. QED
      BY <3>4, <3>5
  <2>3. QED
    BY <2>1, <2>2 DEF ObjectCopyFollows
<1>5. CASE ObserveCollection
  BY <1>2, <1>5 DEF ObserveCollection, TypeOK, Observers
<1>6. ASSUME NEW o \in Observers, Unregister(o)
      PROVE  ObjectCopyFollows'
  BY <1>2, <1>6 DEF Unregister, TypeOK, Observers
<1>7. ASSUME NEW w \in seen..Latest, Notify(w)
      PROVE  ObjectCopyFollows'
  BY <1>2, <1>7 DEF Notify
<1>8. CASE AfterCollection
  BY <1>2, <1>8 DEF AfterCollection, Called, TypeOK, Observers
<1>9. CASE EndCallback \/ EndNotify \/ UNCHANGED vars
  BY <1>2, <1>9 DEF EndCallback, EndNotify, vars
<1>10. CASE AfterObjectThrows \/ Move
  BY <1>2, <1>10 DEF AfterObjectThrows, Move
<1>11. QED
  BY <1>1, <1>3, <1>4, <1>5, <1>6, <1>7, <1>8, <1>9, <1>10, WriteSteps DEF Next

\* The collection's observer can.
LEMMA CollectionStep ==
    ASSUME TypeOK, FileInv, DeliveryInv, CollectionCopyFollows, [Next]_vars
    PROVE  CollectionCopyFollows'
<1> USE FileFacts
<1>1. CASE ObserveCollection
  BY <1>1 DEF ObserveCollection, CollectionCopyFollows, TypeOK, Observers
<1>2. ASSUME UNCHANGED <<file, held>>, told'["collection"] \in {0, told["collection"]}
      PROVE  CollectionCopyFollows'
  BY <1>2 DEF CollectionCopyFollows
<1>3. ASSUME NEW w, Write(w)
      PROVE  CollectionCopyFollows'
  <2>1. told["collection"] # 0 => told["collection"] \in 1..Latest
    BY DEF Observers
  <2>2. QED
    BY <1>3, <2>1, WriteFacts DEF Write, CollectionCopyFollows
<1>4. CASE AfterCollection
  <2> DEFINE t == told["collection"]
             dels == Deletions(t, target)
             ins == Insertions(t, target)
             root == RootDeleted(t, target)
  <2>1. /\ t \in 1..target /\ target \in 1..seen
        /\ told'["collection"] = target /\ file' = file
    BY <1>4 DEF AfterCollection, Called, DeliveryInv, TypeOK, Observers
  <2>2. held = file[t].items
    BY <2>1 DEF CollectionCopyFollows
  <2>3. (held \ dels) \cup ins = file[target].items
    BY <2>2 DEF Deletions, Insertions
  <2>4. \/ held' = (held \ dels) \cup ins
        \/ held' = held /\ dels \cup ins = {}
        \/ held' = held /\ root /\ dels = {}
    BY <1>4 DEF AfterCollection
  <2>5. root => file[target].items = {}
    BY <2>1 DEF RootDeleted, FileInv
  <2>6. held' = file[target].items
    BY <2>2, <2>3, <2>4, <2>5 DEF Deletions
  <2>7. QED
    BY <2>1, <2>6 DEF CollectionCopyFollows
<1>5. CASE ObserveObject
  BY <1>2, <1>5 DEF ObserveObject, TypeOK, Observers
<1>6. ASSUME NEW o \in Observers, Unregister(o)
      PROVE  CollectionCopyFollows'
  BY <1>2, <1>6 DEF Unregister, TypeOK, Observers
<1>7. ASSUME NEW w \in seen..Latest, Notify(w)
      PROVE  CollectionCopyFollows'
  BY <1>2, <1>7 DEF Notify
<1>8. CASE AfterObject
  BY <1>2, <1>8 DEF AfterObject, Called, TypeOK, Observers
<1>9. CASE EndCallback \/ EndNotify \/ UNCHANGED vars
  BY <1>2, <1>9 DEF EndCallback, EndNotify, vars
<1>10. CASE AfterObjectThrows \/ Move
  BY <1>2, <1>10 DEF AfterObjectThrows, Move
<1>11. QED
  BY <1>1, <1>3, <1>4, <1>5, <1>6, <1>7, <1>8, <1>9, <1>10, WriteSteps DEF Next

\* The invariant holds initially.
LEMMA Start ==
    ASSUME Init
    PROVE  IInv
<1>1. PICK x \in [Props -> Values], s \in SUBSET Items :
        /\ file = <<[alive |-> TRUE, val |-> x, items |-> s, touched |-> {}]>>
        /\ copy = x
        /\ held = s
  BY DEF Init
<1>2. [alive |-> TRUE, val |-> x, items |-> s, touched |-> {}] \in Version
  BY <1>1, Zenon DEF Version
<1>3. file \in Seq(Version) /\ Latest = 1 /\ file[1].alive
  BY <1>1, <1>2 DEF Latest
<1>4. Unset \in Reading
  BY DEF Unset, Reading
<1>5. TypeOK
  <2>1. NoReport \in [kind : {"none", "object", "deleted", "collection"},
                     old : Reading, new : Reading, root : BOOLEAN]
    BY <1>4 DEF NoReport
  <2>2. Latest \in 1..MaxVersion /\ seen \in 1..Latest /\ target \in 0..seen
    BY <1>3, ConstantsAssumption DEF Init
  <2>3. told \in [Observers -> 0..seen]
    BY DEF Init
  <2>4. copy \in [Props -> Values] /\ held \subseteq Items
    BY <1>1
  <2>5. QED
    BY <1>3, <1>4, <2>1, <2>2, <2>3, <2>4 DEF Init, TypeOK
<1>6. FileInv
  BY <1>3 DEF FileInv
<1>7. DeliveryInv /\ NamesInv /\ ObjectCopyFollows /\ CollectionCopyFollows
  BY DEF Init, DeliveryInv, NamesInv, ObjectCopyFollows, CollectionCopyFollows, Observers
<1>8. QED
  BY <1>5, <1>6, <1>7 DEF IInv

-----------------------------------------------------------------------------
\* The inductive invariant: the file's history, what a delivery in progress owes
\* to whom, and what before() has left for after().
THEOREM Invariance == Spec => []IInv
<1>1. Init => IInv
  BY Start
<1>2. IInv /\ [Next]_vars => IInv'
  BY TypeStep, FileStep, DeliveryStep, NamesStep, ObjectStep, CollectionStep DEF IInv
<1>3. QED
  BY <1>1, <1>2, PTL DEF Spec

\* Every variable keeps its type: only observers whose token is held are called.
THEOREM TypeCorrect == Spec => []TypeOK
BY Invariance, PTL DEF IInv

\* What the object's observer is told adds up to the object, over versions it was
\* not told of, writes and deletions its own thread makes in callbacks, and an
\* after() that such a deletion makes throw.
THEOREM ObjectFollowed == Spec => []ObjectCopyFollows
BY Invariance, PTL DEF IInv

\* The deletions and insertions forwarded add up to the collection, though changes
\* that only say that the root is deleted are not forwarded.
THEOREM CollectionFollowed == Spec => []CollectionCopyFollows
BY Invariance, PTL DEF IInv

\* The old values forwarded are those of one version between the one told of before
\* and the one the change leads to: no after() uses what before() left for another.
THEOREM OldValuesPrevious == Spec => OldValuesArePrevious
<1> DEFINE Reported ==
        inside' = "object" /\ inside # "object" /\ report'.old # Unset =>
            \E v \in told["object"]..told'["object"] - 1 :
               \A n \in names' : report'.old[n] = Read(names', v)[n]
<1>1. ASSUME IInv, [Next]_vars, inside' = "object", inside # "object"
      PROVE  AfterObject
  BY <1>1 DEF Next, vars, ObserveObject, ObserveCollection, Unregister, WriteElsewhere,
     WriteHere, Notify, AfterObjectThrows, AfterCollection, EndCallback, EndNotify
<1>2. ASSUME IInv, AfterObject, report'.old # Unset, inside' = "object"
      PROVE  \E v \in told["object"]..told'["object"] - 1 :
                \A n \in names' : report'.old[n] = Read(names', v)[n]
  <2>1. TypeOK /\ FileInv /\ DeliveryInv /\ NamesInv
    BY <1>2 DEF IInv
  <2>2. /\ told["object"] # 0 /\ told'["object"] = target
        /\ "object" \in due /\ inside = "none"
        /\ names # {} => Populated(target) = names
    BY <1>2, <2>1, ObjectChange, FileFacts DEF TypeOK, Observers
  <2>3. report'.old = old /\ names' = Populated(target)
    BY <1>2, <2>2 DEF AfterObject, NoReport
  <2>4. names # {} /\ \E v \in told["object"]..target - 1 : old = Read(names, v)
    BY <1>2, <2>2, <2>3, <2>1 DEF NamesInv
  <2>5. QED
    BY <2>2, <2>3, <2>4
<1>3. IInv /\ [Next]_vars => Reported
  BY <1>1, <1>2
<1>4. IInv /\ [Next]_vars => [Reported]_vars
  BY <1>3
<1>5. QED
  BY <1>4, Invariance, PTL DEF Spec, OldValuesArePrevious
=============================================================================
