---------------------------- MODULE HandlesProofs ----------------------------
(***************************************************************************)
(* Proofs about Handles, for any numbers of handles and of places.         *)
(***************************************************************************)
EXTENDS Handles, FiniteSetTheorems, TLAPS

Values == Value \cup {Free, Garbage, Nested, Moved, Spent}
Places == Cell \cup {Null, Unmade}

(* ----- what the classes of the bridge have in common ----- *)

CopyMembers == {"clone", "share", "replace", "nest", "misread", "none"}
MoveMembers == {"clone", "share", "take", "drain", "replace", "nest", "none"}

\* An object inside the handle is never pointed to by another one, and a
\* shared one is never overwritten or moved out of.
WellMade(d) ==
    /\ d.kept \in {"alone", "counted"}
    /\ d.copy \in CopyMembers /\ d.assign \in CopyMembers \ {"misread"}
    /\ d.move \in MoveMembers /\ d.moveAssign \in MoveMembers
    /\ d.kept = "alone"
          => {d.copy, d.assign, d.move, d.moveAssign} \cap {"share", "take", "nest"} = {}
    /\ d.kept = "counted"
          => {d.copy, d.assign, d.move, d.moveAssign} \cap {"drain", "replace", "misread"} = {}

\* The table of classes has no member that does not go with how its object is kept.
LEMMA ClassesAreWellMade ==
    ASSUME NEW c \in DOMAIN Classes, NEW b \in {"generated", "shared"}
    PROVE  /\ WellMade(Classes[c][b])
           /\ c \in {"mixed", "config"} => Classes[c][b] \in {Embedded, Counted}
<1> DEFINE Good(d) == WellMade(d.generated) /\ WellMade(d.shared)
<1>1. WellMade(Embedded) /\ WellMade(Counted) /\ WellMade(Trivial)
  BY DEF WellMade, Embedded, Counted, Trivial, CopyMembers, MoveMembers
<1>2. Good(Plain) /\ Good(Inline)
  BY <1>1 DEF Plain, Inline, Built
<1>3. Good(TableView)
  BY DEF TableView, Built, WellMade, Embedded, Counted, CopyMembers, MoveMembers
<1>4. Good(ChangeSet)
  BY DEF ChangeSet, Built, WellMade, Embedded, Counted, CopyMembers, MoveMembers
<1>5. Good(NotificationToken) /\ Good(ThreadSafeReference)
  BY DEF NotificationToken, ThreadSafeReference, MoveOnly, Built, WellMade, Embedded, Counted,
         CopyMembers, MoveMembers
<1>6. Good(IndexIterator)
  BY DEF IndexIterator, Built, WellMade, Embedded, Counted, CopyMembers, MoveMembers
<1>7. Good(IndexAdaptor)
  BY <1>1 DEF IndexAdaptor, Built
<1>8. Good(MutableSubscriptions) /\ Good(SubscriptionSet)
  BY DEF MutableSubscriptions, SubscriptionSet, AssignOnly, Built, WellMade, Embedded, Counted,
         CopyMembers, MoveMembers
<1>9. Good(Binary)
  BY DEF Binary, Built, WellMade, Embedded, CopyMembers, MoveMembers
<1> HIDE DEF Good
<1>10. Good(Classes[c])
  BY <1>2, <1>3, <1>4, <1>5, <1>6, <1>7, <1>8, <1>9 DEF Classes, List, Set, LnkLst, CoreDictionary,
     Dictionary, Results, Obj, Object, Table, ObjLink, IndexSet, AppError, Credentials, SyncError,
     Status, Schema, Property, ObjectSchema, Config, Mixed, Decimal128, Timestamp, Uuid, ObjectId,
     ErrorCategory
<1>11. c \in {"mixed", "config"} => Classes[c] = Plain
  BY DEF Classes, Mixed, Config
<1>12. QED
  BY <1>10, <1>11 DEF Good, Plain, Built

(* ----- the invariant ----- *)

\* What a place may hold: only a mixed has views of bytes, only a
\* configuration a SyncConfig.
Contents ==
    {v \in Values : /\ class # "mixed" => v.kind \notin {"string", "binary"}
                    /\ class # "config" => v.sync = 0}

\* What a handle that may be read has: a configuration is one, and what a
\* mixed only views it also owns.
Suits(v, m, o) ==
    /\ class = "config" => v \in Value /\ m \in Value
    /\ v.kind = "string" => o.string \in 0..1
    /\ v.kind = "binary" => o.data \in 0..1

\* Every object exists, and one inside a handle has one handle.
Sound(s) ==
    /\ s.heap \in [Cell -> Contents]
    /\ s.at \in [Handle -> Places]
    /\ \A h \in Handle : s.at[h] \in Cell => s.heap[s.at[h]] # Free
    /\ How.kept = "alone" =>
          /\ \A g, h \in Handle : s.at[g] \in Cell /\ s.at[g] = s.at[h] => g = h
          /\ \A c \in Cell : s.heap[c] # Free => \E h \in Handle : s.at[h] = c

HeapInv == heap \in [Cell -> Contents]
FitsAt(h) ==
    /\ class # "config" => means[h].sync = 0
    /\ Readable(h) => Suits(heap[at[h]], means[h], owned[h])
FitsInv == \A h \in Handle : FitsAt(h)
IInv == TypeOK /\ HeapInv /\ FitsInv

\* Between two steps every object exists and has one owner, or a count.
LEMMA StateSound == IInv => Sound(State) /\ State.heap = heap /\ State.at = at
BY DEF IInv, HeapInv, TypeOK, Sound, State, Places, Holds

\* That is so of the class a behaviour is about.
LEMMA HowWellMade ==
    IInv => /\ WellMade(How)
            /\ class \in {"mixed", "config"} => How \in {Embedded, Counted}
BY ClassesAreWellMade DEF IInv, TypeOK, How

\* What is left of a value is not taken for no value.
LEMMA MarksAreContents ==
    /\ {Free, Garbage, Nested, Moved, Spent} \subseteq Contents
    /\ Free \notin {Garbage, Nested, Moved, Spent} /\ Free \notin Value
BY DEF Contents, Values, Value, Free, Garbage, Nested, Moved, Spent, Mark

\* There are more places than handles, and every object has a handle.
LEMMA FreshIsFree ==
    ASSUME IInv
    PROVE  Fresh(State) \in Cell /\ heap[Fresh(State)] = Free
<1>1. \E c \in Cell : heap[c] = Free
  <2>1. SUFFICES ASSUME \A c \in Cell : heap[c] # Free PROVE FALSE
    OBVIOUS
  <2> DEFINE f == [c \in Cell |-> CHOOSE h \in Handle : at[h] = c]
  <2>2. \A c \in Cell : \E h \in Handle : at[h] = c
    BY <2>1 DEF IInv, TypeOK
  <2>3. \A c \in Cell : f[c] \in Handle /\ at[f[c]] = c
    BY <2>2
  <2> HIDE DEF f
  <2>4. f \in [Cell -> Handle]
    BY <2>3 DEF f
  <2>5. Cardinality(Handle) < Cardinality(Cell) /\ IsFiniteSet(Handle) /\ IsFiniteSet(Cell)
    BY CellsSuffice, FS_CardinalityType
  <2>6. \E c, d \in Cell : c # d /\ f[c] = f[d]
    BY <2>4, <2>5, FS_PigeonHole
  <2>7. QED
    BY <2>3, <2>6
<1>2. QED
  BY <1>1 DEF Fresh, State

(* ----- the special members, on the places and the objects in them ----- *)

\* t leaves handle g, and its object, as they are.
Leaves(t, g) ==
    /\ t.at[g] = at[g]
    /\ at[g] \in Cell => t.heap[at[g]] = heap[at[g]]
\* In t handle x has the object v.
Has(t, x, v) == t.at[x] \in Cell /\ t.heap[t.at[x]] = v

\* A new object, for a handle that has none or shares the one it has.
LEMMA PutSound ==
    ASSUME IInv, NEW x \in Handle, NEW v \in Contents, v # Free,
           How.kept = "alone" => at[x] \notin Cell
    PROVE  /\ Sound(Put(State, x, v)) /\ Has(Put(State, x, v), x, v)
           /\ \A g \in Handle \ {x} : Leaves(Put(State, x, v), g)
<1> DEFINE c == Fresh(State)
           h1 == [heap EXCEPT ![c] = v]
           a1 == [at EXCEPT ![x] = c]
           t == Put(State, x, v)
<1>1. c \in Cell /\ heap[c] = Free
  BY FreshIsFree
<1>2. t.heap = h1 /\ t.at = a1
  BY DEF Put, State
<1>3. /\ heap \in [Cell -> Contents] /\ at \in [Handle -> Places]
      /\ \A h \in Handle : at[h] \in Cell => heap[at[h]] # Free
      /\ How.kept = "alone" =>
            /\ \A g, h \in Handle : at[g] \in Cell /\ at[g] = at[h] => g = h
            /\ \A d \in Cell : heap[d] # Free => \E h \in Handle : at[h] = d
  BY StateSound DEF Sound
<1> HIDE DEF c, t
<1>4. h1 \in [Cell -> Contents] /\ h1[c] = v /\ \A d \in Cell \ {c} : h1[d] = heap[d]
  BY <1>1, <1>3
<1>5. a1 \in [Handle -> Places] /\ a1[x] = c /\ \A g \in Handle \ {x} : a1[g] = at[g]
  BY <1>1, <1>3 DEF Places
<1> HIDE DEF h1, a1
<1>6. \A g \in Handle : at[g] # c
  BY <1>1, <1>3
<1>7. Sound(t)
  <2>1. \A h \in Handle : a1[h] \in Cell => h1[a1[h]] # Free
    BY <1>1, <1>3, <1>4, <1>5, <1>6
  <2>2. ASSUME How.kept = "alone"
        PROVE  \A g, h \in Handle : a1[g] \in Cell /\ a1[g] = a1[h] => g = h
    BY <2>2, <1>3, <1>5, <1>6
  <2>3. ASSUME How.kept = "alone"
        PROVE  \A d \in Cell : h1[d] # Free => \E h \in Handle : a1[h] = d
    BY <2>3, <1>3, <1>4, <1>5
  <2>4. QED
    BY <1>2, <1>4, <1>5, <2>1, <2>2, <2>3 DEF Sound
<1>8. Has(t, x, v)
  BY <1>1, <1>2, <1>4, <1>5 DEF Has
<1>9. \A g \in Handle \ {x} : Leaves(t, g)
  BY <1>2, <1>4, <1>5, <1>6 DEF Leaves
<1>10. QED
  BY <1>7, <1>8, <1>9 DEF t

\* Assignment to a handle, in its place or in a new one.
LEMMA WriteSound ==
    ASSUME IInv, NEW x \in Handle, NEW v \in Contents, v # Free
    PROVE  /\ Sound(Write(State, x, v)) /\ Has(Write(State, x, v), x, v)
           /\ \A g \in Handle \ {x} : Leaves(Write(State, x, v), g)
<1>1. CASE How.kept = "alone" /\ at[x] \in Cell
  <2> DEFINE h1 == [heap EXCEPT ![at[x]] = v]
             t == Write(State, x, v)
  <2>1. t.heap = h1 /\ t.at = at
    BY <1>1 DEF Write, State
  <2>2. /\ heap \in [Cell -> Contents] /\ at \in [Handle -> Places]
        /\ \A h \in Handle : at[h] \in Cell => heap[at[h]] # Free
        /\ \A g, h \in Handle : at[g] \in Cell /\ at[g] = at[h] => g = h
        /\ \A d \in Cell : heap[d] # Free => \E h \in Handle : at[h] = d
    BY <1>1, StateSound DEF Sound
  <2> HIDE DEF t
  <2>3. h1 \in [Cell -> Contents] /\ h1[at[x]] = v /\ \A d \in Cell \ {at[x]} : h1[d] = heap[d]
    BY <1>1, <2>2
  <2> HIDE DEF h1
  <2>4. Sound(t)
    BY <2>1, <2>2, <2>3 DEF Sound
  <2>5. Has(t, x, v)
    BY <1>1, <2>1, <2>3 DEF Has
  <2>6. \A g \in Handle \ {x} : Leaves(t, g)
    BY <1>1, <2>1, <2>2, <2>3 DEF Leaves
  <2>7. QED
    BY <2>4, <2>5, <2>6 DEF t
<1>2. CASE ~(How.kept = "alone" /\ at[x] \in Cell)
  <2>1. Write(State, x, v) = Put(State, x, v)
    BY <1>2 DEF Write, State
  <2>2. QED
    BY <1>2, <2>1, PutSound
<1>3. QED
  BY <1>1, <1>2

\* A handle comes to share the object of another.
LEMMA PointSound ==
    ASSUME IInv, How.kept = "counted", NEW x \in Handle, NEW y \in Handle, at[y] \in Cell
    PROVE  /\ Sound(Point(State, x, at[y])) /\ Has(Point(State, x, at[y]), x, heap[at[y]])
           /\ \A g \in Handle \ {x} : Leaves(Point(State, x, at[y]), g)
<1> DEFINE t == Point(State, x, at[y])
           a1 == [at EXCEPT ![x] = at[y]]
<1>1. t.heap = heap /\ t.at = a1
  BY DEF Point, State
<1>2. /\ heap \in [Cell -> Contents] /\ at \in [Handle -> Places]
      /\ \A h \in Handle : at[h] \in Cell => heap[at[h]] # Free
  BY StateSound DEF Sound
<1> HIDE DEF t
<1>3. a1 \in [Handle -> Places] /\ a1[x] = at[y] /\ \A g \in Handle \ {x} : a1[g] = at[g]
  BY <1>2
<1> HIDE DEF a1
<1>4. Sound(t) /\ Has(t, x, heap[at[y]]) /\ \A g \in Handle \ {x} : Leaves(t, g)
  BY <1>1, <1>2, <1>3 DEF Sound, Has, Leaves
<1>5. QED
  BY <1>4 DEF t

\* In either build a pointer, or an object, moved to another handle.
LEMMA TakeSound ==
    ASSUME IInv, How.kept = "counted", NEW x \in Handle, NEW y \in Handle, x # y, at[y] \in Cell
    PROVE  LET t == Point(Point(State, x, at[y]), y, Null)
           IN  /\ Sound(t) /\ Has(t, x, heap[at[y]]) /\ t.at[y] = Null
               /\ \A g \in Handle \ {x, y} : Leaves(t, g)
<1> DEFINE t == Point(Point(State, x, at[y]), y, Null)
           a1 == [[at EXCEPT ![x] = at[y]] EXCEPT ![y] = Null]
<1>1. t.heap = heap /\ t.at = a1
  BY DEF Point, State
<1>2. /\ heap \in [Cell -> Contents] /\ at \in [Handle -> Places]
      /\ \A h \in Handle : at[h] \in Cell => heap[at[h]] # Free
      /\ Null \notin Cell
  BY StateSound, CellsSuffice DEF Sound
<1> HIDE DEF t
<1>3. /\ a1 \in [Handle -> Places] /\ a1[x] = at[y] /\ a1[y] = Null
      /\ \A g \in Handle \ {x, y} : a1[g] = at[g]
  BY <1>2 DEF Places
<1> HIDE DEF a1
<1>4. Sound(t) /\ Has(t, x, heap[at[y]]) /\ t.at[y] = Null /\ \A g \in Handle \ {x, y} : Leaves(t, g)
  BY <1>1, <1>2, <1>3 DEF Sound, Has, Leaves
<1>5. QED
  BY <1>4 DEF t

\* An object moved out of its handle.
LEMMA DrainSound ==
    ASSUME IInv, How.kept = "alone", NEW x \in Handle, NEW y \in Handle, x # y, at[y] \in Cell
    PROVE  LET s == Write(State, x, heap[at[y]])
               t == [s EXCEPT !.heap[at[y]] = Moved]
           IN  /\ Sound(t) /\ Has(t, x, heap[at[y]])
               /\ t.at[y] = at[y] /\ t.heap[at[y]] = Moved
               /\ \A g \in Handle \ {x, y} : Leaves(t, g)
<1> DEFINE s == Write(State, x, heap[at[y]])
           h1 == [s.heap EXCEPT ![at[y]] = Moved]
           t == [s EXCEPT !.heap[at[y]] = Moved]
<1>1. heap[at[y]] \in Contents /\ heap[at[y]] # Free
  BY StateSound DEF Sound
<1>2. /\ Sound(s) /\ Has(s, x, heap[at[y]])
      /\ \A g \in Handle \ {x} : Leaves(s, g)
  BY <1>1, WriteSound
<1>3. s = [heap |-> s.heap, at |-> s.at]
  BY DEF Write, Put, State
<1>4. t.heap = h1 /\ t.at = s.at
  BY <1>3
<1> HIDE DEF s, t
<1>5. /\ s.heap \in [Cell -> Contents] /\ s.at \in [Handle -> Places]
      /\ \A h \in Handle : s.at[h] \in Cell => s.heap[s.at[h]] # Free
      /\ \A g, h \in Handle : s.at[g] \in Cell /\ s.at[g] = s.at[h] => g = h
      /\ \A d \in Cell : s.heap[d] # Free => \E h \in Handle : s.at[h] = d
  BY <1>2 DEF Sound
<1>6. /\ h1 \in [Cell -> Contents] /\ h1[at[y]] = Moved
      /\ \A d \in Cell \ {at[y]} : h1[d] = s.heap[d]
  BY <1>5, MarksAreContents
<1> HIDE DEF h1
<1>7. s.at[y] = at[y]
  BY <1>2 DEF Leaves
<1>8. Sound(t)
  BY <1>4, <1>5, <1>6, <1>7, MarksAreContents DEF Sound
<1>9. Has(t, x, heap[at[y]])
  BY <1>2, <1>4, <1>5, <1>6, <1>7 DEF Has
<1>10. \A g \in Handle \ {x, y} : Leaves(t, g)
  BY <1>2, <1>4, <1>5, <1>6, <1>7 DEF Leaves
<1>11. t.at[y] = at[y] /\ t.heap[at[y]] = Moved
  BY <1>4, <1>6, <1>7
<1>12. QED
  BY <1>8, <1>9, <1>10, <1>11 DEF s, t

\* What a member must be for its class not to break the ownership.
Fits(member, x) ==
    /\ member \in Kinds \ {"none"}
    /\ How.kept \in {"alone", "counted"}
    /\ How.kept = "alone" => member \notin {"share", "take", "nest"}
    /\ How.kept = "counted" => member \notin {"drain", "replace", "misread"}
    /\ member = "misread" => at[x] \notin Cell

\* What x has afterwards.
Content(member, x, y) ==
    IF member = "nest" THEN Nested
    ELSE IF member = "misread" \/ (member = "replace" /\ x = y) THEN Garbage
    ELSE heap[at[y]]

\* What each kind of special member leaves: who has an object, and which.
LEMMA GivenSound ==
    ASSUME IInv, NEW x \in Handle, NEW y \in Handle, at[y] \in Cell,
           NEW member, Fits(member, x)
    PROVE  LET t == Given(member, x, y)
           IN  /\ Sound(t) /\ Has(t, x, Content(member, x, y))
               /\ \A g \in Handle \ {x, y} : Leaves(t, g)
               /\ x # y /\ member \notin {"take", "drain"} => Leaves(t, y)
               /\ x # y /\ member = "take" => t.at[y] = Null
               /\ x # y /\ member = "drain" => t.at[y] = at[y] /\ t.heap[at[y]] = Moved
<1> DEFINE t == Given(member, x, y)
           v == heap[at[y]]
<1>1. v \in Contents /\ v # Free
  BY StateSound DEF Sound
<1>2. Sound(State) /\ Has(State, y, v) /\ \A g \in Handle : Leaves(State, g)
  BY StateSound DEF Leaves, Has
<1>3. CASE member = "clone"
  <2>1. t = Write(State, x, v)
    BY <1>3 DEF Given
  <2>2. QED
    BY <1>1, <1>3, <2>1, WriteSound DEF Content
<1>4. CASE member = "replace"
  <2>1. t = Write(State, x, IF x = y THEN Garbage ELSE v)
    BY <1>4 DEF Given
  <2>2. QED
    BY <1>1, <1>4, <2>1, WriteSound, MarksAreContents DEF Content
<1>5. CASE member = "share"
  <2>1. t = Point(State, x, at[y]) /\ How.kept = "counted"
    BY <1>5 DEF Given, Fits
  <2>2. QED
    BY <1>5, <2>1, PointSound DEF Content
<1>6. CASE member = "take"
  <2>1. t = (IF x = y THEN State ELSE Point(Point(State, x, at[y]), y, Null))
    BY <1>6 DEF Given
  <2>2. How.kept = "counted"
    BY <1>6 DEF Fits
  <2>3. QED
    BY <1>2, <1>6, <2>1, <2>2, TakeSound DEF Content
<1>7. CASE member = "drain"
  <2>1. Content(member, x, y) = v
    BY <1>7 DEF Content
  <2>2. CASE x = y
    <3>1. t = State
      BY <1>7, <2>2 DEF Given
    <3>2. QED
      BY <1>2, <2>1, <2>2, <3>1
  <2>3. CASE x # y
    <3>1. t = [Write(State, x, v) EXCEPT !.heap[at[y]] = Moved]
      BY <1>7, <2>3 DEF Given
    <3>2. How.kept = "alone"
      BY <1>7 DEF Fits
    <3>3. /\ Sound(t) /\ Has(t, x, v) /\ t.at[y] = at[y] /\ t.heap[at[y]] = Moved
          /\ \A g \in Handle \ {x, y} : Leaves(t, g)
      BY <2>3, <3>1, <3>2, DrainSound
    <3> HIDE DEF t, v
    <3>4. QED
      BY <1>7, <2>1, <2>3, <3>3 DEF t
  <2>4. QED
    BY <2>2, <2>3
<1>8. CASE member = "nest"
  <2>1. t = Put(State, x, Nested) /\ How.kept # "alone"
    BY <1>8 DEF Given, Fits
  <2>2. QED
    BY <1>8, <2>1, PutSound, MarksAreContents DEF Content
<1>9. CASE member = "misread"
  <2>1. t = Put(State, x, Garbage) /\ at[x] \notin Cell
    BY <1>9 DEF Given, Fits
  <2>2. QED
    BY <1>9, <2>1, PutSound, MarksAreContents DEF Content
<1>10. QED
  BY <1>3, <1>4, <1>5, <1>6, <1>7, <1>8, <1>9 DEF Fits, Kinds

\* A handle of the shared build lets go of its object.
LEMMA DropSound ==
    ASSUME NEW s, Sound(s), How.kept = "counted", NEW y \in Handle, NEW p \in {Null, Unmade},
           s = [heap |-> s.heap, at |-> s.at]
    PROVE  Sound(Point(s, y, p)) /\ \A g \in Handle \ {y} : Leaves(s, g) => Leaves(Point(s, y, p), g)
<1> DEFINE t == Point(s, y, p)
           a1 == [s.at EXCEPT ![y] = p]
<1>1. t.heap = s.heap /\ t.at = a1
  BY DEF Point
<1>2. /\ s.heap \in [Cell -> Contents] /\ s.at \in [Handle -> Places]
      /\ \A h \in Handle : s.at[h] \in Cell => s.heap[s.at[h]] # Free
      /\ p \in Places /\ p \notin Cell
  BY CellsSuffice DEF Sound, Places
<1> HIDE DEF t
<1>3. a1 \in [Handle -> Places] /\ a1[y] = p /\ \A g \in Handle \ {y} : a1[g] = s.at[g]
  BY <1>2
<1> HIDE DEF a1
<1>4. Sound(t) /\ \A g \in Handle \ {y} : Leaves(s, g) => Leaves(t, g)
  BY <1>1, <1>2, <1>3 DEF Sound, Leaves
<1>5. QED
  BY <1>4 DEF t

\* What a step that ends in Apply makes of the ownership.
Owned ==
    /\ heap \in [Cell -> Contents]
    /\ at \in [Handle -> Places]
    /\ \A h \in Handle : at[h] \in Cell => heap[at[h]] # Free
    /\ \A g, h \in Handle : How.kept = "alone" /\ at[g] \in Cell /\ at[g] = at[h] => g = h
    /\ \A c \in Cell : heap[c] # Free => \E h \in Handle : at[h] = c

\* A sound outcome, taken over by the variables, is what TypeOK says of owners.
LEMMA ApplyOwns ==
    ASSUME NEW s, Sound(s), Apply(s), How.kept \in {"alone", "counted"},
           UNCHANGED <<class, build>>, s = [heap |-> s.heap, at |-> s.at]
    PROVE  /\ Owned' /\ at' = s.at
           /\ \A h \in Handle : s.at[h] \in Cell => heap'[s.at[h]] = s.heap[s.at[h]]
<1>1. /\ s.heap \in [Cell -> Contents] /\ s.at \in [Handle -> Places]
      /\ \A h \in Handle : s.at[h] \in Cell => s.heap[s.at[h]] # Free
      /\ How.kept = "alone" =>
            /\ \A g, h \in Handle : s.at[g] \in Cell /\ s.at[g] = s.at[h] => g = h
            /\ \A c \in Cell : s.heap[c] # Free => \E h \in Handle : s.at[h] = c
  BY DEF Sound
<1>2. How' = How /\ Contents' = Contents
  BY DEF How, Contents
<1>3. at' = s.at
  BY DEF Apply
<1>4. CASE How.kept = "alone"
  <2>1. heap' = s.heap
    BY <1>4 DEF Apply, Collected
  <2>2. QED
    BY <1>1, <1>2, <1>3, <1>4, <2>1 DEF Owned
<1>5. CASE How.kept = "counted"
  <2> DEFINE h1 == [c \in Cell |-> IF \E h \in Handle : s.at[h] = c THEN s.heap[c] ELSE Free]
  <2>1. heap' = h1
    BY <1>5 DEF Apply, Collected
  <2>2. h1 \in [Cell -> Contents]
    BY <1>1, MarksAreContents
  <2>3. \A h \in Handle : s.at[h] \in Cell => h1[s.at[h]] = s.heap[s.at[h]]
    OBVIOUS
  <2>4. \A c \in Cell : h1[c] # Free => \E h \in Handle : s.at[h] = c
    OBVIOUS
  <2> HIDE DEF h1
  <2>5. QED
    BY <1>1, <1>2, <1>3, <1>5, <2>1, <2>2, <2>3, <2>4 DEF Owned
<1>6. QED
  BY <1>4, <1>5

\* The outcome of a special member says no more than heap and places.
LEMMA GivenShape ==
    ASSUME NEW x, NEW y, NEW member, member \in Kinds \ {"none"}, NEW s, s = Given(member, x, y)
    PROVE  s = [heap |-> s.heap, at |-> s.at]
<1> DEFINE Shaped(r) == r = [heap |-> r.heap, at |-> r.at]
<1>1. ASSUME NEW z, NEW v PROVE Shaped(Put(State, z, v)) /\ Shaped(Write(State, z, v))
  BY DEF Put, Write, State
<1>2. Shaped(State)
  BY DEF State
<1>3. ASSUME NEW r, Shaped(r), NEW z, NEW c PROVE Shaped(Point(r, z, c))
  BY <1>3 DEF Point
<1>4. ASSUME NEW r, Shaped(r), NEW c, NEW v PROVE Shaped([r EXCEPT !.heap[c] = v])
  BY <1>4
<1> HIDE DEF Shaped
<1>5. Shaped(Given(member, x, y))
  <2>1. CASE member \in {"clone", "replace", "nest", "misread"}
    BY <2>1, <1>1 DEF Given
  <2>2. CASE member \in {"share", "take"}
    BY <2>2, <1>2, <1>3 DEF Given
  <2>3. CASE member = "drain"
    BY <2>3, <1>1, <1>2, <1>4 DEF Given
  <2>4. QED
    BY <2>1, <2>2, <2>3 DEF Kinds
<1>6. QED
  BY <1>5 DEF Shaped

(* ----- what the handles mean ----- *)

DataOK ==
    /\ class \in DOMAIN Classes /\ build \in {"generated", "shared"}
    /\ owned \in [Handle -> [string : {0, 1, Null}, data : {0, 1, Null}]]
    /\ remote \in 1..2
    /\ means \in [Handle -> Values]
    /\ alias \in [Handle -> SUBSET {"object", "sync"}]

\* The invariant by what a step can disturb: data, owners, and what suits what.
LEMMA PartsOfIInv == IInv <=> DataOK /\ Owned /\ FitsInv
<1>1. Contents \subseteq Values
  BY DEF Contents
<1>2. QED
  BY <1>1 DEF IInv, DataOK, Owned, HeapInv, TypeOK, Values, Places, Holds

\* The fields of what a place may hold.
LEMMA ContentsFields ==
    ASSUME NEW v \in Values
    PROVE  /\ v.sync \in 0..2 /\ v.n \in 0..1
           /\ v.sync # 0 \/ v.kind \in {"string", "binary", "plain", "long", "scalar"} => v \in Value
           /\ v \in Value <=> v.kind \in {"string", "binary", "plain", "long", "scalar"}
BY DEF Values, Value, Free, Garbage, Nested, Moved, Spent, Mark

\* A value with a field changed is a value.
LEMMA ValueFields ==
    ASSUME NEW v \in Value, NEW n \in 0..1, NEW s \in 0..2,
           NEW k \in {"plain", "long", "string", "binary", "scalar"}
    PROVE  /\ [v EXCEPT !.n = n] \in Value /\ [v EXCEPT !.sync = s] \in Value
           /\ [v EXCEPT !.n = n, !.kind = k] \in Value /\ [v EXCEPT !.kind = k] \in Value
BY DEF Value

\* Only of mixed values and configurations is more asked.
LEMMA OthersSuit ==
    ASSUME class \notin {"mixed", "config"}, NEW v \in Contents, NEW m, NEW o
    PROVE  Suits(v, m, o)
BY DEF Suits, Contents

\* A handle that may be read denotes a value.
LEMMA DenotedSound ==
    ASSUME IInv, NEW y \in Handle, Readable(y)
    PROVE  /\ heap[at[y]] \in Contents /\ Suits(heap[at[y]], means[y], owned[y])
           /\ Denoted(y) \in Values
           /\ class = "config" => Denoted(y) \in Value
           /\ class # "config" => Denoted(y).sync = 0
<1> DEFINE v == heap[at[y]]
<1>1. v \in Contents /\ v \in Values
  BY DEF IInv, HeapInv, Readable, Holds, Contents
<1>2. Suits(v, means[y], owned[y])
  BY DEF IInv, FitsInv, FitsAt
<1>3. remote \in 0..2
  BY DEF IInv, TypeOK
<1>4. Getter(y) = v
  BY DEF Getter
<1> HIDE DEF v
<1>5. CASE v.kind = "string"
  <2>1. v \in Value
    BY <1>1, <1>5, ContentsFields
  <2>2. owned[y].string \in 0..1
    BY <1>2, <1>5 DEF Suits
  <2>3. Denoted(y) = [v EXCEPT !.n = owned[y].string]
    <3>1. v.sync # 1
      BY <1>1, <1>5 DEF Contents
    <3>2. QED
      BY <1>4, <1>5, <3>1 DEF Denoted
  <2>4. Denoted(y) \in Value /\ Denoted(y).sync = v.sync
    BY <2>1, <2>2, <2>3 DEF Value
  <2>5. QED
    BY <1>1, <1>2, <2>4 DEF v, Contents, Values
<1>6. CASE v.kind = "binary"
  <2>1. v \in Value
    BY <1>1, <1>6, ContentsFields
  <2>2. owned[y].data \in 0..1
    BY <1>2, <1>6 DEF Suits
  <2>3. Denoted(y) = [v EXCEPT !.n = owned[y].data]
    <3>1. v.sync # 1
      BY <1>1, <1>6 DEF Contents
    <3>2. QED
      BY <1>4, <1>6, <3>1 DEF Denoted
  <2>4. Denoted(y) \in Value /\ Denoted(y).sync = v.sync
    BY <2>1, <2>2, <2>3 DEF Value
  <2>5. QED
    BY <1>1, <1>2, <2>4 DEF v, Contents, Values
<1>7. CASE v.kind \notin {"string", "binary"} /\ v.sync = 1
  <2>1. v \in Value /\ Denoted(y) = [v EXCEPT !.sync = remote]
    BY <1>1, <1>4, <1>7, ContentsFields DEF Denoted
  <2>2. Denoted(y) \in Value
    BY <1>3, <2>1 DEF Value
  <2>3. class = "config"
    BY <1>1, <1>7 DEF Contents
  <2>4. QED
    BY <1>1, <1>2, <2>2, <2>3 DEF v, Values
<1>8. CASE v.kind \notin {"string", "binary"} /\ v.sync # 1
  <2>1. Denoted(y) = v
    BY <1>4, <1>8 DEF Denoted
  <2>2. QED
    BY <1>1, <1>2, <2>1 DEF v, Contents, Suits
<1>9. QED
  BY <1>5, <1>6, <1>7, <1>8

\* A handle that a step does not touch fits as before.
LEMMA LeftFits ==
    ASSUME IInv, NEW g \in Handle, class' = class, at'[g] = at[g],
           at[g] \in Cell => heap'[at[g]] = heap[at[g]],
           means'[g] = means[g], owned'[g] = owned[g]
    PROVE  FitsAt(g)'
<1>1. FitsAt(g)
  BY DEF IInv, FitsInv
<1>2. QED
  BY <1>1 DEF FitsAt, Readable, Holds, Suits

\* A place that is read after a step holds what a class may hold.
LEMMA OtherFits ==
    ASSUME class \notin {"mixed", "config"}, class' = class, Owned', NEW h \in Handle,
           means'[h].sync = 0
    PROVE  FitsAt(h)'
<1>1. Readable(h)' => heap'[at'[h]] \in Contents'
  BY DEF Readable, Holds, Owned
<1>2. Contents' = Contents
  BY DEF Contents
<1>3. Readable(h)' => Suits(heap'[at'[h]], means'[h], owned'[h])
  BY <1>1, <1>2, OthersSuit
<1>4. QED
  BY <1>3 DEF FitsAt, Suits

\* What copying or moving y into x does to places and objects.
Stays(g) == at'[g] = at[g] /\ (at[g] \in Cell => heap'[at[g]] = heap[at[g]])
Gets(x, v) == at'[x] \in Cell /\ heap'[at'[x]] = v

\* What a copy leaves of the places.
LEMMA CopyEffect ==
    ASSUME IInv, NEW x \in Handle, NEW y \in Handle, NEW member, Fits(member, x),
           CopyInto(x, y, member)
    PROVE  /\ Owned' /\ Gets(x, Content(member, x, y))
           /\ member \notin {"take", "drain"} => \A g \in Handle \ {x} : Stays(g)
<1> DEFINE t == Given(member, x, y)
<1>1. /\ at[y] \in Cell /\ Apply(t)
      /\ class' = class /\ build' = build
  BY DEF CopyInto, Readable, Holds
<1>2. /\ Sound(t) /\ Has(t, x, Content(member, x, y))
      /\ \A g \in Handle \ {x, y} : Leaves(t, g)
      /\ x # y /\ member \notin {"take", "drain"} => Leaves(t, y)
  BY <1>1, GivenSound
<1>3. t = [heap |-> t.heap, at |-> t.at]
  BY GivenShape DEF Fits
<1> HIDE DEF t
<1>4. /\ Owned' /\ at' = t.at
      /\ \A h \in Handle : t.at[h] \in Cell => heap'[t.at[h]] = t.heap[t.at[h]]
  BY <1>1, <1>2, <1>3, ApplyOwns DEF Fits
<1>5. QED
  BY <1>2, <1>4 DEF Has, Leaves, Stays, Gets

\* What a move leaves of them.
LEMMA MoveEffect ==
    ASSUME IInv, NEW x \in Handle, NEW y \in Handle, NEW member, Fits(member, x),
           MoveInto(x, y, member)
    PROVE  /\ Owned' /\ Gets(x, Content(member, x, y))
           /\ \A g \in Handle \ {x, y} : Stays(g)
           /\ x # y /\ member = "take" => at'[y] = Null
           /\ x # y /\ member = "drain" => at'[y] = at[y] /\ heap'[at[y]] = Moved
<1> DEFINE s == Given(member, x, y)
           t == IF member = "nest" /\ x # y THEN Point(s, y, Null) ELSE s
<1>1. /\ at[y] \in Cell /\ Apply(t)
      /\ class' = class /\ build' = build
  BY DEF MoveInto, Readable, Holds
<1>2. /\ Sound(s) /\ Has(s, x, Content(member, x, y))
      /\ \A g \in Handle \ {x, y} : Leaves(s, g)
      /\ x # y /\ member = "take" => s.at[y] = Null
      /\ x # y /\ member = "drain" => s.at[y] = at[y] /\ s.heap[at[y]] = Moved
  BY <1>1, GivenSound
<1>3. s = [heap |-> s.heap, at |-> s.at]
  BY GivenShape DEF Fits
<1>4. How.kept \in {"alone", "counted"} /\ (member = "nest" => How.kept = "counted")
  BY DEF Fits
<1> HIDE DEF s
<1>5. /\ Sound(t) /\ Has(t, x, Content(member, x, y))
      /\ \A g \in Handle \ {x, y} : Leaves(t, g)
      /\ t = [heap |-> t.heap, at |-> t.at]
      /\ member \in {"take", "drain"} => t = s
  <2>1. CASE member = "nest" /\ x # y
    <3>1. t = Point(s, y, Null)
      BY <2>1
    <3>2. /\ Point(s, y, Null) = [heap |-> Point(s, y, Null).heap, at |-> Point(s, y, Null).at]
          /\ Point(s, y, Null).heap = s.heap /\ Point(s, y, Null).at = [s.at EXCEPT ![y] = Null]
      BY <1>3 DEF Point
    <3>3. Has(Point(s, y, Null), x, Content(member, x, y))
      BY <1>2, <2>1, <3>2 DEF Has, Sound
    <3>4. QED
      BY <1>2, <1>3, <1>4, <2>1, <3>1, <3>2, <3>3, DropSound
  <2>2. CASE ~(member = "nest" /\ x # y)
    BY <1>2, <1>3, <2>2
  <2>3. QED
    BY <2>1, <2>2
<1> HIDE DEF t
<1>6. /\ Owned' /\ at' = t.at
      /\ \A h \in Handle : t.at[h] \in Cell => heap'[t.at[h]] = t.heap[t.at[h]]
  BY <1>1, <1>4, <1>5, ApplyOwns
<1>7. /\ x # y /\ member = "take" => at'[y] = Null
      /\ x # y /\ member = "drain" => at'[y] = at[y] /\ heap'[at[y]] = Moved
  BY <1>1, <1>2, <1>5, <1>6
<1>8. QED
  BY <1>5, <1>6, <1>7 DEF Has, Leaves, Stays, Gets

\* What the bytes of a mixed become.
LEMMA CopyOwned ==
    ASSUME IInv, NEW x \in Handle, NEW y \in Handle, NEW member, CopyInto(x, y, member)
    PROVE  /\ owned' \in [Handle -> [string : {0, 1, Null}, data : {0, 1, Null}]]
           /\ \A h \in Handle \ {x} : owned'[h] = owned[h]
           /\ heap[at[y]].kind = "string" => owned'[x].string = owned[y].string
           /\ heap[at[y]].kind = "binary" => owned'[x].data = owned[y].data
<1>1. owned' = [owned EXCEPT ![x] = MixedCopied(x, y)] /\ Getter(y) = heap[at[y]]
  BY DEF CopyInto, Getter
<1>2. owned \in [Handle -> [string : {0, 1, Null}, data : {0, 1, Null}]]
  BY DEF IInv, TypeOK
<1>3. MixedCopied(x, y) \in [string : {0, 1, Null}, data : {0, 1, Null}]
  BY <1>2 DEF MixedCopied
<1>4. /\ Getter(y).kind = "string" => MixedCopied(x, y).string = owned[y].string
      /\ Getter(y).kind = "binary" => MixedCopied(x, y).data = owned[y].data
  BY <1>2 DEF MixedCopied
<1>5. QED
  BY <1>1, <1>2, <1>3, <1>4

\* The bytes of a mixed value go with it.
LEMMA MoveOwned ==
    ASSUME IInv, NEW x \in Handle, NEW y \in Handle, NEW member, MoveInto(x, y, member)
    PROVE  /\ owned' \in [Handle -> [string : {0, 1, Null}, data : {0, 1, Null}]]
           /\ \A h \in Handle \ {x, y} : owned'[h] = owned[h]
           /\ x = y => owned' = owned
           /\ x # y /\ heap[at[y]].kind = "string" => owned'[x].string = owned[y].string
           /\ x # y /\ heap[at[y]].kind = "binary" => owned'[x].data = owned[y].data
<1>1. owned' = MixedMoved(x, y) /\ Getter(y) = heap[at[y]]
  BY DEF MoveInto, Getter
<1> DEFINE O == [string : {0, 1, Null}, data : {0, 1, Null}]
<1>2. CASE x = y
  BY <1>1, <1>2 DEF MixedMoved, IInv, TypeOK
<1>3. CASE x # y /\ heap[at[y]].kind = "string"
  <2> DEFINE ox == [owned[x] EXCEPT !.string = owned[y].string]
             oy == [owned[y] EXCEPT !.string = Null]
  <2>1. ox \in O /\ oy \in O /\ ox.string = owned[y].string
    BY <1>1 DEF IInv, TypeOK
  <2>2. owned' = [[owned EXCEPT ![x] = ox] EXCEPT ![y] = oy]
    BY <1>1, <1>3 DEF MixedMoved, IInv, TypeOK
  <2> HIDE DEF ox, oy, O
  <2>3. owned \in [Handle -> O]
    BY <1>1 DEF IInv, TypeOK, O
  <2>4. owned' \in [Handle -> O] /\ owned'[x] = ox /\ \A h \in Handle \ {x, y} : owned'[h] = owned[h]
    BY <1>3, <2>1, <2>2, <2>3
  <2>5. QED
    BY <1>3, <2>1, <2>4 DEF O
<1>4. CASE x # y /\ heap[at[y]].kind = "binary"
  <2> DEFINE ox == [owned[x] EXCEPT !.data = owned[y].data]
             oy == [owned[y] EXCEPT !.data = Null]
  <2>1. ox \in O /\ oy \in O /\ ox.data = owned[y].data
    BY <1>1 DEF IInv, TypeOK
  <2>2. owned' = [[owned EXCEPT ![x] = ox] EXCEPT ![y] = oy]
    BY <1>1, <1>4 DEF MixedMoved, IInv, TypeOK
  <2> HIDE DEF ox, oy, O
  <2>3. owned \in [Handle -> O]
    BY <1>1 DEF IInv, TypeOK, O
  <2>4. owned' \in [Handle -> O] /\ owned'[x] = ox /\ \A h \in Handle \ {x, y} : owned'[h] = owned[h]
    BY <1>4, <2>1, <2>2, <2>3
  <2>5. QED
    BY <1>4, <2>1, <2>4 DEF O
<1>5. CASE x # y /\ heap[at[y]].kind \notin {"string", "binary"}
  BY <1>1, <1>5 DEF MixedMoved, IInv, TypeOK
<1>6. QED
  BY <1>2, <1>3, <1>4, <1>5

\* Copy construction and assignment keep the invariant.
LEMMA CopyKeepsIInv ==
    ASSUME IInv, NEW x \in Handle, NEW y \in Handle, NEW member, Fits(member, x),
           member \notin {"take", "drain"},
           class \in {"mixed", "config"} => member \in {"clone", "share"},
           CopyInto(x, y, member)
    PROVE  IInv'
<1> DEFINE v == heap[at[y]]
<1>1. /\ Readable(y)
      /\ means' = [means EXCEPT ![x] = Denoted(y)]
      /\ alias' = [alias EXCEPT ![x] = {}]
      /\ class' = class /\ build' = build /\ remote' = remote
  BY DEF CopyInto
<1>2. /\ v \in Contents /\ Suits(v, means[y], owned[y]) /\ Denoted(y) \in Values
      /\ class = "config" => Denoted(y) \in Value
      /\ class # "config" => Denoted(y).sync = 0
  BY <1>1, DenotedSound
<1>3. Owned' /\ Gets(x, Content(member, x, y)) /\ \A g \in Handle \ {x} : Stays(g)
  BY CopyEffect
<1>4. /\ owned' \in [Handle -> [string : {0, 1, Null}, data : {0, 1, Null}]]
      /\ \A h \in Handle \ {x} : owned'[h] = owned[h]
      /\ v.kind = "string" => owned'[x].string = owned[y].string
      /\ v.kind = "binary" => owned'[x].data = owned[y].data
  BY CopyOwned
<1> HIDE DEF v
<1>5. DataOK /\ FitsInv
  BY PartsOfIInv
<1>6. DataOK'
  BY <1>1, <1>2, <1>4, <1>5 DEF DataOK
<1>7. FitsInv'
  <2>1. SUFFICES ASSUME NEW h \in Handle PROVE FitsAt(h)'
    BY DEF FitsInv
  <2>2. class # "config" => means'[h].sync = 0
    BY <1>1, <1>2, <1>5 DEF FitsInv, FitsAt, DataOK
  <2>3. CASE class \notin {"mixed", "config"}
    BY <1>1, <1>3, <2>2, <2>3, OtherFits
  <2>4. CASE class \in {"mixed", "config"} /\ h # x
    <3>1. means'[h] = means[h]
      BY <1>1, <1>5, <2>4 DEF DataOK
    <3>2. QED
      BY <1>1, <1>3, <1>4, <2>4, <3>1, LeftFits DEF Stays
  <2>5. CASE class \in {"mixed", "config"} /\ h = x
    <3>1. heap'[at'[x]] = v
      BY <1>3, <2>5 DEF Gets, Content, v
    <3>2. means'[x] = Denoted(y)
      BY <1>1, <1>5 DEF DataOK
    <3>3. class = "config" => v \in Value
      BY <1>2 DEF Suits
    <3>4. Suits(v, Denoted(y), owned'[x])
      BY <1>2, <1>4, <3>3 DEF Suits
    <3>5. QED
      BY <1>1, <2>2, <2>5, <3>1, <3>2, <3>4 DEF FitsAt, Suits
  <2>6. QED
    BY <2>3, <2>4, <2>5
<1>8. Owned'
  BY <1>3
<1>9. QED
  BY <1>6, <1>7, <1>8, PartsOfIInv, PTL

\* Move construction and assignment do.
LEMMA MoveKeepsIInv ==
    ASSUME IInv, NEW x \in Handle, NEW y \in Handle, NEW member, Fits(member, x),
           class \in {"mixed", "config"} => member \in {"take", "drain"},
           MoveInto(x, y, member)
    PROVE  IInv'
<1> DEFINE v == heap[at[y]]
<1>1. /\ Readable(y)
      /\ means' = (IF x = y THEN means ELSE [means EXCEPT ![x] = Denoted(y), ![y] = Moved])
      /\ alias' = (IF x = y THEN alias ELSE [alias EXCEPT ![x] = {}, ![y] = {}])
      /\ class' = class /\ build' = build /\ remote' = remote
  BY DEF MoveInto
<1>2. /\ v \in Contents /\ Suits(v, means[y], owned[y]) /\ Denoted(y) \in Values
      /\ class = "config" => Denoted(y) \in Value
      /\ class # "config" => Denoted(y).sync = 0
  BY <1>1, DenotedSound
<1>3. Owned' /\ Gets(x, Content(member, x, y)) /\ \A g \in Handle \ {x, y} : Stays(g)
  BY MoveEffect
<1>4. /\ owned' \in [Handle -> [string : {0, 1, Null}, data : {0, 1, Null}]]
      /\ \A h \in Handle \ {x, y} : owned'[h] = owned[h]
      /\ x = y => owned' = owned
      /\ x # y /\ v.kind = "string" => owned'[x].string = owned[y].string
      /\ x # y /\ v.kind = "binary" => owned'[x].data = owned[y].data
  BY MoveOwned
<1> HIDE DEF v
<1>5. DataOK /\ FitsInv
  BY PartsOfIInv
<1>6. /\ means' \in [Handle -> Values]
      /\ \A h \in Handle \ {x, y} : means'[h] = means[h]
      /\ IF x = y THEN means' = means ELSE means'[x] = Denoted(y) /\ means'[y] = Moved
  BY <1>1, <1>2, <1>5 DEF DataOK, Values
<1>7. DataOK'
  BY <1>1, <1>4, <1>5, <1>6 DEF DataOK
<1>8. FitsInv'
  <2>1. SUFFICES ASSUME NEW h \in Handle PROVE FitsAt(h)'
    BY DEF FitsInv
  <2>2. FitsAt(h)
    BY <1>5 DEF FitsInv
  <2>3. class # "config" => means'[h].sync = 0
    BY <1>2, <1>6, <2>2 DEF FitsAt, Moved, Mark
  <2>4. CASE class \notin {"mixed", "config"}
    BY <1>1, <1>3, <2>3, <2>4, OtherFits
  <2>5. CASE class \in {"mixed", "config"} /\ h \notin {x, y}
    BY <1>1, <1>3, <1>4, <1>6, <2>5, LeftFits DEF Stays
  <2>6. CASE class \in {"mixed", "config"} /\ h = x
    <3>1. heap'[at'[x]] = v
      BY <1>3, <2>6 DEF Gets, Content, v
    <3>2. Suits(v, means'[x], owned'[x])
      <4>1. class = "config" => v \in Value
        BY <1>2 DEF Suits
      <4>2. QED
        BY <1>2, <1>4, <1>6, <4>1 DEF Suits
    <3>3. QED
      BY <1>1, <2>3, <2>6, <3>1, <3>2 DEF FitsAt, Suits
  <2>7. CASE x # y /\ h = y
    BY <1>1, <1>6, <2>3, <2>7 DEF FitsAt, Readable, Moved, Mark
  <2>8. QED
    BY <2>4, <2>5, <2>6, <2>7
<1>9. Owned'
  BY <1>3
<1>10. QED
  BY <1>7, <1>8, <1>9, PartsOfIInv, PTL

\* A handle that gets an object of its own.
LEMMA NewEffect ==
    ASSUME IInv, NEW x \in Handle, at[x] = Unmade, NEW v \in Contents, v # Free,
           Apply(Put(State, x, v)), class' = class, build' = build
    PROVE  Owned' /\ Gets(x, v) /\ \A g \in Handle \ {x} : Stays(g)
<1> DEFINE t == Put(State, x, v)
<1>1. at[x] \notin Cell
  BY CellsSuffice
<1>2. /\ Sound(t) /\ Has(t, x, v)
      /\ \A g \in Handle \ {x} : Leaves(t, g)
  BY <1>1, PutSound
<1>3. t = [heap |-> t.heap, at |-> t.at]
  BY DEF Put, State
<1>4. How.kept \in {"alone", "counted"}
  BY HowWellMade DEF WellMade
<1> HIDE DEF t
<1>5. /\ Owned' /\ at' = t.at
      /\ \A h \in Handle : t.at[h] \in Cell => heap'[t.at[h]] = t.heap[t.at[h]]
  BY <1>2, <1>3, <1>4, ApplyOwns DEF t
<1>6. QED
  BY <1>2, <1>5 DEF Has, Leaves, Stays, Gets

\* Construction does, whatever it is from.
LEMMA NewKeepsIInv ==
    ASSUME IInv, NEW x \in Handle, at[x] = Unmade, NEW v \in Contents, v # Free,
           Apply(Put(State, x, v)), class' = class, build' = build, DataOK',
           \A h \in Handle \ {x} : means'[h] = means[h] /\ owned'[h] = owned[h],
           class # "config" => means'[x].sync = 0,
           class \in {"mixed", "config"} => Suits(v, means'[x], owned'[x])
    PROVE  IInv'
<1>1. Owned' /\ Gets(x, v) /\ \A g \in Handle \ {x} : Stays(g)
  BY NewEffect
<1>2. FitsInv'
  <2>1. SUFFICES ASSUME NEW h \in Handle PROVE FitsAt(h)'
    BY DEF FitsInv
  <2>2. CASE h # x
    BY <1>1, <2>2, LeftFits DEF Stays
  <2>3. CASE h = x /\ class \notin {"mixed", "config"}
    BY <1>1, <2>3, OtherFits
  <2>4. CASE h = x /\ class \in {"mixed", "config"}
    BY <1>1, <2>4 DEF FitsAt, Suits, Gets
  <2>5. QED
    BY <2>2, <2>3, <2>4
<1>3. Owned'
  BY <1>1
<1>4. QED
  BY <1>2, <1>3, PartsOfIInv, PTL

\* Construction from a value.
LEMMA ConstructKeepsIInv ==
    ASSUME IInv, NEW x \in Handle, NEW v \in Constructible, Construct(x, v)
    PROVE  IInv'
<1> DEFINE w == Viewed(v)
<1>1. /\ at[x] = Unmade /\ Apply(Put(State, x, w))
      /\ owned' = [owned EXCEPT ![x] = OwnedFor(v)]
      /\ means' = [means EXCEPT ![x] = v]
      /\ alias' = [alias EXCEPT ![x] = {}]
      /\ class' = class /\ build' = build /\ remote' = remote
  BY DEF Construct, Made
<1>2. /\ v \in Value /\ v.sync = 0 /\ v.n \in 0..1
      /\ class # "mixed" => v.kind \notin {"string", "binary"}
  BY DEF Constructible, KindsOf, Value
<1>3. w \in Value /\ w.sync = 0 /\ w.kind = v.kind
  BY <1>2 DEF Viewed, Value
<1>4. w \in Contents /\ w # Free
  BY <1>2, <1>3, MarksAreContents DEF Contents, Values
<1>5. /\ OwnedFor(v) \in [string : {0, 1, Null}, data : {0, 1, Null}]
      /\ v.kind = "string" => OwnedFor(v).string \in 0..1
      /\ v.kind = "binary" => OwnedFor(v).data \in 0..1
  BY <1>2 DEF OwnedFor, Unowned
<1> HIDE DEF w
<1>6. DataOK
  BY PartsOfIInv
<1>7. DataOK'
  BY <1>1, <1>2, <1>5, <1>6 DEF DataOK, Values
<1>8. /\ \A h \in Handle \ {x} : means'[h] = means[h] /\ owned'[h] = owned[h]
      /\ means'[x] = v /\ owned'[x] = OwnedFor(v)
  BY <1>1, <1>6 DEF DataOK
<1>9. Suits(w, means'[x], owned'[x])
  BY <1>2, <1>3, <1>5, <1>8 DEF Suits
<1>10. QED
  BY <1>1, <1>2, <1>4, <1>7, <1>8, <1>9, NewKeepsIInv

\* Construction from parts.
LEMMA FromPartsKeepsIInv ==
    ASSUME IInv, NEW x \in Handle, ConstructFromParts(x)
    PROVE  IInv'
<1>1. /\ class = "object_schema" /\ at[x] = Unmade /\ Apply(Put(State, x, Garbage))
      /\ means' = [means EXCEPT ![x] = [n |-> 0, kind |-> "long", sync |-> 0]]
      /\ class' = class /\ build' = build /\ remote' = remote
      /\ owned' = owned /\ alias' = alias
  BY DEF ConstructFromParts, Made
<1>2. DataOK
  BY PartsOfIInv
<1>3. [n |-> 0, kind |-> "long", sync |-> 0] \in Values
  BY DEF Values, Value
<1>4. DataOK'
  BY <1>1, <1>2, <1>3 DEF DataOK
<1>5. /\ \A h \in Handle \ {x} : means'[h] = means[h] /\ owned'[h] = owned[h]
      /\ means'[x].sync = 0
  BY <1>1, <1>2 DEF DataOK
<1>6. QED
  BY <1>1, <1>4, <1>5, MarksAreContents, NewKeepsIInv

\* A configuration that a user makes for flexible sync.
LEMMA FlexibleKeepsIInv ==
    ASSUME IInv, NEW x \in Handle, FlexibleSyncConfiguration(x)
    PROVE  IInv'
<1> DEFINE v == [n |-> 1, kind |-> "plain", sync |-> 1]
<1>1. /\ class = "config" /\ at[x] = Unmade /\ Apply(Put(State, x, v))
      /\ means' = [means EXCEPT ![x] = v]
      /\ remote' = 1 /\ alias' = [alias EXCEPT ![x] = {}]
      /\ class' = class /\ build' = build /\ owned' = owned
  BY DEF FlexibleSyncConfiguration, Made, NewSyncConfig
<1>2. v \in Value /\ v.kind = "plain"
  BY DEF Value
<1> HIDE DEF v
<1>3. v \in Contents /\ v # Free
  BY <1>1, <1>2, MarksAreContents DEF Contents, Values
<1>4. DataOK
  BY PartsOfIInv
<1>5. DataOK'
  BY <1>1, <1>2, <1>4 DEF DataOK, Values
<1>6. /\ \A h \in Handle \ {x} : means'[h] = means[h] /\ owned'[h] = owned[h]
      /\ means'[x] = v
  BY <1>1, <1>4 DEF DataOK
<1>7. Suits(v, means'[x], owned'[x])
  BY <1>2, <1>6 DEF Suits
<1>8. QED
  BY <1>1, <1>3, <1>5, <1>6, <1>7, NewKeepsIInv

\* What destruction leaves of the places.
LEMMA DestroyEffect ==
    ASSUME IInv, NEW x \in Handle, Destroy(x)
    PROVE  Owned' /\ at'[x] \notin Cell /\ \A g \in Handle \ {x} : Stays(g)
<1> DEFINE s == Point(State, x, Unmade)
           t == IF How.kept = "alone" THEN [s EXCEPT !.heap[at[x]] = Free] ELSE s
<1>1. /\ Apply(t)
      /\ class' = class /\ build' = build
  BY DEF Destroy
<1>2. s = [heap |-> heap, at |-> [at EXCEPT ![x] = Unmade]]
  BY DEF Point, State
<1>3. /\ heap \in [Cell -> Contents] /\ at \in [Handle -> Places]
      /\ \A h \in Handle : at[h] \in Cell => heap[at[h]] # Free
      /\ How.kept = "alone" =>
            /\ \A g, h \in Handle : at[g] \in Cell /\ at[g] = at[h] => g = h
            /\ \A c \in Cell : heap[c] # Free => \E h \in Handle : at[h] = c
      /\ Unmade \notin Cell /\ Unmade \in Places
  BY StateSound, CellsSuffice DEF Sound, Places
<1>4. How.kept \in {"alone", "counted"}
  BY HowWellMade DEF WellMade
<1>5. /\ Sound(t) /\ t.at[x] = Unmade /\ t = [heap |-> t.heap, at |-> t.at]
      /\ \A g \in Handle \ {x} : Leaves(t, g)
  <2> DEFINE a1 == [at EXCEPT ![x] = Unmade]
  <2>1. a1 \in [Handle -> Places] /\ a1[x] = Unmade /\ \A g \in Handle \ {x} : a1[g] = at[g]
    BY <1>3
  <2>2. CASE How.kept = "counted"
    <3>1. t = s /\ s.heap = heap /\ s.at = a1 /\ s = [heap |-> s.heap, at |-> s.at]
      BY <1>2, <2>2
    <3> HIDE DEF t, s, a1
    <3>2. QED
      BY <1>3, <2>1, <2>2, <3>1 DEF Sound, Leaves
  <2>3. CASE How.kept = "alone"
    <3> DEFINE h1 == [heap EXCEPT ![at[x]] = Free]
    <3>1. t.heap = h1 /\ t.at = a1 /\ t = [heap |-> t.heap, at |-> t.at]
      BY <1>2, <2>3
    <3>2. /\ h1 \in [Cell -> Contents] /\ \A c \in Cell \ {at[x]} : h1[c] = heap[c]
          /\ at[x] \in Cell => h1[at[x]] = Free
      BY <1>3, MarksAreContents
    <3> HIDE DEF t, s, a1, h1
    <3>3. \A g \in Handle \ {x} : at[g] \in Cell => at[g] # at[x]
      BY <1>3, <2>3
    <3>4. Sound(t)
      <4>1. \A g \in Handle : a1[g] \in Cell => h1[a1[g]] # Free
        BY <1>3, <2>1, <3>2, <3>3
      <4>2. \A g, h \in Handle : a1[g] \in Cell /\ a1[g] = a1[h] => g = h
        BY <1>3, <2>1, <2>3
      <4>3. \A c \in Cell : h1[c] # Free => \E h \in Handle : a1[h] = c
        <5>1. SUFFICES ASSUME NEW c \in Cell, h1[c] # Free PROVE \E h \in Handle : a1[h] = c
          OBVIOUS
        <5>2. c # at[x] /\ heap[c] # Free
          BY <3>2, <5>1
        <5>3. PICK h \in Handle : at[h] = c
          BY <1>3, <2>3, <5>2
        <5>4. QED
          BY <2>1, <5>2, <5>3
      <4>4. QED
        BY <2>1, <3>1, <3>2, <4>1, <4>2, <4>3 DEF Sound
    <3>5. QED
      BY <2>1, <3>1, <3>2, <3>3, <3>4 DEF Leaves
  <2>4. QED
    BY <1>4, <2>2, <2>3
<1> HIDE DEF s, t
<1>6. /\ Owned' /\ at' = t.at
      /\ \A h \in Handle : t.at[h] \in Cell => heap'[t.at[h]] = t.heap[t.at[h]]
  BY <1>1, <1>4, <1>5, ApplyOwns
<1>7. QED
  BY <1>3, <1>5, <1>6 DEF Leaves, Stays

\* Destruction keeps the invariant.
LEMMA DestroyKeepsIInv ==
    ASSUME IInv, NEW x \in Handle, Destroy(x)
    PROVE  IInv'
<1>1. /\ owned' = [owned EXCEPT ![x] = Unowned]
      /\ means' = [means EXCEPT ![x] = Free]
      /\ alias' = [alias EXCEPT ![x] = {}]
      /\ class' = class /\ build' = build /\ remote' = remote
  BY DEF Destroy
<1>2. Owned' /\ at'[x] \notin Cell /\ \A g \in Handle \ {x} : Stays(g)
  BY DestroyEffect
<1>3. DataOK
  BY PartsOfIInv
<1>4. Unowned \in [string : {0, 1, Null}, data : {0, 1, Null}] /\ Free \in Values
  BY DEF Unowned, Values
<1>5. DataOK'
  BY <1>1, <1>3, <1>4 DEF DataOK
<1>6. FitsInv'
  <2>1. SUFFICES ASSUME NEW h \in Handle PROVE FitsAt(h)'
    BY DEF FitsInv
  <2>2. CASE h # x
    <3>1. means'[h] = means[h] /\ owned'[h] = owned[h]
      BY <1>1, <1>3, <2>2 DEF DataOK
    <3>2. QED
      BY <1>1, <1>2, <2>2, <3>1, LeftFits DEF Stays
  <2>3. CASE h = x
    <3>1. means'[x] = Free
      BY <1>1, <1>3 DEF DataOK
    <3>2. QED
      BY <1>2, <2>3, <3>1 DEF FitsAt, Readable, Holds, Free, Mark
  <2>4. QED
    BY <2>2, <2>3
<1>7. Owned'
  BY <1>2
<1>8. QED
  BY <1>5, <1>6, <1>7, PartsOfIInv, PTL

\* An object that is changed in its place.
LEMMA ChangeKeepsIInv ==
    ASSUME IInv, NEW h \in Handle, at[h] \in Cell, NEW w \in Contents, w # Free,
           class # "mixed", class = "config" => w \in Value,
           heap' = [heap EXCEPT ![at[h]] = w], at' = at, class' = class, build' = build,
           DataOK', owned' = owned,
           \A g \in Handle : /\ class # "config" => means'[g].sync = 0
                             /\ means'[g] = means[g] \/ (g = h /\ Readable(h))
                             /\ class = "config" /\ Readable(g) => means'[g] \in Value
    PROVE  IInv'
<1>1. DataOK /\ Owned /\ FitsInv
  BY PartsOfIInv
<1>2. /\ heap \in [Cell -> Contents] /\ heap' \in [Cell -> Contents]
      /\ heap'[at[h]] = w /\ \A c \in Cell \ {at[h]} : heap'[c] = heap[c]
  BY <1>1 DEF Owned
<1>3. How' = How /\ Contents' = Contents
  BY DEF How, Contents
<1>4. Owned'
  <2>1. /\ at \in [Handle -> Places]
        /\ \A g \in Handle : at[g] \in Cell => heap[at[g]] # Free
        /\ \A g, k \in Handle : How.kept = "alone" /\ at[g] \in Cell /\ at[g] = at[k] => g = k
        /\ \A c \in Cell : heap[c] # Free => \E k \in Handle : at[k] = c
    BY <1>1 DEF Owned
  <2>2. \A g \in Handle : at'[g] \in Cell => heap'[at'[g]] # Free
    BY <1>2, <2>1
  <2>3. \A c \in Cell : heap'[c] # Free => \E k \in Handle : at'[k] = c
    BY <1>2, <2>1
  <2>4. QED
    BY <1>2, <1>3, <2>1, <2>2, <2>3 DEF Owned
<1>5. FitsInv'
  <2>1. SUFFICES ASSUME NEW g \in Handle PROVE FitsAt(g)'
    BY DEF FitsInv
  <2>2. CASE class # "config"
    BY <1>4, <2>2, OtherFits
  <2>3. CASE class = "config"
    <3>1. SUFFICES ASSUME Readable(g)' PROVE Suits(heap'[at[g]], means'[g], owned'[g])
      BY <2>3 DEF FitsAt, Suits
    <3>2. Readable(g)
      BY <3>1 DEF Readable, Holds
    <3>3. FitsAt(g) /\ at[g] \in Cell
      BY <1>1, <3>2 DEF FitsInv, Readable, Holds
    <3>4. heap[at[g]] \in Value /\ means'[g] \in Value
      BY <2>3, <3>2, <3>3 DEF FitsAt, Suits
    <3>5. heap'[at[g]] \in Value /\ heap'[at[g]] \in Contents
      BY <1>2, <2>3, <3>3, <3>4
    <3>6. QED
      BY <2>3, <3>4, <3>5 DEF Suits, Contents
  <2>4. QED
    BY <2>2, <2>3
<1>6. QED
  BY <1>4, <1>5, PartsOfIInv, PTL

\* A setter leaves a value.
LEMMA SettersKeepContents ==
    ASSUME NEW v \in Value, v \in Contents, NEW w \in Setters(v)
    PROVE  /\ w \in Contents /\ w # Free /\ class # "mixed"
           /\ w \in Value \/ (w = Spent /\ class # "config")
<1> DEFINE Changed(u) == u \in Value /\ u.sync = v.sync /\ u.kind \in {v.kind, "plain", "long"}
<1>1. ASSUME NEW n \in 0..1 PROVE Changed([v EXCEPT !.n = n])
  BY DEF Value
<1>2. Changed([v EXCEPT !.kind = "long"])
  BY DEF Value
<1>3. ASSUME NEW n \in 0..1, NEW k \in {"plain", "long"}
      PROVE  Changed([n |-> n, kind |-> k, sync |-> v.sync])
  <2>1. v.sync \in 0..2
    BY DEF Value
  <2>2. QED
    BY <2>1 DEF Value
<1>4. ASSUME NEW u, Changed(u), class # "mixed" PROVE u \in Contents /\ u # Free /\ u \in Value
  BY <1>4, MarksAreContents DEF Contents, Values
<1> HIDE DEF Changed
<1>5. CASE class = "property"
  BY <1>1, <1>4, <1>5 DEF Setters, PropertySetters
<1>6. CASE class = "object_schema"
  BY <1>1, <1>2, <1>4, <1>6 DEF Setters, ObjectSchemaSetters
<1>7. CASE class = "error_category"
  BY <1>1, <1>4, <1>7 DEF Setters, ErrorCategorySetters
<1>8. CASE class = "config"
  BY <1>1, <1>4, <1>8 DEF Setters, ConfigSetters
<1>9. CASE class = "mutable_sync_subscription_set"
  BY <1>1, <1>4, <1>9 DEF Setters, InsertOrAssign
<1>10. CASE class = "notification_token"
  BY <1>10, MarksAreContents DEF Setters, Unregister
<1>11. CASE class = "thread_safe_reference"
  BY <1>11, MarksAreContents DEF Setters, Resolve
<1>12. CASE class = "decimal128"
  <2>1. PICK n \in 0..1, k \in {"plain", "long"} : w = [n |-> n, kind |-> k, sync |-> v.sync]
    BY <1>12 DEF Setters, DecimalSetters, KindsOf
  <2>2. QED
    BY <1>3, <1>4, <1>12, <2>1
<1>13. QED
  BY <1>5, <1>6, <1>7, <1>8, <1>9, <1>10, <1>11, <1>12 DEF Setters

\* Setters keep the invariant.
LEMMA AlterKeepsIInv ==
    ASSUME IInv, NEW h \in Handle, Alter(h)
    PROVE  IInv'
<1>1. /\ Readable(h) /\ at[h] \in Cell /\ heap[at[h]] \in Value
      /\ class' = class /\ build' = build /\ at' = at /\ owned' = owned /\ remote' = remote
      /\ alias' = [g \in Handle |->
                      IF g # h /\ at[g] = at[h] THEN alias[g] \cup {"object"} ELSE alias[g]]
  BY DEF Alter, Readable, Holds, Getter
<1>2. PICK w \in Setters(heap[at[h]]) :
         /\ heap' = [heap EXCEPT ![at[h]] = w]
         /\ means' = [means EXCEPT ![h] = [w EXCEPT !.sync = means[h].sync]]
  BY DEF Alter, Getter
<1>3. DataOK /\ FitsInv /\ heap[at[h]] \in Contents
  BY <1>1, PartsOfIInv DEF Owned
<1>4. /\ w \in Contents /\ w # Free /\ class # "mixed"
      /\ w \in Value \/ (w = Spent /\ class # "config")
  BY <1>1, <1>3, SettersKeepContents
<1> DEFINE m == [w EXCEPT !.sync = means[h].sync]
<1>5. means[h].sync \in 0..2 /\ (class # "config" => means[h].sync = 0)
  BY <1>3, ContentsFields DEF DataOK, FitsInv, FitsAt
<1>6. /\ m \in Values /\ m.sync = means[h].sync /\ (class = "config" => m \in Value)
  <2>1. CASE w \in Value
    BY <1>5, <2>1, ValueFields DEF Values, Value
  <2>2. CASE w = Spent /\ class # "config"
    BY <1>5, <2>2 DEF Values, Spent, Mark
  <2>3. QED
    BY <1>4, <2>1, <2>2
<1> HIDE DEF m
<1>7. means' = [means EXCEPT ![h] = m]
  BY <1>2 DEF m
<1>8. DataOK'
  BY <1>1, <1>3, <1>6, <1>7 DEF DataOK
<1>9. ASSUME NEW g \in Handle
      PROVE  /\ class # "config" => means'[g].sync = 0
             /\ means'[g] = means[g] \/ (g = h /\ Readable(h))
             /\ class = "config" /\ Readable(g) => means'[g] \in Value
  <2>1. /\ class # "config" => means[g].sync = 0
        /\ class = "config" /\ Readable(g) => means[g] \in Value
    BY <1>3 DEF FitsInv, FitsAt, Suits
  <2>2. means'[g] = IF g = h THEN m ELSE means[g]
    BY <1>3, <1>7 DEF DataOK
  <2>3. QED
    BY <1>1, <1>5, <1>6, <2>1, <2>2
<1>10. QED
  BY <1>1, <1>2, <1>4, <1>8, <1>9, ChangeKeepsIInv

\* Opening a Realm with a configuration does.
LEMMA OpenKeepsIInv ==
    ASSUME IInv, NEW h \in Handle, Open(h)
    PROVE  IInv'
<1>1. /\ class = "config" /\ Readable(h) /\ at[h] \in Cell
      /\ class' = class /\ build' = build /\ at' = at /\ owned' = owned /\ remote' = remote
      /\ means' = means
  BY DEF Open, Readable, Holds
<1>2. DataOK /\ Owned /\ FitsInv
  BY PartsOfIInv
<1>3. \A g \in Handle : Readable(g) => heap[at[g]] \in Value /\ means[g] \in Value
  BY <1>1, <1>2 DEF FitsInv, FitsAt, Suits
<1>4. CASE How.copy = "share"
  <2> DEFINE w == [heap[at[h]] EXCEPT !.n = 1]
  <2>1. heap' = [heap EXCEPT ![at[h]] = w]
    BY <1>1, <1>2, <1>4 DEF Open, SetSchema, Owned
  <2>2. heap[at[h]] \in Value /\ heap[at[h]].kind \notin {"string", "binary"}
    BY <1>1, <1>2, <1>3 DEF Owned, Contents
  <2>3. w \in Value /\ w.kind = heap[at[h]].kind
    BY <2>2 DEF Value
  <2> HIDE DEF w
  <2>4. w \in Contents /\ w # Free
    BY <1>1, <2>2, <2>3, MarksAreContents DEF Contents, Values
  <2>5. alias' = [g \in Handle |->
                     IF at[g] = at[h] THEN alias[g] \cup {"object"} ELSE alias[g]]
    BY <1>4 DEF Open
  <2>6. DataOK'
    BY <1>1, <1>2, <2>5 DEF DataOK
  <2>7. QED
    BY <1>1, <1>3, <2>1, <2>3, <2>4, <2>6, ChangeKeepsIInv
<1>5. CASE How.copy # "share"
  <2>1. heap' = heap /\ alias' = alias
    BY <1>5 DEF Open
  <2>2. UNCHANGED vars
    BY <1>1, <2>1 DEF vars
  <2>3. How' = How /\ Contents' = Contents
    BY <1>1 DEF How, Contents
  <2>4. DataOK' /\ Owned' /\ FitsInv'
    BY <1>2, <2>2, <2>3 DEF vars, DataOK, Owned, FitsInv, FitsAt, Readable, Holds, Suits
  <2>5. DataOK' /\ Owned' /\ FitsInv' => IInv'
    BY PartsOfIInv, PTL
  <2>6. QED
    BY <2>4, <2>5
<1>6. QED
  BY <1>4, <1>5

\* Giving a configuration a sync configuration does.
LEMMA SetSyncConfigKeepsIInv ==
    ASSUME IInv, NEW h \in Handle, NEW g \in Handle, SetSyncConfig(h, g)
    PROVE  IInv'
<1>1. /\ class = "config" /\ Readable(h) /\ Readable(g) /\ at[h] \in Cell
      /\ class' = class /\ build' = build /\ at' = at /\ owned' = owned /\ remote' = remote
      /\ alias' = [k \in Handle |->
                      IF k # h /\ at[k] = at[h] THEN alias[k] \cup {"object"} ELSE alias[k]]
  BY DEF SetSyncConfig, Readable, Holds
<1>2. DataOK /\ Owned /\ FitsInv
  BY PartsOfIInv
<1>3. \A k \in Handle : Readable(k) => heap[at[k]] \in Value /\ means[k] \in Value
  BY <1>1, <1>2 DEF FitsInv, FitsAt, Suits
<1> DEFINE w == [heap[at[h]] EXCEPT !.sync = heap[at[g]].sync]
           m == [means[h] EXCEPT !.sync = Denoted(g).sync]
<1>4. heap' = [heap EXCEPT ![at[h]] = w] /\ means' = [means EXCEPT ![h] = m]
  BY <1>1, <1>2 DEF SetSyncConfig, Getter, Owned, DataOK
<1>5. /\ heap[at[h]] \in Value /\ heap[at[h]].kind \notin {"string", "binary"}
      /\ heap[at[g]] \in Value /\ means[h] \in Value /\ Denoted(g) \in Value
  BY <1>1, <1>2, <1>3, DenotedSound DEF Owned, Contents
<1>6. w \in Value /\ w.kind = heap[at[h]].kind /\ m \in Value
  BY <1>5 DEF Value
<1> HIDE DEF w, m
<1>7. w \in Contents /\ w # Free
  BY <1>1, <1>5, <1>6, MarksAreContents DEF Contents, Values
<1>8. DataOK'
  BY <1>1, <1>2, <1>4, <1>6 DEF DataOK, Values
<1>9. \A k \in Handle : /\ means'[k] = means[k] \/ (k = h /\ Readable(h))
                        /\ Readable(k) => means'[k] \in Value
  BY <1>1, <1>2, <1>3, <1>4, <1>6 DEF DataOK
<1>10. QED
  BY <1>1, <1>4, <1>6, <1>7, <1>8, <1>9, ChangeKeepsIInv

\* A change of the shared sync configuration does.
LEMMA ChangeRemoteKeepsIInv ==
    ASSUME IInv, NEW h \in Handle, class = "config", Readable(h), ChangeRemote(h)
    PROVE  IInv'
<1>1. /\ remote' \in 1..2
      /\ means' = [means EXCEPT ![h].sync = remote']
      /\ alias' = [g \in Handle |->
                      IF g # h /\ Holds(g) /\ Synced(g) THEN alias[g] \cup {"sync"} ELSE alias[g]]
      /\ class' = class /\ build' = build /\ heap' = heap /\ at' = at /\ owned' = owned
  BY DEF ChangeRemote
<1>2. DataOK /\ Owned /\ FitsInv
  BY PartsOfIInv
<1>3. means[h] \in Value
  BY <1>2 DEF FitsInv, FitsAt, Suits
<1> DEFINE m == [means[h] EXCEPT !.sync = remote']
<1>4. m \in Value
  BY <1>1, <1>3 DEF Value
<1>5. means' = [means EXCEPT ![h] = m]
  BY <1>1, <1>2 DEF DataOK
<1> HIDE DEF m
<1>6. DataOK'
  BY <1>1, <1>2, <1>4, <1>5 DEF DataOK, Values
<1>7. How' = How /\ Contents' = Contents
  BY <1>1 DEF How, Contents
<1>8. Owned'
  BY <1>1, <1>2, <1>7 DEF Owned
<1>9. FitsInv'
  <2>1. SUFFICES ASSUME NEW g \in Handle PROVE FitsAt(g)'
    BY DEF FitsInv
  <2>2. means'[g] = IF g = h THEN m ELSE means[g]
    BY <1>2, <1>5 DEF DataOK
  <2>3. FitsAt(g) /\ FitsAt(h)
    BY <1>2 DEF FitsInv
  <2>4. QED
    BY <1>1, <1>4, <2>2, <2>3 DEF FitsAt, Readable, Holds, Suits
<1>10. QED
  BY <1>6, <1>8, <1>9, PartsOfIInv, PTL

\* The invariant holds initially.
LEMMA InitIInv == Init => IInv
<1> SUFFICES ASSUME Init PROVE IInv
  OBVIOUS
<1>1. /\ heap = [c \in Cell |-> Free] /\ at = [h \in Handle |-> Unmade]
      /\ means = [h \in Handle |-> Free] /\ remote = 1
      /\ owned = [h \in Handle |-> Unowned] /\ alias = [h \in Handle |-> {}]
      /\ class \in DOMAIN Classes /\ build \in {"generated", "shared"}
  BY DEF Init
<1>2. Unowned \in [string : {0, 1, Null}, data : {0, 1, Null}] /\ Free \in Values
  BY DEF Unowned, Values
<1>3. DataOK
  BY <1>1, <1>2 DEF DataOK
<1>4. Free \in Contents /\ Unmade \in Places /\ Unmade \notin Cell
  BY MarksAreContents, CellsSuffice DEF Places
<1>5. Owned
  BY <1>1, <1>4 DEF Owned
<1>6. FitsInv
  BY <1>1, <1>4 DEF FitsInv, FitsAt, Readable, Holds, Free, Mark
<1>7. QED
  BY <1>3, <1>5, <1>6, PartsOfIInv

\* Every step keeps it.
LEMMA NextKeepsIInv == IInv /\ [Next]_vars => IInv'
<1> SUFFICES ASSUME IInv, [Next]_vars PROVE IInv'
  OBVIOUS
<1>1. /\ How.kept \in {"alone", "counted"}
      /\ How.copy \in CopyMembers /\ How.assign \in CopyMembers \ {"misread"}
      /\ How.move \in MoveMembers /\ How.moveAssign \in MoveMembers
      /\ How.kept = "alone"
            => {How.copy, How.assign, How.move, How.moveAssign} \cap {"share", "take", "nest"} = {}
      /\ How.kept = "counted"
            => {How.copy, How.assign, How.move, How.moveAssign}
                  \cap {"drain", "replace", "misread"} = {}
  BY HowWellMade DEF WellMade
<1>2. class \in {"mixed", "config"}
         => /\ How.copy \in {"clone", "share"} /\ How.assign \in {"clone", "share"}
            /\ How.move \in {"take", "drain"} /\ How.moveAssign \in {"take", "drain"}
  BY HowWellMade DEF Embedded, Counted
<1>3. Unmade \notin Cell
  BY CellsSuffice
<1>4. ASSUME NEW x \in Handle, NEW v \in Constructible, Construct(x, v) PROVE IInv'
  BY <1>4, ConstructKeepsIInv
<1>5. ASSUME NEW x \in Handle, ConstructFromParts(x) PROVE IInv'
  BY <1>5, FromPartsKeepsIInv
<1>6. ASSUME NEW x \in Handle, FlexibleSyncConfiguration(x) PROVE IInv'
  BY <1>6, FlexibleKeepsIInv
<1>7. ASSUME NEW x \in Handle, Destroy(x) PROVE IInv'
  BY <1>7, DestroyKeepsIInv
<1>8. ASSUME NEW x \in Handle, Open(x) PROVE IInv'
  BY <1>8, OpenKeepsIInv
<1>9. ASSUME NEW x \in Handle, Alter(x) PROVE IInv'
  BY <1>9, AlterKeepsIInv
<1>10. ASSUME NEW x \in Handle,
              SetHeadersOrProxy(x) \/ SetClientResetMode(x) \/ SetOnSyncConfig(x)
       PROVE  IInv'
  BY <1>10, ChangeRemoteKeepsIInv DEF SetHeadersOrProxy, SetClientResetMode, SetOnSyncConfig
<1>11. ASSUME NEW x \in Handle, NEW y \in Handle, CopyConstruct(x, y) PROVE IInv'
  <2>1. at[x] = Unmade /\ CopyInto(x, y, How.copy) /\ How.copy # "none"
    BY <1>11 DEF CopyConstruct, CopyInto, Made
  <2>2. Fits(How.copy, x)
    BY <1>1, <1>3, <2>1 DEF Fits, CopyMembers, Kinds
  <2>3. QED
    BY <1>1, <1>2, <2>1, <2>2, CopyKeepsIInv DEF CopyMembers
<1>12. ASSUME NEW x \in Handle, NEW y \in Handle, CopyAssign(x, y) PROVE IInv'
  <2>1. CopyInto(x, y, How.assign) /\ How.assign # "none"
    BY <1>12 DEF CopyAssign, CopyInto
  <2>2. Fits(How.assign, x)
    BY <1>1, <2>1 DEF Fits, CopyMembers, Kinds
  <2>3. QED
    BY <1>1, <1>2, <2>1, <2>2, CopyKeepsIInv DEF CopyMembers
<1>13. ASSUME NEW x \in Handle, NEW y \in Handle, MoveConstruct(x, y) PROVE IInv'
  <2>1. MoveInto(x, y, How.move) /\ How.move # "none"
    BY <1>13 DEF MoveConstruct, MoveInto
  <2>2. Fits(How.move, x)
    BY <1>1, <2>1 DEF Fits, MoveMembers, Kinds
  <2>3. QED
    BY <1>2, <2>1, <2>2, MoveKeepsIInv
<1>14. ASSUME NEW x \in Handle, NEW y \in Handle, MoveAssign(x, y) PROVE IInv'
  <2>1. MoveInto(x, y, How.moveAssign) /\ How.moveAssign # "none"
    BY <1>14 DEF MoveAssign, MoveInto
  <2>2. Fits(How.moveAssign, x)
    BY <1>1, <2>1 DEF Fits, MoveMembers, Kinds
  <2>3. QED
    BY <1>2, <2>1, <2>2, MoveKeepsIInv
<1>15. ASSUME NEW x \in Handle, NEW y \in Handle, SetSyncConfig(x, y) PROVE IInv'
  BY <1>15, SetSyncConfigKeepsIInv
<1>16. CASE UNCHANGED vars
  <2>1. DataOK /\ Owned /\ FitsInv
    BY PartsOfIInv
  <2>2. How' = How /\ Contents' = Contents
    BY <1>16 DEF vars, How, Contents
  <2>3. DataOK'
    BY <1>16, <2>1 DEF vars, DataOK
  <2>4. Owned'
    BY <1>16, <2>1, <2>2 DEF vars, Owned
  <2>5. FitsInv'
    BY <1>16, <2>1 DEF vars, FitsInv, FitsAt, Readable, Holds, Suits
  <2>6. QED
    BY <2>3, <2>4, <2>5, PartsOfIInv, PTL
<1>17. QED
  BY <1>4, <1>5, <1>6, <1>7, <1>8, <1>9, <1>10, <1>11, <1>12, <1>13, <1>14, <1>15, <1>16 DEF Next

(***************************************************************************)
(* Whatever copies, moves and assignments, also to itself, a program makes *)
(* of any class of the bridge, in either build and with any number of      *)
(* handles: the object a handle holds exists, none is deleted twice, none  *)
(* is left behind, and a mixed that is read owns the bytes it views.       *)
(***************************************************************************)
THEOREM TypeCorrect == Spec => []TypeOK
<1>1. Init => IInv
  BY InitIInv
<1>2. IInv /\ [Next]_vars => IInv'
  BY NextKeepsIInv
<1>3. IInv => TypeOK
  BY DEF IInv
<1>4. QED
  BY <1>1, <1>2, <1>3, PTL DEF Spec

(* ----- what a handle denotes ----- *)

\* The classes that the exceptions of HandlesActAsValues are about.
Sorts(c, b, d) ==
    /\ d.kept = "counted" => b = "shared"
    /\ d.copy = "misread" => c = "table_view" /\ b = "generated"
    /\ "nest" \in {d.copy, d.assign, d.move, d.moveAssign} => c = "index_iterator" /\ b = "shared"
    /\ "replace" \in {d.copy, d.assign, d.move, d.moveAssign} => c = "binary" /\ b = "shared"
    /\ c \in {"notification_token", "thread_safe_reference"} =>
          /\ d.copy = "none" /\ d.assign = "none"
          /\ (c = "thread_safe_reference" /\ b = "shared")
             \/ {d.move, d.moveAssign} \subseteq {"take", "drain"}

\* Which classes the exceptions are about, read from the table.
LEMMA ClassesAreSorted ==
    ASSUME NEW c \in DOMAIN Classes, NEW b \in {"generated", "shared"}
    PROVE  Sorts(c, b, Classes[c][b])
<1> DEFINE Both(k, d) == Sorts(k, "generated", d.generated) /\ Sorts(k, "shared", d.shared)
           Moving == {"notification_token", "thread_safe_reference"}
<1>1. c \notin Moving => Both(c, Plain) /\ Both(c, Inline)
  BY DEF Sorts, Plain, Inline, Built, Embedded, Counted, Trivial
<1>2. Both("table_view", TableView)
  BY DEF Sorts, TableView, Built, Embedded, Counted
<1>3. Both("collection_change_set", ChangeSet)
  BY DEF Sorts, ChangeSet, Built, Embedded, Counted
<1>4. /\ Both("notification_token", NotificationToken)
      /\ Both("thread_safe_reference", ThreadSafeReference)
  BY DEF Sorts, NotificationToken, ThreadSafeReference, MoveOnly, Built, Embedded, Counted
<1>5. Both("index_iterator", IndexIterator) /\ Both("index_iterable_adaptor", IndexAdaptor)
  BY DEF Sorts, IndexIterator, IndexAdaptor, Built, Embedded, Counted, Trivial
<1>6. /\ Both("mutable_sync_subscription_set", MutableSubscriptions)
      /\ Both("sync_subscription_set", SubscriptionSet)
  BY DEF Sorts, MutableSubscriptions, SubscriptionSet, AssignOnly, Built, Embedded, Counted
<1>7. Both("binary", Binary)
  BY DEF Sorts, Binary, Built, Embedded
<1>8. c \in Moving =>
         Classes[c] = IF c = "notification_token" THEN NotificationToken ELSE ThreadSafeReference
  BY DEF Classes
<1> HIDE DEF Both, Moving
<1>9. Both(c, Classes[c])
  <2>1. CASE c \in Moving
    BY <1>4, <1>8, <2>1 DEF Moving
  <2>2. CASE c \notin Moving
    <3>1. Both(c, Plain) /\ Both(c, Inline)
      BY <1>1, <2>2
    <3>2. QED
      BY <1>2, <1>3, <1>5, <1>6, <1>7, <2>2, <3>1 DEF Moving, Classes, List, Set, LnkLst,
         CoreDictionary, Dictionary, Results, Obj, Object, Table, ObjLink, IndexSet, AppError,
         Credentials, SyncError, Status, Schema, Property, ObjectSchema, Config, Mixed, Decimal128,
         Timestamp, Uuid, ObjectId, ErrorCategory
  <2>3. QED
    BY <2>1, <2>2
<1>10. QED
  BY <1>9 DEF Both

\* Denoted, of a place's content, the bytes owned and the remote SyncConfig.
DenotedBy(v, o, r) ==
    IF v.kind = "string" THEN [v EXCEPT !.n = o.string]
    ELSE IF v.kind = "binary" THEN [v EXCEPT !.n = o.data]
    ELSE IF v.sync = 1 THEN [v EXCEPT !.sync = r] ELSE v
Form == \A h \in Handle : Holds(h) => Denoted(h) = DenotedBy(heap[at[h]], owned[h], remote)

\* What a handle denotes depends on its object, its bytes and the sync part alone.
LEMMA DenotedForm == IInv => Form
<1> SUFFICES ASSUME IInv, NEW h \in Handle, Holds(h)
             PROVE  Denoted(h) = DenotedBy(heap[at[h]], owned[h], remote)
  BY DEF Form
<1> DEFINE v == heap[at[h]]
<1>1. v \in Contents /\ Getter(h) = v
  BY DEF IInv, HeapInv, Holds, Getter
<1>2. v.kind \in {"string", "binary"} => v.sync # 1
  BY <1>1 DEF Contents
<1> HIDE DEF v
<1>3. CASE v.kind = "string"
  BY <1>1, <1>2, <1>3 DEF Denoted, DenotedBy, v
<1>4. CASE v.kind = "binary"
  BY <1>1, <1>2, <1>4 DEF Denoted, DenotedBy, v
<1>5. CASE v.kind \notin {"string", "binary"}
  BY <1>1, <1>5 DEF Denoted, DenotedBy, v
<1>6. QED
  BY <1>3, <1>4, <1>5

\* The parts of HandlesActAsValues that are about one handle.
Acts(h) == Readable(h) => Denoted(h) = means[h] \/ Spoiled(h) \/ Aliased(h)
GaveUp(h) ==
    Holds(h) /\ means[h] = Moved /\ class \in {"notification_token", "thread_safe_reference"}
    => Getter(h) \in {Moved, Spent} \/ KeptByMove(h)
ActsInv == \A h \in Handle : Acts(h) /\ GaveUp(h)

\* A handle that a step does not touch acts as it did.
LEMMA StaysActs ==
    ASSUME IInv, IInv', ActsInv, NEW h \in Handle, Stays(h), class' = class, build' = build,
           means'[h] = means[h], owned'[h] = owned[h], alias'[h] = alias[h],
           remote' = remote \/ (Holds(h) => heap[at[h]].sync # 1)
    PROVE  Acts(h)' /\ GaveUp(h)'
<1>1. Form /\ Form'
  BY DenotedForm, PTL
<1>2. Holds(h)' <=> Holds(h)
  BY DEF Holds, Stays
<1>3. Acts(h) /\ GaveUp(h)
  BY DEF ActsInv
<1>4. ASSUME Holds(h)
      PROVE  heap'[at'[h]] = heap[at[h]] /\ Getter(h)' = Getter(h) /\ Denoted(h)' = Denoted(h)
  <2>1. heap'[at'[h]] = heap[at[h]]
    BY <1>4 DEF Stays, Holds
  <2>2. /\ Denoted(h) = DenotedBy(heap[at[h]], owned[h], remote)
        /\ Denoted(h)' = DenotedBy(heap'[at'[h]], owned'[h], remote')
    BY <1>1, <1>2, <1>4 DEF Form
  <2>3. DenotedBy(heap[at[h]], owned[h], remote') = DenotedBy(heap[at[h]], owned[h], remote)
    BY <1>4 DEF DenotedBy
  <2>4. QED
    BY <2>1, <2>2, <2>3 DEF Getter
<1>5. Acts(h)'
  BY <1>2, <1>3, <1>4 DEF Acts, Readable, Spoiled, Aliased
<1>6. GaveUp(h)'
  BY <1>2, <1>3, <1>4 DEF GaveUp, KeptByMove
<1>7. QED
  BY <1>5, <1>6

\* After a copy both handles act as values, but for the exceptions.
LEMMA CopyKeepsActs ==
    ASSUME IInv, IInv', ActsInv, NEW x \in Handle, NEW y \in Handle, NEW member,
           Fits(member, x), member \notin {"take", "drain"},
           member = "nest" => class = "index_iterator" /\ build = "shared",
           member = "misread" => class = "table_view" /\ build = "generated",
           member = "replace" => class = "binary" /\ build = "shared",
           class \notin {"notification_token", "thread_safe_reference"},
           CopyInto(x, y, member)
    PROVE  ActsInv'
<1> DEFINE v == heap[at[y]]
<1>1. /\ Readable(y) /\ Holds(y)
      /\ means' = [means EXCEPT ![x] = Denoted(y)]
      /\ alias' = [alias EXCEPT ![x] = {}]
      /\ class' = class /\ build' = build /\ remote' = remote
  BY DEF CopyInto, Readable
<1>2. Gets(x, Content(member, x, y)) /\ \A g \in Handle \ {x} : Stays(g)
  BY CopyEffect
<1>3. /\ \A h \in Handle \ {x} : owned'[h] = owned[h]
      /\ v.kind = "string" => owned'[x].string = owned[y].string
      /\ v.kind = "binary" => owned'[x].data = owned[y].data
  BY CopyOwned
<1>4. DataOK /\ Form
  BY PartsOfIInv, DenotedForm
<1>5. Form'
  BY DenotedForm, PTL
<1>6. SUFFICES ASSUME NEW h \in Handle PROVE Acts(h)' /\ GaveUp(h)'
  BY DEF ActsInv
<1>7. CASE h # x
  <2>1. means'[h] = means[h] /\ alias'[h] = alias[h]
    BY <1>1, <1>4, <1>7 DEF DataOK
  <2>2. QED
    BY <1>1, <1>2, <1>3, <1>7, <2>1, StaysActs
<1>8. CASE h = x
  <2>1. GaveUp(x)'
    BY <1>1 DEF GaveUp
  <2>2. Getter(x)' = Content(member, x, y) /\ Holds(x)'
    BY <1>2 DEF Gets, Getter, Holds
  <2>3. CASE Content(member, x, y) = v
    <3>1. Denoted(x)' = DenotedBy(v, owned'[x], remote)
      BY <1>1, <1>5, <2>2, <2>3 DEF Form, Getter
    <3>2. Denoted(y) = DenotedBy(v, owned[y], remote)
      BY <1>1, <1>4 DEF Form
    <3>3. DenotedBy(v, owned'[x], remote) = DenotedBy(v, owned[y], remote)
      BY <1>3 DEF DenotedBy
    <3>4. means'[x] = Denoted(y)
      BY <1>1, <1>4 DEF DataOK
    <3>5. QED
      BY <1>8, <2>1, <3>1, <3>2, <3>3, <3>4 DEF Acts
  <2>4. CASE Content(member, x, y) # v
    <3>1. Spoiled(x)'
      BY <1>1, <2>2, <2>4 DEF Content, Spoiled
    <3>2. QED
      BY <1>8, <2>1, <3>1 DEF Acts
  <2>5. QED
    BY <2>3, <2>4
<1>9. QED
  BY <1>7, <1>8

\* After a move the handle moved to does, and the other has given up what it held.
LEMMA MoveKeepsActs ==
    ASSUME IInv, IInv', ActsInv, NEW x \in Handle, NEW y \in Handle, NEW member,
           Fits(member, x), member # "misread",
           member = "nest" => class = "index_iterator" /\ build = "shared",
           member = "replace" => class = "binary" /\ build = "shared",
           class \in {"notification_token", "thread_safe_reference"} =>
               (class = "thread_safe_reference" /\ build = "shared") \/ member \in {"take", "drain"},
           MoveInto(x, y, member)
    PROVE  ActsInv'
<1> DEFINE v == heap[at[y]]
<1>1. /\ Readable(y) /\ Holds(y) /\ means[y].kind # "moved"
      /\ means' = (IF x = y THEN means ELSE [means EXCEPT ![x] = Denoted(y), ![y] = Moved])
      /\ alias' = (IF x = y THEN alias ELSE [alias EXCEPT ![x] = {}, ![y] = {}])
      /\ class' = class /\ build' = build /\ remote' = remote
  BY DEF MoveInto, Readable
<1>2. /\ Gets(x, Content(member, x, y)) /\ \A g \in Handle \ {x, y} : Stays(g)
      /\ x # y /\ member = "take" => at'[y] = Null
      /\ x # y /\ member = "drain" => at'[y] = at[y] /\ heap'[at[y]] = Moved
  BY MoveEffect
<1>3. /\ \A h \in Handle \ {x, y} : owned'[h] = owned[h]
      /\ x = y => owned' = owned
      /\ x # y /\ v.kind = "string" => owned'[x].string = owned[y].string
      /\ x # y /\ v.kind = "binary" => owned'[x].data = owned[y].data
  BY MoveOwned
<1>4. DataOK /\ Form
  BY PartsOfIInv, DenotedForm
<1>5. Form'
  BY DenotedForm, PTL
<1>6. v \in Values
  BY DenotedSound, <1>1 DEF Contents
<1>7. /\ \A h \in Handle \ {x, y} : means'[h] = means[h] /\ alias'[h] = alias[h]
      /\ x = y => means' = means /\ alias' = alias
      /\ x # y => means'[x] = Denoted(y) /\ means'[y] = Moved
  BY <1>1, <1>4 DEF DataOK
<1>8. SUFFICES ASSUME NEW h \in Handle PROVE Acts(h)' /\ GaveUp(h)'
  BY DEF ActsInv
<1>9. CASE h \notin {x, y}
  BY <1>1, <1>2, <1>3, <1>7, <1>9, StaysActs
<1>10. CASE h = x
  <2>1. Getter(x)' = Content(member, x, y) /\ Holds(x)'
    BY <1>2 DEF Gets, Getter, Holds
  <2>2. Denoted(y) = DenotedBy(v, owned[y], remote)
    BY <1>1, <1>4 DEF Form
  <2>3. CASE Content(member, x, y) = v
    <3>1. Denoted(x)' = DenotedBy(v, owned'[x], remote)
      BY <1>1, <1>5, <2>1, <2>3 DEF Form, Getter
    <3>2. DenotedBy(v, owned'[x], remote) = DenotedBy(v, owned[y], remote)
      BY <1>3 DEF DenotedBy
    <3>3. CASE x # y
      <4>1. Acts(x)'
        BY <1>7, <2>2, <3>1, <3>2, <3>3 DEF Acts
      <4>2. means'[x] = Moved => v = Moved
        <5>1. DenotedBy(v, owned[y], remote).kind = v.kind
          BY <1>6 DEF DenotedBy, Values, Value, Free, Garbage, Nested, Moved, Spent, Mark
        <5>2. v.kind = "moved" => v = Moved
          BY <1>6 DEF Values, Value, Free, Garbage, Nested, Moved, Spent, Mark
        <5>3. Moved.kind = "moved"
          BY DEF Moved, Mark
        <5>4. QED
          BY <1>7, <2>2, <3>3, <5>1, <5>2, <5>3
      <4>3. GaveUp(x)'
        BY <2>1, <2>3, <4>2 DEF GaveUp
      <4>4. QED
        BY <1>10, <4>1, <4>3
    <3>4. CASE x = y
      <4>1. /\ Denoted(x)' = Denoted(x) /\ Getter(x)' = Getter(x)
            /\ means'[x] = means[x] /\ alias'[x] = alias[x]
        BY <1>7, <2>1, <2>2, <2>3, <3>1, <3>2, <3>4 DEF Getter
      <4>2. Acts(x)
        BY DEF ActsInv
      <4>3. Acts(x)'
        BY <1>1, <3>4, <4>1, <4>2 DEF Acts, Spoiled, Aliased
      <4>4. GaveUp(x)'
        BY <1>1, <3>4, <4>1 DEF GaveUp, Moved, Mark
      <4>5. QED
        BY <1>10, <4>3, <4>4
    <3>5. QED
      BY <3>3, <3>4
  <2>4. CASE Content(member, x, y) # v
    <3>1. member \in {"nest", "replace"}
      BY <2>4 DEF Content
    <3>2. Spoiled(x)' /\ class' \notin {"notification_token", "thread_safe_reference"}
      BY <1>1, <2>1, <2>4, <3>1 DEF Content, Spoiled
    <3>3. QED
      BY <1>10, <3>2 DEF Acts, GaveUp
  <2>5. QED
    BY <2>3, <2>4
<1>11. CASE x # y /\ h = y
  <2>1. Acts(y)'
    BY <1>7, <1>11 DEF Acts, Readable, Moved, Mark
  <2>2. GaveUp(y)'
    <3>1. CASE member = "take"
      BY <1>2, <1>11, <3>1, CellsSuffice DEF GaveUp, Holds
    <3>2. CASE member = "drain"
      BY <1>2, <1>11, <3>2 DEF GaveUp, Getter
    <3>3. CASE member \notin {"take", "drain"}
      BY <1>1, <3>3 DEF GaveUp, KeptByMove
    <3>4. QED
      BY <3>1, <3>2, <3>3
  <2>3. QED
    BY <1>11, <2>1, <2>2
<1>12. QED
  BY <1>9, <1>10, <1>11

\* A handle constructed from a value acts as that value.
LEMMA ConstructKeepsActs ==
    ASSUME IInv, IInv', ActsInv, NEW x \in Handle, NEW v \in Constructible, Construct(x, v)
    PROVE  ActsInv'
<1> DEFINE w == Viewed(v)
<1>1. /\ at[x] = Unmade /\ Apply(Put(State, x, w))
      /\ owned' = [owned EXCEPT ![x] = OwnedFor(v)]
      /\ means' = [means EXCEPT ![x] = v]
      /\ alias' = [alias EXCEPT ![x] = {}]
      /\ class' = class /\ build' = build /\ remote' = remote
  BY DEF Construct, Made
<1>2. /\ v \in Value /\ v.sync = 0
      /\ class # "mixed" => v.kind \notin {"string", "binary"}
  BY DEF Constructible, KindsOf, Value
<1>3. w \in Value /\ w.sync = 0 /\ w.kind = v.kind
  BY <1>2 DEF Viewed, Value
<1>4. DenotedBy(w, OwnedFor(v), remote) = v
  <2>1. CASE v.kind = "string"
    <3>1. w = [v EXCEPT !.n = 0] /\ OwnedFor(v).string = v.n
      BY <2>1 DEF Viewed, OwnedFor, Unowned
    <3>2. [w EXCEPT !.n = v.n] = v
      BY <1>2, <3>1 DEF Value
    <3>3. QED
      BY <1>3, <2>1, <3>1, <3>2 DEF DenotedBy
  <2>2. CASE v.kind = "binary"
    <3>1. w = [v EXCEPT !.n = 0] /\ OwnedFor(v).data = v.n
      BY <2>2 DEF Viewed, OwnedFor, Unowned
    <3>2. [w EXCEPT !.n = v.n] = v
      BY <1>2, <3>1 DEF Value
    <3>3. QED
      BY <1>3, <2>2, <3>1, <3>2 DEF DenotedBy
  <2>3. CASE v.kind \notin {"string", "binary"}
    BY <1>2, <2>3 DEF DenotedBy, Viewed
  <2>4. QED
    BY <2>1, <2>2, <2>3
<1>5. w \in Contents /\ w # Free
  BY <1>2, <1>3, MarksAreContents DEF Contents, Values
<1> HIDE DEF w
<1>6. Gets(x, w) /\ \A g \in Handle \ {x} : Stays(g)
  BY <1>1, <1>5, NewEffect
<1>7. DataOK /\ Form'
  BY PartsOfIInv, DenotedForm, PTL
<1>8. /\ \A h \in Handle \ {x} : /\ means'[h] = means[h] /\ owned'[h] = owned[h]
                                 /\ alias'[h] = alias[h]
      /\ means'[x] = v /\ owned'[x] = OwnedFor(v)
  BY <1>1, <1>7 DEF DataOK
<1>9. SUFFICES ASSUME NEW h \in Handle PROVE Acts(h)' /\ GaveUp(h)'
  BY DEF ActsInv
<1>10. CASE h # x
  BY <1>1, <1>6, <1>8, <1>10, StaysActs
<1>11. CASE h = x
  <2>1. Denoted(x)' = v
    BY <1>1, <1>4, <1>6, <1>7, <1>8 DEF Form, Gets, Holds
  <2>2. v # Moved
    BY <1>2 DEF Moved, Mark, Value
  <2>3. QED
    BY <1>8, <1>11, <2>1, <2>2 DEF Acts, GaveUp
<1>12. QED
  BY <1>10, <1>11

\* So does one made from parts, but for the exception.
LEMMA FromPartsKeepsActs ==
    ASSUME IInv, IInv', ActsInv, NEW x \in Handle, ConstructFromParts(x)
    PROVE  ActsInv'
<1>1. /\ class = "object_schema" /\ at[x] = Unmade /\ Apply(Put(State, x, Garbage))
      /\ means' = [means EXCEPT ![x] = [n |-> 0, kind |-> "long", sync |-> 0]]
      /\ class' = class /\ build' = build /\ remote' = remote
      /\ owned' = owned /\ alias' = alias
  BY DEF ConstructFromParts, Made
<1>2. DataOK
  BY PartsOfIInv
<1>3. Gets(x, Garbage) /\ \A g \in Handle \ {x} : Stays(g)
  BY <1>1, MarksAreContents, NewEffect
<1>4. \A h \in Handle \ {x} : means'[h] = means[h]
  BY <1>1, <1>2 DEF DataOK
<1>5. SUFFICES ASSUME NEW h \in Handle PROVE Acts(h)' /\ GaveUp(h)'
  BY DEF ActsInv
<1>6. CASE h # x
  BY <1>1, <1>3, <1>4, <1>6, StaysActs
<1>7. CASE h = x
  <2>1. Spoiled(x)'
    BY <1>1, <1>2, <1>3 DEF Spoiled, Getter, Gets, DataOK
  <2>2. QED
    BY <1>1, <1>7, <2>1 DEF Acts, GaveUp
<1>8. QED
  BY <1>6, <1>7

\* So does a configuration for flexible sync.
LEMMA FlexibleKeepsActs ==
    ASSUME IInv, IInv', ActsInv, NEW x \in Handle, FlexibleSyncConfiguration(x)
    PROVE  ActsInv'
<1> DEFINE v == [n |-> 1, kind |-> "plain", sync |-> 1]
<1>1. /\ class = "config" /\ at[x] = Unmade /\ Apply(Put(State, x, v))
      /\ \A h \in Handle : Holds(h) => heap[at[h]].sync # 1
      /\ means' = [means EXCEPT ![x] = v]
      /\ remote' = 1 /\ alias' = [alias EXCEPT ![x] = {}]
      /\ class' = class /\ build' = build /\ owned' = owned
  BY DEF FlexibleSyncConfiguration, Made, NewSyncConfig, Synced, Getter
<1>2. v \in Value /\ v.kind = "plain" /\ v # Moved
  BY DEF Value, Moved, Mark
<1>3. \A o : DenotedBy(v, o, 1) = v
  BY DEF DenotedBy
<1> HIDE DEF v
<1>4. v \in Contents /\ v # Free
  BY <1>1, <1>2, MarksAreContents DEF Contents, Values
<1>5. Gets(x, v) /\ \A g \in Handle \ {x} : Stays(g)
  BY <1>1, <1>4, NewEffect
<1>6. DataOK /\ Form'
  BY PartsOfIInv, DenotedForm, PTL
<1>7. /\ \A h \in Handle \ {x} : means'[h] = means[h] /\ alias'[h] = alias[h]
      /\ means'[x] = v
  BY <1>1, <1>6 DEF DataOK
<1>8. SUFFICES ASSUME NEW h \in Handle PROVE Acts(h)' /\ GaveUp(h)'
  BY DEF ActsInv
<1>9. CASE h # x
  BY <1>1, <1>5, <1>7, <1>9, StaysActs
<1>10. CASE h = x
  <2>1. Denoted(x)' = v
    BY <1>1, <1>3, <1>5, <1>6 DEF Form, Gets, Holds
  <2>2. QED
    BY <1>2, <1>7, <1>10, <2>1 DEF Acts, GaveUp
<1>11. QED
  BY <1>9, <1>10

\* Destruction changes no other handle.
LEMMA DestroyKeepsActs ==
    ASSUME IInv, IInv', ActsInv, NEW x \in Handle, Destroy(x)
    PROVE  ActsInv'
<1>1. /\ owned' = [owned EXCEPT ![x] = Unowned]
      /\ means' = [means EXCEPT ![x] = Free]
      /\ alias' = [alias EXCEPT ![x] = {}]
      /\ class' = class /\ build' = build /\ remote' = remote
  BY DEF Destroy
<1>2. at'[x] \notin Cell /\ \A g \in Handle \ {x} : Stays(g)
  BY DestroyEffect
<1>3. DataOK
  BY PartsOfIInv
<1>4. SUFFICES ASSUME NEW h \in Handle PROVE Acts(h)' /\ GaveUp(h)'
  BY DEF ActsInv
<1>5. CASE h # x
  <2>1. means'[h] = means[h] /\ owned'[h] = owned[h] /\ alias'[h] = alias[h]
    BY <1>1, <1>3, <1>5 DEF DataOK
  <2>2. QED
    BY <1>1, <1>2, <1>5, <2>1, StaysActs
<1>6. CASE h = x
  BY <1>2, <1>6 DEF Acts, GaveUp, Readable, Holds
<1>7. QED
  BY <1>5, <1>6

\* Two handles of one object are of the shared build.
LEMMA SharedIsShared ==
    ASSUME IInv, NEW g \in Handle, NEW h \in Handle, g # h, at[g] = at[h], at[h] \in Cell
    PROVE  build = "shared"
<1>1. Sorts(class, build, How)
  BY ClassesAreSorted DEF IInv, TypeOK, How
<1>2. How.kept # "alone"
  BY DEF IInv, TypeOK, Holds
<1>3. How.kept = "counted"
  BY <1>2, HowWellMade DEF WellMade
<1>4. QED
  BY <1>1, <1>3 DEF Sorts

\* A setter changes its handle, and others only where they are aliases.
LEMMA AlterKeepsActs ==
    ASSUME IInv, IInv', ActsInv, NEW h \in Handle, Alter(h)
    PROVE  ActsInv'
<1>1. /\ Readable(h) /\ Holds(h) /\ at[h] \in Cell /\ heap[at[h]] \in Value
      /\ class' = class /\ build' = build /\ at' = at /\ owned' = owned /\ remote' = remote
      /\ alias' = [g \in Handle |->
                      IF g # h /\ at[g] = at[h] THEN alias[g] \cup {"object"} ELSE alias[g]]
  BY DEF Alter, Readable, Holds, Getter
<1>2. PICK w \in Setters(heap[at[h]]) :
         /\ heap' = [heap EXCEPT ![at[h]] = w]
         /\ means' = [means EXCEPT ![h] = [w EXCEPT !.sync = means[h].sync]]
  BY DEF Alter, Getter
<1>3. DataOK /\ Owned /\ Form
  BY PartsOfIInv, DenotedForm
<1>4. Form'
  BY DenotedForm, PTL
<1>5. heap[at[h]] \in Contents
  BY <1>1, <1>3 DEF Owned
<1>6. class \in Mutable /\ (class \in {"notification_token", "thread_safe_reference"} => w = Spent)
  BY <1>2 DEF Setters, Mutable, Unregister, Resolve
<1>7. /\ w \in Contents /\ class # "mixed" /\ w \in Value \cup {Spent}
      /\ w.kind \notin {"string", "binary", "moved"}
  BY <1>1, <1>5, SettersKeepContents DEF Contents, Value, Spent, Mark
<1>8. w = Spent \/ w.sync = heap[at[h]].sync
  BY <1>1 DEF Setters, Value, PropertySetters, ObjectSchemaSetters, ErrorCategorySetters,
     ConfigSetters, InsertOrAssign, Unregister, Resolve, DecimalSetters
<1> DEFINE m == [w EXCEPT !.sync = means[h].sync]
<1>9. /\ \A g \in Handle \ {h} : means'[g] = means[g]
      /\ means'[h] = m
  BY <1>2, <1>3 DEF DataOK
<1>10. /\ heap \in [Cell -> Contents] /\ heap'[at[h]] = w
       /\ \A c \in Cell \ {at[h]} : heap'[c] = heap[c]
  BY <1>1, <1>2, <1>3 DEF Owned
<1>11. SUFFICES ASSUME NEW g \in Handle PROVE Acts(g)' /\ GaveUp(g)'
  BY DEF ActsInv
<1>12. CASE at[g] # at[h]
  <2>1. Stays(g)
    BY <1>1, <1>10, <1>12 DEF Stays
  <2>2. alias'[g] = alias[g]
    BY <1>1, <1>3, <1>12 DEF DataOK
  <2>3. QED
    BY <1>1, <1>9, <1>12, <2>1, <2>2, StaysActs
<1>13. CASE g # h /\ at[g] = at[h]
  <2>1. build = "shared"
    BY <1>1, <1>13, SharedIsShared
  <2>2. "object" \in alias'[g]
    BY <1>1, <1>3, <1>13 DEF DataOK
  <2>3. Acts(g)'
    BY <1>1, <1>6, <2>1, <2>2 DEF Acts, Aliased
  <2>4. GaveUp(g)'
    BY <1>1, <1>6, <1>10, <1>13 DEF GaveUp, Getter
  <2>5. QED
    BY <2>3, <2>4
<1>14. CASE g = h
  <2>1. Denoted(h)' = DenotedBy(w, owned[h], remote)
    BY <1>1, <1>4, <1>10 DEF Form, Holds
  <2>2. Acts(h)'
    <3>1. Denoted(h) = DenotedBy(heap[at[h]], owned[h], remote)
      BY <1>1, <1>3 DEF Form
    <3>2. ~Spoiled(h)
      BY <1>1 DEF Spoiled, Getter, Value, Nested, Garbage, Mark
    <3>3. CASE Aliased(h)
      BY <1>1, <1>3, <3>3 DEF Acts, Aliased, DataOK
    <3>4. CASE Denoted(h) = means[h]
      <4>1. heap[at[h]].kind \notin {"string", "binary"}
        BY <1>5, <1>7 DEF Contents
      <4>2. CASE w.sync = heap[at[h]].sync
        <5>1. means[h].sync = IF w.sync = 1 THEN remote ELSE w.sync
          BY <1>1, <3>1, <3>4, <4>1, <4>2 DEF DenotedBy, Value
        <5>2. DenotedBy(w, owned[h], remote) = m
          <6>1. CASE w.sync = 1
            BY <1>7, <5>1, <6>1 DEF DenotedBy
          <6>2. CASE w.sync # 1
            <7>1. m = w
              BY <1>7, <5>1, <6>2 DEF Value, Spent, Mark
            <7>2. QED
              BY <1>7, <6>2, <7>1 DEF DenotedBy
          <6>3. QED
            BY <6>1, <6>2
        <5>3. QED
          BY <1>9, <2>1, <5>2 DEF Acts
      <4>3. CASE w = Spent
        <5>1. class # "config"
          BY <1>1, <1>2, <1>5, <4>3, SettersKeepContents DEF Value, Spent, Mark
        <5>2. means[h].sync = 0
          BY <5>1 DEF IInv, FitsInv, FitsAt
        <5>3. m = Spent /\ DenotedBy(w, owned[h], remote) = Spent
          BY <4>3, <5>2 DEF DenotedBy, Spent, Mark
        <5>4. QED
          BY <1>9, <2>1, <5>3 DEF Acts
      <4>4. QED
        BY <1>8, <4>2, <4>3
    <3>5. QED
      BY <1>1, <3>2, <3>3, <3>4 DEF ActsInv, Acts
  <2>3. GaveUp(h)'
    <3>1. m.kind = w.kind
      BY <1>7 DEF Value, Spent, Mark
    <3>2. QED
      BY <1>7, <1>9, <3>1 DEF GaveUp, Moved, Mark
  <2>4. QED
    BY <1>14, <2>2, <2>3
<1>15. QED
  BY <1>12, <1>13, <1>14

\* Opening a Realm sets the schema of its copy, which may be the same object.
LEMMA OpenKeepsActs ==
    ASSUME IInv, IInv', ActsInv, NEW h \in Handle, Open(h)
    PROVE  ActsInv'
<1>1. /\ class = "config" /\ at[h] \in Cell
      /\ class' = class /\ build' = build /\ at' = at /\ owned' = owned /\ remote' = remote
      /\ means' = means
  BY DEF Open, Readable, Holds
<1>2. DataOK /\ Owned
  BY PartsOfIInv
<1>3. SUFFICES ASSUME NEW g \in Handle PROVE Acts(g)' /\ GaveUp(g)'
  BY DEF ActsInv
<1>4. GaveUp(g)'
  BY <1>1 DEF GaveUp
<1>5. CASE How.copy = "share" /\ at[g] = at[h]
  <2>1. build = "shared"
    <3>1. How \in {Embedded, Counted} /\ Sorts(class, build, How)
      BY <1>1, HowWellMade, ClassesAreSorted DEF IInv, TypeOK, How
    <3>2. How.kept = "counted"
      BY <1>5, <3>1 DEF Embedded, Counted
    <3>3. QED
      BY <3>1, <3>2 DEF Sorts
  <2>2. "object" \in alias'[g]
    BY <1>5 DEF Open
  <2>3. QED
    BY <1>1, <1>4, <2>1, <2>2 DEF Acts, Aliased, Mutable
<1>6. CASE How.copy = "share" /\ at[g] # at[h]
  <2>1. Stays(g)
    BY <1>1, <1>2, <1>6 DEF Open, Stays, Owned
  <2>2. alias'[g] = alias[g]
    BY <1>6 DEF Open
  <2>3. QED
    BY <1>1, <2>1, <2>2, StaysActs
<1>7. CASE How.copy # "share"
  <2>1. heap' = heap /\ alias' = alias
    BY <1>7 DEF Open
  <2>2. QED
    BY <1>1, <2>1, StaysActs DEF Stays
<1>8. QED
  BY <1>5, <1>6, <1>7

\* A sync configuration that is set is the one that is meant.
LEMMA SetSyncConfigKeepsActs ==
    ASSUME IInv, IInv', ActsInv, NEW h \in Handle, NEW f \in Handle, SetSyncConfig(h, f)
    PROVE  ActsInv'
<1>1. /\ class = "config" /\ Readable(h) /\ Readable(f) /\ at[h] \in Cell /\ Holds(f) /\ Holds(h)
      /\ class' = class /\ build' = build /\ at' = at /\ owned' = owned /\ remote' = remote
      /\ alias' = [k \in Handle |->
                      IF k # h /\ at[k] = at[h] THEN alias[k] \cup {"object"} ELSE alias[k]]
  BY DEF SetSyncConfig, Readable, Holds
<1>2. DataOK /\ Owned /\ FitsInv /\ Form
  BY PartsOfIInv, DenotedForm
<1>3. Form'
  BY DenotedForm, PTL
<1> DEFINE w == [heap[at[h]] EXCEPT !.sync = heap[at[f]].sync]
           m == [means[h] EXCEPT !.sync = Denoted(f).sync]
<1>4. heap' = [heap EXCEPT ![at[h]] = w] /\ means' = [means EXCEPT ![h] = m]
  BY <1>1, <1>2 DEF SetSyncConfig, Getter, Owned, DataOK
<1>5. /\ \A g \in Handle \ {h} : means'[g] = means[g]
      /\ means'[h] = m
      /\ heap'[at[h]] = w
      /\ \A c \in Cell \ {at[h]} : heap'[c] = heap[c]
  BY <1>1, <1>2, <1>4 DEF DataOK, Owned
<1>6. SUFFICES ASSUME NEW g \in Handle PROVE Acts(g)' /\ GaveUp(g)'
  BY DEF ActsInv
<1>7. GaveUp(g)'
  BY <1>1 DEF GaveUp
<1>8. CASE at[g] # at[h]
  <2>1. Stays(g)
    BY <1>1, <1>5, <1>8 DEF Stays
  <2>2. alias'[g] = alias[g] /\ means'[g] = means[g]
    BY <1>1, <1>5, <1>8
  <2>3. QED
    BY <1>1, <2>1, <2>2, StaysActs
<1>9. CASE g # h /\ at[g] = at[h]
  <2>1. build = "shared"
    BY <1>1, <1>9, SharedIsShared
  <2>2. "object" \in alias'[g]
    BY <1>1, <1>9
  <2>3. QED
    BY <1>1, <1>7, <2>1, <2>2 DEF Acts, Aliased, Mutable
<1>10. CASE g = h
  <2>1. /\ Denoted(h) = DenotedBy(heap[at[h]], owned[h], remote)
        /\ Denoted(f) = DenotedBy(heap[at[f]], owned[f], remote)
    BY <1>1, <1>2 DEF Form
  <2>2. Denoted(h)' = DenotedBy(w, owned[h], remote)
    BY <1>1, <1>3, <1>5 DEF Form, Holds
  <2>3. /\ heap[at[h]] \in Value /\ heap[at[h]].kind \notin {"string", "binary"}
        /\ heap[at[f]] \in Value /\ heap[at[f]].kind \notin {"string", "binary"}
        /\ means[h] \in Value
    BY <1>1, <1>2 DEF Owned, Contents, FitsInv, FitsAt, Suits, Holds
  <2>4. ~Spoiled(h)
    BY <1>1 DEF Spoiled
  <2>5. CASE Aliased(h)
    BY <1>1, <1>7, <1>10, <2>5 DEF Acts, Aliased
  <2>6. CASE Denoted(h) = means[h]
    <3>1. Denoted(f).sync = IF heap[at[f]].sync = 1 THEN remote ELSE heap[at[f]].sync
      BY <2>1, <2>3 DEF DenotedBy, Value
    <3>2. means[h] = IF heap[at[h]].sync = 1 THEN [heap[at[h]] EXCEPT !.sync = remote]
                     ELSE heap[at[h]]
      BY <2>1, <2>3, <2>6 DEF DenotedBy
    <3>3. m = [heap[at[h]] EXCEPT !.sync = Denoted(f).sync]
      BY <2>3, <3>2 DEF Value
    <3>4. DenotedBy(w, owned[h], remote) = [heap[at[h]] EXCEPT !.sync = Denoted(f).sync]
      <4>1. w.kind = heap[at[h]].kind /\ w.sync = heap[at[f]].sync
        BY <2>3 DEF Value
      <4>2. DenotedBy(w, owned[h], remote) = IF w.sync = 1 THEN [w EXCEPT !.sync = remote] ELSE w
        BY <2>3, <4>1 DEF DenotedBy
      <4>3. QED
        BY <2>3, <3>1, <4>1, <4>2 DEF Value
    <3>5. QED
      BY <1>5, <1>7, <1>10, <2>2, <3>3, <3>4 DEF Acts
  <2>7. QED
    BY <1>1, <2>4, <2>5, <2>6 DEF ActsInv, Acts
<1>11. QED
  BY <1>8, <1>9, <1>10

\* A change of the shared sync part is seen by those who share it.
LEMMA ChangeRemoteKeepsActs ==
    ASSUME IInv, IInv', ActsInv, NEW h \in Handle, class = "config", Readable(h), Synced(h),
           ChangeRemote(h)
    PROVE  ActsInv'
<1>1. /\ means' = [means EXCEPT ![h].sync = remote']
      /\ alias' = [g \in Handle |->
                      IF g # h /\ Holds(g) /\ Synced(g) THEN alias[g] \cup {"sync"} ELSE alias[g]]
      /\ class' = class /\ build' = build /\ heap' = heap /\ at' = at /\ owned' = owned
  BY DEF ChangeRemote
<1>2. DataOK /\ Owned /\ FitsInv /\ Form
  BY PartsOfIInv, DenotedForm
<1>3. Form'
  BY DenotedForm, PTL
<1> DEFINE m == [means[h] EXCEPT !.sync = remote']
<1>4. means'[h] = m /\ \A g \in Handle \ {h} : means'[g] = means[g]
  BY <1>1, <1>2 DEF DataOK
<1>5. SUFFICES ASSUME NEW g \in Handle PROVE Acts(g)' /\ GaveUp(g)'
  BY DEF ActsInv
<1>6. GaveUp(g)'
  BY <1>1 DEF GaveUp
<1>7. CASE g # h /\ Holds(g) /\ Synced(g)
  <2>1. "sync" \in alias'[g]
    BY <1>1, <1>7
  <2>2. QED
    BY <1>1, <1>6, <2>1 DEF Acts, Aliased
<1>8. CASE g # h /\ ~(Holds(g) /\ Synced(g))
  <2>1. Stays(g) /\ alias'[g] = alias[g] /\ means'[g] = means[g]
    BY <1>1, <1>4, <1>8 DEF Stays
  <2>2. Holds(g) => heap[at[g]].sync # 1
    BY <1>8 DEF Synced, Getter
  <2>3. QED
    BY <1>1, <2>1, <2>2, StaysActs
<1>9. CASE g = h
  <2>1. Holds(h) /\ Holds(h)' /\ heap[at[h]].sync = 1
    BY <1>1 DEF Readable, Holds, Synced, Getter
  <2>2. heap[at[h]] \in Value /\ heap[at[h]].kind \notin {"string", "binary"} /\ means[h] \in Value
    BY <1>2, <2>1 DEF Owned, Contents, FitsInv, FitsAt, Suits, Holds
  <2>3. /\ Denoted(h) = [heap[at[h]] EXCEPT !.sync = remote]
        /\ Denoted(h)' = [heap[at[h]] EXCEPT !.sync = remote']
    BY <1>1, <1>2, <1>3, <2>1, <2>2 DEF Form, DenotedBy
  <2>4. ~Spoiled(h)
    BY DEF Spoiled
  <2>5. CASE Aliased(h)
    BY <1>1, <1>6, <1>9, <2>5 DEF Acts, Aliased
  <2>6. CASE Denoted(h) = means[h]
    <3>1. m = [heap[at[h]] EXCEPT !.sync = remote']
      BY <2>2, <2>3, <2>6 DEF Value
    <3>2. QED
      BY <1>4, <1>6, <1>9, <2>3, <3>1 DEF Acts
  <2>7. QED
    BY <2>4, <2>5, <2>6 DEF ActsInv, Acts
<1>10. QED
  BY <1>7, <1>8, <1>9

\* Initially no handle denotes anything.
LEMMA InitActs == Init => ActsInv
<1> SUFFICES ASSUME Init, NEW h \in Handle PROVE Acts(h) /\ GaveUp(h)
  BY DEF ActsInv
<1>1. at[h] = Unmade /\ Unmade \notin Cell
  BY CellsSuffice DEF Init
<1>2. QED
  BY <1>1 DEF Acts, GaveUp, Readable, Holds

\* Every step leaves handles acting as values.
LEMMA NextKeepsActs == IInv /\ IInv' /\ ActsInv /\ [Next]_vars => ActsInv'
<1> SUFFICES ASSUME IInv, IInv', ActsInv, [Next]_vars PROVE ActsInv'
  OBVIOUS
<1>1. Sorts(class, build, How) /\ WellMade(How)
  BY HowWellMade, ClassesAreSorted DEF IInv, TypeOK, How
<1>2. /\ How.kept \in {"alone", "counted"}
      /\ How.copy \in CopyMembers /\ How.assign \in CopyMembers \ {"misread"}
      /\ How.move \in MoveMembers /\ How.moveAssign \in MoveMembers
      /\ How.kept = "alone"
            => {How.copy, How.assign, How.move, How.moveAssign} \cap {"share", "take", "nest"} = {}
      /\ How.kept = "counted"
            => {How.copy, How.assign, How.move, How.moveAssign}
                  \cap {"drain", "replace", "misread"} = {}
  BY <1>1 DEF WellMade
<1>3. Unmade \notin Cell
  BY CellsSuffice
<1>4. ASSUME NEW x \in Handle, NEW v \in Constructible, Construct(x, v) PROVE ActsInv'
  BY <1>4, ConstructKeepsActs
<1>5. ASSUME NEW x \in Handle, ConstructFromParts(x) PROVE ActsInv'
  BY <1>5, FromPartsKeepsActs
<1>6. ASSUME NEW x \in Handle, FlexibleSyncConfiguration(x) PROVE ActsInv'
  BY <1>6, FlexibleKeepsActs
<1>7. ASSUME NEW x \in Handle, Destroy(x) PROVE ActsInv'
  BY <1>7, DestroyKeepsActs
<1>8. ASSUME NEW x \in Handle, Open(x) PROVE ActsInv'
  BY <1>8, OpenKeepsActs
<1>9. ASSUME NEW x \in Handle, Alter(x) PROVE ActsInv'
  BY <1>9, AlterKeepsActs
<1>10. ASSUME NEW x \in Handle,
              SetHeadersOrProxy(x) \/ SetClientResetMode(x) \/ SetOnSyncConfig(x)
       PROVE  ActsInv'
  BY <1>10, ChangeRemoteKeepsActs DEF SetHeadersOrProxy, SetClientResetMode, SetOnSyncConfig
<1>11. ASSUME NEW x \in Handle, NEW y \in Handle, CopyConstruct(x, y) PROVE ActsInv'
  <2>1. at[x] = Unmade /\ CopyInto(x, y, How.copy) /\ How.copy # "none"
    BY <1>11 DEF CopyConstruct, CopyInto, Made
  <2>2. Fits(How.copy, x) /\ How.copy \notin {"take", "drain"}
    BY <1>2, <1>3, <2>1 DEF Fits, CopyMembers, Kinds
  <2>3. /\ How.copy = "nest" => class = "index_iterator" /\ build = "shared"
        /\ How.copy = "misread" => class = "table_view" /\ build = "generated"
        /\ How.copy = "replace" => class = "binary" /\ build = "shared"
        /\ class \notin {"notification_token", "thread_safe_reference"}
    BY <1>1, <2>1 DEF Sorts
  <2>4. QED
    BY <2>1, <2>2, <2>3, CopyKeepsActs
<1>12. ASSUME NEW x \in Handle, NEW y \in Handle, CopyAssign(x, y) PROVE ActsInv'
  <2>1. CopyInto(x, y, How.assign) /\ How.assign # "none"
    BY <1>12 DEF CopyAssign, CopyInto
  <2>2. Fits(How.assign, x) /\ How.assign \notin {"take", "drain", "misread"}
    BY <1>2, <2>1 DEF Fits, CopyMembers, Kinds
  <2>3. /\ How.assign = "nest" => class = "index_iterator" /\ build = "shared"
        /\ How.assign = "replace" => class = "binary" /\ build = "shared"
        /\ class \notin {"notification_token", "thread_safe_reference"}
    BY <1>1, <2>1 DEF Sorts
  <2>4. QED
    BY <2>1, <2>2, <2>3, CopyKeepsActs
<1>13. ASSUME NEW x \in Handle, NEW y \in Handle, MoveConstruct(x, y) PROVE ActsInv'
  <2>1. MoveInto(x, y, How.move) /\ How.move # "none"
    BY <1>13 DEF MoveConstruct, MoveInto
  <2>2. Fits(How.move, x) /\ How.move # "misread"
    BY <1>2, <2>1 DEF Fits, MoveMembers, Kinds
  <2>3. /\ How.move = "nest" => class = "index_iterator" /\ build = "shared"
        /\ How.move = "replace" => class = "binary" /\ build = "shared"
        /\ class \in {"notification_token", "thread_safe_reference"} =>
              (class = "thread_safe_reference" /\ build = "shared")
              \/ How.move \in {"take", "drain"}
    BY <1>1 DEF Sorts
  <2>4. QED
    BY <2>1, <2>2, <2>3, MoveKeepsActs
<1>14. ASSUME NEW x \in Handle, NEW y \in Handle, MoveAssign(x, y) PROVE ActsInv'
  <2>1. MoveInto(x, y, How.moveAssign) /\ How.moveAssign # "none"
    BY <1>14 DEF MoveAssign, MoveInto
  <2>2. Fits(How.moveAssign, x) /\ How.moveAssign # "misread"
    BY <1>2, <2>1 DEF Fits, MoveMembers, Kinds
  <2>3. /\ How.moveAssign = "nest" => class = "index_iterator" /\ build = "shared"
        /\ How.moveAssign = "replace" => class = "binary" /\ build = "shared"
        /\ class \in {"notification_token", "thread_safe_reference"} =>
              (class = "thread_safe_reference" /\ build = "shared")
              \/ How.moveAssign \in {"take", "drain"}
    BY <1>1 DEF Sorts
  <2>4. QED
    BY <2>1, <2>2, <2>3, MoveKeepsActs
<1>15. ASSUME NEW x \in Handle, NEW y \in Handle, SetSyncConfig(x, y) PROVE ActsInv'
  BY <1>15, SetSyncConfigKeepsActs
<1>16. CASE UNCHANGED vars
  <2>1. ASSUME NEW h \in Handle PROVE Acts(h)' /\ GaveUp(h)'
    BY <1>16, StaysActs DEF vars, Stays
  <2>2. QED
    BY <2>1 DEF ActsInv
<1>17. QED
  BY <1>4, <1>5, <1>6, <1>7, <1>8, <1>9, <1>10, <1>11, <1>12, <1>13, <1>14, <1>15, <1>16 DEF Next

\* Readable handles that denote what they mean compare as what they mean.
LEMMA ActsImplyValues == IInv /\ ActsInv => HandlesActAsValues
<1> SUFFICES ASSUME IInv, ActsInv PROVE HandlesActAsValues
  OBVIOUS
<1>1. ASSUME NEW h \in Handle, NEW g \in Handle, Readable(g), Readable(h),
             class \in DOMAIN Compared, ~Spoiled(g), ~Spoiled(h), ~Aliased(g), ~Aliased(h)
      PROVE  (Equal(g, h) <=> MeantEqual(g, h)) \/ ComparedWrongly(g, h)
  <2>1. Denoted(g) = means[g] /\ Denoted(h) = means[h]
    BY <1>1 DEF ActsInv, Acts
  <2>2. means[g] \in Values /\ means[h] \in Values
    BY DEF IInv, TypeOK, Values
  <2>3. class # "config" => means[g].sync = 0 /\ means[h].sync = 0
    BY DEF IInv, FitsInv, FitsAt
  <2>4. /\ means[g] = means[h] => means[g].n = means[h].n /\ means[g].kind = means[h].kind
        /\ /\ means[g].n = means[h].n /\ means[g].kind = means[h].kind
           /\ means[g].sync = means[h].sync
           => means[g] = means[h]
    BY <2>2 DEF Values, Value, Free, Garbage, Nested, Moved, Spent, Mark
  <2>5. CASE Compared[class] = "value" /\ class # "decimal128"
    BY <2>1, <2>5 DEF Equal, MeantEqual
  <2>6. CASE class = "decimal128"
    <3>1. Compared[class] = "bits"
      BY <2>6 DEF Compared, Decimal128Equals
    <3>2. QED
      BY <2>1, <2>3, <2>4, <2>6, <3>1 DEF Equal, MeantEqual, ComparedWrongly
  <2>7. CASE class = "object_schema"
    <3>1. Compared[class] = "name"
      BY <2>7 DEF Compared, ObjectSchemaEquals
    <3>2. QED
      BY <2>1, <2>3, <2>4, <2>7, <3>1 DEF Equal, MeantEqual, ComparedWrongly
  <2>8. CASE class = "error_category"
    <3>1. Compared[class] = "address"
      BY <2>8 DEF Compared, ErrorCategoryEquals
    <3>2. QED
      BY <2>8, <3>1 DEF Equal, MeantEqual, ComparedWrongly
  <2>9. class \notin {"decimal128", "object_schema", "error_category"} => Compared[class] = "value"
    BY <1>1 DEF Compared, TableEquals, ObjLinkEquals, MixedEquals, BinaryEquals, IndexIteratorEquals
  <2>10. QED
    BY <2>5, <2>6, <2>7, <2>8, <2>9
<1>2. QED
  BY <1>1 DEF HandlesActAsValues, ActsInv, Acts, GaveUp

(***************************************************************************)
(* A handle denotes the value that was put into it, in whatever way it was *)
(* copied and moved, compares as that value does, and once moved from      *)
(* holds no subscription and no pinned version: apart from the faults and  *)
(* the sharing HandlesActAsValues names.                                   *)
(***************************************************************************)
THEOREM ActAsValues == Spec => []HandlesActAsValues
<1>1. Init => IInv /\ ActsInv
  BY InitIInv, InitActs
<1>2. IInv /\ ActsInv /\ [Next]_vars => IInv' /\ ActsInv'
  BY NextKeepsIInv, NextKeepsActs
<1>3. IInv /\ ActsInv => HandlesActAsValues
  BY ActsImplyValues
<1>4. QED
  BY <1>1, <1>2, <1>3, PTL DEF Spec
==============================================================================
