---------------------------- MODULE ResultsProofs ----------------------------
(***************************************************************************)
(* Proofs about Queries and Results, for every schema, every content of    *)
(* the database and every clause of any number of comparisons.             *)
(***************************************************************************)
EXTENDS Results, FiniteSetTheorems, SequenceTheorems, WellFoundedInduction, TLAPS

(* ----- induction, for the set of naturals a property holds of ----- *)

\* Every set of naturals that has an element has a least one.
LEMMA LeastNatural ==
    ASSUME NEW T, T \subseteq Nat, T # {}
    PROVE  \E n \in T : \A m \in T : ~(m < n)
<1> DEFINE R == OpToRel(<, Nat)
<1>1. IsWellFoundedOn(R, Nat)
  BY NatLessThanWellFounded
<1>2. \A x, y \in Nat : x < y => <<x, y>> \in R
  BY DEF OpToRel
<1> HIDE DEF R
<1>3. PICK n \in T : \A m \in T : ~(<<m, n>> \in R)
  BY <1>1, WFMin
<1>4. QED
  BY <1>2, <1>3

\* A set that has the first of 0..n, and each that follows one it has.
LEMMA Induction ==
    ASSUME NEW n \in Nat, NEW S, 0 \in S, \A i \in 1..n : i - 1 \in S => i \in S
    PROVE  0..n \subseteq S
<1> SUFFICES ASSUME ~(0..n \subseteq S) PROVE FALSE
  OBVIOUS
<1> DEFINE T == (0..n) \ S
<1>0. T \subseteq Nat /\ T # {}
  OBVIOUS
<1> HIDE DEF T
<1>a. PICK i \in T : \A m \in T : ~(m < i)
  BY <1>0, LeastNatural
<1>1. i \in (0..n) \ S /\ \A m \in (0..n) \ S : ~(m < i)
  BY <1>a DEF T
<1>2. i \in 1..n /\ i - 1 \in 0..n /\ i - 1 < i
  BY <1>1
<1>3. i - 1 \in S
  BY <1>1, <1>2
<1>4. QED
  BY <1>1, <1>2, <1>3

(* ----- the managed types ----- *)

\* A type built from a set of operators offers them, and maps each to itself.
LEMMA BuiltMaps ==
    ASSUME NEW ops
    PROVE  /\ DOMAIN Built(ops).query = ops /\ DOMAIN Built(ops).plain = ops
           /\ \A o \in ops : Built(ops).query[o] = o /\ Built(ops).plain[o] = o
  BY DEF Built

\* But for two of them, the scalars offer equality or all of the comparisons.
LEMMA ScalarIsBuilt ==
    ASSUME NEW t \in DOMAIN Scalars, t \notin {"enum", "string"}
    PROVE  Types[t] \in {Built(Equality), Built(Ordered)}
<1>1. Types[t] = Scalars[t]
  BY DEF Types
<1> DEFINE Names == {"int", "double", "bool", "optional", "optionalEnum", "timestamp", "decimal",
                     "uuid", "objectId", "binary", "optionalBinary", "optionalString", "pkInt",
                     "pkString", "pkEnum", "pkOptionalEnum", "pkOptionalInt", "pkOptional"}
<1>2. t \in Names
  BY DEF Scalars
<1>3. \A n \in Names : Scalars[n] \in {Built(Equality), Built(Ordered)}
  BY DEF Scalars, ManagedInt, ManagedDouble, ManagedBool, ManagedOptionalNumber,
         ManagedOptionalEnum, ManagedTimestamp, ManagedDecimal, ManagedUuid,
         ManagedObjectId, ManagedBinary, ManagedOptionalBinary,
         ManagedOptionalString, PrimaryKeyInt, PrimaryKeyString, PrimaryKeyEnum,
         PrimaryKeyOptionalEnum, PrimaryKeyOptionalInt, PrimaryKeyOptional
<1>4. QED
  BY <1>1, <1>2, <1>3

\* The values of dictionaries offer one of four sets of operators.
LEMMA BoxIsBuilt ==
    ASSUME NEW t \in DOMAIN Boxes
    PROVE  /\ Types[t] \in {Built(Equality), Built(Ordered), Built(Equality \cup {"contains"}),
                            Built({"has key"})}
           /\ t \notin DOMAIN Scalars /\ t \notin DOMAIN Accumulating
<1>1. t \notin DOMAIN Scalars /\ t \notin DOMAIN Accumulating
  BY DEF Scalars, Accumulating, Boxes
<1>2. Types[t] = Boxes[t]
  BY <1>1 DEF Types
<1>3. /\ Boxes["box"] = Built(Equality)
      /\ Boxes["boxInt"] = Built(Ordered) /\ Boxes["boxDouble"] = Built(Ordered)
      /\ Boxes["boxMixed"] = Built(Ordered) /\ Boxes["boxDecimal"] = Built(Ordered)
      /\ Boxes["boxTimestamp"] = Built(Ordered)
      /\ Boxes["boxString"] = Built(Equality \cup {"contains"})
      /\ Boxes["boxLink"] = Built(Equality)
      /\ Boxes["hasKey"] = Built({"has key"})
  BY DEF Boxes, BoxBase, BoxInt, BoxDouble, BoxMixed, BoxDecimal, BoxTimestamp, BoxString,
         BoxLink, ContainsKey
<1>4. t \in {"box", "boxInt", "boxDouble", "boxMixed", "boxDecimal", "boxTimestamp",
             "boxString", "boxLink", "hasKey"}
  BY DEF Boxes
<1>5. QED
  BY <1>1, <1>2, <1>3, <1>4

\* On a query an operator builds the condition it is named for, but for two;
\* on an object it makes the comparison it is named for, but for one.
LEMMA QueryOperators ==
    ASSUME NEW t \in DOMAIN Types, NEW o \in DOMAIN Types[t].query
    PROVE  /\ Types[t].query[o] = IF t = "enum" /\ o = "<" THEN ">"
                                  ELSE IF t = "string" /\ o = "empty" THEN "==" ELSE o
           /\ Types[t].plain[o] = IF t = "link" /\ o = "!=" THEN "valid" ELSE o
           /\ o = "empty" => t = "string"
           /\ o \in Ordered \cup {"contains", "empty", "has key"}
<1>0. t \in DOMAIN Scalars \cup DOMAIN Accumulating \cup DOMAIN Boxes
  BY DEF Types
<1>a. ASSUME NEW ops, Types[t] = Built(ops), "empty" \notin ops, t \notin {"enum", "string", "link"},
             ops \subseteq Ordered \cup {"contains", "empty", "has key"}
      PROVE  /\ Types[t].query[o] = IF t = "enum" /\ o = "<" THEN ">"
                                    ELSE IF t = "string" /\ o = "empty" THEN "==" ELSE o
             /\ Types[t].plain[o] = IF t = "link" /\ o = "!=" THEN "valid" ELSE o
             /\ o = "empty" => t = "string"
             /\ o \in Ordered \cup {"contains", "empty", "has key"}
  <2>0. DOMAIN Built(ops).query = ops
    BY BuiltMaps
  <2>1. o \in ops
    BY <1>a, <2>0
  <2>2. Types[t].query[o] = o /\ Types[t].plain[o] = o
    BY <1>a, <2>1, BuiltMaps
  <2>3. QED
    BY <1>a, <2>1, <2>2
<1>1. CASE t \in DOMAIN Scalars \ {"enum", "string"}
  <2>1. t # "link"
    BY <1>1 DEF Scalars
  <2>2. "empty" \notin Ordered /\ "empty" \notin Equality /\ Equality \subseteq Ordered
    BY DEF Ordered, Equality
  <2>3. QED
    BY <1>1, <1>a, <2>1, <2>2, ScalarIsBuilt
<1>2. CASE t = "enum"
  <2>1. Types[t] = [Built(Ordered) EXCEPT !.query["<"] = ">"]
    BY <1>2 DEF Types, Scalars, ManagedEnum
  <2> DEFINE B == Built(Ordered)
  <2>2. /\ Types[t].query = [B.query EXCEPT !["<"] = ">"]
        /\ Types[t].plain = B.plain
    BY <2>1 DEF Built
  <2>3. o \in Ordered /\ B.query = [x \in Ordered |-> x] /\ B.plain = [x \in Ordered |-> x]
    BY <2>2 DEF Built
  <2> HIDE DEF B
  <2>4. QED
    BY <1>2, <2>2, <2>3 DEF Ordered, Equality
<1>3. CASE t = "string"
  <2>1. Types[t] = [Built(Equality \cup {"contains", "empty"}) EXCEPT !.query["empty"] = "=="]
    BY <1>3 DEF Types, Scalars, ManagedString
  <2> DEFINE Ops == Equality \cup {"contains", "empty"}
             B == Built(Ops)
  <2>2. /\ Types[t].query = [B.query EXCEPT !["empty"] = "=="]
        /\ Types[t].plain = B.plain
    BY <2>1 DEF Built
  <2>3. o \in Ops /\ B.query = [x \in Ops |-> x] /\ B.plain = [x \in Ops |-> x]
    BY <2>2 DEF Built
  <2> HIDE DEF B
  <2>4. QED
    BY <1>3, <2>2, <2>3 DEF Ordered, Equality
<1>4. CASE t \in DOMAIN Accumulating
  <2>1. t \in {"mixed", "link", "linkToNull"} /\ Types[t] = Accumulating[t]
    BY <1>4 DEF Types, Scalars, Accumulating
  <2>2. CASE t # "link"
    <3>1. Types[t] = Built(Equality)
      BY <2>1, <2>2 DEF Accumulating, ManagedMixed, ManagedLinkToNull
    <3>2. Equality \subseteq Ordered /\ "empty" \notin Equality
      BY DEF Ordered, Equality
    <3>3. QED
      BY <1>a, <2>1, <2>2, <3>1, <3>2
  <2>3. CASE t = "link"
    <3>1. Types[t] = [Built(Equality) EXCEPT !.plain["!="] = "valid"]
      BY <2>1, <2>3 DEF Accumulating, ManagedLink
    <3> DEFINE B == Built(Equality)
    <3>2. /\ Types[t].plain = [B.plain EXCEPT !["!="] = "valid"]
          /\ Types[t].query = B.query
      BY <3>1 DEF Built
    <3>3. o \in Equality /\ B.query = [x \in Equality |-> x] /\ B.plain = [x \in Equality |-> x]
      BY <3>2 DEF Built
    <3> HIDE DEF B
    <3>4. QED
      BY <2>3, <3>2, <3>3 DEF Ordered, Equality
  <2>4. QED
    BY <2>2, <2>3
<1>5. CASE t \in DOMAIN Boxes
  <2>1. t \notin {"enum", "string", "link"}
    BY <1>5, BoxIsBuilt DEF Scalars, Accumulating
  <2>2. /\ "empty" \notin Ordered /\ "empty" \notin Equality /\ Equality \subseteq Ordered
        /\ "empty" \notin Equality \cup {"contains"} /\ "empty" \notin {"has key"}
    BY DEF Ordered, Equality
  <2>3. QED
    BY <1>5, <1>a, <2>1, <2>2, BoxIsBuilt
<1>6. QED
  BY <1>0, <1>1, <1>2, <1>3, <1>4, <1>5

(* ----- bridge::query ----- *)

Cores == Seq(SUBSET Rows)

\* A copy stands for the same rows; in a generated build it is a query of its own.
LEMMA CopyIs ==
    ASSUME NEW cores \in Cores, NEW q \in DOMAIN cores
    PROVE  LET copy == CopyOf(cores, q)
           IN  /\ copy.core \in Cores
               /\ Len(copy.core) >= Len(cores)
               /\ \A k \in DOMAIN cores : copy.core[k] = cores[k]
               /\ copy.q \in DOMAIN copy.core
               /\ copy.core[copy.q] = cores[q]
               /\ copy.q = IF generated THEN Len(cores) + 1 ELSE q
<1>1. CASE generated
  <2>1. cores[q] \in SUBSET Rows
    BY DEF Cores
  <2> DEFINE more == Append(cores, cores[q])
  <2>2. /\ more \in Cores /\ Len(more) = Len(cores) + 1
        /\ \A k \in DOMAIN cores : more[k] = cores[k]
        /\ more[Len(cores) + 1] = cores[q]
    BY <2>1 DEF Cores
  <2> HIDE DEF more
  <2>3. CopyOf(cores, q) = [core |-> more, q |-> Len(cores) + 1]
    BY <1>1 DEF CopyOf, more
  <2>4. DOMAIN more = 1..Len(more) /\ Len(cores) \in Nat
    BY <2>2 DEF Cores
  <2>5. QED
    BY <1>1, <2>2, <2>3, <2>4
<1>2. CASE ~generated
  <2>1. CopyOf(cores, q) = [core |-> cores, q |-> q]
    BY <1>2 DEF CopyOf
  <2>2. Len(cores) \in Nat
    BY DEF Cores
  <2>3. QED
    BY <1>2, <2>1, <2>2
<1>3. QED
  BY <1>1, <1>2

\* Replacing a query leaves every other core query as it was; one that is
\* shared is left as it was too.
LEMMA ReplaceIs ==
    ASSUME NEW cores \in Cores, NEW q \in DOMAIN cores, NEW extent \in SUBSET Rows
    PROVE  LET new == Replace(cores, q, extent)
           IN  /\ new.core \in Cores
               /\ Len(new.core) = IF generated THEN Len(cores) ELSE Len(cores) + 1
               /\ \A k \in DOMAIN cores : k # q \/ ~generated => new.core[k] = cores[k]
               /\ new.core[new.q] = extent
               /\ new.q = IF generated THEN q ELSE Len(cores) + 1
<1>1. CASE generated
  <2> DEFINE more == [cores EXCEPT ![q] = extent]
  <2>2. /\ more \in Cores /\ Len(more) = Len(cores)
        /\ \A k \in DOMAIN cores : k # q => more[k] = cores[k]
        /\ more[q] = extent
    BY DEF Cores
  <2> HIDE DEF more
  <2>3. Replace(cores, q, extent) = [core |-> more, q |-> q]
    BY <1>1 DEF Replace, more
  <2>4. QED
    BY <1>1, <2>2, <2>3
<1>2. CASE ~generated
  <2> DEFINE more == Append(cores, extent)
  <2>2. /\ more \in Cores /\ Len(more) = Len(cores) + 1
        /\ \A k \in DOMAIN cores : more[k] = cores[k]
        /\ more[Len(cores) + 1] = extent
    BY DEF Cores
  <2> HIDE DEF more
  <2>3. Replace(cores, q, extent) = [core |-> more, q |-> Len(cores) + 1]
    BY <1>2 DEF Replace, more
  <2>4. QED
    BY <1>2, <2>2, <2>3
<1>3. QED
  BY <1>1, <1>2

\* A condition narrows the core query, and every handle that shares it.
LEMMA AddConditionIs ==
    ASSUME NEW cores \in Cores, NEW q \in DOMAIN cores, NEW extent \in SUBSET Rows
    PROVE  LET new == AddCondition(cores, q, extent)
           IN  /\ new.core \in Cores
               /\ Len(new.core) = IF generated THEN Len(cores) ELSE Len(cores) + 1
               /\ \A k \in DOMAIN cores : k # q => new.core[k] = cores[k]
               /\ new.core[q] = cores[q] \cap extent
               /\ new.core[new.q] = cores[q] \cap extent
               /\ new.q = IF generated THEN q ELSE Len(cores) + 1
<1> DEFINE both == cores[q] \cap extent
           narrowed == [cores EXCEPT ![q] = both]
<1>1. both \in SUBSET Rows
  OBVIOUS
<1>2. /\ narrowed \in Cores /\ Len(narrowed) = Len(cores) /\ DOMAIN narrowed = DOMAIN cores
      /\ \A k \in DOMAIN cores : k # q => narrowed[k] = cores[k]
      /\ narrowed[q] = both
  BY <1>1 DEF Cores
<1>3. AddCondition(cores, q, extent) = Replace(narrowed, q, both)
  BY DEF AddCondition
<1> HIDE DEF both, narrowed
<1> DEFINE new == Replace(narrowed, q, both)
<1>4. /\ new.core \in Cores
      /\ Len(new.core) = IF generated THEN Len(narrowed) ELSE Len(narrowed) + 1
      /\ \A k \in DOMAIN narrowed : k # q \/ ~generated => new.core[k] = narrowed[k]
      /\ new.core[new.q] = both
      /\ new.q = IF generated THEN q ELSE Len(narrowed) + 1
  <2>1. q \in DOMAIN narrowed
    BY <1>2
  <2> HIDE DEF Cores
  <2>2. QED
    BY <1>1, <1>2, <2>1, ReplaceIs
<1>5. new.core[q] = both
  BY <1>2, <1>4
<1> HIDE DEF new
<1>6. QED
  BY <1>2, <1>3, <1>4, <1>5 DEF both, new

(* ----- following links ----- *)

Onward(x, col) ==
    IF x = Null THEN Null
    ELSE LET k == Cells[x][col]
         IN  IF k = Null THEN Null ELSE <<Columns[x[1]][col].target, k>>

\* A path takes the links one after the other.
LEMMA FollowIs ==
    ASSUME NEW r, NEW S, NEW links \in Seq(S)
    PROVE  \E f : /\ f[0] = r
                  /\ \A i \in 1..Len(links) : f[i] = Onward(f[i - 1], links[i])
                  /\ Follow(r, links) = f[Len(links)]
<1> DEFINE n == Len(links)
           IsPath(m, f) ==
               f = [i \in 0..m |->
                       IF i = 0 THEN r
                       ELSE IF f[i - 1] = Null THEN Null
                       ELSE LET k == Cells[f[i - 1]][links[i]]
                            IN  IF k = Null THEN Null
                                ELSE <<Columns[f[i - 1][1]][links[i]].target, k>>]
           Path(m, f) ==
               f = [i \in 0..m |-> IF i = 0 THEN r ELSE Onward(f[i - 1], links[i])]
           T == {m \in 0..n : \E f : Path(m, f)}
<1>0. n \in Nat
  OBVIOUS
<1>1. 0 \in T
  <2> DEFINE f == [i \in 0..0 |-> r]
  <2>1. Path(0, f)
    OBVIOUS
  <2> HIDE DEF Path, f
  <2>2. QED
    BY <1>0, <2>1
<1>2. ASSUME NEW m \in 1..n, m - 1 \in T
      PROVE  m \in T
  <2>1. PICK f : Path(m - 1, f)
    BY <1>2
  <2> DEFINE g == [i \in 0..m |-> IF i = m THEN Onward(f[m - 1], links[m]) ELSE f[i]]
             Steps == [i \in 0..m |-> IF i = 0 THEN r ELSE Onward(g[i - 1], links[i])]
  <2>2. ASSUME NEW i \in 0..m
        PROVE  g[i] = Steps[i]
    <3>1. CASE i = 0
      <4>0. 0 \in 0..m - 1 /\ m # 0
        OBVIOUS
      <4>1. g[i] = f[0] /\ f[0] = r
        BY <3>1, <2>1, <4>0
      <4>2. QED
        BY <3>1, <4>1
    <3>2. CASE i = m
      BY <3>2
    <3>3. CASE i # 0 /\ i # m
      <4>1. i \in 1..m - 1 /\ i - 1 \in 0..m - 1
        BY <3>3
      <4>2. f[i] = Onward(f[i - 1], links[i])
        BY <2>1, <4>1
      <4>3. g[i] = f[i] /\ g[i - 1] = f[i - 1]
        BY <4>1, <3>3
      <4>4. QED
        BY <3>3, <4>2, <4>3
    <3>4. QED
      BY <3>1, <3>2, <3>3
  <2>3. g = Steps
    BY <2>2
  <2> HIDE DEF g
  <2>4. Path(m, g)
    BY <2>3
  <2> HIDE DEF Path
  <2>5. QED
    BY <1>0, <2>4
<1>3. n \in T
  <2> HIDE DEF T, n
  <2>1. 0..n \subseteq T
    BY <1>0, <1>1, <1>2, Induction
  <2>2. QED
    BY <1>0, <2>1
<1> HIDE DEF T
<1>4. PICK f0 : Path(n, f0)
  BY <1>3 DEF T
<1>5. IsPath(n, f0)
  BY <1>4 DEF Onward
<1> DEFINE P == CHOOSE f : IsPath(n, f)
<1>6. IsPath(n, P)
  BY <1>5
<1>7. Follow(r, links) = P[n]
  BY DEF Follow
<1> HIDE DEF P
<1>8. Path(n, P)
  BY <1>6 DEF Onward
<1>9. P[0] = r /\ \A i \in 1..n : P[i] = Onward(P[i - 1], links[i])
  BY <1>0, <1>8
<1>10. QED
  BY <1>7, <1>9

\* Without links a row leads to itself.
LEMMA FollowNothing ==
    ASSUME NEW r
    PROVE  Follow(r, <<>>) = r
<1>1. <<>> \in Seq({}) /\ Len(<<>>) = 0
  OBVIOUS
<1>2. QED
  BY <1>1, FollowIs

\* One more link leads one step further.
LEMMA FollowFurther ==
    ASSUME NEW r, NEW S, NEW links \in Seq(S), NEW col \in S
    PROVE  Follow(r, Append(links, col)) = Onward(Follow(r, links), col)
<1> DEFINE more == Append(links, col)
           n == Len(links)
<1>1. /\ n \in Nat /\ more \in Seq(S) /\ Len(more) = n + 1 /\ more[n + 1] = col
      /\ \A i \in 1..n : more[i] = links[i]
  OBVIOUS
<1>2. PICK f : /\ f[0] = r
               /\ \A i \in 1..n : f[i] = Onward(f[i - 1], links[i])
               /\ Follow(r, links) = f[n]
  BY FollowIs
<1> HIDE DEF more, n
<1>3. PICK g : /\ g[0] = r
               /\ \A i \in 1..n + 1 : g[i] = Onward(g[i - 1], more[i])
               /\ Follow(r, more) = g[n + 1]
  <2>1. Len(more) \in Nat /\ Len(more) = n + 1
    BY <1>1
  <2>2. QED
    BY <1>1, <2>1, FollowIs
<1> DEFINE T == {m \in 0..n : f[m] = g[m]}
<1>4. 0 \in T
  BY <1>1, <1>2, <1>3
<1>5. ASSUME NEW m \in 1..n, m - 1 \in T
      PROVE  m \in T
  BY <1>1, <1>2, <1>3, <1>5
<1> HIDE DEF T
<1>6. 0..n \subseteq T
  BY <1>1, <1>4, <1>5, Induction
<1>7. f[n] = g[n]
  BY <1>1, <1>6 DEF T
<1>8. g[n + 1] = Onward(g[n], col)
  BY <1>1, <1>3
<1>9. QED
  BY <1>2, <1>3, <1>7, <1>8 DEF more

\* The class at the end of a chain.
ClassAfter(links) ==
    LET Of[i \in 0..Len(links)] ==
            IF i = 0 THEN Queried ELSE Columns[Of[i - 1]][links[i]].target
    IN  Of[Len(links)]

\* The classes along a path are the targets of its links.
LEMMA ClassAfterIs ==
    ASSUME NEW S, NEW links \in Seq(S)
    PROVE  \E f : /\ f[0] = Queried
                  /\ \A i \in 1..Len(links) : f[i] = Columns[f[i - 1]][links[i]].target
                  /\ ClassAfter(links) = f[Len(links)]
<1> DEFINE n == Len(links)
           Path(m, f) ==
               f = [i \in 0..m |->
                       IF i = 0 THEN Queried ELSE Columns[f[i - 1]][links[i]].target]
           T == {m \in 0..n : \E f : Path(m, f)}
<1>0. n \in Nat
  OBVIOUS
<1>1. 0 \in T
  <2> DEFINE f == [i \in 0..0 |-> Queried]
  <2>1. Path(0, f)
    OBVIOUS
  <2> HIDE DEF Path, f
  <2>2. QED
    BY <1>0, <2>1
<1>2. ASSUME NEW m \in 1..n, m - 1 \in T
      PROVE  m \in T
  <2>1. PICK f : Path(m - 1, f)
    BY <1>2
  <2> DEFINE g == [i \in 0..m |-> IF i = m THEN Columns[f[m - 1]][links[m]].target ELSE f[i]]
             Steps == [i \in 0..m |->
                          IF i = 0 THEN Queried ELSE Columns[g[i - 1]][links[i]].target]
  <2>2. ASSUME NEW i \in 0..m
        PROVE  g[i] = Steps[i]
    <3>1. CASE i = 0
      <4>0. 0 \in 0..m - 1 /\ m # 0
        OBVIOUS
      <4>1. g[i] = f[0] /\ f[0] = Queried
        BY <3>1, <2>1, <4>0
      <4>2. QED
        BY <3>1, <4>1
    <3>2. CASE i = m
      BY <3>2
    <3>3. CASE i # 0 /\ i # m
      <4>1. i \in 1..m - 1 /\ i - 1 \in 0..m - 1
        BY <3>3
      <4>2. f[i] = Columns[f[i - 1]][links[i]].target
        BY <2>1, <4>1
      <4>3. g[i] = f[i] /\ g[i - 1] = f[i - 1]
        BY <4>1, <3>3
      <4>4. QED
        BY <3>3, <4>2, <4>3
    <3>4. QED
      BY <3>1, <3>2, <3>3
  <2>3. g = Steps
    BY <2>2
  <2> HIDE DEF g
  <2>4. Path(m, g)
    BY <2>3
  <2> HIDE DEF Path
  <2>5. QED
    BY <1>0, <2>4
<1>3. n \in T
  <2> HIDE DEF T, n
  <2>1. 0..n \subseteq T
    BY <1>0, <1>1, <1>2, Induction
  <2>2. QED
    BY <1>0, <2>1
<1> HIDE DEF T
<1>4. PICK f0 : Path(n, f0)
  BY <1>3 DEF T
<1> DEFINE P == CHOOSE f : Path(n, f)
<1>6. Path(n, P)
  BY <1>4
<1>7. ClassAfter(links) = P[n]
  BY DEF ClassAfter
<1> HIDE DEF P
<1>8. \A i \in 0..n :
         P[i] = IF i = 0 THEN Queried ELSE Columns[P[i - 1]][links[i]].target
  BY <1>6
<1>9. P[0] = Queried /\ \A i \in 1..n : P[i] = Columns[P[i - 1]][links[i]].target
  BY <1>0, <1>8
<1>10. QED
  BY <1>7, <1>9

\* Without links the class is the one that is queried.
LEMMA ClassAfterNothing == ClassAfter(<<>>) = Queried
<1>1. <<>> \in Seq({}) /\ Len(<<>>) = 0
  OBVIOUS
<1>2. QED
  BY <1>1, ClassAfterIs

\* One more link leads to its target.
LEMMA ClassAfterFurther ==
    ASSUME NEW S, NEW links \in Seq(S), NEW col \in S
    PROVE  ClassAfter(Append(links, col)) = Columns[ClassAfter(links)][col].target
<1> DEFINE more == Append(links, col)
           n == Len(links)
<1>1. /\ n \in Nat /\ more \in Seq(S) /\ Len(more) = n + 1 /\ more[n + 1] = col
      /\ \A i \in 1..n : more[i] = links[i]
  OBVIOUS
<1>2. PICK f : /\ f[0] = Queried
               /\ \A i \in 1..n : f[i] = Columns[f[i - 1]][links[i]].target
               /\ ClassAfter(links) = f[n]
  BY ClassAfterIs
<1> HIDE DEF more, n
<1>3. PICK g : /\ g[0] = Queried
               /\ \A i \in 1..n + 1 : g[i] = Columns[g[i - 1]][more[i]].target
               /\ ClassAfter(more) = g[n + 1]
  <2>1. Len(more) \in Nat /\ Len(more) = n + 1
    BY <1>1
  <2>2. QED
    BY <1>1, <2>1, ClassAfterIs
<1> DEFINE T == {m \in 0..n : f[m] = g[m]}
<1>4. 0 \in T
  BY <1>1, <1>2, <1>3
<1>5. ASSUME NEW m \in 1..n, m - 1 \in T
      PROVE  m \in T
  BY <1>1, <1>2, <1>3, <1>5
<1> HIDE DEF T
<1>6. 0..n \subseteq T
  BY <1>1, <1>4, <1>5, Induction
<1>7. f[n] = g[n]
  BY <1>1, <1>6 DEF T
<1>8. g[n + 1] = Columns[g[n]][col].target
  BY <1>1, <1>3
<1>9. QED
  BY <1>2, <1>3, <1>7, <1>8 DEF more

\* The class of a comparison, by the path that leads to it.
LEMMA ClassIs == Class = IF entry # NoEntry THEN Columns[Queried][entry.col].target ELSE ClassAfter(chain)
  BY DEF Class, ClassAfter

(* ----- comparisons ----- *)

Comparing == Ordered \cup {"contains", "empty", "has key", "valid"}

\* Every comparison is true or false.
LEMMA HoldsIsBoolean ==
    ASSUME NEW o \in Comparing, NEW x, NEW v
    PROVE  Holds(o, x, v) \in BOOLEAN /\ PlainHolds(o, x, v) \in BOOLEAN
<1>1. Holds(o, x, v) \in BOOLEAN
  BY DEF Holds, Comparing, Ordered, Equality
<1>2. QED
  BY <1>1 DEF PlainHolds

\* Where no null is ordered, plain comparisons are those of queries.
LEMMA PlainIsHolds ==
    ASSUME NEW o \in Comparing, NEW x, NEW v, o \in Orderings => x # Null /\ v # Null
    PROVE  PlainHolds(o, x, v) = Holds(o, x, v)
  BY DEF PlainHolds, Orderings, Ordered, Equality

\* Null comes before every value in the order of optionals, and > and >=
\* of a null are false of every value, as they are in a query.
LEMMA NullComesFirst ==
    ASSUME NEW o \in {">", ">="}, NEW x, NEW v, v # Null
    PROVE  PlainHolds(o, x, v) = Holds(o, x, v)
<1>1. CASE x = Null
  BY <1>1 DEF PlainHolds, Holds
<1>2. CASE x # Null
  BY <1>2 DEF PlainHolds
<1>3. QED
  BY <1>1, <1>2

\* What is assumed of a comparison, for its type.
LEMMA ComparisonIs ==
    ASSUME NEW c \in Comparisons
    PROVE  /\ c = [class |-> c.class, col |-> c.col, key |-> c.key,
                   op |-> c.op, val |-> c.val, meant |-> c.meant]
           /\ c.col \in DOMAIN Columns[c.class]
           /\ TypeOf(c) \in DOMAIN Types
           /\ c.op \in DOMAIN Types[TypeOf(c)].query
           /\ c.op = "empty" => c.val = 0
           /\ TypeOf(c) = "link" => c.val # Null
           /\ c.op \in Orderings /\ TypeOf(c) # "boxMixed" => c.val # Null
  BY ComparisonsAssumption DEF TypeOf

\* Both uses of an operator make the comparison it names, but for < of enums
\* and empty() in queries, and != of links on objects.
LEMMA OperatorsOf ==
    ASSUME NEW c \in Comparisons
    PROVE  /\ Types[TypeOf(c)].query[c.op] =
                  IF TypeOf(c) = "enum" /\ c.op = "<" THEN ">"
                  ELSE IF TypeOf(c) = "string" /\ c.op = "empty" THEN "==" ELSE c.op
           /\ Types[TypeOf(c)].plain[c.op] =
                  IF TypeOf(c) = "link" /\ c.op = "!=" THEN "valid" ELSE c.op
           /\ c.op \in Ordered \cup {"contains", "empty", "has key"}
<1> DEFINE t == TypeOf(c)
           o == c.op
<1>1. t \in DOMAIN Types /\ o \in DOMAIN Types[t].query
  BY ComparisonIs
<1> HIDE DEF t, o
<1>2. /\ Types[t].query[o] = IF t = "enum" /\ o = "<" THEN ">"
                              ELSE IF t = "string" /\ o = "empty" THEN "==" ELSE o
      /\ Types[t].plain[o] = IF t = "link" /\ o = "!=" THEN "valid" ELSE o
      /\ o \in Ordered \cup {"contains", "empty", "has key"}
  BY <1>1, QueryOperators
<1>3. QED
  BY <1>2 DEF t, o

\* Mixed values and links offer equality only.
LEMMA AccumulatingIs ==
    ASSUME NEW t \in DOMAIN Accumulating
    PROVE  /\ t \in {"mixed", "link", "linkToNull"} /\ DOMAIN Types[t].query = Equality
           /\ t \notin DOMAIN Boxes
<1>1. t \in {"mixed", "link", "linkToNull"} /\ Types[t] = Accumulating[t]
  BY DEF Types, Scalars, Accumulating
<1>2. t \notin DOMAIN Boxes
  BY <1>1 DEF Boxes
<1>3. DOMAIN Accumulating[t].query = Equality
  <2>1. CASE t = "link"
    BY <2>1 DEF Accumulating, ManagedLink, Built
  <2>2. CASE t # "link"
    <3>1. Accumulating[t] = Built(Equality)
      BY <1>1, <2>2 DEF Accumulating, ManagedMixed, ManagedLinkToNull
    <3>2. QED
      BY <3>1 DEF Built
  <2>3. QED
    BY <2>1, <2>2
<1>4. QED
  BY <1>1, <1>2, <1>3

\* The condition a comparison builds, and what it is written to mean.
Extent(c) ==
    LET op == Types[TypeOf(c)].query[c.op]
    IN  IF ~InPlace(c) THEN Rebuilt(op, c)
        ELSE IF chain = <<>> THEN Condition(op, c)
        ELSE IF TypeOf(c) = "mixed" THEN SubexprValue(op, c) ELSE SubexprLink(op, c)
Meaning(c) ==
    {r \in Table : Holds(c.op, CellAt(Reached(r), [c EXCEPT !.val = c.meant]), c.meant)}

\* A comparison that has no fault in queries is of none of the kinds that have.
LEMMA NoQueryFaults ==
    ASSUME NEW c, QueryFaults(c) = {}
    PROVE  /\ ~(TypeOf(c) = "enum" /\ c.op = "<")
           /\ c.val = c.meant
           /\ ~(TypeOf(c) = "linkToNull" /\ chain # <<>> /\ c.op = "==")
           /\ entry = NoEntry
<1> DEFINE F == {"enum <", "owner's key", "null behind a link", "dictionary link"}
           Is(f) ==
               CASE f = "enum <" -> TypeOf(c) = "enum" /\ c.op = "<"
                 [] f = "owner's key" -> c.val # c.meant
                 [] f = "null behind a link" ->
                        TypeOf(c) = "linkToNull" /\ chain # <<>> /\ c.op = "=="
                 [] f = "dictionary link" -> entry # NoEntry
<1>1. \A f \in F : ~Is(f)
  BY DEF QueryFaults
<1>2. ~Is("enum <") /\ ~Is("owner's key") /\ ~Is("null behind a link") /\ ~Is("dictionary link")
  BY <1>1
<1>3. QED
  BY <1>2

\* A comparison that has no fault on objects is of none of the kinds that have.
LEMMA NoPlainFaults ==
    ASSUME NEW c, PlainFaults(c) = {}
    PROVE  /\ ~(TypeOf(c) = "link" /\ c.op = "!=")
           /\ c.val = c.meant
           /\ ~(/\ TypeOf(c) \in Optional
                /\ c.op \in {"<", "<="} \/ (c.op \in Orderings /\ c.val = Null))
<1> DEFINE F == {"link !=", "owner's key", "null ordered"}
           Is(f) ==
               CASE f = "link !=" -> TypeOf(c) = "link" /\ c.op = "!="
                 [] f = "owner's key" -> c.val # c.meant
                 [] f = "null ordered" ->
                       /\ TypeOf(c) \in Optional
                       /\ c.op \in {"<", "<="} \/ (c.op \in Orderings /\ c.val = Null)
<1>1. \A f \in F : ~Is(f)
  BY DEF PlainFaults
<1>2. ~Is("link !=") /\ ~Is("owner's key") /\ ~Is("null ordered")
  BY <1>1
<1>3. QED
  BY <1>2

\* The condition a comparison builds is on the rows it means, but for the
\* known faults of queries.
LEMMA ExtentIs ==
    ASSUME NEW c \in Comparisons, Comparable(c)
    PROVE  /\ Extent(c) \subseteq Rows
           /\ entry = NoEntry => Extent(c) \subseteq Table
           /\ QueryFaults(c) = {} => Extent(c) = Meaning(c)
<1> DEFINE op == Types[TypeOf(c)].query[c.op]
<1>1. Table \subseteq Rows
  BY DEF Table
<1>2. IsBox(c) => ~InPlace(c)
  BY AccumulatingIs DEF IsBox, InPlace
<1>3. Extent(c) \subseteq Rows
  BY <1>1 DEF Extent, Rebuilt, Condition, NullCondition, SubexprValue, SubexprNumber, SubexprLink,
          StringCondition, DictionaryQuery, DictionaryCondition, DictionaryLinkSubexpr,
          ContainsText, DefineQuery, DefineNumericQuery
<1>4. ASSUME entry = NoEntry
      PROVE  Extent(c) \subseteq Table
  BY <1>4 DEF Extent, Rebuilt, Condition, NullCondition, SubexprValue, SubexprNumber, SubexprLink,
          StringCondition, DictionaryQuery, DictionaryCondition,
          ContainsText, DefineQuery, DefineNumericQuery
<1>5. ASSUME QueryFaults(c) = {}
      PROVE  Extent(c) = Meaning(c)
  <2>1. /\ ~(TypeOf(c) = "enum" /\ c.op = "<")
        /\ c.val = c.meant
        /\ ~(TypeOf(c) = "linkToNull" /\ chain # <<>> /\ c.op = "==")
        /\ entry = NoEntry
    BY <1>5, NoQueryFaults
  <2> DEFINE That(o) == {r \in Table : Holds(o, CellAt(Follow(r, chain), c), c.val)}
  <2>2. [c EXCEPT !.val = c.meant] = c
    BY <2>1, ComparisonIs
  <2>3. Meaning(c) = That(c.op)
    BY <2>1, <2>2 DEF Meaning, Reached
  <2>4. op = IF TypeOf(c) = "string" /\ c.op = "empty" THEN "==" ELSE c.op
    BY <2>1, OperatorsOf
  <2>5. That(op) = That(c.op)
    <3>1. CASE c.op = "empty"
      <4>1. c.val = 0
        BY <3>1, ComparisonIs
      <4>2. QED
        BY <2>4, <3>1, <4>1 DEF Holds
    <3>2. CASE c.op # "empty"
      BY <2>4, <3>2
    <3>3. QED
      BY <3>1, <3>2
  <2>6. Extent(c) = That(op)
    <3> HIDE DEF op
    <3>1. CASE chain = <<>>
      <4>1. That(op) = {r \in Table : Holds(op, CellAt(r, c), c.val)}
        BY <3>1, FollowNothing
      <4>2. Extent(c) = {r \in Table : Holds(op, CellAt(r, c), c.val)}
        BY <2>1, <3>1 DEF Extent, Rebuilt, Condition, NullCondition, StringCondition,
           DictionaryQuery, DictionaryCondition, ContainsText, DefineQuery, DefineNumericQuery, op
      <4>3. QED
        BY <4>1, <4>2
    <3>2. CASE chain # <<>>
      <4>1. ~IsBox(c)
        BY <3>2 DEF Comparable
      <4>2. CASE ~InPlace(c)
        BY <3>2, <4>1, <4>2 DEF Extent, Rebuilt, SubexprValue, SubexprNumber,
           ContainsText, DefineQuery, DefineNumericQuery, op
      <4>3. CASE InPlace(c) /\ TypeOf(c) = "mixed"
        BY <3>2, <4>3 DEF Extent, SubexprValue, op
      <4>4. CASE InPlace(c) /\ TypeOf(c) # "mixed"
        <5>1. Extent(c) = That(IF c.val = Null THEN "!=" ELSE op)
          BY <3>2, <4>4 DEF Extent, SubexprLink, op
        <5>2. c.val = Null => op = "!="
          <6>1. TypeOf(c) \in {"link", "linkToNull"} /\ c.op \in Equality
            BY <4>4, AccumulatingIs, ComparisonIs DEF InPlace
          <6>2. c.val = Null => c.op = "!="
            BY <2>1, <3>2, <6>1, ComparisonIs DEF Equality
          <6>3. QED
            BY <2>4, <6>2
        <5>3. QED
          BY <5>1, <5>2
      <4>5. QED
        BY <4>2, <4>3, <4>4
    <3>3. QED
      BY <3>1, <3>2
  <2>7. QED
    BY <2>3, <2>5, <2>6
<1>6. QED
  BY <1>3, <1>4, <1>5

(* ----- the clause on an object ----- *)

\* A chain leads from a row of the table to one of the class it ends in.
ChainLeads ==
    entry = NoEntry =>
        \A r \in Table :
            Follow(r, chain) # Null => Follow(r, chain) \in Rows /\ Follow(r, chain)[1] = Class

\* A cell that is ordered is null only in the optional types.
LEMMA OrderedCellIsNotNull ==
    ASSUME NEW c \in Comparisons, c.op \in Orderings, TypeOf(c) \notin Optional,
           NEW x \in Rows, x[1] = c.class, IsBox(c) => c.key \in DOMAIN Cells[x][c.col]
    PROVE  CellAt(x, c) # Null
<1> DEFINE column == Columns[x[1]][c.col]
<1>1. c.col \in DOMAIN Columns[x[1]] /\ column.type = TypeOf(c)
  BY ComparisonIs DEF TypeOf
<1>2. TypeOf(c) \in DOMAIN Types \ Optional /\ c.op \in DOMAIN Types[TypeOf(c)].query
  BY ComparisonIs
<1>3. DOMAIN Types[column.type].query \cap Orderings # {}
  BY <1>1, <1>2
<1>4. /\ column.type \in DOMAIN Boxes => \A k \in DOMAIN Cells[x][c.col] : Cells[x][c.col][k] # Null
      /\ column.type \notin DOMAIN Boxes => Cells[x][c.col] # Null
  BY <1>1, <1>2, <1>3, CellsAssumption
<1>5. x # Null
  BY CellsAssumption
<1>6. QED
  BY <1>1, <1>4, <1>5 DEF CellAt, IsBox

\* A comparison evaluated on an object agrees with what it means, where it
\* does not throw and but for the known faults.
LEMMA EvaluatedIs ==
    ASSUME ChainLeads, NEW c \in Comparisons, Comparable(c),
           QueryFaults(c) = {}, PlainFaults(c) = {},
           NEW r \in Table, Evaluated(c)[r] # Null
    PROVE  Evaluated(c)[r] = (r \in Meaning(c))
<1> DEFINE x == Follow(r, chain)
           o == Types[TypeOf(c)].plain[c.op]
<1>1. entry = NoEntry /\ c.val = c.meant
  BY NoQueryFaults
<1>2. Reached(r) = x
  BY <1>1 DEF Reached
<1>3. x # Null
  BY <1>2 DEF Evaluated
<1>4. IsBox(c) /\ c.op # "has key" => c.key \in DOMAIN Cells[x][c.col]
  BY <1>2 DEF Evaluated
<1>5. Evaluated(c)[r] = PlainHolds(o, CellAt(x, c), c.val)
  BY <1>2, <1>3, <1>4 DEF Evaluated
<1>6. o = c.op /\ c.op \in Comparing
  BY OperatorsOf, NoPlainFaults DEF Comparing
<1>7. x \in Rows /\ x[1] = c.class
  BY <1>1, <1>3 DEF ChainLeads, Comparable
<1> HIDE DEF x, o
<1>8. (r \in Meaning(c)) = Holds(c.op, CellAt(x, c), c.val)
  <2>1. [c EXCEPT !.val = c.meant] = c
    BY <1>1, ComparisonIs
  <2>2. r \in Meaning(c) <=> Holds(c.op, CellAt(x, c), c.val)
    BY <1>1, <1>2, <2>1 DEF Meaning
  <2>3. Holds(c.op, CellAt(x, c), c.val) \in BOOLEAN
    BY <1>6, HoldsIsBoolean
  <2>4. QED
    BY <2>2, <2>3
<1>9. PlainHolds(c.op, CellAt(x, c), c.val) = Holds(c.op, CellAt(x, c), c.val)
  <2>1. CASE c.op \notin Orderings
    BY <1>6, <2>1, PlainIsHolds
  <2>2. CASE c.op \in Orderings /\ TypeOf(c) \notin Optional
    <3>1. c.val # Null
      BY <2>2, ComparisonIs DEF Optional
    <3>2. CellAt(x, c) # Null
      BY <1>4, <1>7, <2>2, OrderedCellIsNotNull DEF Orderings, Ordered, Equality
    <3>3. QED
      BY <1>6, <3>1, <3>2, PlainIsHolds
  <2>3. CASE c.op \in Orderings /\ TypeOf(c) \in Optional
    <3>1. c.op \in {">", ">="} /\ c.val # Null
      BY <2>3, NoPlainFaults DEF Orderings, Ordered, Equality
    <3>2. QED
      BY <3>1, NullComesFirst
  <2>4. QED
    BY <2>1, <2>2, <2>3
<1>10. QED
  BY <1>5, <1>6, <1>8, <1>9

(* ----- the steps of a clause ----- *)

Faults == KnownQueryFaults \cup KnownPlainFaults \cup {"truepredicate"}
Operands ==
    [q : Nat, means : SUBSET Table, plain : [Table -> BOOLEAN \cup {Null}],
     faults : SUBSET Faults, conjunction : BOOLEAN, leaves : SUBSET Nat,
     changed : BOOLEAN, stale : BOOLEAN]

Shape ==
    /\ generated \in BOOLEAN /\ followed \in BOOLEAN
    /\ core \in Cores
    /\ root \in 0..Len(core)
    /\ root = 0 => /\ core = <<>> /\ operands = <<>> /\ chain = <<>>
                   /\ entry = NoEntry /\ ~followed
    /\ \E S : chain \in Seq(S)
    /\ operands \in Seq(Operands)
    /\ Len(operands) <= MaxOperands
    /\ \A i \in DOMAIN operands : operands[i].q \in DOMAIN core

\* In a generated build every rbool owns its query.
Owned ==
    generated =>
        \A i \in DOMAIN operands :
            /\ operands[i].q # root
            /\ \A j \in DOMAIN operands : operands[i].q = operands[j].q => i = j

\* The comparisons are numbered in the order they are made.
LeafSet == UNION {operands[i].leaves : i \in DOMAIN operands}
Counted == \E n \in Nat : LeafSet = 1..n

\* An operator on the i-th rbool: it is left changed, and its new query,
\* which no other rbool's has become, is returned with it.
Combined(i, o, extent) ==
    /\ operands' \in Seq(Operands) /\ Len(operands') = Len(operands) + 1
    /\ \A k \in DOMAIN operands : k # i => operands'[k] = operands[k]
    /\ operands'[i] = [operands[i] EXCEPT !.q = operands'[i].q, !.changed = TRUE]
    /\ operands'[Len(operands) + 1] = o
    /\ core' \in Cores /\ Len(core') >= Len(core)
    /\ \A k \in DOMAIN core : k # operands[i].q => core'[k] = core[k]
    /\ core'[operands[i].q] \in {core[operands[i].q], extent}
    /\ operands'[i].q \in DOMAIN core' /\ core'[operands'[i].q] = extent
    /\ o.q \in DOMAIN core' /\ core'[o.q] = extent
    /\ IF generated THEN operands'[i].q = operands[i].q /\ o.q \notin DOMAIN core
       ELSE o.q = operands'[i].q /\ (o.q = operands[i].q \/ o.q \notin DOMAIN core)
    /\ UNCHANGED <<generated, root, chain, entry, followed>>

\* What an operator on the i-th rbool makes of the core queries: q is the
\* new query, and no other rbool's has become it.
Keeps(cores, i, q) ==
    /\ cores \in Cores /\ q \in DOMAIN cores /\ Len(cores) >= Len(core)
    /\ \A k \in DOMAIN core : k # operands[i].q => cores[k] = core[k]
    /\ cores[operands[i].q] \in {core[operands[i].q], cores[q]}
    /\ IF generated THEN q = operands[i].q
       ELSE q = operands[i].q \/ q \notin DOMAIN core

\* An operator that returns *this combines its operand.
LEMMA ReturnIs ==
    ASSUME Shape, NEW i \in DOMAIN operands, CanCombine(i),
           NEW cores, NEW q, Keeps(cores, i, q),
           NEW means \in SUBSET Table, NEW plain \in [Table -> BOOLEAN \cup {Null}],
           NEW faults \in SUBSET Faults, NEW conjunction \in BOOLEAN,
           NEW leaves \in SUBSET Nat, NEW stale \in BOOLEAN,
           Return(cores, i, q, means, plain, faults, conjunction, leaves, stale)
    PROVE  \E o \in Operands :
              /\ Combined(i, o, cores[q])
              /\ o.means = means /\ o.plain = plain /\ o.faults = faults
              /\ o.conjunction = conjunction /\ o.leaves = leaves /\ o.stale = stale
              /\ ~o.changed
              /\ q = operands[i].q => core'[operands[i].q] = cores[q]
<1> DEFINE copy == CopyOf(cores, q)
           o == Operand(copy.q, means, plain, faults, conjunction, leaves, stale)
           changed == Changed(i, q)
<1>0. /\ cores \in Cores /\ q \in DOMAIN cores /\ Len(cores) >= Len(core)
      /\ \A k \in DOMAIN core : k # operands[i].q => cores[k] = core[k]
      /\ cores[operands[i].q] \in {core[operands[i].q], cores[q]}
      /\ IF generated THEN q = operands[i].q
         ELSE q = operands[i].q \/ q \notin DOMAIN core
  BY DEF Keeps
<1>1. /\ copy.core \in Cores
      /\ Len(copy.core) >= Len(cores)
      /\ \A k \in DOMAIN cores : copy.core[k] = cores[k]
      /\ copy.q \in DOMAIN copy.core
      /\ copy.core[copy.q] = cores[q]
      /\ copy.q = IF generated THEN Len(cores) + 1 ELSE q
  BY <1>0, CopyIs
<1>2. /\ core' = copy.core
      /\ operands' = Append(changed, o)
      /\ UNCHANGED <<generated, root, chain, entry, followed>>
  BY DEF Return
<1>a. /\ DOMAIN core = 1..Len(core) /\ DOMAIN cores = 1..Len(cores)
      /\ DOMAIN copy.core = 1..Len(copy.core)
      /\ Len(core) \in Nat /\ Len(cores) \in Nat /\ Len(copy.core) \in Nat
  BY <1>0, <1>1 DEF Shape, Cores
<1> HIDE DEF copy
<1>3. copy.q \in Nat /\ q \in Nat
  BY <1>0, <1>1, <1>a
<1>4. /\ o \in Operands
      /\ o.q = copy.q /\ o.means = means /\ o.plain = plain /\ o.faults = faults
      /\ o.conjunction = conjunction /\ o.leaves = leaves /\ o.stale = stale /\ ~o.changed
  BY <1>3 DEF Operand, Operands
<1> HIDE DEF o
<1>5. operands \in Seq(Operands) /\ operands[i] \in Operands /\ Len(operands) \in Nat
      /\ DOMAIN operands = 1..Len(operands)
  BY DEF Shape
<1>6. /\ changed \in Seq(Operands) /\ Len(changed) = Len(operands)
      /\ \A k \in DOMAIN operands : k # i => changed[k] = operands[k]
      /\ changed[i] = [operands[i] EXCEPT !.q = q, !.changed = TRUE]
  <2> DEFINE x == [operands[i] EXCEPT !.q = q, !.changed = TRUE]
  <2>1. x \in Operands
    BY <1>3, <1>5 DEF Operands
  <2>2. changed = [operands EXCEPT ![i] = x]
    BY <1>5 DEF Changed
  <2> HIDE DEF x, changed
  <2>3. QED
    BY <1>5, <2>1, <2>2 DEF x
<1> HIDE DEF changed
<1>7. /\ operands' \in Seq(Operands) /\ Len(operands') = Len(operands) + 1
      /\ \A k \in DOMAIN operands : operands'[k] = changed[k]
      /\ operands'[Len(operands) + 1] = o
  <2>1. Append(changed, o) \in Seq(Operands) /\ DOMAIN changed = 1..Len(changed)
    BY <1>4, <1>6
  <2>2. /\ Len(Append(changed, o)) = Len(changed) + 1
        /\ \A k \in 1..Len(changed) : Append(changed, o)[k] = changed[k]
        /\ Append(changed, o)[Len(changed) + 1] = o
    BY <1>4, <1>6, AppendProperties
  <2>3. QED
    BY <1>2, <1>5, <1>6, <2>1, <2>2
<1>8. changed[i].q = q
  BY <1>5, <1>6 DEF Operands
<1>b. operands'[i] = changed[i]
  BY <1>7
<1>9. operands'[i] = [operands[i] EXCEPT !.q = operands'[i].q, !.changed = TRUE]
  BY <1>6, <1>8, <1>b
<1>10. operands[i].q \in DOMAIN core /\ operands[i].q \in DOMAIN cores
  BY <1>0, <1>a DEF Shape
<1>11. Combined(i, o, cores[q])
  <2>1. \A k \in DOMAIN core : k # operands[i].q => core'[k] = core[k]
    BY <1>0, <1>1, <1>2, <1>a
  <2>2. core'[operands[i].q] \in {core[operands[i].q], cores[q]}
    BY <1>0, <1>1, <1>2, <1>10
  <2>3. operands'[i].q = q
    BY <1>8, <1>b
  <2>4. q \in DOMAIN core' /\ core'[q] = cores[q]
    BY <1>0, <1>1, <1>2, <1>a
  <2>5. o.q \in DOMAIN core' /\ core'[o.q] = cores[q]
    BY <1>0, <1>1, <1>2, <1>4
  <2>6. IF generated THEN q = operands[i].q /\ o.q \notin DOMAIN core
        ELSE o.q = q /\ (o.q = operands[i].q \/ o.q \notin DOMAIN core)
    BY <1>0, <1>1, <1>4, <1>a
  <2>7. core' \in Cores /\ Len(core') >= Len(core)
    BY <1>0, <1>1, <1>2, <1>a
  <2>8. \A k \in DOMAIN operands : k # i => operands'[k] = operands[k]
    BY <1>6, <1>7
  <2>9. QED
    BY <1>2, <1>7, <1>9, <2>1, <2>2, <2>3, <2>4, <2>5, <2>6, <2>7, <2>8 DEF Combined
<1>12. q = operands[i].q => core'[operands[i].q] = cores[q]
  BY <1>0, <1>1, <1>2, <1>a
<1>13. QED
  BY <1>4, <1>11, <1>12

\* An rbool is a record, and its query one of the core queries.
LEMMA OperandIs ==
    ASSUME Shape, NEW i \in DOMAIN operands
    PROVE  /\ operands[i] \in Operands /\ operands[i].q \in DOMAIN core
           /\ core[operands[i].q] \in SUBSET Rows
<1>1. operands[i] \in Operands /\ operands[i].q \in DOMAIN core
  BY DEF Shape
<1>2. QED
  BY <1>1 DEF Shape, Cores

\* && narrows the query of its left operand, and returns it.
LEMMA AndIs ==
    ASSUME Shape, NEW i \in DOMAIN operands, NEW j \in DOMAIN operands, And(i, j)
    PROVE  \E o \in Operands :
              LET a == operands[i]
                  b == operands[j]
                  both == core[a.q] \cap core[b.q]
              IN  /\ Combined(i, o, both) /\ core'[a.q] = both
                  /\ o.means = a.means \cap b.means
                  /\ o.plain = [r \in Table |->
                                   IF Null \in {a.plain[r], b.plain[r]} THEN Null
                                   ELSE a.plain[r] /\ b.plain[r]]
                  /\ o.faults = a.faults \cup b.faults
                  /\ o.conjunction = (a.conjunction /\ b.conjunction)
                  /\ o.leaves = a.leaves \cup b.leaves
                  /\ o.stale = (a.changed \/ b.changed) /\ ~o.changed
<1> DEFINE a == operands[i]
           b == operands[j]
           both == core[a.q] \cap core[b.q]
           cores == AndQuery(i, j)
           plain == Both(i, j, LAMBDA x, y : x /\ y)
           means == a.means \cap b.means
           faults == a.faults \cup b.faults
           conjunction == a.conjunction /\ b.conjunction
           leaves == a.leaves \cup b.leaves
           stale == a.changed \/ b.changed
<1>1. /\ a \in Operands /\ a.q \in DOMAIN core /\ core[a.q] \in SUBSET Rows
      /\ b \in Operands /\ b.q \in DOMAIN core /\ core[b.q] \in SUBSET Rows
  BY OperandIs
<1>2. cores = [core EXCEPT ![a.q] = both] /\ both \in SUBSET Rows
  BY <1>1 DEF AndQuery
<1>3. core \in Cores
  BY DEF Shape
<1>4. plain \in [Table -> BOOLEAN \cup {Null}]
  <2>1. a.plain \in [Table -> BOOLEAN \cup {Null}] /\ b.plain \in [Table -> BOOLEAN \cup {Null}]
    BY <1>1 DEF Operands
  <2>2. QED
    BY <2>1 DEF Both
<1>5. /\ means \in SUBSET Table /\ faults \in SUBSET Faults
      /\ conjunction \in BOOLEAN /\ leaves \in SUBSET Nat /\ stale \in BOOLEAN
  BY <1>1 DEF Operands
<1>6. /\ CanCombine(i)
      /\ Return(cores, i, a.q, means, plain, faults, conjunction, leaves, stale)
  BY DEF And
<1>d. plain = [r \in Table |->
                  IF Null \in {a.plain[r], b.plain[r]} THEN Null ELSE a.plain[r] /\ b.plain[r]]
  BY DEF Both
<1>b. a.q = operands[i].q
  OBVIOUS
<1> HIDE DEF a, b, both, plain, cores, means, faults, conjunction, leaves, stale
<1>7. /\ cores \in Cores /\ Len(cores) = Len(core) /\ a.q \in DOMAIN cores
      /\ \A k \in DOMAIN core : k # a.q => cores[k] = core[k]
      /\ cores[a.q] = both
  BY <1>1, <1>2, <1>3 DEF Cores
<1>a. Keeps(cores, i, a.q)
  BY <1>3, <1>7, <1>b DEF Keeps, Cores
<1> DEFINE q == a.q
<1>c. Keeps(cores, i, q) /\ Return(cores, i, q, means, plain, faults, conjunction, leaves, stale)
  BY <1>6, <1>a
<1> HIDE DEF q
<1>8. \E o \in Operands :
         /\ Combined(i, o, cores[q])
         /\ o.means = means /\ o.plain = plain /\ o.faults = faults
         /\ o.conjunction = conjunction /\ o.leaves = leaves /\ o.stale = stale
         /\ ~o.changed
         /\ q = operands[i].q => core'[operands[i].q] = cores[q]
  BY <1>4, <1>5, <1>6, <1>c, ReturnIs
<1>9. QED
  BY <1>7, <1>8, <1>b, <1>d DEF a, b, both, means, faults, conjunction, leaves, stale, q

\* || gives its left operand a query that matches either, and returns it.
LEMMA OrIs ==
    ASSUME Shape, NEW i \in DOMAIN operands, NEW j \in DOMAIN operands, Or(i, j)
    PROVE  \E o \in Operands :
              LET a == operands[i]
                  b == operands[j]
              IN  /\ Combined(i, o, core[a.q] \cup core[b.q])
                  /\ o.means = a.means \cup b.means
                  /\ "plain or" \in o.faults /\ o.faults = a.faults \cup b.faults \cup {"plain or"}
                  /\ ~o.conjunction
                  /\ o.leaves = a.leaves \cup b.leaves
                  /\ o.stale = (a.changed \/ b.changed) /\ ~o.changed
<1> DEFINE a == operands[i]
           b == operands[j]
           either == core[a.q] \cup core[b.q]
           conjunction == FALSE
           new == Replace(core, a.q, either)
           plain == Both(i, j, LAMBDA x, y : x /\ y)
           means == a.means \cup b.means
           faults == a.faults \cup b.faults \cup {"plain or"}
           leaves == a.leaves \cup b.leaves
           stale == a.changed \/ b.changed
<1>1. /\ a \in Operands /\ a.q \in DOMAIN core /\ core[a.q] \in SUBSET Rows
      /\ b \in Operands /\ b.q \in DOMAIN core /\ core[b.q] \in SUBSET Rows
  BY OperandIs
<1>2. either \in SUBSET Rows
  BY <1>1
<1>3. core \in Cores
  BY DEF Shape
<1>4. plain \in [Table -> BOOLEAN \cup {Null}]
  <2>1. a.plain \in [Table -> BOOLEAN \cup {Null}] /\ b.plain \in [Table -> BOOLEAN \cup {Null}]
    BY <1>1 DEF Operands
  <2>2. QED
    BY <2>1 DEF Both
<1>5. /\ means \in SUBSET Table /\ faults \in SUBSET Faults
      /\ conjunction \in BOOLEAN /\ leaves \in SUBSET Nat /\ stale \in BOOLEAN
  <2>1. /\ a.means \in SUBSET Table /\ b.means \in SUBSET Table
        /\ a.faults \in SUBSET Faults /\ b.faults \in SUBSET Faults
        /\ a.leaves \in SUBSET Nat /\ b.leaves \in SUBSET Nat
        /\ a.changed \in BOOLEAN /\ b.changed \in BOOLEAN
    BY <1>1 DEF Operands
  <2>2. "plain or" \in Faults
    BY DEF Faults, KnownPlainFaults
  <2> HIDE DEF a, b
  <2>3. QED
    BY <2>1, <2>2
<1>6. /\ CanCombine(i)
      /\ Return(new.core, i, new.q, means, plain, faults, conjunction, leaves, stale)
  BY DEF Or
<1>b. a.q = operands[i].q
  OBVIOUS
<1> HIDE DEF a, b, either, plain, conjunction, means, faults, leaves, stale
<1>7. /\ new.core \in Cores
      /\ Len(new.core) = IF generated THEN Len(core) ELSE Len(core) + 1
      /\ \A k \in DOMAIN core : k # a.q \/ ~generated => new.core[k] = core[k]
      /\ new.core[new.q] = either
      /\ new.q = IF generated THEN a.q ELSE Len(core) + 1
  BY <1>1, <1>2, <1>3, ReplaceIs
<1> HIDE DEF new
<1>c. /\ DOMAIN core = 1..Len(core) /\ DOMAIN new.core = 1..Len(new.core)
      /\ Len(core) \in Nat
  BY <1>3, <1>7 DEF Cores
<1>a. Keeps(new.core, i, new.q)
  BY <1>1, <1>7, <1>b, <1>c DEF Keeps
<1>8. \E o \in Operands :
         /\ Combined(i, o, new.core[new.q])
         /\ o.means = means /\ o.plain = plain /\ o.faults = faults
         /\ o.conjunction = conjunction /\ o.leaves = leaves /\ o.stale = stale
         /\ ~o.changed
         /\ new.q = operands[i].q => core'[operands[i].q] = new.core[new.q]
  BY <1>4, <1>5, <1>6, <1>a, ReturnIs
<1>9. QED
  BY <1>7, <1>8 DEF a, b, either, conjunction, means, faults, leaves, stale

\* ! gives its operand a query that matches the other rows, and returns it.
LEMMA NotIs ==
    ASSUME Shape, NEW i \in DOMAIN operands, Not(i)
    PROVE  \E o \in Operands :
              LET a == operands[i]
              IN  /\ Combined(i, o, Table \ core[a.q])
                  /\ o.means = Table \ a.means
                  /\ o.plain = [r \in Table |-> IF a.plain[r] = Null THEN Null ELSE ~a.plain[r]]
                  /\ o.faults = a.faults
                  /\ ~o.conjunction
                  /\ o.leaves = a.leaves
                  /\ o.stale = a.changed /\ ~o.changed
<1> DEFINE a == operands[i]
           rest == Table \ core[a.q]
           conjunction == FALSE
           new == Replace(core, a.q, rest)
           means == Table \ a.means
           plain == [r \in Table |-> IF a.plain[r] = Null THEN Null ELSE ~a.plain[r]]
<1>1. /\ a \in Operands /\ a.q \in DOMAIN core /\ core[a.q] \in SUBSET Rows
  BY OperandIs
<1>2. rest \in SUBSET Rows
  BY DEF Table
<1>3. core \in Cores
  BY DEF Shape
<1>4. plain \in [Table -> BOOLEAN \cup {Null}]
  <2>1. a.plain \in [Table -> BOOLEAN \cup {Null}]
    BY <1>1 DEF Operands
  <2>2. QED
    BY <2>1
<1>5. /\ means \in SUBSET Table
      /\ a.faults \in SUBSET Faults
      /\ conjunction \in BOOLEAN
      /\ a.leaves \in SUBSET Nat
      /\ a.changed \in BOOLEAN
  BY <1>1 DEF Operands
<1>6. /\ CanCombine(i)
      /\ Return(new.core, i, new.q, means, plain, a.faults, conjunction, a.leaves, a.changed)
  BY DEF Not, Negate
<1>b. a.q = operands[i].q
  OBVIOUS
<1> HIDE DEF a, rest, plain, conjunction, means
<1>7. /\ new.core \in Cores
      /\ Len(new.core) = IF generated THEN Len(core) ELSE Len(core) + 1
      /\ \A k \in DOMAIN core : k # a.q \/ ~generated => new.core[k] = core[k]
      /\ new.core[new.q] = rest
      /\ new.q = IF generated THEN a.q ELSE Len(core) + 1
  BY <1>1, <1>2, <1>3, ReplaceIs
<1> HIDE DEF new
<1>c. /\ DOMAIN core = 1..Len(core) /\ DOMAIN new.core = 1..Len(new.core)
      /\ Len(core) \in Nat
  BY <1>3, <1>7 DEF Cores
<1>a. Keeps(new.core, i, new.q)
  BY <1>1, <1>7, <1>b, <1>c DEF Keeps
<1>8. \E o \in Operands :
         /\ Combined(i, o, new.core[new.q])
         /\ o.means = means /\ o.plain = plain /\ o.faults = a.faults
         /\ o.conjunction = conjunction /\ o.leaves = a.leaves /\ o.stale = a.changed
         /\ ~o.changed
         /\ new.q = operands[i].q => core'[operands[i].q] = new.core[new.q]
  BY <1>4, <1>5, <1>6, <1>a, ReturnIs
<1>9. QED
  BY <1>7, <1>8 DEF a, rest, conjunction, means, plain

\* Append adds the last element and keeps the others.
LEMMA Appended ==
    ASSUME NEW S, NEW s \in Seq(S), NEW e \in S
    PROVE  /\ Append(s, e) \in Seq(S) /\ Len(Append(s, e)) = Len(s) + 1
           /\ \A k \in DOMAIN s : Append(s, e)[k] = s[k]
           /\ Append(s, e)[Len(s) + 1] = e
  OBVIOUS

Narrows(c) == InPlace(c) /\ chain = <<>>

\* A comparison: the root and the rbool that is returned are given a query,
\* and no other rbool's is touched unless the condition is added in place.
Compared(c, o) ==
    LET result == IF Narrows(c) THEN core[root] \cap Extent(c) ELSE Extent(c)
    IN  /\ operands' \in Seq(Operands) /\ Len(operands') = Len(operands) + 1
        /\ \A k \in DOMAIN operands : operands'[k] = operands[k]
        /\ operands'[Len(operands) + 1] = o
        /\ core' \in Cores /\ Len(core') >= Len(core)
        /\ o.q \in DOMAIN core' /\ o.q \notin DOMAIN core /\ core'[o.q] = result
        /\ root' \in DOMAIN core' /\ core'[root'] = result
        /\ root' = IF generated THEN root ELSE o.q
        /\ \A k \in DOMAIN core : k # root => core'[k] = core[k]
        /\ ~generated => core'[root] = IF Narrows(c) THEN result ELSE core[root]
        /\ chain' = <<>> /\ entry' = NoEntry
        /\ followed' = (followed \/ (Narrows(c) /\ operands # <<>>))
        /\ generated' = generated

\* A comparison returns an rbool for its condition.
LEMMA CompareIs ==
    ASSUME Shape, Counted, NEW c \in Comparisons, Compare(c)
    PROVE  \E o \in Operands :
              /\ Compared(c, o)
              /\ o.means = Meaning(c) /\ o.plain = Evaluated(c)
              /\ o.faults = QueryFaults(c) \cup PlainFaults(c)
              /\ o.conjunction /\ o.leaves = {Leaves + 1} /\ ~o.stale /\ ~o.changed
<1> DEFINE op == Types[TypeOf(c)].query[c.op]
           new == CASE TypeOf(c) = "mixed" -> MixedEqual(op, c)
                    [] InPlace(c) /\ TypeOf(c) # "mixed" -> LinkEqual(op, c)
                    [] OTHER -> Replace(core, root, Rebuilt(op, c))
           copy == CopyOf(new.core, new.q)
           result == IF Narrows(c) THEN core[root] \cap Extent(c) ELSE Extent(c)
           means == Meaning(c)
           plain == Evaluated(c)
           faults == QueryFaults(c) \cup PlainFaults(c)
           leaf == Leaves + 1
           o == Operand(copy.q, means, plain, faults, TRUE, {leaf}, FALSE)
<1>1. CanCompare /\ Comparable(c)
  BY DEF Compare
<1>2. /\ core \in Cores /\ Len(core) \in Nat /\ DOMAIN core = 1..Len(core)
      /\ root \in DOMAIN core /\ core[root] \in SUBSET Rows
  <2>1. root # 0
    BY <1>1 DEF CanCompare
  <2>2. QED
    BY <2>1 DEF Shape, Cores
<1>3. Extent(c) \in SUBSET Rows
  BY <1>1, ExtentIs
<1>4. TypeOf(c) = "mixed" => InPlace(c)
  BY DEF InPlace, Accumulating
<1>5. new = IF Narrows(c) THEN AddCondition(core, root, Extent(c))
            ELSE Replace(core, root, Extent(c))
  BY <1>4 DEF MixedEqual, LinkEqual, LinksTo, MixedCondition, Narrows, Extent
<1>6. /\ core' = copy.core
      /\ operands' = Append(operands, o)
      /\ root' = new.q /\ chain' = <<>> /\ entry' = NoEntry
      /\ followed' = (followed \/ (Narrows(c) /\ operands # <<>>))
      /\ generated' = generated
  BY DEF Compare, Push, Meaning, Narrows
<1> HIDE DEF op, new
<1>7. /\ new.core \in Cores
      /\ Len(new.core) = IF generated THEN Len(core) ELSE Len(core) + 1
      /\ \A k \in DOMAIN core : k # root => new.core[k] = core[k]
      /\ new.core[new.q] = result
      /\ new.q = IF generated THEN root ELSE Len(core) + 1
      /\ ~generated => new.core[root] = IF Narrows(c) THEN result ELSE core[root]
  <2> DEFINE E == Extent(c)
             narrowed == AddCondition(core, root, E)
             replaced == Replace(core, root, E)
  <2>a. E \in SUBSET Rows
    BY <1>3
  <2>1. CASE Narrows(c)
    <3>1. new = narrowed /\ result = core[root] \cap E
      BY <1>5, <2>1
    <3> HIDE DEF E, result
    <3>2. /\ narrowed.core \in Cores
          /\ Len(narrowed.core) = IF generated THEN Len(core) ELSE Len(core) + 1
          /\ \A k \in DOMAIN core : k # root => narrowed.core[k] = core[k]
          /\ narrowed.core[root] = core[root] \cap E
          /\ narrowed.core[narrowed.q] = core[root] \cap E
          /\ narrowed.q = IF generated THEN root ELSE Len(core) + 1
      <4>1. core \in Cores /\ root \in DOMAIN core
        BY <1>2
      <4>2. QED
        BY <2>a, <4>1, AddConditionIs, Zenon
    <3> HIDE DEF narrowed
    <3>3. QED
      BY <2>1, <3>1, <3>2
  <2>2. CASE ~Narrows(c)
    <3>1. new = replaced /\ result = E
      BY <1>5, <2>2
    <3> HIDE DEF E, result
    <3>2. /\ replaced.core \in Cores
          /\ Len(replaced.core) = IF generated THEN Len(core) ELSE Len(core) + 1
          /\ \A k \in DOMAIN core : k # root \/ ~generated => replaced.core[k] = core[k]
          /\ replaced.core[replaced.q] = E
          /\ replaced.q = IF generated THEN root ELSE Len(core) + 1
      BY <1>2, <2>a, ReplaceIs
    <3> HIDE DEF replaced
    <3>3. QED
      BY <1>2, <2>2, <3>1, <3>2
  <2>3. QED
    BY <2>1, <2>2
<1> HIDE DEF result
<1>8. /\ Len(new.core) \in Nat /\ DOMAIN new.core = 1..Len(new.core)
      /\ new.q \in DOMAIN new.core /\ root \in DOMAIN new.core
  BY <1>2, <1>7 DEF Cores
<1>9. /\ copy.core \in Cores
      /\ Len(copy.core) >= Len(new.core)
      /\ \A k \in DOMAIN new.core : copy.core[k] = new.core[k]
      /\ copy.q \in DOMAIN copy.core
      /\ copy.core[copy.q] = result
      /\ copy.q = IF generated THEN Len(new.core) + 1 ELSE new.q
  BY <1>7, <1>8, CopyIs
<1> HIDE DEF copy
<1>10. /\ Len(copy.core) \in Nat /\ DOMAIN copy.core = 1..Len(copy.core)
  BY <1>9 DEF Cores
<1>11. /\ o \in Operands
       /\ o.q = copy.q /\ o.means = means /\ o.plain = plain /\ o.faults = faults
       /\ o.conjunction /\ o.leaves = {leaf} /\ ~o.stale /\ ~o.changed
  <2>1. copy.q \in Nat
    BY <1>9, <1>10
  <2>2. means \in SUBSET Table
    BY DEF Meaning
  <2>3. plain \in [Table -> BOOLEAN \cup {Null}]
    <3> DEFINE p == Types[TypeOf(c)].plain[c.op]
    <3>1. p \in Comparing
      BY OperatorsOf DEF Comparing
    <3> HIDE DEF p
    <3>2. \A r \in Table : PlainHolds(p, CellAt(Reached(r), c), c.val) \in BOOLEAN
      BY <3>1, HoldsIsBoolean
    <3>3. QED
      BY <3>2 DEF Evaluated, p
  <2>4. faults \in SUBSET Faults
    BY DEF QueryFaults, PlainFaults, Faults, KnownQueryFaults, KnownPlainFaults
  <2>5. leaf \in Nat
    <3>1. PICK n \in Nat : LeafSet = 1..n
      BY DEF Counted
    <3>2. Cardinality(1..n) = n
      BY FS_Interval
    <3>3. Leaves = Cardinality(LeafSet)
      BY DEF Leaves, LeafSet
    <3>4. QED
      BY <3>1, <3>2, <3>3
  <2> HIDE DEF means, plain, faults, leaf
  <2>6. QED
    BY <2>1, <2>2, <2>3, <2>4, <2>5 DEF Operand, Operands
<1> HIDE DEF means, plain, faults, leaf, o
<1>12. /\ operands' \in Seq(Operands) /\ Len(operands') = Len(operands) + 1
       /\ \A k \in DOMAIN operands : operands'[k] = operands[k]
       /\ operands'[Len(operands) + 1] = o
  <2>1. operands \in Seq(Operands) /\ DOMAIN operands = 1..Len(operands)
    BY DEF Shape
  <2>2. QED
    BY <1>6, <1>11, <2>1, Appended
<1>13. Compared(c, o)
  <2>1. /\ core' \in Cores /\ Len(core') >= Len(core)
        /\ o.q \in DOMAIN core' /\ o.q \notin DOMAIN core /\ core'[o.q] = result
    BY <1>2, <1>6, <1>7, <1>8, <1>9, <1>10, <1>11
  <2>2. /\ root' \in DOMAIN core' /\ core'[root'] = result
        /\ root' = IF generated THEN root ELSE o.q
    BY <1>6, <1>7, <1>8, <1>9, <1>10, <1>11
  <2>3. /\ \A k \in DOMAIN core : k # root => core'[k] = core[k]
        /\ ~generated => core'[root] = IF Narrows(c) THEN result ELSE core[root]
    BY <1>2, <1>6, <1>7, <1>8, <1>9
  <2>4. QED
    BY <1>6, <1>12, <2>1, <2>2, <2>3 DEF Compared, result
<1>14. QED
  BY <1>11, <1>13 DEF means, plain, faults, leaf

\* truepredicate and falsepredicate: an rbool with a query of its own.
Throwing == [r \in Table |-> Null]
Made(extent, faults, conjunction) ==
    /\ core' = NewCore(extent)
    /\ operands' = Append(operands,
           Operand(Len(core) + 1, extent, Throwing, faults, conjunction, {}, FALSE))
    /\ UNCHANGED <<generated, root, chain, entry, followed>>
Predicate(o, extent) ==
    /\ operands' \in Seq(Operands) /\ Len(operands') = Len(operands) + 1
    /\ \A k \in DOMAIN operands : operands'[k] = operands[k]
    /\ operands'[Len(operands) + 1] = o
    /\ core' \in Cores /\ Len(core') >= Len(core)
    /\ \A k \in DOMAIN core : core'[k] = core[k]
    /\ o.q \in DOMAIN core' /\ o.q \notin DOMAIN core /\ core'[o.q] = extent
    /\ o.means = extent /\ o.plain = Throwing /\ o.leaves = {}
    /\ ~o.stale /\ ~o.changed
    /\ UNCHANGED <<generated, root, chain, entry, followed>>

\* truepredicate() and falsepredicate() return an rbool with a query of its own.
LEMMA PredicateIs ==
    ASSUME Shape, NEW extent \in SUBSET Table, NEW faults \in SUBSET Faults,
           NEW conjunction \in BOOLEAN,
           Made(extent, faults, conjunction)
    PROVE  \E o \in Operands :
              Predicate(o, extent) /\ o.faults = faults /\ o.conjunction = conjunction
<1> DEFINE plain == Throwing
           o == Operand(Len(core) + 1, extent, plain, faults, conjunction, {}, FALSE)
<1>1. core \in Cores /\ Len(core) \in Nat /\ DOMAIN core = 1..Len(core) /\ extent \in SUBSET Rows
  BY DEF Shape, Cores, Table
<1>2. /\ core' \in Cores /\ Len(core') = Len(core) + 1 /\ DOMAIN core' = 1..Len(core')
      /\ \A k \in DOMAIN core : core'[k] = core[k]
      /\ core'[Len(core) + 1] = extent
  BY <1>1 DEF Made, NewCore, Cores
<1>3. plain \in [Table -> BOOLEAN \cup {Null}]
  BY DEF Throwing
<1>4. operands' = Append(operands, o) /\ UNCHANGED <<generated, root, chain, entry, followed>>
  BY DEF Made
<1>5. /\ o \in Operands
      /\ o.q = Len(core) + 1 /\ o.means = extent /\ o.plain = plain /\ o.faults = faults
      /\ o.conjunction = conjunction /\ o.leaves = {} /\ ~o.stale /\ ~o.changed
  BY <1>1, <1>3 DEF Operand, Operands
<1> HIDE DEF o
<1>6. /\ operands' \in Seq(Operands) /\ Len(operands') = Len(operands) + 1
      /\ \A k \in DOMAIN operands : operands'[k] = operands[k]
      /\ operands'[Len(operands) + 1] = o
  <2>1. operands \in Seq(Operands) /\ DOMAIN operands = 1..Len(operands)
    BY DEF Shape
  <2>2. QED
    <3>1. /\ Append(operands, o) \in Seq(Operands) /\ Len(Append(operands, o)) = Len(operands) + 1
          /\ \A k \in DOMAIN operands : Append(operands, o)[k] = operands[k]
          /\ Append(operands, o)[Len(operands) + 1] = o
      BY <1>5, <2>1, Appended
    <3>2. QED
      BY <1>4, <3>1
<1>7. /\ o.q \in DOMAIN core' /\ o.q \notin DOMAIN core /\ core'[o.q] = extent
      /\ Len(core') >= Len(core)
  BY <1>1, <1>2, <1>5
<1>8. Predicate(o, extent)
  BY <1>2, <1>4, <1>5, <1>6, <1>7 DEF Predicate
<1>9. QED
  BY <1>5, <1>8

(* ----- the inductive invariant of a clause ----- *)

NoneStale == \A i \in DOMAIN operands : ~operands[i].stale
Unfaulty(o) == o.faults \cap KnownQueryFaults = {}

\* Until something is compared the root holds the whole table.
RootIsWhole == root # 0 /\ operands = <<>> => core[root] = Table

\* The queries are over the table of the clause.
OfTable ==
    \A i \in DOMAIN operands :
        "dictionary link" \notin operands[i].faults => core[operands[i].q] \subseteq Table

\* What is evaluated on an object is what the clause means of it.
PlainAgrees ==
    \A i \in DOMAIN operands :
        operands[i].faults \cap (KnownQueryFaults \cup KnownPlainFaults) = {} =>
            \A r \in Table : operands[i].plain[r] # Null =>
                operands[i].plain[r] = (r \in operands[i].means)

\* Rbools that no operator has changed do not share a query.
Apart ==
    NoneStale =>
        \A i, j \in DOMAIN operands :
            /\ ~operands[i].changed /\ ~operands[j].changed
            /\ operands[i].q = operands[j].q
            => i = j

\* As long as no condition is added in place after another, each of them
\* matches what it means.
Exact ==
    NoneStale /\ ~followed =>
        \A i \in DOMAIN operands :
            ~operands[i].changed /\ Unfaulty(operands[i]) =>
                core[operands[i].q] = operands[i].means

\* In a clause of conjunctions every query lies between the conjunction of
\* all conditions, in place or not, and what its rbool means.
AllOf(lx, n) == {r \in Table : \A l \in 1..n : r \in lx[l]}
Between(lx, n, cores, top, ops) ==
    /\ top # 0 => AllOf(lx, n) \subseteq cores[top]
    /\ \A i \in DOMAIN ops :
          /\ ~ops[i].changed => AllOf(lx, n) \subseteq cores[ops[i].q]
          /\ Unfaulty(ops[i]) =>
                /\ ~ops[i].changed => cores[ops[i].q] \subseteq ops[i].means
                /\ \A l \in ops[i].leaves : ops[i].means \subseteq lx[l]
Conjunctive ==
    NoneStale /\ (\A i \in DOMAIN operands : operands[i].conjunction) =>
        \E n \in Nat :
            /\ LeafSet = 1..n
            /\ \E lx \in [1..n -> SUBSET Rows] : Between(lx, n, core, root, operands)

QInv ==
    /\ Shape /\ Owned /\ Counted /\ RootIsWhole /\ OfTable /\ ChainLeads
    /\ PlainAgrees /\ Apart /\ Exact /\ Conjunctive

\* Rbools are only added, so the operands of before keep their places.
LEMMA Places ==
    ASSUME operands \in Seq(Operands), operands' \in Seq(Operands),
           Len(operands') = Len(operands) + 1
    PROVE  /\ DOMAIN operands = 1..Len(operands) /\ Len(operands) \in Nat
           /\ DOMAIN operands' = DOMAIN operands \cup {Len(operands) + 1}
           /\ Len(operands) + 1 \notin DOMAIN operands
           /\ operands' # <<>>
<1>1. /\ DOMAIN operands = 1..Len(operands) /\ Len(operands) \in Nat
      /\ DOMAIN operands' = 1..Len(operands')
  OBVIOUS
<1>2. operands' # <<>>
  BY <1>1
<1>3. QED
  BY <1>1, <1>2

\* Nothing is followed at the beginning of a comparison.
LEMMA ChainLeadsNowhere ==
    ASSUME chain' = <<>>, entry' = NoEntry
    PROVE  ChainLeads'
<1>1. Class' = ClassAfter(chain')
  BY DEF Class, ClassAfter
<1>2. Class' = Queried
  BY <1>1, ClassAfterNothing
<1>3. \A r \in Table : Follow(r, chain') = r
  BY FollowNothing
<1>4. \A r \in Table : r \in Rows /\ r[1] = Queried
  BY DEF Table
<1>5. QED
  BY <1>2, <1>3, <1>4 DEF ChainLeads

\* A comparison keeps the invariant.
LEMMA CompareKeeps ==
    ASSUME QInv, NEW c \in Comparisons, Compare(c)
    PROVE  QInv'
<1>1. PICK o \in Operands :
         /\ Compared(c, o)
         /\ o.means = Meaning(c) /\ o.plain = Evaluated(c)
         /\ o.faults = QueryFaults(c) \cup PlainFaults(c)
         /\ o.conjunction /\ o.leaves = {Leaves + 1} /\ ~o.stale /\ ~o.changed
  BY CompareIs DEF QInv
<1> DEFINE n == Len(operands)
           E == Extent(c)
           result == IF Narrows(c) THEN core[root] \cap E ELSE E
<1>2. /\ operands' \in Seq(Operands) /\ Len(operands') = n + 1
      /\ \A k \in DOMAIN operands : operands'[k] = operands[k]
      /\ operands'[n + 1] = o
      /\ core' \in Cores /\ Len(core') >= Len(core)
      /\ o.q \in DOMAIN core' /\ o.q \notin DOMAIN core /\ core'[o.q] = result
      /\ root' \in DOMAIN core' /\ core'[root'] = result
      /\ root' = IF generated THEN root ELSE o.q
      /\ \A k \in DOMAIN core : k # root => core'[k] = core[k]
      /\ ~generated => core'[root] = IF Narrows(c) THEN result ELSE core[root]
      /\ chain' = <<>> /\ entry' = NoEntry
      /\ followed' = (followed \/ (Narrows(c) /\ operands # <<>>))
      /\ generated' = generated
  BY <1>1 DEF Compared
<1>3. /\ Shape /\ Owned /\ Counted /\ RootIsWhole /\ OfTable
      /\ PlainAgrees /\ Apart /\ Exact /\ Conjunctive /\ ChainLeads
  BY DEF QInv
<1>4. CanCompare /\ Comparable(c)
  BY DEF Compare
<1>5. /\ core \in Cores /\ Len(core) \in Nat /\ DOMAIN core = 1..Len(core)
      /\ root # 0 /\ root \in DOMAIN core /\ DOMAIN core' = 1..Len(core')
      /\ Len(core') \in Nat
  BY <1>2, <1>3, <1>4 DEF CanCompare, Shape, Cores
<1>6. /\ DOMAIN operands = 1..n /\ n \in Nat
      /\ DOMAIN operands' = DOMAIN operands \cup {n + 1}
      /\ n + 1 \notin DOMAIN operands /\ operands' # <<>>
      /\ operands \in Seq(Operands) /\ n < MaxOperands
  BY <1>2, <1>3, <1>4, Places DEF Shape, CanCompare
<1>7. \A i \in DOMAIN operands : operands[i].q \in DOMAIN core /\ operands[i] \in Operands
  BY <1>3 DEF Shape
<1> HIDE DEF n, E
<1>8. \A i \in DOMAIN operands :
         \/ core'[operands[i].q] = core[operands[i].q]
         \/ Narrows(c) /\ operands[i].q = root /\ core'[operands[i].q] = core[root] \cap E
  <2> SUFFICES ASSUME NEW i \in DOMAIN operands
               PROVE  \/ core'[operands[i].q] = core[operands[i].q]
                      \/ /\ Narrows(c) /\ operands[i].q = root
                         /\ core'[operands[i].q] = core[root] \cap E
    OBVIOUS
  <2>1. CASE operands[i].q # root
    BY <1>2, <1>7, <2>1
  <2>2. CASE operands[i].q = root
    <3>1. ~generated
      BY <1>3, <2>2 DEF Owned
    <3>2. QED
      BY <1>2, <2>2, <3>1
  <2>3. QED
    BY <2>1, <2>2
<1>9. /\ E \subseteq Rows /\ (entry = NoEntry => E \subseteq Table)
      /\ (QueryFaults(c) = {} => E = Meaning(c))
  BY <1>4, ExtentIs DEF E
<1>10. Unfaulty(o) => QueryFaults(c) = {}
  BY <1>1 DEF Unfaulty, QueryFaults, KnownQueryFaults
<1>11. Unfaulty(o) => E = o.means
  BY <1>1, <1>9, <1>10
<1>12. NoneStale' => NoneStale
  BY <1>2, <1>6 DEF NoneStale
<1> HIDE DEF result
<1>a. Shape'
  <2>1. core' \in Cores /\ root' \in 0..Len(core') /\ root' # 0
    BY <1>2, <1>5
  <2>2. \E S : chain' \in Seq(S)
    <3>1. chain' \in Seq({})
      BY <1>2
    <3>2. QED
      BY <3>1
  <2>3. Len(operands') <= MaxOperands
    BY <1>2, <1>6, ComparisonsAssumption
  <2>4. \A i \in DOMAIN operands' : operands'[i].q \in DOMAIN core'
    BY <1>2, <1>5, <1>6, <1>7
  <2>5. generated' \in BOOLEAN /\ followed' \in BOOLEAN
    BY <1>2, <1>3 DEF Shape
  <2>6. QED
    BY <1>2, <2>1, <2>2, <2>3, <2>4, <2>5 DEF Shape
<1>b. Owned'
  BY <1>2, <1>3, <1>5, <1>6, <1>7 DEF Owned
<1>l. \A m \in Nat : LeafSet = 1..m => LeafSet' = 1..m + 1 /\ o.leaves = {m + 1}
  <2> SUFFICES ASSUME NEW m \in Nat, LeafSet = 1..m
               PROVE  LeafSet' = 1..m + 1 /\ o.leaves = {m + 1}
    OBVIOUS
  <2>1. Leaves = Cardinality(LeafSet)
    BY DEF Leaves, LeafSet
  <2>2. Leaves = m
    BY <2>1, FS_Interval
  <2>3. LeafSet' = LeafSet \cup {m + 1}
    <3>1. LeafSet' = UNION {operands'[i].leaves : i \in DOMAIN operands'}
      BY DEF LeafSet
    <3>2. LeafSet' = (UNION {operands'[i].leaves : i \in DOMAIN operands}) \cup operands'[n + 1].leaves
      BY <1>6, <3>1
    <3>3. UNION {operands'[i].leaves : i \in DOMAIN operands} = LeafSet
      BY <1>2 DEF LeafSet
    <3>4. operands'[n + 1].leaves = {m + 1}
      BY <1>1, <1>2, <2>2
    <3>5. QED
      BY <3>2, <3>3, <3>4
  <2>4. QED
    BY <1>1, <2>2, <2>3
<1>c. Counted'
  BY <1>3, <1>l DEF Counted
<1>d. RootIsWhole'
  BY <1>6 DEF RootIsWhole
<1>e. OfTable'
  <2>1. ASSUME NEW i \in DOMAIN operands, "dictionary link" \notin operands[i].faults
        PROVE  core'[operands[i].q] \subseteq Table
    <3>1. core[operands[i].q] \subseteq Table
      BY <1>3, <2>1 DEF OfTable
    <3>2. QED
      BY <1>8, <3>1
  <2>2. ASSUME "dictionary link" \notin o.faults
        PROVE  core'[o.q] \subseteq Table
    <3>1. "dictionary link" \notin QueryFaults(c)
      BY <1>1, <2>2
    <3>2. entry = NoEntry
      BY <3>1 DEF QueryFaults
    <3>3. QED
      BY <1>2, <1>9, <3>2 DEF result
  <2>3. QED
    BY <1>2, <1>6, <2>1, <2>2 DEF OfTable
<1>f. ChainLeads'
  BY <1>2, ChainLeadsNowhere
<1>g. PlainAgrees'
  <2>1. ASSUME o.faults \cap (KnownQueryFaults \cup KnownPlainFaults) = {},
               NEW r \in Table, o.plain[r] # Null
        PROVE  o.plain[r] = (r \in o.means)
    <3>1. QueryFaults(c) = {} /\ PlainFaults(c) = {}
      BY <1>1, <2>1 DEF QueryFaults, PlainFaults, KnownQueryFaults, KnownPlainFaults
    <3>2. QED
      BY <1>1, <1>3, <1>4, <2>1, <3>1, EvaluatedIs
  <2>2. QED
    BY <1>2, <1>3, <1>6, <2>1 DEF PlainAgrees
<1>h. Apart'
  BY <1>2, <1>3, <1>6, <1>7, <1>12 DEF Apart
<1>i. Exact'
  <2> SUFFICES ASSUME NoneStale', ~followed', NEW i \in DOMAIN operands',
                      ~operands'[i].changed, Unfaulty(operands'[i])
               PROVE  core'[operands'[i].q] = operands'[i].means
    BY DEF Exact, Unfaulty
  <2>1. ~followed /\ ~(Narrows(c) /\ operands # <<>>) /\ NoneStale
    BY <1>2, <1>3, <1>12 DEF Shape
  <2>2. CASE i \in DOMAIN operands
    <3>1. operands # <<>>
      BY <1>6, <2>2 DEF n
    <3>2. core'[operands[i].q] = core[operands[i].q]
      BY <1>8, <2>1, <2>2, <3>1
    <3>3. QED
      BY <1>2, <1>3, <2>1, <2>2, <3>2 DEF Exact
  <2>3. CASE i = n + 1
    <3>1. E = o.means /\ o.means \subseteq Table
      BY <1>2, <1>11, <2>3 DEF Operands
    <3>2. Narrows(c) => core[root] = Table
      BY <1>3, <1>5, <2>1 DEF RootIsWhole
    <3>3. QED
      BY <1>2, <2>3, <3>1, <3>2 DEF result
  <2>4. QED
    BY <1>6, <2>2, <2>3
<1>j. Conjunctive'
  <2> SUFFICES ASSUME NoneStale', \A i \in DOMAIN operands' : operands'[i].conjunction
               PROVE  \E m \in Nat : /\ LeafSet' = 1..m
                                     /\ \E lx \in [1..m -> SUBSET Rows] : Between(lx, m, core', root', operands')
    BY DEF Conjunctive
  <2>1. \A i \in DOMAIN operands : operands[i].conjunction
    BY <1>2, <1>6
  <2>2. PICK m \in Nat : LeafSet = 1..m /\ \E lx \in [1..m -> SUBSET Rows] : Between(lx, m, core, root, operands)
    BY <1>3, <1>12, <2>1 DEF Conjunctive
  <2>3. PICK lx \in [1..m -> SUBSET Rows] : Between(lx, m, core, root, operands)
    BY <2>2
  <2> DEFINE ly == [l \in 1..m + 1 |-> IF l = m + 1 THEN E ELSE lx[l]]
             All == AllOf(lx, m)
             Now == AllOf(ly, m + 1)
  <2>4. ly \in [1..m + 1 -> SUBSET Rows]
    BY <1>9
  <2>5. /\ \A l \in 1..m : ly[l] = lx[l]
        /\ ly[m + 1] = E
    OBVIOUS
  <2>6. Now = All \cap E
    <3>1. 1..m + 1 = (1..m) \cup {m + 1}
      OBVIOUS
    <3> HIDE DEF ly
    <3>2. QED
      BY <2>5, <3>1 DEF AllOf
  <2> HIDE DEF ly, All, Now
  <2>7. All \subseteq core[root]
    BY <1>5, <2>3 DEF Between, All
  <2>8. Now \subseteq result
    BY <2>6, <2>7 DEF result
  <2>9. ASSUME NEW i \in DOMAIN operands
        PROVE  /\ ~operands[i].changed => Now \subseteq core'[operands[i].q]
               /\ Unfaulty(operands[i]) =>
                    /\ ~operands[i].changed => core'[operands[i].q] \subseteq operands[i].means
                    /\ \A l \in operands[i].leaves : operands[i].means \subseteq ly[l]
    <3>1. /\ ~operands[i].changed => All \subseteq core[operands[i].q]
          /\ Unfaulty(operands[i]) =>
                /\ ~operands[i].changed => core[operands[i].q] \subseteq operands[i].means
                /\ \A l \in operands[i].leaves : operands[i].means \subseteq lx[l]
      BY <2>3 DEF Between, All
    <3>2. operands[i].leaves \subseteq 1..m
      BY <2>2 DEF LeafSet
    <3>3. core'[operands[i].q] \in {core[operands[i].q], core[operands[i].q] \cap E}
      BY <1>8
    <3>4. QED
      BY <2>5, <2>6, <3>1, <3>2, <3>3
  <2>10. /\ Now \subseteq core'[o.q]
         /\ Unfaulty(o) => /\ core'[o.q] \subseteq o.means
                           /\ \A l \in o.leaves : o.means \subseteq ly[l]
    <3>1. Now \subseteq core'[o.q]
      BY <1>2, <2>8
    <3>2. ASSUME Unfaulty(o)
          PROVE  /\ core'[o.q] \subseteq o.means
                 /\ \A l \in o.leaves : o.means \subseteq ly[l]
      <4>1. result \subseteq o.means
        BY <1>11, <3>2 DEF result
      <4>2. o.leaves = {m + 1}
        BY <1>l, <2>2
      <4>3. QED
        BY <1>2, <1>11, <2>5, <3>2, <4>1, <4>2
    <3>3. QED
      BY <3>1, <3>2
  <2>11. Now \subseteq core'[root']
    BY <1>2, <2>8
  <2>12. Between(ly, m + 1, core', root', operands')
    BY <1>2, <1>6, <2>9, <2>10, <2>11 DEF Between, Now, Unfaulty, AllOf
  <2>13. LeafSet' = 1..m + 1 /\ m + 1 \in Nat
    BY <1>l, <2>2
  <2>14. QED
    BY <2>4, <2>12, <2>13
<1>z. QED
  BY <1>a, <1>b, <1>c, <1>d, <1>e, <1>f, <1>g, <1>h, <1>i, <1>j DEF QInv

\* What an operator does is determined by the rbool it returns.
LEMMA CombineKeeps ==
    ASSUME QInv, NEW i \in DOMAIN operands, CanCombine(i),
           NEW o \in Operands, NEW extent \in SUBSET Table,
           Combined(i, o, extent), ~o.changed,
           operands[i].changed => o.stale,
           o.leaves \subseteq LeafSet,
           o.faults \cap (KnownQueryFaults \cup KnownPlainFaults) = {} =>
               \A r \in Table : o.plain[r] # Null => o.plain[r] = (r \in o.means),
           NoneStale /\ ~followed /\ ~o.stale /\ Unfaulty(o) => extent = o.means,
           o.conjunction =>
               \E j \in DOMAIN operands :
                   /\ extent = core[operands[i].q] \cap core[operands[j].q]
                   /\ core'[operands[i].q] = extent
                   /\ o.means = operands[i].means \cap operands[j].means
                   /\ o.faults = operands[i].faults \cup operands[j].faults
                   /\ o.leaves = operands[i].leaves \cup operands[j].leaves
                   /\ o.stale = (operands[i].changed \/ operands[j].changed)
    PROVE  QInv'
<1> DEFINE n == Len(operands)
           a == operands[i]
<1>1. /\ operands' \in Seq(Operands) /\ Len(operands') = n + 1
      /\ \A k \in DOMAIN operands : k # i => operands'[k] = operands[k]
      /\ operands'[i] = [a EXCEPT !.q = operands'[i].q, !.changed = TRUE]
      /\ operands'[n + 1] = o
      /\ core' \in Cores /\ Len(core') >= Len(core)
      /\ \A k \in DOMAIN core : k # a.q => core'[k] = core[k]
      /\ core'[a.q] \in {core[a.q], extent}
      /\ operands'[i].q \in DOMAIN core' /\ core'[operands'[i].q] = extent
      /\ o.q \in DOMAIN core' /\ core'[o.q] = extent
      /\ IF generated THEN operands'[i].q = a.q /\ o.q \notin DOMAIN core
         ELSE o.q = operands'[i].q /\ (o.q = a.q \/ o.q \notin DOMAIN core)
      /\ UNCHANGED <<generated, root, chain, entry, followed>>
  BY DEF Combined
<1>2. /\ Shape /\ Owned /\ Counted /\ RootIsWhole /\ OfTable
      /\ PlainAgrees /\ Apart /\ Exact /\ Conjunctive /\ ChainLeads
  BY DEF QInv
<1>3. n < MaxOperands /\ SameTable /\ chain = <<>> /\ entry = NoEntry
  BY DEF CanCombine
<1>4. /\ DOMAIN operands = 1..n /\ n \in Nat
      /\ DOMAIN operands' = DOMAIN operands \cup {n + 1}
      /\ n + 1 \notin DOMAIN operands /\ operands' # <<>>
      /\ operands \in Seq(Operands)
  BY <1>1, <1>2, Places DEF Shape
<1>5. /\ core \in Cores /\ Len(core) \in Nat /\ DOMAIN core = 1..Len(core)
      /\ Len(core') \in Nat /\ DOMAIN core' = 1..Len(core')
      /\ root \in 0..Len(core) /\ operands # <<>> /\ root # 0
  BY <1>1, <1>2, <1>4 DEF Shape, Cores
<1>6. \A k \in DOMAIN operands : operands[k].q \in DOMAIN core /\ operands[k] \in Operands
  BY <1>2 DEF Shape
<1>7. a \in Operands /\ a.q \in DOMAIN core
  BY <1>6
<1>8. /\ operands'[i].changed /\ operands'[i].stale = a.stale
      /\ operands'[i].means = a.means /\ operands'[i].plain = a.plain
      /\ operands'[i].faults = a.faults /\ operands'[i].conjunction = a.conjunction
      /\ operands'[i].leaves = a.leaves
  BY <1>1, <1>7 DEF Operands
<1> HIDE DEF n, a
<1>9. ASSUME NEW k \in DOMAIN operands
      PROVE  /\ operands'[k].stale = operands[k].stale
             /\ operands'[k].means = operands[k].means /\ operands'[k].plain = operands[k].plain
             /\ operands'[k].faults = operands[k].faults
             /\ operands'[k].conjunction = operands[k].conjunction
             /\ operands'[k].leaves = operands[k].leaves
             /\ ~operands'[k].changed => k # i /\ operands'[k] = operands[k]
  BY <1>1, <1>8 DEF a
<1>10. NoneStale' => NoneStale /\ ~o.stale /\ ~a.changed
  <2> SUFFICES ASSUME NoneStale' PROVE NoneStale /\ ~o.stale /\ ~a.changed
    OBVIOUS
  <2>1. NoneStale
    BY <1>4, <1>9 DEF NoneStale
  <2>2. ~o.stale
    BY <1>1, <1>4 DEF NoneStale
  <2>3. QED
    BY <2>1, <2>2 DEF a
\* Those that were not changed have kept their query, apart from the others.
<1>11. ASSUME NoneStale', NEW k \in DOMAIN operands, ~operands'[k].changed
       PROVE  /\ k # i /\ operands'[k] = operands[k] /\ ~operands[k].changed
              /\ operands[k].q # a.q /\ core'[operands[k].q] = core[operands[k].q]
              /\ operands[k].q # o.q
  <2>1. k # i /\ operands'[k] = operands[k] /\ ~operands[k].changed
    BY <1>9, <1>11
  <2>2. operands[k].q # a.q
    BY <1>2, <1>10, <1>11, <2>1 DEF Apart, a
  <2>3. QED
    BY <1>1, <1>6, <2>1, <2>2
<1>a. Shape'
  <2>1. Len(operands') <= MaxOperands
    BY <1>1, <1>3, <1>4, ComparisonsAssumption
  <2>2. \A k \in DOMAIN operands' : operands'[k].q \in DOMAIN core'
    BY <1>1, <1>4, <1>5, <1>6
  <2>3. \E S : chain' \in Seq(S)
    BY <1>1, <1>2 DEF Shape
  <2>4. generated' \in BOOLEAN /\ followed' \in BOOLEAN /\ root' \in 0..Len(core') /\ root' # 0
    BY <1>1, <1>2, <1>5 DEF Shape
  <2>5. QED
    BY <1>1, <2>1, <2>2, <2>3, <2>4 DEF Shape
<1>b. Owned'
  <2> SUFFICES ASSUME generated, NEW k \in DOMAIN operands'
               PROVE  /\ operands'[k].q # root
                      /\ \A m \in DOMAIN operands' : operands'[k].q = operands'[m].q => k = m
    BY <1>1 DEF Owned
  <2>1. \A m \in DOMAIN operands : operands'[m].q = operands[m].q
    BY <1>1 DEF a
  <2>2. operands'[n + 1].q \notin DOMAIN core
    BY <1>1
  <2>3. root \in DOMAIN core
    BY <1>5
  <2>4. QED
    BY <1>2, <1>4, <1>6, <2>1, <2>2, <2>3 DEF Owned
<1>l. LeafSet' = LeafSet
  <2>1. LeafSet' = UNION {operands'[k].leaves : k \in DOMAIN operands'}
    BY DEF LeafSet
  <2>2. LeafSet' = (UNION {operands'[k].leaves : k \in DOMAIN operands}) \cup operands'[n + 1].leaves
    BY <1>4, <2>1
  <2>3. UNION {operands'[k].leaves : k \in DOMAIN operands} = LeafSet
    BY <1>9 DEF LeafSet
  <2>4. QED
    BY <1>1, <2>2, <2>3
<1>c. Counted'
  BY <1>2, <1>l DEF Counted
<1>d. RootIsWhole'
  BY <1>4 DEF RootIsWhole
<1>e. OfTable'
  <2>1. \A k \in DOMAIN operands : core[operands[k].q] \subseteq Table
    BY <1>2, <1>3 DEF OfTable, SameTable
  <2>2. \A k \in DOMAIN operands : core'[operands[k].q] \subseteq Table
    BY <1>1, <1>6, <2>1 DEF a
  <2>3. \A k \in DOMAIN operands' : core'[operands'[k].q] \subseteq Table
    BY <1>1, <1>4, <2>2
  <2>4. QED
    BY <2>3 DEF OfTable
<1>f. ChainLeads'
  BY <1>1, <1>3, ChainLeadsNowhere
<1>g. PlainAgrees'
  BY <1>1, <1>2, <1>4, <1>9 DEF PlainAgrees
<1>h. Apart'
  <2> SUFFICES ASSUME NoneStale', NEW k \in DOMAIN operands', NEW m \in DOMAIN operands',
                      ~operands'[k].changed, ~operands'[m].changed,
                      operands'[k].q = operands'[m].q
               PROVE  k = m
    BY DEF Apart
  <2>1. CASE k \in DOMAIN operands /\ m \in DOMAIN operands
    BY <1>2, <1>10, <1>11, <2>1 DEF Apart
  <2>2. CASE k = n + 1 /\ m \in DOMAIN operands
    BY <1>1, <1>11, <2>2
  <2>3. CASE k \in DOMAIN operands /\ m = n + 1
    BY <1>1, <1>11, <2>3
  <2>4. QED
    BY <1>4, <2>1, <2>2, <2>3
<1>i. Exact'
  <2> SUFFICES ASSUME NoneStale', ~followed', NEW k \in DOMAIN operands',
                      ~operands'[k].changed, Unfaulty(operands'[k])
               PROVE  core'[operands'[k].q] = operands'[k].means
    BY DEF Exact, Unfaulty
  <2>1. ~followed
    BY <1>1
  <2>2. CASE k \in DOMAIN operands
    BY <1>2, <1>10, <1>11, <2>1, <2>2 DEF Exact
  <2>3. CASE k = n + 1
    BY <1>1, <1>10, <2>1, <2>3
  <2>4. QED
    BY <1>4, <2>2, <2>3
<1>j. Conjunctive'
  <2> SUFFICES ASSUME NoneStale', \A k \in DOMAIN operands' : operands'[k].conjunction
               PROVE  \E m \in Nat :
                         /\ LeafSet' = 1..m
                         /\ \E lx \in [1..m -> SUBSET Rows] :
                               Between(lx, m, core', root', operands')
    BY DEF Conjunctive
  <2>1. (\A k \in DOMAIN operands : operands[k].conjunction) /\ o.conjunction
    BY <1>1, <1>4, <1>9
  <2>2. PICK m \in Nat :
          /\ LeafSet = 1..m
          /\ \E lx \in [1..m -> SUBSET Rows] : Between(lx, m, core, root, operands)
    BY <1>2, <1>10, <2>1 DEF Conjunctive
  <2>3. PICK lx \in [1..m -> SUBSET Rows] : Between(lx, m, core, root, operands)
    BY <2>2
  <2>4. PICK j \in DOMAIN operands :
           /\ extent = core[a.q] \cap core[operands[j].q]
           /\ core'[a.q] = extent
           /\ o.means = a.means \cap operands[j].means
           /\ o.faults = a.faults \cup operands[j].faults
           /\ o.leaves = a.leaves \cup operands[j].leaves
           /\ o.stale = (a.changed \/ operands[j].changed)
    BY <2>1 DEF a
  <2> DEFINE All == AllOf(lx, m)
             b == operands[j]
  <2> HIDE DEF All
  <2>5. ~a.changed /\ ~b.changed
    BY <1>10, <2>4
  <2>6. \A k \in DOMAIN operands :
           /\ ~operands[k].changed => All \subseteq core[operands[k].q]
           /\ Unfaulty(operands[k]) =>
                 /\ ~operands[k].changed => core[operands[k].q] \subseteq operands[k].means
                 /\ \A l \in operands[k].leaves : operands[k].means \subseteq lx[l]
    BY <2>3 DEF Between, All
  <2>7. All \subseteq extent
    BY <2>4, <2>5, <2>6 DEF a
  <2>8. All \subseteq core'[root']
    <3>1. All \subseteq core[root] /\ root' = root
      BY <1>1, <1>5, <2>3 DEF Between, All
    <3>2. QED
      BY <1>1, <1>5, <2>4, <2>7, <3>1
  <2>9. ASSUME NEW k \in DOMAIN operands
        PROVE  /\ ~operands'[k].changed => All \subseteq core'[operands'[k].q]
               /\ Unfaulty(operands'[k]) =>
                     /\ ~operands'[k].changed => core'[operands'[k].q] \subseteq operands'[k].means
                     /\ \A l \in operands'[k].leaves : operands'[k].means \subseteq lx[l]
    BY <1>9, <1>11, <2>6 DEF Unfaulty
  <2>10. /\ All \subseteq core'[o.q]
         /\ Unfaulty(o) => /\ core'[o.q] \subseteq o.means
                           /\ \A l \in o.leaves : o.means \subseteq lx[l]
    <3>1. Unfaulty(o) => Unfaulty(a) /\ Unfaulty(b)
      BY <2>4 DEF Unfaulty
    <3>2. /\ Unfaulty(a) => core[a.q] \subseteq a.means /\ \A l \in a.leaves : a.means \subseteq lx[l]
          /\ Unfaulty(b) => core[b.q] \subseteq b.means /\ \A l \in b.leaves : b.means \subseteq lx[l]
      BY <2>5, <2>6 DEF a
    <3> HIDE DEF b
    <3>3. /\ extent = core[a.q] \cap core[b.q] /\ o.means = a.means \cap b.means
          /\ o.leaves = a.leaves \cup b.leaves
      BY <2>4 DEF b
    <3>4. QED
      BY <1>1, <2>7, <3>1, <3>2, <3>3
  <2>11. Between(lx, m, core', root', operands')
    BY <1>1, <1>4, <2>8, <2>9, <2>10 DEF Between, All
  <2>12. LeafSet' = 1..m
    BY <1>l, <2>2
  <2>13. QED
    BY <2>11, <2>12
<1>z. QED
  BY <1>a, <1>b, <1>c, <1>d, <1>e, <1>f, <1>g, <1>h, <1>i, <1>j DEF QInv

\* The comparisons an rbool is made of are comparisons of the clause.
LEMMA LeavesOf ==
    ASSUME NEW i \in DOMAIN operands
    PROVE  operands[i].leaves \subseteq LeafSet
  BY DEF LeafSet

\* The queries of a clause whose rbools may be combined are over its table.
LEMMA CoreOfTable ==
    ASSUME OfTable, SameTable, NEW i \in DOMAIN operands
    PROVE  core[operands[i].q] \subseteq Table
  BY DEF OfTable, SameTable

\* && keeps the invariant.
LEMMA AndKeeps ==
    ASSUME QInv, NEW i \in DOMAIN operands, NEW j \in DOMAIN operands, And(i, j)
    PROVE  QInv'
<1> DEFINE a == operands[i]
           b == operands[j]
           extent == core[a.q] \cap core[b.q]
<1>1. PICK o \in Operands :
         /\ Combined(i, o, extent) /\ core'[a.q] = extent
         /\ o.means = a.means \cap b.means
         /\ o.plain = [r \in Table |->
                          IF Null \in {a.plain[r], b.plain[r]} THEN Null
                          ELSE a.plain[r] /\ b.plain[r]]
         /\ o.faults = a.faults \cup b.faults
         /\ o.conjunction = (a.conjunction /\ b.conjunction)
         /\ o.leaves = a.leaves \cup b.leaves
         /\ o.stale = (a.changed \/ b.changed) /\ ~o.changed
  BY AndIs DEF QInv
<1>2. CanCombine(i) /\ SameTable
  BY DEF And, CanCombine
<1>3. extent \in SUBSET Table
  BY <1>2, CoreOfTable DEF QInv
<1>4. o.leaves \subseteq LeafSet
  BY <1>1, LeavesOf
<1>5. ASSUME o.faults \cap (KnownQueryFaults \cup KnownPlainFaults) = {},
             NEW r \in Table, o.plain[r] # Null
      PROVE  o.plain[r] = (r \in o.means)
  <2>1. /\ a.faults \cap (KnownQueryFaults \cup KnownPlainFaults) = {}
        /\ b.faults \cap (KnownQueryFaults \cup KnownPlainFaults) = {}
    BY <1>1, <1>5
  <2>2. a.plain[r] # Null /\ b.plain[r] # Null /\ o.plain[r] = (a.plain[r] /\ b.plain[r])
    BY <1>1, <1>5
  <2>3. a.plain[r] = (r \in a.means) /\ b.plain[r] = (r \in b.means)
    BY <2>1, <2>2 DEF QInv, PlainAgrees
  <2>4. r \in o.means <=> r \in a.means /\ r \in b.means
    BY <1>1
  <2> DEFINE x == a.plain[r]
             y == b.plain[r]
             z == o.plain[r]
  <2>5. z = (x /\ y) /\ x = (r \in a.means) /\ y = (r \in b.means)
    BY <2>2, <2>3
  <2> HIDE DEF a, b, x, y, z
  <2>a. (r \in o.means) = (r \in a.means /\ r \in b.means)
    BY <2>4
  <2>b. z = (r \in a.means /\ r \in b.means)
    BY <2>5
  <2>6. z = (r \in o.means)
    BY <2>a, <2>b
  <2>7. QED
    BY <2>6 DEF z
<1>6. ASSUME NoneStale, ~followed, ~o.stale, Unfaulty(o)
      PROVE  extent = o.means
  <2>1. ~a.changed /\ ~b.changed /\ Unfaulty(a) /\ Unfaulty(b)
    BY <1>1, <1>6 DEF Unfaulty
  <2>2. core[a.q] = a.means /\ core[b.q] = b.means
    BY <1>6, <2>1 DEF QInv, Exact
  <2>3. QED
    BY <1>1, <2>2
<1>7. operands[i].changed => o.stale
  BY <1>1
<1>8. o.conjunction =>
         \E k \in DOMAIN operands :
            /\ extent = core[operands[i].q] \cap core[operands[k].q]
            /\ core'[operands[i].q] = extent
            /\ o.means = operands[i].means \cap operands[k].means
            /\ o.faults = operands[i].faults \cup operands[k].faults
            /\ o.leaves = operands[i].leaves \cup operands[k].leaves
            /\ o.stale = (operands[i].changed \/ operands[k].changed)
  BY <1>1
<1> HIDE DEF extent
<1>9. Combined(i, o, extent) /\ ~o.changed
  BY <1>1
<1> HIDE DEF a, b
<1>10. QED
  BY <1>2, <1>3, <1>4, <1>5, <1>6, <1>7, <1>8, <1>9, CombineKeeps

\* || keeps the invariant.
LEMMA OrKeeps ==
    ASSUME QInv, NEW i \in DOMAIN operands, NEW j \in DOMAIN operands, Or(i, j)
    PROVE  QInv'
<1> DEFINE a == operands[i]
           b == operands[j]
           extent == core[a.q] \cup core[b.q]
<1>1. PICK o \in Operands :
         /\ Combined(i, o, extent)
         /\ o.means = a.means \cup b.means
         /\ "plain or" \in o.faults /\ o.faults = a.faults \cup b.faults \cup {"plain or"}
         /\ ~o.conjunction
         /\ o.leaves = a.leaves \cup b.leaves
         /\ o.stale = (a.changed \/ b.changed) /\ ~o.changed
  BY OrIs DEF QInv
<1>2. CanCombine(i) /\ SameTable
  BY DEF Or, CanCombine
<1>3. extent \in SUBSET Table
  BY <1>2, CoreOfTable DEF QInv
<1>4. o.leaves \subseteq LeafSet
  BY <1>1, LeavesOf
<1>5. o.faults \cap (KnownQueryFaults \cup KnownPlainFaults) # {}
  BY <1>1 DEF KnownPlainFaults
<1>6. ASSUME NoneStale, ~followed, ~o.stale, Unfaulty(o)
      PROVE  extent = o.means
  <2>1. ~a.changed /\ ~b.changed /\ Unfaulty(a) /\ Unfaulty(b)
    BY <1>1, <1>6 DEF Unfaulty
  <2>2. core[a.q] = a.means /\ core[b.q] = b.means
    BY <1>6, <2>1 DEF QInv, Exact
  <2>3. QED
    BY <1>1, <2>2
<1>7. operands[i].changed => o.stale
  BY <1>1
<1> HIDE DEF extent
<1>9. QED
  BY <1>1, <1>2, <1>3, <1>4, <1>5, <1>6, <1>7, CombineKeeps

\* ! keeps the invariant.
LEMMA NotKeeps ==
    ASSUME QInv, NEW i \in DOMAIN operands, Not(i)
    PROVE  QInv'
<1> DEFINE a == operands[i]
           extent == Table \ core[a.q]
<1>1. PICK o \in Operands :
         /\ Combined(i, o, extent)
         /\ o.means = Table \ a.means
         /\ o.plain = [r \in Table |-> IF a.plain[r] = Null THEN Null ELSE ~a.plain[r]]
         /\ o.faults = a.faults
         /\ ~o.conjunction
         /\ o.leaves = a.leaves
         /\ o.stale = a.changed /\ ~o.changed
  BY NotIs DEF QInv
<1>2. CanCombine(i) /\ SameTable
  BY DEF Not, CanCombine
<1>3. extent \in SUBSET Table
  OBVIOUS
<1>4. o.leaves \subseteq LeafSet
  BY <1>1, LeavesOf
<1>5. ASSUME o.faults \cap (KnownQueryFaults \cup KnownPlainFaults) = {},
             NEW r \in Table, o.plain[r] # Null
      PROVE  o.plain[r] = (r \in o.means)
  <2>1. a.plain[r] # Null /\ o.plain[r] = ~a.plain[r]
    BY <1>1, <1>5
  <2>2. a.plain[r] = (r \in a.means)
    BY <1>1, <1>5, <2>1 DEF QInv, PlainAgrees
  <2>3. r \in o.means <=> r \notin a.means
    BY <1>1
  <2> DEFINE x == a.plain[r]
             z == o.plain[r]
  <2>4. z = ~x /\ x = (r \in a.means)
    BY <2>1, <2>2
  <2> HIDE DEF a, x, z
  <2>a. (r \in o.means) = (r \notin a.means)
    BY <2>3
  <2>b. z = (r \notin a.means)
    BY <2>4
  <2>5. z = (r \in o.means)
    BY <2>a, <2>b
  <2>6. QED
    BY <2>5 DEF z
<1>6. ASSUME NoneStale, ~followed, ~o.stale, Unfaulty(o)
      PROVE  extent = o.means
  <2>1. ~a.changed /\ Unfaulty(a)
    BY <1>1, <1>6 DEF Unfaulty
  <2>2. core[a.q] = a.means
    BY <1>6, <2>1 DEF QInv, Exact
  <2>3. QED
    BY <1>1, <2>2
<1>7. operands[i].changed => o.stale
  BY <1>1
<1> HIDE DEF extent
<1>9. QED
  BY <1>1, <1>2, <1>3, <1>4, <1>5, <1>6, <1>7, CombineKeeps

\* truepredicate and falsepredicate
LEMMA PredicateKeeps ==
    ASSUME QInv, CanCompare, chain = <<>>, entry = NoEntry,
           NEW o \in Operands, NEW extent \in SUBSET Table, Predicate(o, extent),
           o.conjunction => extent = Table
    PROVE  QInv'
<1> DEFINE n == Len(operands)
<1>1. /\ operands' \in Seq(Operands) /\ Len(operands') = n + 1
      /\ \A k \in DOMAIN operands : operands'[k] = operands[k]
      /\ operands'[n + 1] = o
      /\ core' \in Cores /\ Len(core') >= Len(core)
      /\ \A k \in DOMAIN core : core'[k] = core[k]
      /\ o.q \in DOMAIN core' /\ o.q \notin DOMAIN core /\ core'[o.q] = extent
      /\ o.means = extent /\ o.plain = Throwing /\ o.leaves = {}
      /\ ~o.stale /\ ~o.changed
      /\ UNCHANGED <<generated, root, chain, entry, followed>>
  BY DEF Predicate
<1>2. /\ Shape /\ Owned /\ Counted /\ RootIsWhole /\ OfTable
      /\ PlainAgrees /\ Apart /\ Exact /\ Conjunctive /\ ChainLeads
  BY DEF QInv
<1>3. n < MaxOperands /\ root # 0
  BY DEF CanCompare
<1>4. /\ DOMAIN operands = 1..n /\ n \in Nat
      /\ DOMAIN operands' = DOMAIN operands \cup {n + 1}
      /\ n + 1 \notin DOMAIN operands /\ operands' # <<>>
      /\ operands \in Seq(Operands)
  BY <1>1, <1>2, Places DEF Shape
<1>5. /\ core \in Cores /\ Len(core) \in Nat /\ DOMAIN core = 1..Len(core)
      /\ Len(core') \in Nat /\ DOMAIN core' = 1..Len(core')
      /\ root \in DOMAIN core
  BY <1>1, <1>2, <1>3 DEF Shape, Cores
<1>6. \A k \in DOMAIN operands : operands[k].q \in DOMAIN core /\ operands[k] \in Operands
  BY <1>2 DEF Shape
<1> HIDE DEF n
<1>7. \A k \in DOMAIN operands : core'[operands[k].q] = core[operands[k].q]
  BY <1>1, <1>6
<1>8. NoneStale' => NoneStale
  BY <1>1, <1>4 DEF NoneStale
<1>a. Shape'
  <2>1. Len(operands') <= MaxOperands
    BY <1>1, <1>3, <1>4, ComparisonsAssumption
  <2>2. \A k \in DOMAIN operands' : operands'[k].q \in DOMAIN core'
    BY <1>1, <1>4, <1>5, <1>6
  <2>3. \E S : chain' \in Seq(S)
    BY <1>1, <1>2 DEF Shape
  <2>4. generated' \in BOOLEAN /\ followed' \in BOOLEAN /\ root' \in 0..Len(core') /\ root' # 0
    BY <1>1, <1>2, <1>3, <1>5 DEF Shape
  <2>5. QED
    BY <1>1, <2>1, <2>2, <2>3, <2>4 DEF Shape
<1>b. Owned'
  BY <1>1, <1>2, <1>4, <1>5, <1>6 DEF Owned
<1>l. LeafSet' = LeafSet
  <2>1. LeafSet' = UNION {operands'[k].leaves : k \in DOMAIN operands'}
    BY DEF LeafSet
  <2>2. LeafSet' = (UNION {operands'[k].leaves : k \in DOMAIN operands}) \cup operands'[n + 1].leaves
    BY <1>4, <2>1
  <2>3. UNION {operands'[k].leaves : k \in DOMAIN operands} = LeafSet
    BY <1>1 DEF LeafSet
  <2>4. QED
    BY <1>1, <2>2, <2>3
<1>c. Counted'
  BY <1>2, <1>l DEF Counted
<1>d. RootIsWhole'
  BY <1>4 DEF RootIsWhole
<1>e. OfTable'
  BY <1>1, <1>2, <1>4, <1>7 DEF OfTable
<1>f. ChainLeads'
  BY <1>1, ChainLeadsNowhere
<1>g. PlainAgrees'
  BY <1>1, <1>2, <1>4 DEF PlainAgrees, Throwing
<1>h. Apart'
  BY <1>1, <1>2, <1>4, <1>6, <1>8 DEF Apart
<1>i. Exact'
  <2> SUFFICES ASSUME NoneStale', ~followed', NEW k \in DOMAIN operands',
                      ~operands'[k].changed, Unfaulty(operands'[k])
               PROVE  core'[operands'[k].q] = operands'[k].means
    BY DEF Exact, Unfaulty
  <2>1. CASE k \in DOMAIN operands
    BY <1>1, <1>2, <1>7, <1>8, <2>1 DEF Exact
  <2>2. CASE k = n + 1
    BY <1>1, <2>2
  <2>3. QED
    BY <1>4, <2>1, <2>2
<1>j. Conjunctive'
  <2> SUFFICES ASSUME NoneStale', \A k \in DOMAIN operands' : operands'[k].conjunction
               PROVE  \E m \in Nat :
                         /\ LeafSet' = 1..m
                         /\ \E lx \in [1..m -> SUBSET Rows] :
                               Between(lx, m, core', root', operands')
    BY DEF Conjunctive
  <2>1. (\A k \in DOMAIN operands : operands[k].conjunction) /\ o.conjunction
    BY <1>1, <1>4
  <2>2. PICK m \in Nat :
          /\ LeafSet = 1..m
          /\ \E lx \in [1..m -> SUBSET Rows] : Between(lx, m, core, root, operands)
    BY <1>2, <1>8, <2>1 DEF Conjunctive
  <2>3. PICK lx \in [1..m -> SUBSET Rows] : Between(lx, m, core, root, operands)
    BY <2>2
  <2>4. AllOf(lx, m) \subseteq Table
    BY DEF AllOf
  <2> DEFINE All == AllOf(lx, m)
  <2> HIDE DEF All
  <2>5. All \subseteq core'[root'] /\ All \subseteq extent
    BY <1>1, <1>5, <2>1, <2>3, <2>4 DEF Between, All
  <2>6. \A k \in DOMAIN operands :
           /\ ~operands'[k].changed => All \subseteq core'[operands'[k].q]
           /\ Unfaulty(operands'[k]) =>
                 /\ ~operands'[k].changed => core'[operands'[k].q] \subseteq operands'[k].means
                 /\ \A l \in operands'[k].leaves : operands'[k].means \subseteq lx[l]
    BY <1>1, <1>7, <2>3 DEF Between, All
  <2>7. Between(lx, m, core', root', operands')
    BY <1>1, <1>4, <2>5, <2>6 DEF Between, All
  <2>8. LeafSet' = 1..m
    BY <1>l, <2>2
  <2>9. QED
    BY <2>7, <2>8
<1>z. QED
  BY <1>a, <1>b, <1>c, <1>d, <1>e, <1>f, <1>g, <1>h, <1>i, <1>j DEF QInv

\* The parts of the invariant that are not about what is being followed.
LEMMA FollowingKeeps ==
    ASSUME QInv, UNCHANGED <<generated, core, root, operands, followed>>,
           root # 0, \E S : chain' \in Seq(S), ChainLeads'
    PROVE  QInv'
<1>1. Shape'
  BY DEF QInv, Shape
<1>2. Owned' /\ Counted' /\ RootIsWhole' /\ OfTable' /\ PlainAgrees'
  <2>1. Owned' /\ RootIsWhole'
    BY DEF QInv, Owned, RootIsWhole
  <2>2. Counted'
    BY DEF QInv, Counted, LeafSet
  <2>3. OfTable'
    BY DEF QInv, OfTable
  <2>4. PlainAgrees'
    BY DEF QInv, PlainAgrees
  <2>5. QED
    BY <2>1, <2>2, <2>3, <2>4
<1>3. NoneStale' = NoneStale /\ LeafSet' = LeafSet
  BY DEF NoneStale, LeafSet
<1>4. Apart' /\ Exact'
  BY <1>3 DEF QInv, Apart, Exact
<1>5. Conjunctive'
  BY <1>3 DEF QInv, Conjunctive
<1>6. QED
  BY <1>1, <1>2, <1>4, <1>5 DEF QInv

\* Following a link keeps the invariant.
LEMMA ArrowLinkKeeps ==
    ASSUME QInv, NEW col \in DOMAIN Columns[Class], ArrowLink(col)
    PROVE  QInv'
<1>1. /\ CanCompare /\ entry = NoEntry /\ Columns[Class][col].type = "link"
      /\ chain' = Append(chain, col)
      /\ UNCHANGED <<generated, core, root, entry, operands, followed>>
  BY DEF ArrowLink, AddLinkChain
<1>2. PICK S : chain \in Seq(S)
  BY DEF QInv, Shape
<1> DEFINE T == S \cup {col}
<1>3. chain \in Seq(T) /\ chain' \in Seq(T) /\ col \in T
  BY <1>1, <1>2
<1> HIDE DEF T
<1>4. Class = ClassAfter(chain) /\ Class' = ClassAfter(chain')
  BY <1>1 DEF Class, ClassAfter
<1>5. Class' = Columns[Class][col].target
  BY <1>1, <1>3, <1>4, ClassAfterFurther
<1>6. ASSUME NEW r \in Table, Follow(r, chain') # Null
      PROVE  Follow(r, chain') \in Rows /\ Follow(r, chain')[1] = Class'
  <2> DEFINE x == Follow(r, chain)
             k == Cells[x][col]
  <2>1. Follow(r, chain') = Onward(x, col)
    BY <1>1, <1>3, FollowFurther
  <2>2. x # Null /\ k # Null /\ Follow(r, chain') = <<Columns[x[1]][col].target, k>>
    BY <1>6, <2>1 DEF Onward
  <2>3. x \in Rows /\ x[1] = Class
    BY <1>1, <2>2 DEF QInv, ChainLeads
  <2> HIDE DEF x
  <2>4. <<Columns[x[1]][col].target, k>> \in Rows
    BY <1>1, <2>2, <2>3, CellsAssumption
  <2>5. QED
    BY <1>5, <2>2, <2>3, <2>4
<1>7. ChainLeads'
  BY <1>6 DEF ChainLeads
<1>8. \E R : chain' \in Seq(R)
  BY <1>3
<1>9. QED
  BY <1>1, <1>7, <1>8, FollowingKeeps DEF CanCompare

\* Following a link of a dictionary keeps the invariant.
LEMMA ArrowEntryKeeps ==
    ASSUME QInv, NEW col, NEW key, key # Null, ArrowEntry(col, key)
    PROVE  QInv'
<1>1. /\ CanCompare /\ entry' = [col |-> col, key |-> key]
      /\ UNCHANGED <<generated, core, root, chain, operands, followed>>
  BY DEF ArrowEntry, AddDictionaryLinkChain
<1>2. entry' # NoEntry
  BY <1>1 DEF NoEntry
<1>3. ChainLeads'
  BY <1>2 DEF ChainLeads
<1>4. \E S : chain' \in Seq(S)
  BY <1>1 DEF QInv, Shape
<1>5. QED
  BY <1>1, <1>3, <1>4, FollowingKeeps DEF CanCompare

\* Every step of a clause keeps its invariant.
LEMMA QNextKeeps ==
    ASSUME QInv, QNext
    PROVE  QInv'
<1>1. ASSUME NEW c \in Comparisons, Compare(c)
      PROVE  QInv'
  BY <1>1, CompareKeeps
<1>2. ASSUME NEW col \in DOMAIN Columns[Class], ArrowLink(col)
      PROVE  QInv'
  BY <1>2, ArrowLinkKeeps
<1>3. ASSUME NEW col \in DOMAIN Columns[Queried],
             NEW key \in {c.key : c \in Comparisons} \ {Null}, ArrowEntry(col, key)
      PROVE  QInv'
  BY <1>3, ArrowEntryKeeps
<1>4. ASSUME NEW i \in DOMAIN operands, NEW j \in DOMAIN operands, And(i, j) \/ Or(i, j)
      PROVE  QInv'
  BY <1>4, AndKeeps, OrKeeps
<1>5. ASSUME NEW i \in DOMAIN operands, Not(i)
      PROVE  QInv'
  BY <1>5, NotKeeps
<1>6. ASSUME TruePredicate
      PROVE  QInv'
  <2> DEFINE faults == {"truepredicate"}
             conjunction == TRUE
             extent == Table
  <2>1. /\ CanCompare /\ chain = <<>> /\ entry = NoEntry
        /\ Made(extent, faults, conjunction)
    BY <1>6 DEF TruePredicate, Throwing, Made
  <2>2. faults \in SUBSET Faults /\ conjunction \in BOOLEAN /\ extent \in SUBSET Table
    BY DEF Faults
  <2> HIDE DEF faults, conjunction, extent
  <2>3. PICK o \in Operands :
           Predicate(o, extent) /\ o.faults = faults /\ o.conjunction = conjunction
    BY <2>1, <2>2, PredicateIs DEF QInv
  <2>4. extent = Table
    BY DEF extent
  <2>5. QED
    BY <2>1, <2>2, <2>3, <2>4, PredicateKeeps
<1>7. ASSUME FalsePredicateOf
      PROVE  QInv'
  <2> DEFINE faults == {}
             conjunction == FALSE
             extent == {}
  <2>1. /\ CanCompare /\ chain = <<>> /\ entry = NoEntry
        /\ Made(extent, faults, conjunction)
    BY <1>7 DEF FalsePredicateOf, FalsePredicate, Throwing, Made
  <2>2. faults \in SUBSET Faults /\ conjunction \in BOOLEAN /\ extent \in SUBSET Table
    OBVIOUS
  <2>3. ~conjunction
    OBVIOUS
  <2> HIDE DEF faults, conjunction, extent
  <2>4. PICK o \in Operands :
           Predicate(o, extent) /\ o.faults = faults /\ o.conjunction = conjunction
    BY <2>1, <2>2, PredicateIs DEF QInv
  <2>5. QED
    BY <2>1, <2>2, <2>3, <2>4, PredicateKeeps
<1>8. QED
  BY <1>1, <1>2, <1>3, <1>4, <1>5, <1>6, <1>7 DEF QNext

\* where(fn) begins.
LEMMA PrepareKeeps ==
    ASSUME QInv, PrepareForQuery
    PROVE  QInv'
<1>1. /\ root = 0 /\ core' = <<Table>> /\ root' = 1
      /\ UNCHANGED <<generated, chain, entry, operands, followed>>
  BY DEF PrepareForQuery
<1>2. /\ operands = <<>> /\ chain = <<>> /\ entry = NoEntry /\ ~followed
      /\ generated \in BOOLEAN /\ operands \in Seq(Operands) /\ Len(operands) <= MaxOperands
  BY <1>1 DEF QInv, Shape
<1>3. Table \in SUBSET Rows
  BY DEF Table
<1>4. core' \in Cores /\ Len(core') = 1 /\ core'[root'] = Table
  BY <1>1, <1>3 DEF Cores
<1>5. DOMAIN operands' = {} /\ operands' = <<>>
  BY <1>1, <1>2
<1>6. Shape'
  <2>1. chain' \in Seq({})
    BY <1>1, <1>2
  <2>2. \E S : chain' \in Seq(S)
    BY <2>1
  <2>a. generated' \in BOOLEAN /\ followed' \in BOOLEAN
    BY <1>1 DEF QInv, Shape
  <2>3. /\ root' \in 0..Len(core') /\ root' # 0
        /\ operands' \in Seq(Operands) /\ Len(operands') <= MaxOperands
    BY <1>1, <1>2, <1>4
  <2>4. \A i \in DOMAIN operands' : operands'[i].q \in DOMAIN core'
    BY <1>5
  <2>5. QED
    BY <1>4, <2>a, <2>2, <2>3, <2>4 DEF Shape
<1>7. LeafSet' = {} /\ LeafSet' = 1..0
  BY <1>5 DEF LeafSet
<1>8. Counted'
  BY <1>7 DEF Counted
<1>9. ChainLeads'
  BY <1>1, <1>2, ChainLeadsNowhere
<1>10. Owned' /\ RootIsWhole' /\ OfTable' /\ PlainAgrees' /\ Apart' /\ Exact'
  BY <1>4, <1>5 DEF Owned, RootIsWhole, OfTable, PlainAgrees, Apart, Exact
<1>11. Conjunctive'
  <2> DEFINE lx == [l \in 1..0 |-> {}]
  <2>1. lx \in [1..0 -> SUBSET Rows]
    OBVIOUS
  <2> HIDE DEF lx
  <2>2. Between(lx, 0, core', root', operands')
    BY <1>4, <1>5 DEF Between, AllOf
  <2>3. QED
    BY <1>7, <2>1, <2>2 DEF Conjunctive
<1>12. QED
  BY <1>6, <1>8, <1>9, <1>10, <1>11 DEF QInv

\* Outside of where() there is no clause.
ClauseFree ==
    /\ generated \in BOOLEAN
    /\ core = <<>> /\ root = 0 /\ chain = <<>> /\ entry = NoEntry
    /\ operands = <<>> /\ followed = FALSE

\* Without a clause its invariants hold, before a step and after it.
LEMMA NoClause == ClauseFree => QInv
<1> SUFFICES ASSUME ClauseFree PROVE QInv
  OBVIOUS
<1> USE DEF ClauseFree
<1>1. DOMAIN operands = {} /\ core \in Cores /\ Len(core) = 0 /\ operands \in Seq(Operands)
      /\ Len(operands) = 0
  BY DEF Cores
<1>2. Shape
  <2>1. chain \in Seq({})
    OBVIOUS
  <2>2. \E S : chain \in Seq(S)
    BY <2>1
  <2>a. followed \in BOOLEAN
    OBVIOUS
  <2>3. /\ root \in 0..Len(core)
        /\ Len(operands) <= MaxOperands
    BY <1>1, ComparisonsAssumption
  <2>4. \A i \in DOMAIN operands : operands[i].q \in DOMAIN core
    BY <1>1
  <2>5. QED
    BY <1>1, <2>a, <2>2, <2>3, <2>4 DEF Shape
<1>3. LeafSet = {} /\ LeafSet = 1..0
  BY <1>1 DEF LeafSet
<1>4. Counted
  BY <1>3 DEF Counted
<1>5. ChainLeads
  <2>1. Class = ClassAfter(chain)
    BY DEF Class, ClassAfter
  <2>2. Class = Queried
    BY <2>1, ClassAfterNothing
  <2>3. \A r \in Table : Follow(r, chain) = r
    BY FollowNothing
  <2>4. QED
    BY <2>2, <2>3 DEF ChainLeads, Table
<1>6. Owned /\ RootIsWhole /\ OfTable /\ PlainAgrees /\ Apart /\ Exact
  BY <1>1 DEF Owned, RootIsWhole, OfTable, PlainAgrees, Apart, Exact
<1>7. Conjunctive
  <2> DEFINE lx == [l \in 1..0 |-> {}]
  <2>1. lx \in [1..0 -> SUBSET Rows]
    OBVIOUS
  <2> HIDE DEF lx
  <2>2. Between(lx, 0, core, root, operands)
    BY <1>1 DEF Between
  <2>3. QED
    BY <1>3, <2>1, <2>2 DEF Conjunctive
<1>8. QED
  BY <1>2, <1>4, <1>5, <1>6, <1>7 DEF QInv

\* The same after a step.
LEMMA NoClauseNext == ClauseFree' => QInv'
  BY NoClause, PTL

(* ----- results ----- *)

\* The content of results has the length of what is selected.
LEMMA ContentIs ==
    ASSUME NEW res, NEW present, res.match \subseteq Table
    PROVE  LET content == ContentOf(res, present)
           IN  /\ \E S : content \in Seq(S)
               /\ Len(content) = Cardinality(Selected(res, present))
               /\ Len(content) \in Nat /\ Len(content) <= Cardinality(Table)
<1> DEFINE selected == Selected(res, present)
           content == ContentOf(res, present)
           n == Cardinality(selected)
           Row(i) == CHOOSE r \in selected :
                        Cardinality({s \in selected : SortOrder(s, r, res.order)}) = i - 1
           S == {Row(i) : i \in 1..n}
<1>1. IsFiniteSet(Table)
  <2>1. Table \subseteq Rows
    BY DEF Table
  <2>2. QED
    BY <2>1, CellsAssumption, FS_Subset
<1>2. selected \subseteq Table
  BY DEF Selected
<1>3. n \in Nat /\ n <= Cardinality(Table)
  BY <1>1, <1>2, FS_Subset, FS_CardinalityType
<1>4. content = [i \in 1..n |-> Row(i)]
  BY DEF ContentOf
<1> HIDE DEF content, n
<1>5. content \in [1..n -> S]
  <2> HIDE DEF Row
  <2>1. QED
    BY <1>4
<1> HIDE DEF S
<1>6. content \in Seq(S) /\ Len(content) = n
  BY <1>3, <1>5
<1>7. QED
  BY <1>3, <1>6 DEF content, n

\* The orders of results.
Orders == {"table", "ascending", "descending"}

\* Each is a strict total order of the rows of the table.
LEMMA SortIsStrict ==
    ASSUME NEW order \in Orders, NEW r \in Table, NEW s \in Table, NEW t \in Table
    PROVE  /\ ~SortOrder(r, r, order)
           /\ r # s => SortOrder(r, s, order) \/ SortOrder(s, r, order)
           /\ SortOrder(r, s, order) /\ SortOrder(s, t, order) => SortOrder(r, t, order)
<1> DEFINE a == Cells[r][SortColumn]
           b == Cells[s][SortColumn]
           c == Cells[t][SortColumn]
<1>1. /\ a \in Int /\ b \in Int /\ c \in Int
      /\ r[2] \in Int /\ s[2] \in Int /\ t[2] \in Int
      /\ r # s => r[2] # s[2]
  BY SortAssumption
<1> HIDE DEF a, b, c
<1>2. ~SortOrder(r, r, order)
  BY <1>1 DEF SortOrder, KeyOrder, Orders, a
<1>3. r # s => SortOrder(r, s, order) \/ SortOrder(s, r, order)
  BY <1>1 DEF SortOrder, KeyOrder, Orders, a, b
<1>4. SortOrder(r, s, order) /\ SortOrder(s, t, order) => SortOrder(r, t, order)
  BY <1>1 DEF SortOrder, KeyOrder, Orders, a, b, c
<1>5. QED
  BY <1>2, <1>3, <1>4

\* The content of results is every row that is selected, once, in their order.
LEMMA ContentListsSelected ==
    ASSUME NEW res, NEW present, res.match \subseteq Table, res.order \in Orders
    PROVE  LET content == ContentOf(res, present)
               selected == Selected(res, present)
           IN  /\ \A i \in 1..Len(content) : content[i] \in selected
               /\ \A r \in selected : \E i \in 1..Len(content) : content[i] = r
               /\ \A i, j \in 1..Len(content) :
                     i < j => SortOrder(content[i], content[j], res.order)
<1> DEFINE content == ContentOf(res, present)
           S == Selected(res, present)
           n == Cardinality(S)
           order == res.order
           Before(r) == {s \in S : SortOrder(s, r, order)}
           rank == [r \in S |-> Cardinality(Before(r))]
<1>1. S \subseteq Table /\ order \in Orders
  BY DEF Selected
<1>2. content = [i \in 1..n |-> CHOOSE r \in S : Cardinality(Before(r)) = i - 1]
  BY DEF ContentOf
<1>3. Len(content) = n
  BY ContentIs
<1> HIDE DEF S, order, content
<1>4. IsFiniteSet(S) /\ n \in Nat
  <2>1. Table \subseteq Rows
    BY DEF Table
  <2>2. S \subseteq Rows
    BY <1>1, <2>1
  <2>3. QED
    BY <2>2, CellsAssumption, FS_Subset, FS_CardinalityType
<1>5. ASSUME NEW r \in S
      PROVE  rank[r] \in 0..(n - 1) /\ IsFiniteSet(Before(r)) /\ Cardinality(Before(r)) \in Nat
  <2>1. IsFiniteSet(S \ {r}) /\ Cardinality(S \ {r}) = n - 1
    BY <1>4, FS_RemoveElement
  <2>2. Before(r) \subseteq S \ {r}
    BY <1>1, SortIsStrict
  <2> HIDE DEF Before
  <2>3. IsFiniteSet(Before(r)) /\ Cardinality(Before(r)) <= n - 1
    BY <2>1, <2>2, FS_Subset
  <2>4. Cardinality(Before(r)) \in Nat
    BY <2>3, FS_CardinalityType
  <2>5. QED
    BY <1>4, <2>3, <2>4
<1>6. ASSUME NEW r \in S, NEW s \in S, SortOrder(r, s, order)
      PROVE  rank[r] < rank[s]
  <2>1. Before(r) \subseteq Before(s)
    <3> SUFFICES ASSUME NEW t \in S, SortOrder(t, r, order) PROVE SortOrder(t, s, order)
      OBVIOUS
    <3>1. QED
      BY <1>1, <1>6, SortIsStrict
  <2>2. r \in Before(s) /\ r \notin Before(r)
    BY <1>1, <1>6, SortIsStrict
  <2> HIDE DEF Before
  <2>3. /\ IsFiniteSet(Before(s)) /\ Cardinality(Before(r)) \in Nat
        /\ Cardinality(Before(s)) \in Nat
    BY <1>5
  <2>4. /\ Cardinality(Before(r)) <= Cardinality(Before(s))
        /\ Cardinality(Before(r)) # Cardinality(Before(s))
    BY <2>1, <2>2, <2>3, FS_Subset
  <2>5. QED
    BY <2>3, <2>4
<1>7. ASSUME NEW k \in 0..(n - 1)
      PROVE  \E r \in S : rank[r] = k
  <2>1. rank \in [S -> 0..(n - 1)]
    BY <1>5
  <2>2. ASSUME NEW r \in S, NEW s \in S, r # s
        PROVE  rank[r] # rank[s]
    <3>1. SortOrder(r, s, order) \/ SortOrder(s, r, order)
      BY <1>1, <2>2, SortIsStrict
    <3>2. rank[r] \in Nat /\ rank[s] \in Nat
      BY <1>5
    <3> HIDE DEF rank
    <3>3. QED
      BY <1>6, <3>1, <3>2
  <2> HIDE DEF rank
  <2>3. rank \in Injection(S, 0..(n - 1))
    BY <2>1, <2>2 DEF Injection, IsInjective
  <2>4. IsFiniteSet(0..(n - 1)) /\ Cardinality(0..(n - 1)) = n
    BY <1>4, FS_Interval
  <2>5. rank \in Surjection(S, 0..(n - 1))
    BY <2>3, <2>4, FS_Injection
  <2>6. QED
    BY <2>5 DEF Surjection
<1>8. ASSUME NEW i \in 1..n
      PROVE  content[i] \in S /\ rank[content[i]] = i - 1
  <2>1. \E r \in S : rank[r] = i - 1
    <3> HIDE DEF rank, n
    <3>1. i - 1 \in 0..(n - 1)
      BY <1>4
    <3>2. QED
      BY <1>7, <3>1
  <2>2. \E r \in S : Cardinality(Before(r)) = i - 1
    BY <2>1
  <2> HIDE DEF Before
  <2>3. content[i] = CHOOSE r \in S : Cardinality(Before(r)) = i - 1
    BY <1>2
  <2>4. QED
    BY <2>2, <2>3
<1> HIDE DEF rank, n
<1>9. ASSUME NEW i \in 1..n, NEW j \in 1..n, i < j
      PROVE  SortOrder(content[i], content[j], order)
  <2>1. /\ content[i] \in S /\ content[j] \in S
        /\ rank[content[i]] < rank[content[j]]
    BY <1>4, <1>8, <1>9
  <2>2. content[i] # content[j]
    BY <1>4, <1>8, <1>9
  <2>3. ~SortOrder(content[j], content[i], order)
    BY <1>4, <1>6, <1>8, <1>9, <2>1
  <2>4. QED
    BY <1>1, <2>1, <2>2, <2>3, SortIsStrict
<1>10. ASSUME NEW r \in S
       PROVE  \E i \in 1..n : content[i] = r
  <2>0. rank[r] \in 0..(n - 1)
    BY <1>5
  <2>1. rank[r] + 1 \in 1..n /\ rank[r] \in Nat
    BY <1>4, <2>0
  <2> DEFINE i == rank[r] + 1
             s == content[i]
  <2>2. s \in S /\ rank[s] = rank[r]
    BY <1>8, <2>1
  <2>3. s = r
    <3>1. s # r => SortOrder(s, r, order) \/ SortOrder(r, s, order)
      BY <1>1, <2>2, SortIsStrict
    <3> HIDE DEF s
    <3>2. QED
      BY <1>6, <2>1, <2>2, <3>1
  <2>4. QED
    BY <2>1, <2>3
<1>11. QED
  BY <1>3, <1>8, <1>9, <1>10 DEF S, order, content

\* The results, and a loop over them: while it has not been moved, its end
\* is that of the results, and what it has seen is their beginning.
RShape ==
    /\ live \subseteq Table
    /\ results = [match |-> results.match, order |-> results.order, at |-> results.at]
    /\ results.match \subseteq Table /\ results.order \in Orders
    /\ results.at = Live \/ live \subseteq results.at
    /\ iterator = [idx |-> iterator.idx, end |-> iterator.end,
                   seen |-> iterator.seen, moved |-> iterator.moved]
    /\ iterator.idx \in Nat /\ iterator.end \in Nat /\ iterator.moved \in BOOLEAN
    /\ iterator.idx <= iterator.end /\ iterator.end <= Cardinality(Table)
    /\ ended \in {"no", "thrown", "terminated"}
Looping ==
    /\ root # 0 => iterator = NoLoop /\ ended = "no"
    /\ iterator # NoLoop /\ ~iterator.moved => iterator.end = Size

Inv == QInv /\ RShape /\ Looping /\ LoopsSeeEachOnce

\* Live is not the contents of a frozen version.
LEMMA LiveIsNoVersion == \A S : S \subseteq Table => S # Live
  BY CellsAssumption DEF Live, Table

\* The fields of NoLoop.
LEMMA NoLoopIs ==
    /\ NoLoop.idx = 0 /\ NoLoop.end = 0 /\ NoLoop.seen = <<>> /\ ~NoLoop.moved
    /\ NoLoop = [idx |-> NoLoop.idx, end |-> NoLoop.end, seen |-> NoLoop.seen,
                 moved |-> NoLoop.moved]
    /\ NoLoop.moved \in BOOLEAN
  BY DEF NoLoop

\* The content of the results is a sequence, no longer than the table.
LEMMA SizeIs ==
    ASSUME RShape
    PROVE  /\ \E S : Content \in Seq(S)
           /\ Size \in Nat /\ Size = Len(Content) /\ Size <= Cardinality(Table)
  BY ContentIs DEF RShape, Content, Size

\* The beginning of length zero is empty.
LEMMA NothingSeen ==
    ASSUME NEW S, NEW content \in Seq(S)
    PROVE  SubSeq(content, 1, 0) = <<>>
  OBVIOUS

\* While nothing is looped over, the results may be any selection of rows.
LEMMA IdleKeeps ==
    ASSUME Inv, QInv', iterator = NoLoop, iterator' = NoLoop, live' \subseteq live,
           ended \in {"no", "thrown"}, ended' \in {"no", "thrown"},
           root' # 0 => ended' = "no",
           results' = [match |-> results'.match, order |-> results'.order, at |-> results'.at],
           results'.match \subseteq Table, results'.order \in Orders,
           results'.at = Live \/ live \subseteq results'.at
    PROVE  Inv'
<1>1. Cardinality(Table) \in Nat
  <2>1. Table \subseteq Rows
    BY DEF Table
  <2>2. QED
    BY <2>1, CellsAssumption, FS_Subset, FS_CardinalityType
<1>2. RShape'
  BY <1>1, NoLoopIs DEF Inv, RShape
<1>3. Looping'
  BY DEF Looping
<1>4. LoopsSeeEachOnce'
  <2>1. \E S : Content' \in Seq(S)
    <3>1. \E S : ContentOf(results', live') \in Seq(S)
      BY ContentIs
    <3>2. QED
      BY <3>1 DEF Content
  <2>2. SubSeq(Content', 1, 0) = <<>>
    BY <2>1, NothingSeen
  <2>3. QED
    BY <2>2, NoLoopIs DEF LoopsSeeEachOnce
<1>5. QED
  BY <1>2, <1>3, <1>4 DEF Inv

\* Nothing of a clause changes.
LEMMA ClauseStays ==
    ASSUME QInv, UNCHANGED qvars
    PROVE  QInv'
<1>1. UNCHANGED <<generated, core, root, chain, entry, operands, followed>>
  BY DEF qvars
<1>2. Shape' /\ Owned' /\ Counted' /\ RootIsWhole' /\ OfTable'
  BY <1>1 DEF QInv, Shape, Owned, Counted, LeafSet, RootIsWhole, OfTable
<1>3. ChainLeads'
  <2>1. Class' = Class
    BY <1>1 DEF Class
  <2>2. QED
    BY <1>1, <2>1 DEF QInv, ChainLeads
<1>4. PlainAgrees'
  BY <1>1 DEF QInv, PlainAgrees
<1>5. NoneStale' = NoneStale /\ LeafSet' = LeafSet
  BY <1>1 DEF NoneStale, LeafSet
<1>6. Apart' /\ Exact'
  BY <1>1, <1>5 DEF QInv, Apart, Exact
<1>7. Conjunctive'
  BY <1>1, <1>5 DEF QInv, Conjunctive
<1>8. QED
  BY <1>2, <1>3, <1>4, <1>6, <1>7 DEF QInv

\* The invariant holds initially.
THEOREM InitInv == Init => Inv
<1> SUFFICES ASSUME Init PROVE Inv
  OBVIOUS
<1>1. QInv
  BY NoClause DEF Init, QInit, ClauseFree
<1>2. /\ live = Table /\ results = Whole(Live) /\ iterator = NoLoop /\ ended = "no" /\ root = 0
  BY DEF Init, QInit, RInit
<1>3. /\ results = [match |-> results.match, order |-> results.order, at |-> results.at]
      /\ results.match = Table /\ results.order = "table" /\ results.at = Live
  BY <1>2 DEF Whole
<1>4. Cardinality(Table) \in Nat
  <2>1. Table \subseteq Rows
    BY DEF Table
  <2>2. QED
    BY <2>1, CellsAssumption, FS_Subset, FS_CardinalityType
<1>5. RShape
  BY <1>2, <1>3, <1>4, NoLoopIs DEF RShape, Orders
<1>6. Looping
  BY <1>2 DEF Looping
<1>7. LoopsSeeEachOnce
  <2>1. \E S : Content \in Seq(S)
    BY <1>5, SizeIs
  <2>2. SubSeq(Content, 1, 0) = <<>>
    BY <2>1, NothingSeen
  <2>3. QED
    BY <1>2, <2>2, NoLoopIs DEF LoopsSeeEachOnce
<1>8. QED
  BY <1>1, <1>5, <1>6, <1>7 DEF Inv

\* The end of where() keeps the invariant.
LEMMA WhereKeeps ==
    ASSUME Inv, NEW i \in DOMAIN operands, Where(i)
    PROVE  Inv'
<1>1. /\ root # 0 /\ chain = <<>> /\ entry = NoEntry
      /\ "dictionary link" \notin operands[i].faults
      /\ results' = [match |-> core[operands[i].q], order |-> "table", at |-> results.at]
      /\ core' = <<>> /\ root' = 0 /\ operands' = <<>> /\ followed' = FALSE
      /\ UNCHANGED <<generated, chain, entry, live, iterator, ended>>
  BY DEF Where
<1>2. QInv'
  <2>1. /\ generated' \in BOOLEAN /\ core' = <<>> /\ root' = 0 /\ chain' = <<>>
        /\ entry' = NoEntry /\ operands' = <<>> /\ followed' = FALSE
    BY <1>1 DEF Inv, QInv, Shape
  <2>2. QED
    BY <2>1, NoClauseNext DEF ClauseFree
<1>3. core[operands[i].q] \subseteq Table
  BY <1>1 DEF Inv, QInv, OfTable
<1>4. iterator = NoLoop /\ ended = "no"
  BY <1>1 DEF Inv, Looping
<1>5. results.at = Live \/ live \subseteq results.at
  BY DEF Inv, RShape
<1> DEFINE match == core[operands[i].q]
<1> HIDE DEF match
<1>6. /\ results' = [match |-> results'.match, order |-> results'.order, at |-> results'.at]
      /\ results'.match = match /\ results'.at = results.at /\ results'.order \in Orders
  <2>1. results' = [match |-> match, order |-> "table", at |-> results.at]
    BY <1>1 DEF match
  <2>2. QED
    BY <2>1 DEF Orders
<1>7. results'.match \subseteq Table
  BY <1>3, <1>6 DEF match
<1>8. QED
  BY <1>1, <1>2, <1>4, <1>5, <1>6, <1>7, IdleKeeps

\* A step of the results outside of a loop.
LEMMA ReplacedResultsKeep ==
    ASSUME Inv, Idle, UNCHANGED <<qvars, live, iterator, ended>>,
           results' = [match |-> results'.match, order |-> results'.order, at |-> results'.at],
           results'.match \subseteq Table, results'.order \in Orders,
           results'.at = Live \/ live \subseteq results'.at
    PROVE  Inv'
<1>1. QInv'
  BY ClauseStays DEF Inv
<1>2. /\ root' = root /\ root = 0 /\ iterator = NoLoop /\ ended = "no"
      /\ live' = live /\ iterator' = iterator /\ ended' = ended
  BY DEF Idle, qvars
<1>3. QED
  BY <1>1, <1>2, IdleKeeps

\* sort() keeps the invariant.
LEMMA SortKeeps ==
    ASSUME Inv, NEW order \in Orders, Sort(order)
    PROVE  Inv'
<1>1. /\ Idle /\ results' = [results EXCEPT !.order = order]
      /\ UNCHANGED <<qvars, live, iterator, ended>>
  BY DEF Sort
<1>2. /\ results = [match |-> results.match, order |-> results.order, at |-> results.at]
      /\ results.match \subseteq Table
      /\ results.at = Live \/ live \subseteq results.at
  BY DEF Inv, RShape
<1>3. results' = [match |-> results.match, order |-> order, at |-> results.at]
  BY <1>1, <1>2
<1>4. QED
  BY <1>1, <1>2, <1>3, ReplacedResultsKeep

\* freeze() and thaw() keep the invariant.
LEMMA FreezeThawKeep ==
    ASSUME Inv, Freeze \/ Thaw
    PROVE  Inv'
<1>1. /\ Idle /\ UNCHANGED <<qvars, live, iterator, ended>>
      /\ results' = Whole(live) \/ results' = Whole(Live)
  BY DEF Freeze, Thaw
<1>2. /\ results' = [match |-> results'.match, order |-> results'.order, at |-> results'.at]
      /\ results'.match = Table /\ results'.at \in {live, Live} /\ results'.order \in Orders
  BY <1>1 DEF Whole, Orders
<1>3. QED
  BY <1>1, <1>2, ReplacedResultsKeep

\* linking_objects keeps the invariant.
LEMMA LinkingObjectsKeeps ==
    ASSUME Inv, NEW r, LinkingObjects(r)
    PROVE  Inv'
<1> DEFINE match == {s \in Table : Cells[s][LinkColumn] = r[2]}
<1>1. /\ Idle /\ UNCHANGED <<qvars, live, iterator, ended>>
      /\ results' = [match |-> match, order |-> "table", at |-> Live]
  BY DEF LinkingObjects
<1>2. match \subseteq Table
  OBVIOUS
<1> HIDE DEF match
<1>3. /\ results' = [match |-> results'.match, order |-> results'.order, at |-> results'.at]
      /\ results'.match = match /\ results'.at = Live /\ results'.order \in Orders
  BY <1>1 DEF Orders
<1>4. QED
  BY <1>1, <1>2, <1>3, ReplacedResultsKeep

\* A frozen collection does not see the removal.
LEMMA FrozenStays ==
    ASSUME NEW res, NEW before, NEW after, res.at # Live
    PROVE  ContentOf(res, after) = ContentOf(res, before)
<1>1. Selected(res, after) = Selected(res, before)
  BY DEF Selected
<1>2. QED
  BY <1>1 DEF ContentOf

\* The removal of a row keeps the invariant: it moves a loop unless its
\* collection is frozen or does not have the row.
LEMMA RemoveRowKeeps ==
    ASSUME Inv, NEW r \in live, RemoveRow(r)
    PROVE  Inv'
<1> DEFINE shifts == iterator # NoLoop /\ ContentOf(results, live \ {r}) # Content
<1>1. /\ root = 0 /\ ended = "no" /\ live' = live \ {r}
      /\ iterator' = [iterator EXCEPT !.moved = @ \/ shifts]
      /\ UNCHANGED <<qvars, results, ended>>
  BY DEF RemoveRow
<1>2. QInv' /\ root' = 0
  BY <1>1, ClauseStays DEF Inv, qvars
<1>3. RShape /\ Looping /\ LoopsSeeEachOnce
  BY DEF Inv
<1>4. shifts \in BOOLEAN
  OBVIOUS
<1>5. Content' = ContentOf(results, live \ {r})
  BY <1>1 DEF Content
<1>6. shifts => results.at = Live
  BY FrozenStays DEF Content
<1>7. ~shifts /\ iterator # NoLoop => Content' = Content
  BY <1>5
<1> HIDE DEF shifts
<1>8. /\ iterator' = [idx |-> iterator.idx, end |-> iterator.end, seen |-> iterator.seen,
                      moved |-> iterator.moved \/ shifts]
  BY <1>1, <1>3 DEF RShape
<1>9. /\ iterator'.idx = iterator.idx /\ iterator'.end = iterator.end
      /\ iterator'.seen = iterator.seen
      /\ iterator'.moved = (iterator.moved \/ shifts)
  BY <1>8
<1>10. RShape'
  BY <1>1, <1>3, <1>4, <1>8, <1>9 DEF RShape
<1>11. CASE iterator = NoLoop
  <2>1. ~shifts
    BY <1>11 DEF shifts
  <2>2. iterator' = NoLoop
    <3>1. (iterator.moved \/ shifts) = FALSE
      BY <1>11, <2>1, NoLoopIs
    <3>2. QED
      BY <1>8, <1>11, <3>1 DEF NoLoop
  <2>3. /\ results' = results /\ live' \subseteq live
        /\ ended \in {"no", "thrown"} /\ ended' \in {"no", "thrown"} /\ root' = 0
    BY <1>1, <1>2
  <2>4. /\ results = [match |-> results.match, order |-> results.order, at |-> results.at]
        /\ results.match \subseteq Table /\ results.order \in Orders
        /\ results.at = Live \/ live \subseteq results.at
    BY <1>3 DEF RShape
  <2>5. /\ results' = [match |-> results'.match, order |-> results'.order, at |-> results'.at]
        /\ results'.match \subseteq Table /\ results'.order \in Orders
        /\ results'.at = Live \/ live \subseteq results'.at
    BY <2>3, <2>4
  <2>6. QED
    BY <1>2, <1>11, <2>2, <2>3, <2>5, IdleKeeps
<1>12. CASE iterator # NoLoop
  <2>1. Looping'
    <3>1. ASSUME ~iterator'.moved
          PROVE  iterator'.end = Size'
      <4>1. ~iterator.moved /\ ~shifts
        BY <1>9, <3>1
      <4>2. Content' = Content /\ iterator.end = Size
        BY <1>3, <1>7, <1>12, <4>1 DEF Looping
      <4>3. QED
        BY <1>9, <4>2 DEF Size
    <3>2. QED
      BY <1>2, <3>1 DEF Looping
  <2>2. LoopsSeeEachOnce'
    <3>1. ASSUME ~iterator'.moved
          PROVE  iterator'.seen = SubSeq(Content', 1, iterator'.idx)
      <4>1. ~iterator.moved /\ ~shifts
        BY <1>9, <3>1
      <4>2. Content' = Content /\ iterator.seen = SubSeq(Content, 1, iterator.idx)
        BY <1>3, <1>7, <1>12, <4>1 DEF LoopsSeeEachOnce
      <4>3. QED
        BY <1>9, <4>2
    <3>2. ended' # "terminated"
      BY <1>1
    <3>3. iterator'.moved => results'.at = Live
      BY <1>1, <1>3, <1>6, <1>9 DEF LoopsSeeEachOnce
    <3>4. QED
      BY <3>1, <3>2, <3>3 DEF LoopsSeeEachOnce
  <2>3. QED
    BY <1>2, <1>10, <2>1, <2>2 DEF Inv
<1>13. QED
  BY <1>11, <1>12

\* operator[] keeps the invariant.
LEMMA AtKeeps ==
    ASSUME Inv, NEW i, At(i)
    PROVE  Inv'
<1>1. /\ root = 0 /\ iterator = NoLoop /\ ended = "no" /\ ended' \in {"thrown", "no"}
      /\ UNCHANGED <<qvars, live, results, iterator>>
  BY DEF At, Idle
<1>2. QInv' /\ root' = 0
  BY <1>1, ClauseStays DEF Inv, qvars
<1>3. QED
  BY <1>1, <1>2, IdleKeeps DEF Inv, RShape

\* The beginning of a loop keeps the invariant.
LEMMA BeginKeeps ==
    ASSUME Inv, Begin
    PROVE  Inv'
<1>1. /\ root = 0 /\ ended = "no" /\ Size > 0
      /\ iterator' = [idx |-> 0, end |-> Size, seen |-> <<>>, moved |-> FALSE]
      /\ UNCHANGED <<qvars, live, results, ended>>
  BY DEF Begin, Idle
<1>2. QInv' /\ root' = 0
  BY <1>1, ClauseStays DEF Inv, qvars
<1>3. RShape
  BY DEF Inv
<1>4. Size \in Nat /\ Size <= Cardinality(Table) /\ \E S : Content \in Seq(S)
  BY <1>3, SizeIs
<1>5. Content' = Content /\ Size' = Size
  BY <1>1 DEF Content, Size
<1> DEFINE size == Size
<1> HIDE DEF size
<1>6. /\ iterator'.idx = 0 /\ iterator'.end = size /\ iterator'.seen = <<>>
      /\ ~iterator'.moved /\ iterator'.moved \in BOOLEAN
      /\ iterator' = [idx |-> iterator'.idx, end |-> iterator'.end, seen |-> iterator'.seen,
                      moved |-> iterator'.moved]
  <2>1. iterator' = [idx |-> 0, end |-> size, seen |-> <<>>, moved |-> FALSE]
    BY <1>1 DEF size
  <2>2. QED
    BY <2>1
<1>7. size \in Nat /\ size <= Cardinality(Table)
  BY <1>4 DEF size
<1>8. RShape'
  BY <1>1, <1>3, <1>6, <1>7 DEF RShape
<1>9. Looping'
  BY <1>2, <1>5, <1>6 DEF Looping, size
<1>10. LoopsSeeEachOnce'
  <2>1. SubSeq(Content', 1, 0) = <<>>
    BY <1>4, <1>5, NothingSeen
  <2>2. QED
    BY <1>1, <1>6, <2>1 DEF LoopsSeeEachOnce
<1>11. QED
  BY <1>2, <1>8, <1>9, <1>10 DEF Inv

\* A beginning of a sequence and the next element make a longer beginning.
LEMMA OneMore ==
    ASSUME NEW S, NEW content \in Seq(S), NEW k \in Nat, k < Len(content)
    PROVE  SubSeq(content, 1, k + 1) = Append(SubSeq(content, 1, k), content[k + 1])
<1> DEFINE a == SubSeq(content, 1, k)
           b == SubSeq(content, 1, k + 1)
           c == Append(a, content[k + 1])
<1>1. /\ a \in Seq(S) /\ Len(a) = k /\ \A i \in 1..k : a[i] = content[i]
      /\ b \in Seq(S) /\ Len(b) = k + 1 /\ \A i \in 1..k + 1 : b[i] = content[i]
  OBVIOUS
<1>2. content[k + 1] \in S
  OBVIOUS
<1> HIDE DEF a, b
<1>3. /\ c \in Seq(S) /\ Len(c) = k + 1
      /\ \A i \in 1..k : c[i] = a[i]
      /\ c[k + 1] = content[k + 1]
  BY <1>1, <1>2
<1> HIDE DEF c
<1>4. \A i \in 1..k + 1 : b[i] = c[i]
  BY <1>1, <1>3
<1>5. b = c
  BY <1>1, <1>3, <1>4
<1>6. QED
  BY <1>5 DEF a, b, c

\* A step of a loop keeps the invariant.
LEMMA StepKeeps ==
    ASSUME Inv, Step
    PROVE  Inv'
<1>1. /\ iterator # NoLoop /\ ended = "no" /\ iterator.idx < iterator.end
      /\ UNCHANGED <<qvars, live, results>>
      /\ \/ iterator.idx >= Size /\ ended' = "terminated" /\ iterator' = iterator
         \/ iterator.idx < Size /\ iterator' = Advance(iterator) /\ ended' = ended
  <2>1. RShape
    BY DEF Inv
  <2>2. Size \in Nat /\ iterator.idx \in Nat
    BY <2>1, SizeIs DEF RShape
  <2>3. QED
    BY <2>2 DEF Step
<1>2. QInv' /\ root' = root
  BY <1>1, ClauseStays DEF Inv, qvars
<1>3. RShape /\ Looping /\ LoopsSeeEachOnce
  BY DEF Inv
<1>4. root = 0
  BY <1>1, <1>3 DEF Looping
<1>5. Content' = Content /\ Size' = Size
  BY <1>1 DEF Content, Size
<1>6. Size \in Nat /\ Size = Len(Content) /\ \E S : Content \in Seq(S)
  BY <1>3, SizeIs
<1>7. CASE iterator.idx >= Size /\ ended' = "terminated" /\ iterator' = iterator
  <2>1. iterator.moved
    <3>1. ~iterator.moved => iterator.end = Size
      BY <1>1, <1>3 DEF Looping
    <3>2. QED
      BY <1>1, <1>3, <1>6, <1>7, <3>1 DEF RShape
  <2>2. RShape'
    BY <1>1, <1>3, <1>7 DEF RShape
  <2>3. Looping'
    BY <1>2, <1>4, <1>7, <2>1 DEF Looping
  <2>4. LoopsSeeEachOnce'
    BY <1>1, <1>3, <1>7, <2>1 DEF LoopsSeeEachOnce
  <2>5. QED
    BY <1>2, <2>2, <2>3, <2>4 DEF Inv
<1>8. CASE iterator.idx < Size /\ iterator' = Advance(iterator) /\ ended' = ended
  <2> DEFINE next == Append(iterator.seen, Content[iterator.idx + 1])
  <2>1. iterator' = [idx |-> iterator.idx + 1, end |-> iterator.end,
                     seen |-> next, moved |-> iterator.moved]
    BY <1>3, <1>8 DEF RShape, Advance
  <2> HIDE DEF next
  <2>2. /\ iterator'.idx = iterator.idx + 1 /\ iterator'.end = iterator.end
        /\ iterator'.seen = next /\ iterator'.moved = iterator.moved
        /\ iterator' = [idx |-> iterator'.idx, end |-> iterator'.end, seen |-> iterator'.seen,
                        moved |-> iterator'.moved]
    BY <2>1
  <2>3. RShape'
    BY <1>1, <1>3, <1>8, <2>2 DEF RShape
  <2>4. Looping'
    BY <1>1, <1>2, <1>3, <1>4, <1>5, <2>2 DEF Looping
  <2>5. ASSUME ~iterator.moved
        PROVE  next = SubSeq(Content, 1, iterator.idx + 1)
    <3>1. iterator.seen = SubSeq(Content, 1, iterator.idx)
      BY <1>3, <2>5 DEF LoopsSeeEachOnce
    <3>2. iterator.idx \in Nat /\ iterator.idx < Len(Content)
      BY <1>3, <1>6, <1>8 DEF RShape
    <3>3. QED
      BY <1>6, <3>1, <3>2, OneMore DEF next
  <2>6. LoopsSeeEachOnce'
    BY <1>1, <1>3, <1>5, <1>8, <2>2, <2>5 DEF LoopsSeeEachOnce
  <2>7. QED
    BY <1>2, <2>3, <2>4, <2>6 DEF Inv
<1>9. QED
  BY <1>1, <1>7, <1>8

\* The end of a loop keeps the invariant.
LEMMA LoopEndsKeeps ==
    ASSUME Inv, LoopEnds
    PROVE  Inv'
<1>1. /\ iterator # NoLoop /\ ended = "no" /\ iterator' = NoLoop
      /\ UNCHANGED <<qvars, live, results, ended>>
  BY DEF LoopEnds
<1>2. QInv' /\ root' = root
  BY <1>1, ClauseStays DEF Inv, qvars
<1>3. RShape /\ Looping
  BY DEF Inv
<1>4. root = 0
  BY <1>1, <1>3 DEF Looping
<1>5. RShape'
  <2>1. Cardinality(Table) \in Nat
    <3>1. Table \subseteq Rows
      BY DEF Table
    <3>2. QED
      BY <3>1, CellsAssumption, FS_Subset, FS_CardinalityType
  <2>2. QED
    BY <1>1, <1>3, <2>1, NoLoopIs DEF RShape
<1>6. Looping'
  BY <1>1, <1>2, <1>4 DEF Looping
<1>7. LoopsSeeEachOnce'
  <2>1. \E S : Content' \in Seq(S)
    <3>1. \E S : Content \in Seq(S)
      BY <1>3, SizeIs
    <3>2. QED
      BY <1>1, <3>1 DEF Content
  <2>2. SubSeq(Content', 1, 0) = <<>>
    BY <2>1, NothingSeen
  <2>3. QED
    BY <1>1, <2>2, NoLoopIs DEF LoopsSeeEachOnce
<1>8. QED
  BY <1>2, <1>5, <1>6, <1>7 DEF Inv

\* While a clause is written the results stay as they are.
LEMMA ResultsStay ==
    ASSUME Inv, UNCHANGED rvars, QInv', iterator = NoLoop, ended = "no"
    PROVE  Inv'
<1>1. UNCHANGED <<live, results, iterator, ended>>
  BY DEF rvars
<1>2. QED
  BY <1>1, IdleKeeps DEF Inv, RShape

\* Every step keeps the invariant.
LEMMA NextKeeps == Inv /\ [Next]_vars => Inv'
<1> SUFFICES ASSUME Inv, [Next]_vars PROVE Inv'
  OBVIOUS
<1>1. CASE Idle /\ Fresh /\ PrepareForQuery /\ UNCHANGED rvars
  <2>1. QInv'
    BY <1>1, PrepareKeeps DEF Inv
  <2>2. QED
    BY <1>1, <2>1, ResultsStay DEF Idle
<1>2. CASE root # 0 /\ QNext /\ UNCHANGED rvars
  <2>1. QInv'
    BY <1>2, QNextKeeps DEF Inv
  <2>2. iterator = NoLoop /\ ended = "no"
    BY <1>2 DEF Inv, Looping
  <2>3. QED
    BY <1>2, <2>1, <2>2, ResultsStay
<1>3. ASSUME NEW i \in DOMAIN operands, Where(i)
      PROVE  Inv'
  BY <1>3, WhereKeeps
<1>4. ASSUME NEW order \in {"ascending", "descending"}, Sort(order)
      PROVE  Inv'
  BY <1>4, SortKeeps DEF Orders
<1>5. CASE Freeze \/ Thaw
  BY <1>5, FreezeThawKeep
<1>6. ASSUME NEW r \in Rows, LinkingObjects(r)
      PROVE  Inv'
  BY <1>6, LinkingObjectsKeeps
<1>7. ASSUME NEW r \in live, RemoveRow(r)
      PROVE  Inv'
  BY <1>7, RemoveRowKeeps
<1>8. ASSUME NEW i \in 0..Cardinality(Table), At(i)
      PROVE  Inv'
  BY <1>8, AtKeeps
<1>9. CASE Begin
  BY <1>9, BeginKeeps
<1>10. CASE Step
  BY <1>10, StepKeeps
<1>11. CASE LoopEnds
  BY <1>11, LoopEndsKeeps
<1>12. CASE UNCHANGED vars
  <2>1. UNCHANGED qvars /\ UNCHANGED rvars
    BY <1>12 DEF vars, qvars, rvars
  <2>2. QInv'
    BY <2>1, ClauseStays DEF Inv
  <2>3. RShape' /\ Looping' /\ LoopsSeeEachOnce'
    <3>1. UNCHANGED <<live, results, iterator, ended, root>>
      BY <1>12 DEF vars
    <3>2. Content' = Content /\ Size' = Size
      BY <3>1 DEF Content, Size
    <3>3. QED
      BY <3>1, <3>2 DEF Inv, RShape, Looping, LoopsSeeEachOnce
  <2>4. QED
    BY <2>2, <2>3 DEF Inv
<1>13. QED
  BY <1>1, <1>2, <1>3, <1>4, <1>5, <1>6, <1>7, <1>8, <1>9, <1>10, <1>11, <1>12 DEF Next

\* The invariant holds in every state.
THEOREM Invariance == Spec => []Inv
<1>1. Inv /\ [Next]_vars => Inv'
  BY NextKeeps
<1>2. QED
  BY InitInv, <1>1, PTL DEF Spec

\* What an rbool means is rows of the table.
LEMMA TypedOperand ==
    ASSUME Shape, NEW i \in DOMAIN operands
    PROVE  operands[i].means \subseteq Table
  BY OperandIs DEF Operands

\* An unchanged rbool of a clause that is soundly built matches the rows it means.
LEMMA Means ==
    ASSUME QInv, NoneStale, NEW i \in DOMAIN operands,
           ~operands[i].changed, SoundlyBuilt(operands[i])
    PROVE  core[operands[i].q] = operands[i].means
<1>1. Unfaulty(operands[i])
  BY DEF SoundlyBuilt, Unfaulty
<1>2. CASE ~followed
  BY <1>1, <1>2 DEF QInv, Exact
<1>3. CASE followed
  <2>1. /\ operands[i].leaves = 1..Leaves
        /\ \A j \in DOMAIN operands : operands[j].conjunction
    BY <1>3 DEF SoundlyBuilt
  <2>2. PICK n \in Nat :
           /\ LeafSet = 1..n
           /\ \E lx \in [1..n -> SUBSET Rows] : Between(lx, n, core, root, operands)
    BY <2>1 DEF QInv, Conjunctive
  <2>3. PICK lx \in [1..n -> SUBSET Rows] : Between(lx, n, core, root, operands)
    BY <2>2
  <2>4. Leaves = n
    <3>1. Leaves = Cardinality(1..n)
      BY <2>2 DEF Leaves, LeafSet
    <3>2. QED
      BY <3>1, FS_Interval
  <2>5. /\ AllOf(lx, n) \subseteq core[operands[i].q]
        /\ core[operands[i].q] \subseteq operands[i].means
        /\ \A l \in 1..n : operands[i].means \subseteq lx[l]
    BY <1>1, <2>1, <2>3, <2>4 DEF Between
  <2>6. operands[i].means \subseteq Table
    BY TypedOperand DEF QInv
  <2>7. operands[i].means \subseteq AllOf(lx, n)
    BY <2>5, <2>6 DEF AllOf
  <2>8. QED
    BY <2>5, <2>7
<1>4. QED
  BY <1>2, <1>3

\* The type of a clause and of the results.
LEMMA InvIsTyped == Inv => TypeOK
<1> SUFFICES ASSUME Inv PROVE TypeOK
  OBVIOUS
<1>1. Shape /\ Owned /\ RShape
  BY DEF Inv, QInv
<1>2. \A i \in DOMAIN operands : operands[i].means \subseteq Table
  BY <1>1, TypedOperand
<1>3. QTypeOK
  BY <1>1, <1>2 DEF QTypeOK, Shape, Owned, Cores
<1>4. QED
  BY <1>1, <1>3 DEF TypeOK, RShape

\* In every state the results, the queries of a clause and its rbools are of
\* their types, and in a generated build no two rbools hold one core query.
THEOREM TypeCorrect == Spec => []TypeOK
<1>1. Inv => TypeOK
  BY InvIsTyped
<1>2. QED
  BY Invariance, <1>1, PTL

\* The query that a where() clause builds matches the rows its expression
\* means, in whatever order its operators are applied.
THEOREM QueryMeaning == Spec => []QueryMeansExpression
<1>1. Inv => QueryMeansExpression
  BY Means DEF Inv, QueryMeansExpression, NoneStale
<1>2. QED
  BY Invariance, <1>1, PTL

\* A clause evaluated on an object agrees with the query it builds.
THEOREM ClauseAgrees == Spec => []ClauseAgreesWithObjects
<1>1. Inv => ClauseAgreesWithObjects
  <2> SUFFICES ASSUME Inv, NoneStale, NEW i \in DOMAIN operands,
                      ~operands[i].changed, SoundlyBuilt(operands[i]),
                      operands[i].faults \cap KnownPlainFaults = {},
                      NEW r \in Table, operands[i].plain[r] # Null
               PROVE  operands[i].plain[r] = (r \in core[operands[i].q])
    BY DEF ClauseAgreesWithObjects, NoneStale
  <2>1. core[operands[i].q] = operands[i].means
    BY Means DEF Inv
  <2>2. operands[i].faults \cap (KnownQueryFaults \cup KnownPlainFaults) = {}
    BY DEF SoundlyBuilt
  <2>3. operands[i].plain[r] = (r \in operands[i].means)
    BY <2>2 DEF Inv, QInv, PlainAgrees
  <2>4. QED
    BY <2>1, <2>3
<1>2. QED
  BY Invariance, <1>1, PTL

\* A loop over results sees every object once and in order, unless a removal
\* moves the collection under it; frozen results are never moved.
THEOREM Loops == Spec => []LoopsSeeEachOnce
<1>1. Inv => LoopsSeeEachOnce
  BY DEF Inv
<1>2. QED
  BY Invariance, <1>1, PTL

\* A loop whose collection is not moved visits rows that are selected, each of
\* them before all that come after it in the order of sort(); at its end it
\* has visited every one.
LoopsVisitSelected ==
    iterator # NoLoop /\ ~iterator.moved =>
        LET visited == iterator.seen
            selected == Selected(results, live)
        IN  /\ Len(visited) = iterator.idx
            /\ \A i \in 1..iterator.idx : visited[i] \in selected
            /\ \A i, j \in 1..iterator.idx :
                  i < j => SortOrder(visited[i], visited[j], results.order)
            /\ iterator.idx = iterator.end =>
                  \A r \in selected : \E i \in 1..iterator.idx : visited[i] = r

\* So it is of every loop over results.  This adds to the property before it
\* that no row is left out, and is not among those a run checks.
THEOREM LoopsVisitEachRow == Spec => []LoopsVisitSelected
<1>1. Inv => LoopsVisitSelected
  <2> SUFFICES ASSUME Inv, iterator # NoLoop, ~iterator.moved
               PROVE  LoopsVisitSelected
    BY DEF LoopsVisitSelected
  <2> DEFINE k == iterator.idx
             visited == iterator.seen
  <2>1. /\ results.match \subseteq Table /\ results.order \in Orders
        /\ k \in Nat /\ k <= iterator.end
    BY DEF Inv, RShape
  <2>2. /\ visited = SubSeq(Content, 1, k) /\ iterator.end = Size
    BY DEF Inv, Looping, LoopsSeeEachOnce
  <2>3. /\ Size \in Nat /\ Size = Len(Content) /\ \E S : Content \in Seq(S)
    BY SizeIs DEF Inv
  <2>4. /\ \A i \in 1..Len(Content) : Content[i] \in Selected(results, live)
        /\ \A r \in Selected(results, live) : \E i \in 1..Len(Content) : Content[i] = r
        /\ \A i, j \in 1..Len(Content) : i < j => SortOrder(Content[i], Content[j], results.order)
    BY <2>1, ContentListsSelected DEF Content
  <2>5. Len(visited) = k /\ \A i \in 1..k : visited[i] = Content[i] /\ i \in 1..Len(Content)
    <3> DEFINE content == Content
    <3>1. PICK S : content \in Seq(S)
      BY <2>3
    <3>2. k <= Len(content) /\ visited = SubSeq(content, 1, k)
      BY <2>1, <2>2, <2>3
    <3> HIDE DEF content, k, visited
    <3>3. Len(visited) = k /\ \A i \in 1..k : visited[i] = content[i] /\ i \in 1..Len(content)
      BY <2>1, <3>1, <3>2
    <3>4. QED
      BY <3>3 DEF content
  <2> HIDE DEF k, visited
  <2>6. k = iterator.end => k = Len(Content)
    BY <2>2, <2>3
  <2>7. /\ Len(visited) = k
        /\ \A i \in 1..k : visited[i] \in Selected(results, live)
        /\ \A i, j \in 1..k : i < j => SortOrder(visited[i], visited[j], results.order)
    BY <2>4, <2>5
  <2>8. ASSUME k = iterator.end, NEW r \in Selected(results, live)
        PROVE  \E i \in 1..k : visited[i] = r
    BY <2>4, <2>5, <2>6, <2>8
  <2>9. QED
    BY <2>7, <2>8 DEF LoopsVisitSelected, k, visited
<1>2. QED
  BY Invariance, <1>1, PTL
=============================================================================
