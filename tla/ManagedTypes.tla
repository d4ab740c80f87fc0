---- MODULE ManagedTypes ----
(***************************************************************************)
(* The comparison operators of the managed property types.  Each one has   *)
(* two uses: on an object it compares the value that is stored; on the     *)
(* placeholder object of a query it calls a method of rbool, which builds  *)
(* the query.  A type is a record of the two: `query` and `plain` map each *)
(* operator the type offers to the comparison that is made.  Operators     *)
(* that do not compile (the orderings of optional enums) are left out.     *)
(***************************************************************************)
EXTENDS Integers

CONSTANT Null   \* std::nullopt, nullptr, a null link

Equality == {"==", "!="}
Ordered == Equality \cup {"<", ">", "<=", ">="}

(* __cpprealm_build_query and __cpprealm_build_optional_query *)
Built(ops) == [query |-> [o \in ops |-> o], plain |-> [o \in ops |-> o]]

ManagedInt == Built(Ordered)
ManagedDouble == Built(Ordered)
ManagedBool == Built(Equality)
ManagedOptionalNumber == Built(Equality)
(* operator< calls greater() *)
ManagedEnum == [Built(Ordered) EXCEPT !.query["<"] = ">"]
ManagedOptionalEnum == Built(Equality)
(* Fault: <= on an object leaves out the equal value. *)
ManagedTimestampStrict == [Built(Ordered) EXCEPT !.plain["<="] = "<"]
ManagedTimestamp == Built(Ordered)
ManagedDecimal == Built(Ordered)
ManagedUuid == Built(Equality)
ManagedObjectId == Built(Equality)
ManagedBinary == Built(Equality)
ManagedOptionalBinary == Built(Equality)
ManagedOptionalString == Built(Equality)
(* empty() builds a comparison with the empty string, 0 here. *)
ManagedString == [Built(Equality \cup {"contains", "empty"}) EXCEPT !.query["empty"] = "=="]
ManagedMixed == Built(Equality)

PrimaryKeyInt == Built(Ordered)
PrimaryKeyString == Built(Equality)
PrimaryKeyEnum == Built(Equality)
PrimaryKeyOptionalEnum == Built(Equality)
PrimaryKeyOptionalInt == Built(Ordered)
PrimaryKeyOptional == Built(Equality)

(* != with another object or link tells whether this one is not null. *)
ManagedLink == [Built(Equality) EXCEPT !.plain["!="] = "valid"]
ManagedLinkToNull == Built(Equality)

(* The values of a dictionary, by key. *)
BoxBase == Built(Equality)
BoxInt == Built(Ordered)
BoxDouble == Built(Ordered)
BoxMixed == Built(Ordered)
BoxDecimal == Built(Ordered)
BoxTimestamp == Built(Ordered)
BoxString == Built(Equality \cup {"contains"})
BoxLink == Built(Equality)
ContainsKey == Built({"has key"})

Scalars ==
    [int |-> ManagedInt, double |-> ManagedDouble, bool |-> ManagedBool,
     optional |-> ManagedOptionalNumber, enum |-> ManagedEnum,
     optionalEnum |-> ManagedOptionalEnum, timestamp |-> ManagedTimestamp,
     decimal |-> ManagedDecimal, uuid |-> ManagedUuid, objectId |-> ManagedObjectId,
     binary |-> ManagedBinary, optionalBinary |-> ManagedOptionalBinary,
     string |-> ManagedString, optionalString |-> ManagedOptionalString,
     pkInt |-> PrimaryKeyInt, pkString |-> PrimaryKeyString, pkEnum |-> PrimaryKeyEnum,
     pkOptionalEnum |-> PrimaryKeyOptionalEnum, pkOptionalInt |-> PrimaryKeyOptionalInt,
     pkOptional |-> PrimaryKeyOptional]
Accumulating == [mixed |-> ManagedMixed, link |-> ManagedLink, linkToNull |-> ManagedLinkToNull]
Boxes ==
    [box |-> BoxBase, boxInt |-> BoxInt, boxDouble |-> BoxDouble, boxMixed |-> BoxMixed,
     boxDecimal |-> BoxDecimal, boxTimestamp |-> BoxTimestamp, boxString |-> BoxString,
     boxLink |-> BoxLink, hasKey |-> ContainsKey]
Types ==
    [t \in DOMAIN Scalars \cup DOMAIN Accumulating \cup DOMAIN Boxes |->
        IF t \in DOMAIN Scalars THEN Scalars[t]
        ELSE IF t \in DOMAIN Accumulating THEN Accumulating[t] ELSE Boxes[t]]

(* What an operator is read to mean, and what realm-core's comparisons do: *)
(* nothing is ordered with null.  Strings are runs of one letter.          *)
Holds(op, x, v) ==
    CASE op = "==" -> x = v
      [] op = "!=" -> x # v
      [] op = "empty" -> x = 0
      [] op = "valid" -> x # Null
      [] op = "has key" -> x # Null
      [] OTHER -> /\ x # Null /\ v # Null
                  /\ CASE op = "<" -> x < v
                       [] op = ">" -> x > v
                       [] op = "<=" -> x <= v
                       [] op = ">=" -> x >= v
                       [] op = "contains" -> v <= x

(* The operators of std::optional and of mixed: null comes before every value. *)
PlainHolds(op, x, v) ==
    CASE Null \in {x, v} /\ op = "<" -> v # Null
      [] Null \in {x, v} /\ op = ">" -> x # Null
      [] Null \in {x, v} /\ op = "<=" -> x = Null
      [] Null \in {x, v} /\ op = ">=" -> v = Null
      [] OTHER -> Holds(op, x, v)
====
