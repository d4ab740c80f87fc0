---- MODULE MCQueries ----
(* Three people and two dogs, with a column of every managed type, and one *)
(* comparison of each type.                                                *)
EXTENDS Results, TLC

P(k) == <<"Person", k>>
D(k) == <<"Dog", k>>

PersonColumns ==
    [n \in {"int", "double", "bool", "optional", "enum", "optionalEnum", "timestamp",
            "decimal", "uuid", "objectId", "binary", "optionalBinary", "string",
            "optionalString", "pkInt", "pkString", "pkEnum", "pkOptionalEnum",
            "pkOptionalInt", "pkOptional", "mixed", "box", "boxInt", "boxDouble",
            "boxMixed", "boxDecimal", "boxTimestamp", "boxString", "hasKey"} |->
        [type |-> n, target |-> Null]]
    @@ [n \in {"boxLink", "link"} |-> [type |-> n, target |-> "Dog"]]
    @@ ("linkNull" :> [type |-> "linkToNull", target |-> "Dog"])
DogColumns ==
    [n \in {"int", "mixed", "string"} |-> [type |-> n, target |-> Null]]
    @@ ("link" :> [type |-> "link", target |-> "Person"])
    @@ ("linkNull" :> [type |-> "linkToNull", target |-> "Person"])
MCColumns == ("Person" :> PersonColumns) @@ ("Dog" :> DogColumns)

Nullable == {"optional", "optionalEnum", "optionalBinary", "optionalString", "pkOptionalEnum",
             "pkOptionalInt", "pkOptional", "mixed"}
(* Person k: v in every scalar column, a dog or none, and the dictionary m. *)
Person(v, dog, m) ==
    [n \in DOMAIN PersonColumns |->
        CASE n \in {"link", "linkNull"} -> dog
          [] PersonColumns[n].type \in DOMAIN Boxes -> m
          [] n \in Nullable /\ v = 0 -> Null
          [] n = "enum" -> 2 - v
          [] OTHER -> v]
Dog(v, owner) ==
    [n \in DOMAIN DogColumns |-> IF n \in {"link", "linkNull"} THEN owner ELSE v]
MCCells ==
    (P(0) :> Person(0, 1, [k |-> 1])) @@ (P(1) :> Person(1, Null, [k |-> 0]))
    @@ (P(2) :> Person(2, 0, <<>>))
    @@ (D(0) :> Dog(1, Null)) @@ (D(1) :> Dog(2, 0))

On(class, col, op, val) ==
    [class |-> class, col |-> col, key |-> Null, op |-> op, val |-> val, meant |-> val]
Key(col, op, val) == [On("Person", col, op, val) EXCEPT !.key = "k"]

MCLater ==
    {On("Person", "int", "<", 2), On("Person", "enum", "<", 1), On("Person", "mixed", "==", 1),
     On("Person", "link", "==", 1), On("Dog", "int", "!=", 1)}
MCComparisons ==
    MCLater \cup
    {On("Person", n, "==", 1) :
        n \in {"double", "bool", "uuid", "objectId", "binary", "pkString", "pkEnum"}}
    \cup {On("Person", n, "!=", Null) :
        n \in {"optional", "optionalEnum", "optionalBinary", "optionalString",
               "pkOptionalEnum", "pkOptional", "linkNull"}}
    \cup {On("Person", n, "<=", 1) : n \in {"timestamp", "decimal", "pkInt", "pkOptionalInt"}}
    \cup {On("Person", "string", "contains", 1), On("Person", "string", "empty", 0),
          On("Person", "enum", ">", 1), On("Person", "link", "!=", 1),
          [On("Person", "link", "==", 0) EXCEPT !.meant = 1],
          On("Person", "linkNull", "==", Null), On("Dog", "mixed", "!=", 1),
          On("Dog", "string", "contains", 2),
          On("Dog", "link", "==", 0), On("Dog", "linkNull", "==", Null),
          On("Dog", "linkNull", "!=", Null)}
    \cup {Key(n, ">=", 1) : n \in {"boxInt", "boxDouble", "boxMixed", "boxDecimal", "boxTimestamp"}}
    \cup {Key("box", "!=", 1), Key("boxString", "contains", 1), Key("boxLink", "==", 0),
          Key("hasKey", "has key", 0)}
====
