---- MODULE MCObjects ----
(* People, with a primary key, who have dogs, which have none, and          *)
(* embedded addresses; between them they have every kind of property.      *)
EXTENDS Detaching

CONSTANTS Nil

MCClasses == {"Person", "Dog", "Addr"}
MCEmbedded == {"Addr"}
P(n, k) == [name |-> n, kind |-> k, target |-> "none"]
L(n, k, t) == [name |-> n, kind |-> k, target |-> t]
MCSchema ==
    [c \in MCClasses |->
        CASE c = "Person" -> <<P("id", "pk"), P("age", "number"), P("tags", "insertList"),
                               P("flags", "boolList"), L("dog", "link", "Dog"),
                               L("pets", "linkList", "Dog"), L("home", "link", "Addr"),
                               L("homes", "linkList", "Addr"), L("peers", "linkSet", "Person"),
                               L("book", "linkMap", "Person")>>
          [] c = "Dog" -> <<P("age", "value"), P("nums", "list"), P("marks", "set"), P("notes", "map")>>
          [] OTHER -> <<P("age", "number")>>]

Person(id, age, tags, dog, pets, home, homes, peers, book) ==
    [id |-> id, age |-> age, tags |-> tags, flags |-> <<1>>, dog |-> dog, pets |-> pets,
     home |-> home, homes |-> homes, peers |-> peers, book |-> book]

MCHeap ==
    [p \in {"ann", "bob", "ann2", "cat", "rex", "here", "there"} |->
        CASE p = "ann" -> Person(1, 1, <<1, 2>>, "rex", <<>>, "here", <<"there">>, {}, <<>>)
          [] p = "bob" -> Person(2, 2, <<>>, "rex", <<>>, "there", <<>>, {"ann"}, <<>>)
          \* the same person as ann, who knows bob, who knows ann
          [] p = "ann2" -> Person(1, Nil, <<2>>, Nil, <<Nil, "rex">>, Nil, <<"here">>, {}, "k" :> "bob")
          \* a gap before an embedded object
          [] p = "cat" -> Person(3, 2, <<>>, Nil, <<>>, Nil, <<Nil, "there">>, {}, "k" :> Nil)
          [] p = "rex" -> [age |-> 2, nums |-> <<1>>, marks |-> {1, 2}, notes |-> "k" :> 1]
          [] p = "here" -> [age |-> 1]
          [] OTHER -> [age |-> 2]]
MCClassOf ==
    [p \in DOMAIN MCHeap |->
        CASE p \in {"ann", "bob", "ann2", "cat"} -> "Person" [] p = "rex" -> "Dog" [] OTHER -> "Addr"]
====
