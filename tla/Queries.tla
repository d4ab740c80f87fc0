---- MODULE Queries ----
(***************************************************************************)
(* Type-safe queries: what the expression in a where() clause does to the  *)
(* query that is built.  Every comparison on the placeholder object goes   *)
(* to one rbool, the root, which rewrites its own query and returns a copy *)
(* of itself; &&, || and ! then combine the copies, and change their left  *)
(* operand.                                                                *)
(*                                                                         *)
(* A query of realm-core is known by its extent, the rows it matches, and  *)
(* conditions are added to it in place.  bridge::query either holds one    *)
(* (generated builds) or shares one with its copies (shared_ptr builds):   *)
(* `core` holds the core queries made so far and a bridge query is an      *)
(* index into it.                                                          *)
(***************************************************************************)
EXTENDS ManagedTypes, FiniteSets, Sequences

CONSTANTS
    Queried,      \* the class where() is called on
    Columns,      \* class -> column -> [type, target]
    Cells,        \* row <<class, key>> -> column -> value
    Comparisons,  \* [class, col, key, op, val, meant]: what clauses may compare
    Later,        \* those that may follow another one, to bound the clauses
    MaxOperands   \* bound on the rbools of a clause

NoEntry == [col |-> Null, key |-> Null]
Rows == DOMAIN Cells
Table == {r \in Rows : r[1] = Queried}
Orderings == Ordered \ Equality

(* What compiles: an operator the type offers, with an argument of the     *)
(* type; empty() compares with the empty string, an object is not null.    *)
ASSUME ComparisonsAssumption ==
    /\ Later \subseteq Comparisons
    /\ MaxOperands \in Nat
    /\ \A c \in Comparisons :
        LET type == Columns[c.class][c.col].type
        IN  /\ c = [class |-> c.class, col |-> c.col, key |-> c.key,
                    op |-> c.op, val |-> c.val, meant |-> c.meant]
            /\ c.col \in DOMAIN Columns[c.class]
            /\ type \in DOMAIN Types
            /\ c.op \in DOMAIN Types[type].query
            /\ c.op = "empty" => c.val = 0
            /\ type = "link" => c.val # Null
            /\ c.op \in Orderings /\ type # "boxMixed" => c.val # Null

(* Links are to rows of their target, and a cell is null only where its    *)
(* type is an optional, a mixed or a link.                                 *)
Optional == {"pkOptionalInt", "boxMixed"}
ASSUME CellsAssumption ==
    /\ IsFiniteSet(Rows)
    /\ Null \notin Rows
    /\ \A r \in Rows : \A n \in DOMAIN Columns[r[1]] :
        LET column == Columns[r[1]][n]
            Linked(k) == k = Null \/ <<column.target, k>> \in Rows
            ordered == /\ column.type \in DOMAIN Types \ Optional
                       /\ DOMAIN Types[column.type].query \cap Orderings # {}
        IN  /\ column.type = "link" => Linked(Cells[r][n])
            /\ column.type = "boxLink" => \A k \in DOMAIN Cells[r][n] : Linked(Cells[r][n][k])
            /\ ordered => IF column.type \in DOMAIN Boxes
                          THEN \A k \in DOMAIN Cells[r][n] : Cells[r][n][k] # Null
                          ELSE Cells[r][n] # Null

VARIABLES
    generated,  \* whether this build stores core objects in the bridge
    core,       \* the extents of the core queries
    root,       \* the query of the root rbool, 0 outside of where()
    chain,      \* m_link_chain: the link columns followed
    entry,      \* m_dictionary_ctx: the dictionary entry followed
    operands,   \* the rbools of the clause
    followed    \* whether a link or mixed was compared after something else

qvars == <<generated, core, root, chain, entry, operands, followed>>

TypeOf(c) == Columns[c.class][c.col].type
IsBox(c) == TypeOf(c) \in DOMAIN Boxes
InPlace(c) == TypeOf(c) \in DOMAIN Accumulating

(* ----- rows and realm-core's conditions ----- *)

Follow(r, links) ==
    LET At[i \in 0..Len(links)] ==
            IF i = 0 THEN r
            ELSE IF At[i - 1] = Null THEN Null
            ELSE LET k == Cells[At[i - 1]][links[i]]
                 IN  IF k = Null THEN Null ELSE <<Columns[At[i - 1][1]][links[i]].target, k>>
    IN  At[Len(links)]

EntryOf(r, e) ==
    LET m == Cells[r][e.col]
    IN  IF e.key \notin DOMAIN m \/ m[e.key] = Null THEN Null
        ELSE <<Columns[r[1]][e.col].target, m[e.key]>>

CellAt(r, c) ==
    IF r = Null THEN Null
    ELSE IF ~IsBox(c) THEN Cells[r][c.col]
    ELSE IF c.key \in DOMAIN Cells[r][c.col] THEN Cells[r][c.col][c.key] ELSE Null

(* The class the next comparison is on. *)
Class ==
    IF entry # NoEntry THEN Columns[Queried][entry.col].target
    ELSE LET Of[i \in 0..Len(chain)] ==
                IF i = 0 THEN Queried ELSE Columns[Of[i - 1]][chain[i]].target
         IN  Of[Len(chain)]

(* ----- bridge::query ----- *)

NewCore(extent) == Append(core, extent)

(* Fault: the core query is shared in every build. *)
CopyOfShares(cores, q) == [core |-> cores, q |-> q]

(* The copy constructor, as every return by value runs it. *)
CopyOf(cores, q) ==
    IF generated THEN [core |-> Append(cores, cores[q]), q |-> Len(cores) + 1]
    ELSE [core |-> cores, q |-> q]

(* Replacing the query a handle stands for: by assignment to the core      *)
(* object it holds, or by holding another.                                 *)
Replace(cores, q, extent) ==
    IF generated THEN [core |-> [cores EXCEPT ![q] = extent], q |-> q]
    ELSE [core |-> Append(cores, extent), q |-> Len(cores) + 1]

(* equal(col_key, value) and its like add a condition to the core query,   *)
(* and then replace the query by the result.                               *)
AddCondition(cores, q, extent) ==
    LET both == cores[q] \cap extent
    IN  Replace([cores EXCEPT ![q] = both], q, both)
LinksTo(cores, q, extent) == AddCondition(cores, q, extent)
MixedCondition(cores, q, extent) == AddCondition(cores, q, extent)

(* query(table).equal(col_key, value), with a value and with nullopt. *)
Condition(op, c) == {r \in Table : Holds(op, CellAt(r, c), c.val)}
NullCondition(op, c) == {r \in Table : Holds(op, CellAt(r, c), Null)}
StringCondition(op, c) == {r \in Table : Holds(op, CellAt(r, c), c.val)}
DictionaryCondition(rows, op, c) == {r \in rows : Holds(op, CellAt(r, c), c.val)}
FalsePredicate == {}

(* subexpr: the same through the links of the chain. *)
SubexprNumber(op, c) == {r \in Table : Holds(op, CellAt(Follow(r, chain), c), c.val)}
SubexprValue(op, c) == {r \in Table : Holds(op, CellAt(Follow(r, chain), c), c.val)}

(* Equality with null is built as its negation. *)
SubexprLink(op, c) ==
    {r \in Table : Holds(IF c.val = Null THEN "!=" ELSE op, CellAt(Follow(r, chain), c), c.val)}

(* A column of the table the dictionary points to: a query over that       *)
(* table, in which the dictionary and the key do not occur.                *)
DictionaryLinkSubexpr(op, c) ==
    {r \in Rows : r[1] = c.class /\ Holds(op, CellAt(r, c), c.val)}

(* ----- rbool ----- *)

(* o.link->: the key joins the chain of the root. *)
AddLinkChain(col) == chain' = Append(chain, col)
AddDictionaryLinkChain(e) == entry' = e

(* The extent of the query a comparison of a scalar replaces the root's by. *)
DefineQuery(op, c) ==
    IF chain # <<>> THEN SubexprValue(op, c)
    ELSE IF entry # NoEntry THEN DictionaryLinkSubexpr(op, c)
    ELSE IF c.val # Null THEN Condition(op, c) ELSE NullCondition(op, c)
DefineNumericQuery(op, c) ==
    IF chain # <<>> THEN SubexprNumber(op, c)
    ELSE IF entry # NoEntry THEN DictionaryLinkSubexpr(op, c)
    ELSE Condition(op, c)
ContainsText(op, c) ==
    IF chain # <<>> THEN SubexprValue(op, c) ELSE StringCondition(op, c)

(* Of dictionary entries: over the whole table. *)
DictionaryQuery(op, c) == DictionaryCondition(Table, op, c)

Rebuilt(op, c) ==
    CASE IsBox(c) -> DictionaryQuery(op, c)
      [] op = "contains" -> ContainsText(op, c)
      [] op \in Equality -> DefineQuery(op, c)
      [] OTHER -> DefineNumericQuery(op, c)

(* Links and mixed values: without a chain, a condition on the root's own  *)
(* query, whatever that has become.                                        *)
LinkEqual(op, c) ==
    IF chain # <<>> THEN Replace(core, root, SubexprLink(op, c))
    ELSE LinksTo(core, root, Condition(op, c))
MixedEqual(op, c) ==
    IF chain # <<>> THEN Replace(core, root, SubexprValue(op, c))
    ELSE MixedCondition(core, root, Condition(op, c))

(* The leaves that do not mean what is written, by the use they fail in. *)
QueryFaults(c) ==
    {f \in {"enum <", "owner's key", "null behind a link", "dictionary link"} :
        CASE f = "enum <" -> TypeOf(c) = "enum" /\ c.op = "<"
          [] f = "owner's key" -> c.val # c.meant
          [] f = "null behind a link" -> TypeOf(c) = "linkToNull" /\ chain # <<>> /\ c.op = "=="
          [] f = "dictionary link" -> entry # NoEntry}
PlainFaults(c) ==
    {f \in {"link !=", "owner's key", "null ordered"} :
        CASE f = "link !=" -> TypeOf(c) = "link" /\ c.op = "!="
          [] f = "owner's key" -> c.val # c.meant
          [] f = "null ordered" -> /\ TypeOf(c) \in Optional
                                   /\ c.op \in {"<", "<="} \/ (c.op \in Orderings /\ c.val = Null)}

(* The row the comparison is about when the clause is evaluated on r. *)
Reached(r) == IF entry # NoEntry THEN EntryOf(r, entry) ELSE Follow(r, chain)

(* A comparison, evaluated on every object: Null where it throws. *)
Evaluated(c) ==
    LET Throws(r) == \/ Reached(r) = Null
                     \/ IsBox(c) /\ c.op # "has key" /\ c.key \notin DOMAIN Cells[Reached(r)][c.col]
    IN  [r \in Table |->
            IF Throws(r) THEN Null
            ELSE PlainHolds(Types[TypeOf(c)].plain[c.op], CellAt(Reached(r), c), c.val)]

(* An rbool of the clause: its query, what the clause says, what it comes  *)
(* to on each object, what is known to be wrong with it, whether it is a   *)
(* conjunction of comparisons, of which, whether it has been changed as the   *)
(* left operand of an operator, and whether it was made from one that had. *)
Operand(q, means, plain, faults, conjunction, leaves, stale) ==
    [q |-> q, means |-> means, plain |-> plain, faults |-> faults,
     conjunction |-> conjunction, leaves |-> leaves,
     changed |-> FALSE, stale |-> stale]
Leaves == Cardinality(UNION {operands[i].leaves : i \in DOMAIN operands})

Push(cores, q, Of(_)) ==
    LET copy == CopyOf(cores, q)
    IN  /\ core' = copy.core
        /\ operands' = Append(operands, Of(copy.q))

QInit ==
    /\ generated \in BOOLEAN
    /\ core = <<>> /\ root = 0
    /\ chain = <<>> /\ entry = NoEntry
    /\ operands = <<>> /\ followed = FALSE

(* where(fn) begins: the root holds a query over the whole table. *)
PrepareForQuery ==
    /\ root = 0
    /\ core' = <<Table>> /\ root' = 1
    /\ UNCHANGED <<generated, chain, entry, operands, followed>>

(* A query over the table of a dictionary's links is left alone: the next  *)
(* comparison would take its table for the one of the clause.              *)
SameTable == \A i \in DOMAIN operands : "dictionary link" \notin operands[i].faults
CanCompare == root # 0 /\ Len(operands) < MaxOperands /\ SameTable

(* operator-> of a link property, and of a link in a dictionary *)
ArrowLink(col) ==
    /\ CanCompare /\ entry = NoEntry /\ Len(chain) < 2
    /\ Columns[Class][col].type = "link"
    /\ AddLinkChain(col)
    /\ UNCHANGED <<generated, core, root, entry, operands, followed>>
ArrowEntry(col, key) ==
    /\ CanCompare /\ operands = <<>> /\ chain = <<>> /\ entry = NoEntry
    /\ Columns[Queried][col].type = "boxLink"
    /\ AddDictionaryLinkChain([col |-> col, key |-> key])
    /\ UNCHANGED <<generated, core, root, chain, operands, followed>>

(* Left out, as realm-core would refuse them: a dictionary behind a link   *)
(* and a link or string search behind a dictionary, which rbool looks up   *)
(* in the wrong table; and == of a mixed value behind a link, whose column *)
(* is taken for a string column and cast to a null pointer.                *)
Comparable(c) ==
    /\ c.class = Class
    /\ operands = <<>> \/ c \in Later
    /\ IsBox(c) => chain = <<>> /\ entry = NoEntry
    /\ InPlace(c) \/ c.op = "contains" => entry = NoEntry
    /\ ~(TypeOf(c) = "mixed" /\ chain # <<>> /\ c.op = "==")

Compare(c) ==
    LET op == Types[TypeOf(c)].query[c.op]
        new == CASE TypeOf(c) = "mixed" -> MixedEqual(op, c)
                 [] InPlace(c) /\ TypeOf(c) # "mixed" -> LinkEqual(op, c)
                 [] OTHER -> Replace(core, root, Rebuilt(op, c))
        means == {r \in Table : Holds(c.op, CellAt(Reached(r), [c EXCEPT !.val = c.meant]), c.meant)}
    IN  /\ CanCompare /\ Comparable(c)
        /\ Push(new.core, new.q, LAMBDA q :
               Operand(q, means, Evaluated(c), QueryFaults(c) \cup PlainFaults(c),
                       TRUE, {Leaves + 1}, FALSE))
        /\ root' = new.q
        /\ chain' = <<>>
        /\ entry' = NoEntry
        /\ followed' = (followed \/ (InPlace(c) /\ chain = <<>> /\ operands # <<>>))
        /\ UNCHANGED generated

Changed(i, q) == [operands EXCEPT ![i].q = q, ![i].changed = TRUE]

(* Returning *this from an operator of the i-th rbool. *)
Return(cores, i, q, means, plain, faults, conjunction, leaves, stale) ==
    LET copy == CopyOf(cores, q)
    IN  /\ core' = copy.core
        /\ operands' = Append(Changed(i, q),
               Operand(copy.q, means, plain, faults, conjunction, leaves, stale))
        /\ UNCHANGED <<generated, root, chain, entry, followed>>

CanCombine(i) ==
    /\ Len(operands) < MaxOperands /\ i \in DOMAIN operands
    /\ chain = <<>> /\ entry = NoEntry /\ SameTable
Both(i, j, Op(_, _)) ==
    [r \in Table |-> IF Null \in {operands[i].plain[r], operands[j].plain[r]} THEN Null
                     ELSE Op(operands[i].plain[r], operands[j].plain[r])]

(* Fault: the right query takes on the conditions. *)
AndQuerySwapped(i, j) ==
    [core EXCEPT ![operands[j].q] = @ \cap core[operands[i].q]]

(* and_query: the left query takes on the conditions of the right one. *)
AndQuery(i, j) ==
    [core EXCEPT ![operands[i].q] = @ \cap core[operands[j].q]]

And(i, j) ==
    LET a == operands[i]
        b == operands[j]
    IN  /\ CanCombine(i) /\ j \in DOMAIN operands
        /\ Return(AndQuery(i, j), i, a.q, a.means \cap b.means, Both(i, j, LAMBDA x, y : x /\ y),
                  a.faults \cup b.faults, a.conjunction /\ b.conjunction, a.leaves \cup b.leaves,
                  a.changed \/ b.changed)

(* A new query replaces the left one.  Of plain booleans, || is computed as &&. *)
Or(i, j) ==
    LET a == operands[i]
        b == operands[j]
        new == Replace(core, a.q, core[a.q] \cup core[b.q])
    IN  /\ CanCombine(i) /\ j \in DOMAIN operands
        /\ {"truepredicate"} \cap (a.faults \cup b.faults) = {}
        /\ Return(new.core, i, new.q, a.means \cup b.means, Both(i, j, LAMBDA x, y : x /\ y),
                  a.faults \cup b.faults \cup {"plain or"}, FALSE, a.leaves \cup b.leaves,
                  a.changed \/ b.changed)

Negate(q) == Replace(core, q, Table \ core[q])

Not(i) ==
    LET a == operands[i]
        new == Negate(a.q)
    IN  /\ CanCombine(i)
        /\ "truepredicate" \notin a.faults
        /\ Return(new.core, i, new.q, Table \ a.means,
                  [r \in Table |-> IF a.plain[r] = Null THEN Null ELSE ~a.plain[r]],
                  a.faults, FALSE, a.leaves, a.changed)

(* truepredicate and falsepredicate make an rbool of their own; evaluated  *)
(* on an object they throw.                                                *)
TruePredicate ==
    /\ CanCompare /\ chain = <<>> /\ entry = NoEntry
    /\ core' = NewCore(Table)
    /\ operands' = Append(operands,
           Operand(Len(core) + 1, Table, [r \in Table |-> Null], {"truepredicate"}, TRUE, {}, FALSE))
    /\ UNCHANGED <<generated, root, chain, entry, followed>>
FalsePredicateOf ==
    /\ CanCompare /\ chain = <<>> /\ entry = NoEntry
    /\ core' = NewCore(Table \cap FalsePredicate)
    /\ operands' = Append(operands,
           Operand(Len(core) + 1, {}, [r \in Table |-> Null], {}, FALSE, {}, FALSE))
    /\ UNCHANGED <<generated, root, chain, entry, followed>>

QNext ==
    \/ \E c \in Comparisons : Compare(c)
    \/ \E col \in DOMAIN Columns[Class] : ArrowLink(col)
    \/ \E col \in DOMAIN Columns[Queried], key \in {c.key : c \in Comparisons} \ {Null} :
          ArrowEntry(col, key)
    \/ \E i, j \in DOMAIN operands : And(i, j) \/ Or(i, j)
    \/ \E i \in DOMAIN operands : Not(i)
    \/ TruePredicate
    \/ FalsePredicateOf

(* ----- properties ----- *)

(* Queries are held as the build has it: in a generated build no two       *)
(* rbools share a core query; chains and entries are used up.              *)
QTypeOK ==
    /\ generated \in BOOLEAN /\ followed \in BOOLEAN
    /\ core \in Seq(SUBSET Rows)
    /\ root \in 0..Len(core)
    /\ root = 0 => core = <<>> /\ operands = <<>> /\ chain = <<>>
    /\ Len(operands) <= MaxOperands
    /\ \A i \in DOMAIN operands :
          /\ operands[i].q \in DOMAIN core
          /\ operands[i].means \subseteq Table
    /\ generated =>
          \A i \in DOMAIN operands :
              /\ operands[i].q # root
              /\ \A j \in DOMAIN operands : operands[i].q = operands[j].q => i = j

KnownQueryFaults == {"enum <", "owner's key", "null behind a link", "dictionary link"}
KnownPlainFaults == {"link !=", "owner's key", "null ordered", "plain or"}

(* Whether the queries built so far are each about their own condition, or *)
(* the clause has only conjunctions and the rbool is that of all of it.    *)
SoundlyBuilt(o) ==
    /\ o.faults \cap KnownQueryFaults = {}
    /\ ~followed \/ (o.leaves = 1..Leaves /\ \A i \in DOMAIN operands : operands[i].conjunction)

(* As long as the clause uses no rbool again that an operator has changed, *)
(* every other rbool matches the rows its expression is about, whatever    *)
(* was evaluated before and after it and whether the build copies queries  *)
(* or shares them: apart from the known faults, and for links and mixed    *)
(* values compared after something else only as the conjunction of all in  *)
(* a clause of nothing but conjunctions.  Without that, (b && c) with a    *)
(* negation or falsepredicate() in c narrows the query of b, to which the  *)
(* next link is added, although another conjunction may still use b.       *)
QueryMeansExpression ==
    (\A i \in DOMAIN operands : ~operands[i].stale) =>
        \A i \in DOMAIN operands :
            ~operands[i].changed /\ SoundlyBuilt(operands[i])
                => core[operands[i].q] = operands[i].means

(* where(fn) selects the objects fn is true of: the query an expression    *)
(* builds and the same expression evaluated on each object agree, where    *)
(* the evaluation does not throw, apart from || and the other known faults *)
(* of the operators on objects.                                            *)
ClauseAgreesWithObjects ==
    (\A i \in DOMAIN operands : ~operands[i].stale) =>
        \A i \in DOMAIN operands :
            /\ ~operands[i].changed /\ SoundlyBuilt(operands[i])
            /\ operands[i].faults \cap KnownPlainFaults = {}
            => \A r \in Table : operands[i].plain[r] # Null
                  => operands[i].plain[r] = (r \in core[operands[i].q])
====
