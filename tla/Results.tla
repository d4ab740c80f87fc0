---- MODULE Results ----
(***************************************************************************)
(* Results: where() turns a finished clause into a live collection; it is  *)
(* filtered again, sorted, frozen, thawed and iterated over while rows are *)
(* removed.                                                                *)
(***************************************************************************)
EXTENDS Queries

CONSTANTS
    SortColumn,   \* the column sort() is called with
    LinkColumn    \* the link column linking_objects follows, and its target

(* Results are sorted by a column of integers, and rows by their keys.     *)
ASSUME SortAssumption ==
    \A r \in Table : /\ r = <<Queried, r[2]>> /\ r[2] \in Int
                     /\ Cells[r][SortColumn] \in Int

VARIABLES
    live,      \* the rows of the table that exist
    results,   \* [match, order, at]: the rows selected, their order, and the
               \* version it is frozen at, Live if it is not
    iterator,  \* [idx, end, seen, moved] of a loop over the results
    ended      \* "no", "thrown" (out_of_range) or "terminated"

rvars == <<live, results, iterator, ended>>
vars == <<generated, core, root, chain, entry, operands, followed, live, results, iterator, ended>>

Live == {Null}
NoLoop == [idx |-> 0, end |-> 0, seen |-> <<>>, moved |-> FALSE]

(* realm-core keeps the rows of a query in table order and sorts stably. *)
KeyOrder(r, s) == r[2] < s[2]
SortOrder(r, s, order) ==
    LET x == Cells[r][SortColumn]
        y == Cells[s][SortColumn]
    IN  \/ order = "ascending" /\ x < y
        \/ order = "descending" /\ x > y
        \/ (order = "table" \/ x = y) /\ KeyOrder(r, s)
Selected(res, present) == res.match \cap (IF res.at = Live THEN present ELSE res.at)
(* At each index the row that as many others come before.                  *)
ContentOf(res, present) ==
    LET selected == Selected(res, present)
        Before(r) == {s \in selected : SortOrder(s, r, res.order)}
    IN  [i \in 1..Cardinality(selected) |->
            CHOOSE r \in selected : Cardinality(Before(r)) = i - 1]
Content == ContentOf(results, live)
Size == Len(Content)

Whole(at) == [match |-> Table, order |-> "table", at |-> at]

RInit ==
    /\ live = Table
    /\ results = Whole(Live)
    /\ iterator = NoLoop
    /\ ended = "no"

Idle == root = 0 /\ iterator = NoLoop /\ ended = "no"

(* where(fn) ends: the query of the rbool that fn returns replaces the     *)
(* selection, over the realm of the results but the whole table.           *)
Where(i) ==
    /\ root # 0 /\ chain = <<>> /\ entry = NoEntry
    /\ i \in DOMAIN operands
    /\ "dictionary link" \notin operands[i].faults
    /\ results' = [match |-> core[operands[i].q], order |-> "table", at |-> results.at]
    /\ core' = <<>> /\ root' = 0 /\ operands' = <<>> /\ followed' = FALSE
    /\ UNCHANGED <<generated, chain, entry, live, iterator, ended>>

(* sort(): the same rows in an order of their own *)
Sort(order) ==
    /\ Idle
    /\ results' = [results EXCEPT !.order = order]
    /\ UNCHANGED <<qvars, live, iterator, ended>>

(* freeze() and thaw() take the whole table of the other realm. *)
Freeze ==
    /\ Idle /\ results.at = Live
    /\ results' = Whole(live)
    /\ UNCHANGED <<qvars, live, iterator, ended>>
Thaw ==
    /\ Idle /\ results.at # Live
    /\ results' = Whole(Live)
    /\ UNCHANGED <<qvars, live, iterator, ended>>

(* linking_objects: the rows that link to one that exists *)
LinkingObjects(r) ==
    /\ Idle /\ r \in Rows \ Table
    /\ r[1] = Columns[Queried][LinkColumn].target
    /\ results' = [match |-> {s \in Table : Cells[s][LinkColumn] = r[2]},
                   order |-> "table", at |-> Live]
    /\ UNCHANGED <<qvars, live, iterator, ended>>

(* A row is removed: live results follow at once. *)
RemoveRow(r) ==
    /\ root = 0 /\ r \in live /\ ended = "no"
    /\ live' = live \ {r}
    /\ iterator' = [iterator EXCEPT !.moved =
           @ \/ (iterator # NoLoop /\ ContentOf(results, live \ {r}) # Content)]
    /\ UNCHANGED <<qvars, results, ended>>

(* operator[]: an index past the end throws. *)
At(i) ==
    /\ Idle
    /\ ended' = IF i >= Size THEN "thrown" ELSE "no"
    /\ UNCHANGED <<qvars, live, results, iterator>>

(* Fault: end() is that of the table. *)
BeginUnfiltered ==
    /\ Idle
    /\ Size > 0
    /\ iterator' = [idx |-> 0, end |-> Cardinality(live), seen |-> <<>>, moved |-> FALSE]
    /\ UNCHANGED <<qvars, live, results, ended>>

(* begin() and end(): the size is read once. *)
Begin ==
    /\ Idle
    /\ Size > 0
    /\ iterator' = [idx |-> 0, end |-> Size, seen |-> <<>>, moved |-> FALSE]
    /\ UNCHANGED <<qvars, live, results, ended>>

(* operator* is noexcept, and past the end it throws.  ++ follows it. *)
Advance(it) == [it EXCEPT !.idx = @ + 1, !.seen = Append(@, Content[it.idx + 1])]
Step ==
    /\ iterator # NoLoop /\ ended = "no"
    /\ iterator.idx < iterator.end
    /\ IF iterator.idx >= Size
       THEN ended' = "terminated" /\ UNCHANGED iterator
       ELSE iterator' = Advance(iterator) /\ UNCHANGED ended
    /\ UNCHANGED <<qvars, live, results>>
LoopEnds ==
    /\ iterator # NoLoop /\ iterator.idx = iterator.end /\ ended = "no"
    /\ iterator' = NoLoop
    /\ UNCHANGED <<qvars, live, results, ended>>

Init == QInit /\ RInit

(* A bound: clauses are written for the results of objects<T>() only. *)
Fresh == live = Table /\ results = Whole(Live)

Next ==
    \/ Idle /\ Fresh /\ PrepareForQuery /\ UNCHANGED rvars
    \/ root # 0 /\ QNext /\ UNCHANGED rvars
    \/ \E i \in DOMAIN operands : Where(i)
    \/ \E order \in {"ascending", "descending"} : Sort(order)
    \/ Freeze
    \/ Thaw
    \/ \E r \in Rows : LinkingObjects(r)
    \/ \E r \in live : RemoveRow(r)
    \/ \E i \in 0..Cardinality(Table) : At(i)
    \/ Begin
    \/ Step
    \/ LoopEnds

Spec == Init /\ [][Next]_vars

(* ----- properties ----- *)

TypeOK ==
    /\ QTypeOK
    /\ live \subseteq Table
    /\ results.match \subseteq Table
    /\ results.at = Live \/ live \subseteq results.at
    /\ ended \in {"no", "thrown", "terminated"}
    /\ iterator.idx <= iterator.end /\ iterator.end <= Cardinality(Table)

(* A loop sees the collection as it was when it began, in order and each   *)
(* object once, unless a removal has moved the collection under it; and    *)
(* only then can it end the program.  A frozen collection is never moved.  *)
LoopsSeeEachOnce ==
    /\ ~iterator.moved => iterator.seen = SubSeq(Content, 1, iterator.idx)
    /\ ended = "terminated" => iterator.moved
    /\ iterator.moved => results.at = Live
====
