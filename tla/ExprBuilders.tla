---------------------------- MODULE ExprBuilders ----------------------------
(***************************************************************************)
(* The arguments of the expression builders of expr.py and of their users  *)
(* in dataframe.py: subscripts of a list column, casts, the bounds of a    *)
(* window frame, lists of expressions and names.  Every call is one step   *)
(* that records what the program wrote and what the code made of it.       *)
(***************************************************************************)
EXTENDS Integers, Sequences, FiniteSets, SequencesExt

CONSTANT Items   \* the value of the list column, one sequence

BuildersAssumption == Len(Items) > 0

VARIABLE last    \* the last call: what was written and what was made
vars == last
NoItem == [kind |-> "none"]

TypeOK == last.kind \in {"none", "item", "slice", "frame", "raised", "raw", "sort", "aggregate",
                         "coerce"}
Init == last = NoItem
Make(rec) == last' = rec
-----------------------------------------------------------------------------
(* Subscripts of the list column.                                          *)
N == Len(Items)
Positions == -N .. N
None == <<>>         \* a position that is left out; others are <<k>>
\* array_element and array_slice of the engine count from 1, from the end for a
\* negative index, and the slice includes its last element.
ArrayElement(k) == IF k \in 1 .. N THEN <<Items[k]>> ELSE IF -k \in 1 .. N THEN <<Items[N + k + 1]>> ELSE <<>>
ArraySlice(from, to, step) ==
    LET first == IF from < 0 THEN N + from + 1 ELSE IF from = 0 THEN 1 ELSE from
        final == IF to < 0 THEN N + to + 1 ELSE IF to > N THEN N ELSE to
        picked == {k \in 1 .. N : first <= k /\ k <= final /\ (k - first) % step = 0}
    IN  [j \in 1 .. Cardinality(picked) |-> Items[first + (j - 1) * step]]
\* What Python's own subscripts yield.
PythonItem(k) == IF k \in 0 .. N - 1 THEN <<Items[k + 1]>>
                 ELSE IF -k \in 1 .. N THEN <<Items[N + k + 1]>> ELSE <<>>
PythonSlice(start, stop, step) ==
    LET At(k) == IF k < 0 THEN N + k ELSE IF k > N THEN N ELSE k
        first == IF start = None THEN 0 ELSE At(start[1])
        end == IF stop = None THEN N ELSE At(stop[1])
        picked == {k \in 0 .. N - 1 : first <= k /\ k < end /\ (k - first) % step = 0}
    IN  [j \in 1 .. Cardinality(picked) |-> Items[first + (j - 1) * step + 1]]
\* Mutant: the index is passed on as it is.
ItemUnshifted(k) ==
    Make([kind |-> "item", plain |-> k >= 0, got |-> ArrayElement(k), want |-> PythonItem(k)])
GetItem(k) ==
    Make([kind |-> "item", plain |-> k >= 0, got |-> ArrayElement(k + 1), want |-> PythonItem(k)])
\* A start counts one up and a stop stays; without a start the slice begins at 1, and
\* without a stop None has no expression: AttributeError.
GetSlice(start, stop, step) ==
    LET from == IF start = None THEN 1 ELSE start[1] + 1
    IN  Make([kind |-> "slice",
                   plain |-> stop # None /\ \A k \in ToSet(start \o stop) : k >= 0,
                   got |-> IF stop = None THEN <<"AttributeError">> ELSE ArraySlice(from, stop[1], step),
                   want |-> PythonSlice(start, stop, step)])
-----------------------------------------------------------------------------
(* Casts and window frames.                                                *)
\* A cast goes to a Python type that has an Arrow type, or to an Arrow type.
PythonTypes == {"float", "int", "str", "bool"}
Cast(to) == Make(IF to \in PythonTypes \cup {"arrow"} THEN NoItem ELSE [kind |-> "raised"])
TryCast(to) == Cast(to)

Units == {"rows", "range", "groups", "ROWS"}
Bounds == {[scalar |-> s, n |-> n] : s \in BOOLEAN, n \in -1 .. 1}
\* A Python number is cast to an unsigned one when the units count rows or groups.
CastBound(units, bound) ==
    bound = NoItem \/ bound.scalar \/ units \notin {"rows", "groups"} \/ bound.n >= 0
\* The native frame: units in any case, and bounds are needed for groups.
Frame(units, start, end) ==
    Make(IF /\ CastBound(units, start) /\ CastBound(units, end)
            /\ units = "groups" => NoItem \notin {start, end}
         THEN [kind |-> "frame", units |-> units, start |-> start, end |-> end]
         ELSE [kind |-> "raised"])
-----------------------------------------------------------------------------
(* Argument lists.  A Python argument is an expression, a sort key, a       *)
(* string, a number, or a list of arguments.                               *)
Atoms == {"expr", "sort", "str", "int"}
TypeError == <<"TypeError">>
\* ensure_expr, coerce_to_expr and _to_raw_expr of one argument.
EnsureExpr(a) == IF a = "expr" THEN "expr" ELSE "error"
CoerceToExpr(a) == IF a = "expr" THEN "expr" ELSE "literal"
ToRawExpr(a) == IF a = "str" THEN "column" ELSE IF a = "expr" THEN "expr" ELSE "error"
Whole(seq) == IF "error" \in ToSet(seq) THEN TypeError ELSE seq
Each(Op(_), list) == Whole([k \in DOMAIN list |-> Op(list[k])])
\* ensure_expr_list flattens nested lists; the others take one argument or a list.
EnsureExprList(lists) == Each(EnsureExpr, FlattenSeq(lists))
ExprListToRaw(list) == Each(ToRawExpr, list)
SortOrDefault(a) == IF a = "sort" THEN "sort" ELSE IF ToRawExpr(a) = "error" THEN "error" ELSE "ascending"
SortListToRaw(list) == Each(SortOrDefault, list)
CoerceList(list) == [k \in DOMAIN list |-> CoerceToExpr(list[k])]
Lists == UNION {[1 .. n -> Atoms] : n \in 0 .. 2}
PartitionBy(list) == Make([kind |-> "raw", given |-> list, got |-> ExprListToRaw(list)])
OrderBy(list) == Make([kind |-> "sort", given |-> list, got |-> SortListToRaw(list)])
\* GroupingSet: the arguments of rollup and cube, and of each set, are converted alike.
Rollup(list) == Make([kind |-> "raw", given |-> list, got |-> ExprListToRaw(list)])
Cube(list) == Make([kind |-> "raw", given |-> list, got |-> ExprListToRaw(list)])
GroupingSets(x, y) == Make([kind |-> "raw", given |-> x \o y, got |->
    IF TypeError \in {ExprListToRaw(x), ExprListToRaw(y)} THEN TypeError
    ELSE ExprListToRaw(x) \o ExprListToRaw(y)])
\* select: strings are the names of columns.
Select(list) == Make([kind |-> "raw", given |-> list, got |-> ExprListToRaw(list)])
\* aggregate: no keys (None), one key or a sequence of them, and the aggregates, in lists
\* within lists or not.
Aggregate(keys, aggs) == Make([kind |-> "aggregate", given |-> keys, aggs |-> aggs, got |->
    IF TypeError \in {ExprListToRaw(keys), EnsureExprList(aggs)} THEN TypeError
    ELSE ExprListToRaw(keys) \o EnsureExprList(aggs)])
Call(list) == Make([kind |-> "coerce", given |-> list, got |-> CoerceList(list)])

Next ==
    \/ \E to \in {"int", "arrow", "list"} : Cast(to) \/ TryCast(to)
    \/ \E k \in Positions : GetItem(k)
    \/ \E k, m \in {<<x>> : x \in Positions} \cup {None}, s \in 1 .. 2 : GetSlice(k, m, s)
    \/ \E u \in Units, b, c \in Bounds \cup {NoItem} : Frame(u, b, c)
    \/ \E l \in Lists : \/ PartitionBy(l) \/ OrderBy(l) \/ Select(l) \/ Call(l)
                     \/ Rollup(l) \/ Cube(l)
    \/ \E l, m \in Lists : GroupingSets(l, m) \/ Aggregate(l, <<m>>)
Spec == Init /\ [][Next]_vars

-----------------------------------------------------------------------------
(* A subscript without negative positions and with a stop yields what      *)
(* Python yields, at every boundary.                                       *)
PlainSubscripts == last.kind \in {"item", "slice"} /\ last.plain => last.got = last.want

(* A frame of rows or groups made from Python numbers has no negative      *)
(* bound, and one of groups has both.                                      *)
CountedBounds == last.kind = "frame" /\ last.units \in {"rows", "groups"} =>
    \A b \in {last.start, last.end} :
        IF b = NoItem THEN last.units = "rows" ELSE b.scalar \/ b.n >= 0

(* A string names a column where columns are expected (select, the keys of *)
(* an aggregate, partitions, sort keys), is a literal where values are,    *)
(* and is refused among the aggregates; a list with anything else in it is *)
(* refused as a whole.                                                     *)
StringsByPlace ==
    /\ last.kind \in {"raw", "sort", "aggregate"} /\ last.got # TypeError =>
         \A k \in DOMAIN last.given :
             \/ last.given[k] = "str" /\ last.got[k] \in {"column", "ascending"}
             \/ last.given[k] \in {"expr", "sort"} /\ last.got[k] \notin {"column", "literal"}
    /\ last.kind = "aggregate" /\ last.got # TypeError =>
         ToSet(FlattenSeq(last.aggs)) \subseteq {"expr"}
    /\ last.kind = "coerce" => "column" \notin ToSet(last.got) /\ Len(last.got) = Len(last.given)

=============================================================================
