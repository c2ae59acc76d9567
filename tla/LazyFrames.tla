----------------------------- MODULE LazyFrames -----------------------------
(***************************************************************************)
(* The DataFrame of dataframe.py: a plan over a registered table, extended *)
(* call by call and executed later, while rows are appended to the table.  *)
(* A plan is what it would return for every content the table can have; a  *)
(* call that executes something at once bakes the content of that moment   *)
(* into the plan.  ops records the program text, and Meaning gives each    *)
(* call the rows its documentation promises.  Argument handling of join    *)
(* and of the writers is modelled beside it, one call at a time.           *)
(***************************************************************************)
EXTENDS Integers, Sequences, FiniteSets, SequencesExt, TLC

CONSTANTS MaxValue,   \* numbers in the column are 1 .. MaxValue
          MaxRows,    \* rows the table may hold (model bound)
          MaxOps      \* calls in one chain (model bound)

FramesAssumption == MaxValue \in Nat \ {0} /\ MaxRows \in Nat /\ MaxOps \in Nat

Null == -1
Overflow == -2        \* a value that does not fit the type it is cast to
Numbers == 1 .. MaxValue
Values == Numbers \cup {Null}
Tables == UNION {[1 .. k -> Values] : k \in 0 .. MaxRows}
Row(v) == [c \in {"a"} |-> v]
TableRows(t) == [i \in 1 .. Len(t) |-> Row(t[i])]

VARIABLES table,     \* the content of the registered table
          frame,     \* content |-> rows the plan returns for it
          columns,   \* columns of the plan
          ops,       \* the calls of the chain, as written
          seen,      \* <<>> or <<rows>>: the plan executed on the table as it is
          last       \* the last join or write, by its arguments

vars == <<table, frame, columns, ops, seen, last>>
Nothing == [kind |-> "none"]

Min2(i, j) == IF i < j THEN i ELSE j
Max2(i, j) == IF i > j THEN i ELSE j
-----------------------------------------------------------------------------
(* The engine's operators on rows.  A row with a value that cannot be      *)
(* converted passes every filter: executing the plan raises.               *)
EngineLimit(rows, n, skip) == SubSeq(rows, skip + 1, Min2(skip + n, Len(rows)))
EngineDistinct(rows) ==
    FoldLeft(LAMBDA acc, r : IF Contains(acc, r) THEN acc ELSE Append(acc, r), <<>>, rows)
EngineWith(rows, c, V(_)) ==
    [i \in 1 .. Len(rows) |->
        [x \in DOMAIN rows[i] \cup {c} |-> IF x = c THEN V(rows[i]) ELSE rows[i][x]]]
EngineProject(rows, S) == [i \in 1 .. Len(rows) |-> [c \in S |-> rows[i][c]]]
Holds(p, r) == r["a"] = Overflow \/ (r["a"] # Null /\ (p = "a > 1" => r["a"] > 1))
\* Arrow types: one that holds every number, the Booleans, and one too narrow for most.
Types == {"float", "bool", "narrow"}
Converted(v, to) ==
    CASE v \in {Null, Overflow} \/ to = "float" -> v
      [] v \in Numbers /\ to = "bool" -> 1
      [] v \in Numbers /\ to = "narrow" -> IF v = 1 THEN v ELSE Overflow
-----------------------------------------------------------------------------
(* What the documentation of each call promises, on the rows before it.    *)
FirstOf(rows) ==
    LET at == {i \in 1 .. Len(rows) : \A j \in 1 .. i - 1 : rows[j] # rows[i]}
    IN  [k \in 1 .. Cardinality(at) |->
            rows[CHOOSE i \in at : Cardinality({j \in at : j <= i}) = k]]
Once(call, rows) == IF call.distinct THEN FirstOf(rows) ELSE rows
Meaning(rows, call, t) ==
    CASE call.op = "filter" ->
            SelectSeq(rows, LAMBDA r : \A i \in DOMAIN call.preds : Holds(call.preds[i], r))
      [] call.op = "head" -> SubSeq(rows, 1, Min2(call.n, Len(rows)))
      [] call.op = "tail" -> SubSeq(rows, Max2(1, Len(rows) - call.n + 1), Len(rows))
      [] call.op = "limit" ->
            [i \in 1 .. Max2(0, Min2(call.n, Len(rows) - call.offset)) |-> rows[call.offset + i]]
      [] call.op = "distinct" -> FirstOf(rows)
      [] call.op = "select" -> [i \in 1 .. Len(rows) |-> [c \in call.cols |-> rows[i][c]]]
      [] call.op = "rename" ->
            [i \in 1 .. Len(rows) |->
                IF call.from \notin DOMAIN rows[i] THEN rows[i]
                ELSE [c \in (DOMAIN rows[i] \ {call.from}) \cup {"b"} |->
                         IF c = "b" THEN rows[i][call.from] ELSE rows[i][c]]]
      [] call.op = "with_columns" ->
            [i \in 1 .. Len(rows) |-> [c \in DOMAIN rows[i] \cup DOMAIN call.values |->
                IF c \in DOMAIN call.values THEN call.values[c] ELSE rows[i][c]]]
      [] call.op = "cast" ->
            [i \in 1 .. Len(rows) |-> [c \in DOMAIN rows[i] |->
                IF c \in call.cols THEN Converted(rows[i][c], call.to) ELSE rows[i][c]]]
      [] call.op = "fill_null" ->
            [i \in 1 .. Len(rows) |-> [c \in DOMAIN rows[i] |->
                IF rows[i][c] = Null /\ c \in call.subset THEN call.n ELSE rows[i][c]]]
      [] call.op = "union" -> Once(call, rows \o TableRows(t))
      [] call.op = "intersect" ->
            Once(call, SelectSeq(rows, LAMBDA r : \E i \in DOMAIN t : Row(t[i]) = r))
      [] call.op = "except" ->
            Once(call, SelectSeq(rows, LAMBDA r : \A i \in DOMAIN t : Row(t[i]) # r))
\* The rows the text stands for, by content; a cached frame keeps those of its moment.
Documented(calls) ==
    FoldLeft(LAMBDA acc, call : IF call.op = "cache" THEN [t \in Tables |-> acc[call.at]]
                                ELSE [t \in Tables |-> Meaning(acc[t], call, t)],
             [t \in Tables |-> TableRows(t)], calls)
\* tail counts when it is called: the content it counted is the one it is executed on.
CountedFresh(t) ==
    \A i \in DOMAIN ops : ops[i].op = "tail" =>
        LET later == {j \in i + 1 .. Len(ops) : ops[j].op = "cache"}
            run == IF later = {} THEN t ELSE ops[CHOOSE j \in later : \A k \in later : j <= k].at
        IN  ops[i].at = run \/ \E j \in 1 .. i - 1 : ops[j].op = "cache"
-----------------------------------------------------------------------------
TypeOK ==
    /\ table \in Tables /\ DOMAIN frame = Tables /\ columns \subseteq {"a", "b"}
    /\ \A t \in Tables : \A i \in DOMAIN frame[t] : DOMAIN frame[t][i] = columns
    /\ Len(ops) <= MaxOps /\ Len(seen) \in {0, 1}
    /\ last.kind \in {"none", "raised", "joined", "refused", "file", "rows"}
Init ==
    /\ table = <<>> /\ columns = {"a"} /\ ops = <<>> /\ seen = <<>> /\ last = Nothing
    /\ frame = [t \in Tables |-> TableRows(t)]

\* A call that returns another DataFrame over the plan.
Extend(call, cols, plan) ==
    /\ Len(ops) < MaxOps
    /\ ops' = Append(ops, call) /\ columns' = cols /\ frame' = plan
    /\ seen' = <<>> /\ last' = Nothing /\ UNCHANGED table
OnRows(call, cols, Op(_)) == Extend(call, cols, [t \in Tables |-> Op(frame[t])])
\* A call that raises: no DataFrame is made.
Raise == last' = [kind |-> "raised"] /\ seen' = <<>> /\ UNCHANGED <<table, frame, columns, ops>>

\* filter(*predicates): SQL text is parsed against the frame, which fails for what is no
\* expression over its columns, and anything else must be an Expr; the predicates are
\* chained.
Spelled == {[sql |-> "a > 1"], [sql |-> "a IS NOT NULL"], [sql |-> "a >"], [expr |-> "a > 1"],
            [other |-> 1]}
ParseSqlExpr(p) ==
    CASE "sql" \notin DOMAIN p -> p
      [] p = [sql |-> "a >"] -> [error |-> "SQL"]
      [] OTHER -> [expr |-> p.sql]
Filter(preds) ==
    LET exprs == [i \in DOMAIN preds |-> ParseSqlExpr(preds[i])]
        sound == "a" \in columns /\ \A i \in DOMAIN exprs : "expr" \in DOMAIN exprs[i]
    IN  \/ /\ sound
           /\ OnRows([op |-> "filter", preds |-> [i \in DOMAIN exprs |-> exprs[i].expr]], columns,
                     LAMBDA rows : FoldLeft(LAMBDA acc, p : SelectSeq(acc, LAMBDA r : Holds(p.expr, r)),
                                            rows, exprs))
        \/ ~sound /\ Raise

\* select takes names or expressions, drop the names to leave out.
Select(S) ==
    \/ S \subseteq columns /\ OnRows([op |-> "select", cols |-> S], S,
                                    LAMBDA rows : EngineProject(rows, S))
    \/ ~(S \subseteq columns) /\ Raise
Drop(S) ==
    OnRows([op |-> "select", cols |-> columns \ S], columns \ S,
           LAMBDA rows : EngineProject(rows, columns \ S))

\* with_column, and with_columns: positional arguments, iterables of them spread out,
\* then the named ones, each added to the frame the one before made.
WithEach(rows, pairs) ==
    FoldLeft(LAMBDA acc, p : EngineWith(acc, p.name, LAMBDA r : p.value), rows, pairs)
WithColumn(v) ==
    OnRows([op |-> "with_columns", values |-> [c \in {"b"} |-> v]], columns \cup {"b"},
           LAMBDA rows : EngineWith(rows, "b", LAMBDA r : v))
Positional == {<<>>, <<<<[name |-> "b", value |-> 1]>>>>,
               <<<<[name |-> "b", value |-> 1], [name |-> "a", value |-> 2]>>>>}
Named == {<<>>, <<[name |-> "b", value |-> 2]>>}
Names(pairs) == {pairs[i].name : i \in DOMAIN pairs}
ValueOf(pairs, c) == pairs[CHOOSE i \in DOMAIN pairs : pairs[i].name = c].value
WithColumns(args, named) ==
    LET given == FlattenSeq(args)
        both == Names(given) \cup Names(named)
    IN  OnRows([op |-> "with_columns",
                values |-> [c \in both |-> IF c \in Names(named) THEN ValueOf(named, c) ELSE ValueOf(given, c)]],
               columns \cup both, LAMBDA rows : WithEach(rows, given \o named))
\* A column that is not there is not renamed; renaming onto another column is left out.
WithColumnRenamed(from) ==
    \/ /\ from \notin columns /\ OnRows([op |-> "rename", from |-> from], columns, LAMBDA rows : rows)
    \/ /\ from \in columns /\ "b" \notin columns \ {from}
       /\ OnRows([op |-> "rename", from |-> from], (columns \ {from}) \cup {"b"},
                 LAMBDA rows : EngineProject(EngineWith(rows, "b", LAMBDA r : r[from]),
                                             (columns \ {from}) \cup {"b"}))
\* cast is with_columns of the cast columns, one after the other.
Cast(S, to) ==
    \/ /\ S \subseteq columns
       /\ OnRows([op |-> "cast", cols |-> S, to |-> to], columns,
                 LAMBDA rows : FoldSeq(LAMBDA c, acc : EngineWith(acc, c, LAMBDA r : Converted(r[c], to)),
                                       rows, SetToSeq(S)))
    \/ ~(S \subseteq columns) /\ Raise
Distinct == OnRows([op |-> "distinct"], columns, LAMBDA rows : EngineDistinct(rows))
FillNull(n, subset) ==
    LET cols == IF subset = <<>> THEN columns ELSE {subset[1]} \cap columns
    IN  OnRows([op |-> "fill_null", n |-> n, subset |-> cols], columns,
               LAMBDA rows : FoldSeq(LAMBDA c, acc : EngineWith(acc, c, LAMBDA r : IF r[c] = Null THEN n ELSE r[c]),
                                     rows, SetToSeq(cols)))
Limit(n, offset) ==
    OnRows([op |-> "limit", n |-> n, offset |-> offset], columns, LAMBDA rows : EngineLimit(rows, n, offset))
HeadRows(n) == OnRows([op |-> "head", n |-> n], columns, LAMBDA rows : EngineLimit(rows, n, 0))
\* tail executes a count, which may raise, and skips what is before the last n of that
\* many rows.
TailRows(n) ==
    LET skip == Max2(0, Len(frame[table]) - n)
    IN  \/ OnRows([op |-> "tail", n |-> n, at |-> table], columns, LAMBDA rows : EngineLimit(rows, n, skip))
        \/ Raise
\* An execution of a plan may raise, and does when a value it returns cannot be converted.
Executes == \A i \in DOMAIN frame[table] : \A c \in columns : frame[table][i][c] # Overflow
\* cache executes the plan and starts a new one over the rows in memory.
Cache ==
    \/ Executes /\ Extend([op |-> "cache", at |-> table], columns, [t \in Tables |-> frame[table]])
    \/ Raise

\* Set operations with a second frame, here the table's own, of exactly the same columns.
\* With distinct the engine removes the duplicates: of the union after it, of the frame
\* before an intersection or a difference.
WithTable(op, distinct, plan) ==
    \/ columns = {"a"} /\ Extend([op |-> op, distinct |-> distinct], columns, plan)
    \/ columns # {"a"} /\ Raise
EngineOnce(rows, distinct) == IF distinct THEN EngineDistinct(rows) ELSE rows
UnionRows(distinct) ==
    WithTable("union", distinct, [t \in Tables |-> EngineOnce(frame[t] \o TableRows(t), distinct)])
UnionDistinct == UnionRows(TRUE)
Intersect(distinct) ==
    WithTable("intersect", distinct,
              [t \in Tables |-> SelectSeq(EngineOnce(frame[t], distinct),
                                           LAMBDA r : Contains(TableRows(t), r))])
ExceptAll(distinct) ==
    WithTable("except", distinct,
              [t \in Tables |-> SelectSeq(EngineOnce(frame[t], distinct),
                                           LAMBDA r : ~Contains(TableRows(t), r))])
-----------------------------------------------------------------------------
(* Executions.  Each one runs the plan anew on the table as it is.         *)
Run == \/ /\ Executes /\ seen' = <<frame[table]>> /\ last' = Nothing
          /\ UNCHANGED <<table, frame, columns, ops>>
       \/ Raise
Collect == Run
ToArrowTable == Run
ExecuteStream == Run
Iter == ExecuteStream
Count == \/ /\ last' = [kind |-> "rows", n |-> Len(frame[table])]
            /\ UNCHANGED <<table, frame, columns, ops, seen>>
         \/ Raise
\* Rows arrive: written by someone else, or by write_table of this very frame.
Grow(values) ==
    /\ Len(table) + Len(values) <= MaxRows /\ table' = table \o values
    /\ last' = Nothing /\ seen' = <<>> /\ UNCHANGED <<frame, columns, ops>>
OtherWriter(v) == Grow(<<v>>)
WriteTable ==
    \/ columns = {"a"} /\ Executes /\ Grow([i \in 1 .. Len(frame[table]) |-> frame[table][i]["a"]])
    \/ Raise
-----------------------------------------------------------------------------
(* join: which columns are the keys.                                       *)
Text(x) == [text |-> x]
Pair(l, r) == [pair |-> <<<<l>>, <<r>>>>]
JoinOn == {<<>>, <<Text("a")>>, <<[list |-> <<"a">>]>>, <<Pair("a", "b")>>}
JoinSide == {<<>>, <<Text("a")>>, <<[list |-> <<"b">>]>>}
JoinLegacy == {<<>>, <<Pair("b", "a")>>}
AsList(x) == IF "text" \in DOMAIN x THEN <<x.text>> ELSE x.list
AtStart == ops = <<>> /\ table = <<>> /\ UNCHANGED <<table, frame, columns, ops, seen>>
Join(on, lefts, rights, legacy) ==
    LET fromKeys == legacy # <<>>
        fromPair == on # <<>> /\ "pair" \in DOMAIN on[1]
        l1 == IF fromKeys THEN <<[list |-> legacy[1].pair[1]]>> ELSE lefts
        r1 == IF fromKeys THEN <<[list |-> legacy[1].pair[2]]>> ELSE rights
        l2 == IF fromPair THEN <<[list |-> on[1].pair[1]]>> ELSE l1
        r2 == IF fromPair THEN <<[list |-> on[1].pair[2]]>> ELSE r1
        on2 == IF fromPair THEN <<>> ELSE on
        args == [on |-> on, lefts |-> lefts, rights |-> rights, legacy |-> legacy]
        Joined(l, r) == [kind |-> "joined", left |-> AsList(l), right |-> AsList(r)] @@ args
        Refused == [kind |-> "refused"] @@ args
    IN  /\ AtStart
        /\ last' = IF on2 # <<>>
                   THEN IF l2 # <<>> \/ r2 # <<>> THEN Refused ELSE Joined(on2[1], on2[1])
                   ELSE IF l2 # <<>> /\ r2 # <<>> THEN Joined(l2[1], r2[1]) ELSE Refused
-----------------------------------------------------------------------------
(* Writers: a codec, a level, and the options for the output.              *)
Codecs == {"uncompressed", "snappy", "gzip", "brotli", "lz4", "zstd", "lz4_raw"}
Levelled == {"gzip", "brotli", "zstd"}
Lower(name) == IF name = "ZSTD" THEN "zstd" ELSE name
FromStr(name) == IF Lower(name) \in Codecs THEN <<Lower(name)>> ELSE <<>>
GetDefaultLevel(codec) ==
    CASE codec = "gzip" -> <<6>> [] codec = "brotli" -> <<1>> [] codec = "zstd" -> <<4>> [] OTHER -> <<>>
\* What the Parquet writer accepts: one level for a codec that has levels, none else.
Accepts(codec, levels) == IF codec \in Levelled THEN Len(levels) = 1 ELSE levels = <<>>
Written(asked, codec, levels, options) ==
    /\ AtStart
    /\ last' = IF Accepts(codec, levels)
               THEN [kind |-> "file", asked |-> asked, codec |-> codec, level |-> levels, options |-> options]
               ELSE [kind |-> "refused", asked |-> asked]
Asked(codec, level, options, by) == [codec |-> codec, level |-> level, options |-> options, by |-> by]

\* ParquetWriterOptions: a level is appended to the text of the compression, which
\* has one already by default.
ParquetWriterOptions(compression, level) ==
    [codec |-> compression.codec, levels |-> compression.levels \o level]
WriteParquetWithOptions(compression, level, options) ==
    LET o == ParquetWriterOptions(compression, level)
    IN  Written(Asked(compression.codec, IF level = <<>> THEN compression.levels ELSE level, options, "writer"),
                o.codec, o.levels, options)
\* write_parquet by codec, or with ParquetWriterOptions, which write without the
\* options for the output.
WriteParquetBy(compression, level, options) ==
    LET o == ParquetWriterOptions(compression, level)
    IN  Written(Asked(compression.codec, IF level = <<>> THEN compression.levels ELSE level, options, "parquet"),
                o.codec, o.levels, FALSE)
WriteParquet(name, level, options) ==
    LET codec == FromStr(name)
    IN  IF codec = <<>> THEN Raise
        ELSE Written(Asked(codec[1], level, options, "name"), codec[1],
                     IF codec[1] \in Levelled /\ level = <<>> THEN GetDefaultLevel(codec[1]) ELSE level,
                     options)
WriteCsv(options) == Written(Asked("uncompressed", <<>>, options, "name"), "uncompressed", <<>>, options)
WriteJson(options) == Written(Asked("uncompressed", <<>>, options, "name"), "uncompressed", <<>>, options)
-----------------------------------------------------------------------------
Spellings == {"zstd", "ZSTD", "gzip", "brotli", "snappy", "lzma"}
Texts == {[codec |-> "zstd", levels |-> <<3>>], [codec |-> "zstd", levels |-> <<>>],
          [codec |-> "snappy", levels |-> <<>>]}
Next ==
    \/ \E p \in Spelled : Filter(<<p>>) \/ Filter(<<[sql |-> "a IS NOT NULL"], p>>)
    \/ \E S \in {{"a"}, {"a", "b"}} : Select(S)
    \/ Drop({"b"})
    \/ \E v \in Numbers : WithColumn(v)
    \/ \E args \in Positional, named \in Named : WithColumns(args, named)
    \/ \E from \in {"a", "b", "c"} : WithColumnRenamed(from)
    \/ \E S \in {{"a"}, {"a", "b"}}, to \in Types : Cast(S, to)
    \/ Distinct
    \/ \E n \in Numbers, subset \in {<<>>, <<"a">>} : FillNull(n, subset)
    \/ \E n \in 0 .. 2, offset \in 0 .. 1 : Limit(n, offset)
    \/ \E n \in 0 .. 2 : HeadRows(n) \/ TailRows(n)
    \/ Cache \/ UnionDistinct
    \/ \E distinct \in BOOLEAN : UnionRows(distinct) \/ Intersect(distinct) \/ ExceptAll(distinct)
    \/ Collect \/ ToArrowTable \/ ExecuteStream \/ Iter \/ Count
    \/ (\E v \in Values : OtherWriter(v)) \/ WriteTable
    \/ \E on \in JoinOn, l, r \in JoinSide, k \in JoinLegacy : Join(on, l, r, k)
    \/ \E level \in {<<>>, <<5>>}, options \in BOOLEAN :
          \/ \E name \in Spellings : WriteParquet(name, level, options)
          \/ \E c \in Texts : WriteParquetBy(c, level, options) \/ WriteParquetWithOptions(c, level, options)
    \/ \E options \in BOOLEAN : WriteCsv(options) \/ WriteJson(options)
Spec == Init /\ [][Next]_vars
-----------------------------------------------------------------------------
\* Whatever calls a chain is made of and whenever rows arrived in between, an execution
\* that does not raise returns the rows the documentation of the calls promises for the
\* table as it is, or as it was when the frame was cached; tail only where nothing arrived
\* since it counted (dataframe.py select .. fill_null, tail, cache).
AsDocumented ==
    seen # <<>> /\ CountedFresh(table) => seen[1] = Documented(ops)[table]
\* A join uses the keys it was given: the one on, or both sides; it is refused exactly
\* when on and a side are both given, or neither is complete.  The pair form of on and
\* join_keys, kept for old callers, take the place of the sides (dataframe.py:1108).
JoinKeysAsGiven ==
    LET pair == last.on # <<>> /\ "pair" \in DOMAIN last.on[1]
        old == pair \/ last.legacy # <<>>
        sides == last.lefts # <<>> \/ last.rights # <<>>
    IN  /\ last.kind = "joined" /\ ~old =>
              IF last.on # <<>> THEN ~sides /\ last.left = AsList(last.on[1]) /\ last.right = last.left
              ELSE last.left = AsList(last.lefts[1]) /\ last.right = AsList(last.rights[1])
        /\ last.kind = "joined" /\ pair => <<last.left, last.right>> = last.on[1].pair
        /\ last.kind = "joined" /\ old /\ ~pair => last.on = <<>> /\ <<last.left, last.right>> = last.legacy[1].pair
        /\ last.kind = "refused" /\ "on" \in DOMAIN last =>
              IF last.on # <<>> THEN ~pair /\ (sides \/ last.legacy # <<>>)
              ELSE last.legacy = <<>> /\ (last.lefts = <<>> \/ last.rights = <<>>)
\* A file is written with the codec and level asked for, or the codec's default level,
\* and with the options for the output; a write by codec name is refused only for a
\* level the codec does not have (dataframe.py:1564-1581).
FileAsAsked ==
    /\ last.kind = "file" =>
          /\ last.codec = last.asked.codec
          /\ last.asked.level # <<>> => last.level = last.asked.level
          /\ last.codec \in Levelled <=> last.level # <<>>
          /\ last.asked.by # "parquet" => last.options = last.asked.options
    /\ last.kind = "refused" /\ "asked" \in DOMAIN last /\ last.asked.by = "name" =>
          last.asked.level # <<>> /\ last.asked.codec \notin Levelled
=============================================================================
