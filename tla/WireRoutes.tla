------------------------------ MODULE WireRoutes ------------------------------
(***************************************************************************)
(* How a call finds its handler: table and index names are quoted into the *)
(* path of a URL (transport/http.py, transport/models.py), the HTTP server *)
(* decodes the path, the routes of server/app.py split it again, and the   *)
(* handler compares the names in the path with those in the body.          *)
(* A name is a sequence of tokens <<n, c>>: character or word c behind n   *)
(* percent escapes, so <<1, "a">> is the text %61 and quoting it gives     *)
(* %2561, <<2, "a">>.                                                      *)
(***************************************************************************)
EXTENDS Naturals, Sequences, SequencesExt, FiniteSets, FiniteSetsExt

CONSTANTS Tables,  \* identifiers without their catalog: sequences of segments
          Indexes  \* index names
NamesAssumption == /\ \A t \in Tables : t # <<>> /\ \A k \in DOMAIN t : t[k] # <<>>
                          /\ \A i \in Indexes : i # <<>>

VARIABLES stage,  \* "idle", "sent", "routed", "done" or "refused"
          call,   \* operation, and the table and index in the body (the index of index routes)
          named,  \* the table and index the sender put in the path
          url,    \* path after /v1/table/, as a sequence of tokens, and delimiter
          route   \* handler and what the route took for table and index
vars == <<stage, call, named, url, route>>

TableOps == {"register_table", "describe", "query", "explain", "to_sql", "deregister",
             "create_index", "list_indexes"}
IndexOps == {"register_index", "stats", "refresh", "drop"}
Plain(word) == <<0, word>>
Slash == Plain("/")
Word == [register_table |-> <<"register">>, describe |-> <<"describe">>, query |-> <<"query">>,
         explain |-> <<"explain">>, to_sql |-> <<"to_sql">>, deregister |-> <<"deregister">>,
         create_index |-> <<"create_index">>, list_indexes |-> <<"index", "/", "list">>,
         register_index |-> <<"register">>, stats |-> <<"stats">>, refresh |-> <<"refresh">>,
         drop |-> <<"drop">>]
Suffix(op) == <<Slash>> \o [k \in DOMAIN Word[op] |-> Plain(Word[op][k])]
-----------------------------------------------------------------------------
(* Quoting. *)
Delimiters == <<"$", "~", "!", "^", "|">>
Unsafe == {"/", "$", "!", "^", "|"}
Quote(text) == [k \in DOMAIN text |-> IF text[k][1] = 0 /\ text[k][2] \notin Unsafe
                                      THEN text[k] ELSE <<text[k][1] + 1, text[k][2]>>]
Unquote(text) == [k \in DOMAIN text |-> IF text[k][1] = 0 THEN text[k]
                                        ELSE <<text[k][1] - 1, text[k][2]>>]
Occurs(d, segments) == \E k \in DOMAIN segments : \E j \in DOMAIN segments[k] :
                           segments[k][j] = Plain(d)
Usable(segments) == {k \in DOMAIN Delimiters : ~Occurs(Delimiters[k], segments)}
\* Called with at least one usable delimiter.
ChooseDelimiter(segments) == Delimiters[Min(Usable(segments))]
EncodeIdentifierPath(segments, d) ==
    FoldLeft(LAMBDA path, k : path \o (IF k = 1 THEN <<>> ELSE <<Plain(d)>>) \o Quote(segments[k]),
             <<>>, [k \in DOMAIN segments |-> k])
\* str.split on the delimiter, then unquote; an empty segment is an error, <<>> here.
DecodeIdentifierPath(text, d) ==
    LET cuts == {0, Len(text) + 1} \cup {k \in DOMAIN text : text[k] = Plain(d)}
        cut(n) == CHOOSE k \in cuts : Cardinality({j \in cuts : j < k}) = n
        segments == [n \in 1..(Cardinality(cuts) - 1) |->
                         Unquote(SubSeq(text, cut(n - 1) + 1, cut(n) - 1))]
    IN  IF \E k \in DOMAIN segments : segments[k] = <<>> THEN <<>> ELSE segments
TablePath(segments, op, d) == EncodeIdentifierPath(segments, d) \o Suffix(op)
RegistrationPath(segments, d) == Quote(segments[1]) \o Suffix("register_table")
IndexPath(segments, index, op, d) ==
    EncodeIdentifierPath(segments, d) \o <<Slash, Plain("index"), Slash>> \o Quote(index)
        \o Suffix(op)
PathOf(op, segments, index, d) ==
    CASE op = "register_table" -> RegistrationPath(segments, d)
      [] op \in IndexOps       -> IndexPath(segments, index, op, d)
      [] OTHER                 -> TablePath(segments, op, d)
-----------------------------------------------------------------------------
(* Routing: the first route that matches; {table_id:path} and {index_name:path} *)
(* take as much as they can, the table first.                                  *)
Routes == <<"register_index", "register_table", "describe", "query", "explain", "to_sql",
            "deregister", "create_index", "list_indexes", "stats", "refresh", "drop">>
EndsWith(path, end) == Len(path) >= Len(end) /\ SubSeq(path, Len(path) - Len(end) + 1, Len(path)) = end
\* Where "/index/" starts, with the final slash of the route after it.
IndexAt(path) == {k \in DOMAIN path : /\ k + 2 <= Len(path) - 2
                                      /\ SubSeq(path, k, k + 2) = <<Slash, Plain("index"), Slash>>}
Matches(h, path) == EndsWith(path, Suffix(h)) /\ (h \in IndexOps => IndexAt(path) # {})
RouteOf(path) ==
    LET matching == {k \in DOMAIN Routes : Matches(Routes[k], path)}
        h == Routes[Min(matching)]
        at == Max(IndexAt(path))
    IN  IF matching = {} THEN [handler |-> "none", table |-> <<>>, index |-> <<>>]
        ELSE IF h \in IndexOps
        THEN [handler |-> h, table |-> SubSeq(path, 1, at - 1),
              index |-> SubSeq(path, at + 3, Len(path) - 2)]
        ELSE [handler |-> h, table |-> SubSeq(path, 1, Len(path) - Len(Suffix(h))), index |-> <<>>]

\* The fields a handler allows: bodies of other operations that it would take too.
BodyFits(h, op) == \/ h = op
                   \/ {h, op} \subseteq {"query", "to_sql"}
                   \/ {h, op} \subseteq {"stats", "drop"}
                   \/ h = "refresh" /\ op \in {"stats", "drop"}
\* A name the SQL parser behind TableReference reads as one identifier, without quotes.
NotInIdentifiers == (Unsafe \ {"$"}) \cup {"~", "."}
SqlIdentifier(text) == /\ text[1] # Plain("$")
                       /\ \A k \in DOMAIN text : text[k][1] = 0 /\ text[k][2] \notin NotInIdentifiers
\* describe is called with the name as dotted text: catalog, schema and table, each an
\* identifier, name that table; any other text is one name in the default schema, or a
\* schema of its own: not the table that was meant (<<>>).
TableReference(t) == IF Len(t) = 2 /\ \A k \in DOMAIN t : SqlIdentifier(t[k]) THEN t ELSE <<>>
Identified == IF route.handler = "describe" THEN TableReference(call.table) ELSE call.table
ValidateRouteIdentifier == /\ Identified # <<>>
                           /\ DecodeIdentifierPath(route.table, url.delimiter) = Identified
ValidateRegistrationRoute == DecodeIdentifierPath(route.table, url.delimiter) = <<call.table[1]>>
\* Mutant: the index of the body is taken without a look at the path.
ScopedIndexUnchecked == TRUE
ScopedIndex == Unquote(route.index) = call.index
Accepts == /\ BodyFits(route.handler, call.op)
           /\ IF route.handler = "register_table" THEN ValidateRegistrationRoute
              ELSE ValidateRouteIdentifier
           /\ (route.handler \in IndexOps) => ScopedIndex
-----------------------------------------------------------------------------
NoCall == [op |-> "", table |-> <<>>, index |-> <<>>]
NoRoute == [handler |-> "none", table |-> <<>>, index |-> <<>>]
Nothing == [table |-> <<>>, index |-> <<>>]
Asked(op, t, i) == [op |-> op, table |-> t, index |-> i]
TypeOK ==
    /\ stage \in {"idle", "sent", "routed", "done", "refused"}
    /\ call.op \in TableOps \cup IndexOps \cup {""}
    /\ call.table \in Tables \cup {<<>>} /\ call.index \in Indexes \cup {<<>>}
    /\ named.table \in Tables \cup {<<>>} /\ named.index \in Indexes \cup {<<>>}
    /\ route.handler \in TableOps \cup IndexOps \cup {"none"}
    /\ (stage \in {"sent", "routed"}) => \E k \in DOMAIN Delimiters : url.delimiter = Delimiters[k]
    /\ (stage = "routed") => (route.handler \in IndexOps => route.index # <<>>)

Init == stage = "idle" /\ call = NoCall /\ named = Nothing /\ route = NoRoute
        /\ url = [path |-> <<>>, delimiter |-> "$"]
Send(c, n, d) ==
    /\ call' = c /\ named' = n /\ UNCHANGED route
    /\ IF Occurs(d, n.table) THEN stage' = "refused" /\ UNCHANGED url
       ELSE stage' = "sent" /\ url' = [path |-> PathOf(c.op, n.table, n.index, d), delimiter |-> d]
\* The client of the project: one table for path and body.
ClientSends(op, t, i) ==
    /\ stage = "idle" /\ (op = "register_table" => Len(t) = 1)
    /\ IF Usable(t) = {} THEN stage' = "refused" /\ call' = Asked(op, t, i)
                              /\ UNCHANGED <<named, url, route>>
       ELSE Send(Asked(op, t, i), [table |-> t, index |-> i], ChooseDelimiter(t))
\* Another program: any delimiter its segments do not hold, a name that may not agree.
OtherSends(op, t, i, t2, i2) ==
    /\ stage = "idle" /\ (op = "register_table" => Len(t) = 1 /\ Len(t2) = 1)
    /\ \E k \in Usable(t2) : Send(Asked(op, t, i), [table |-> t2, index |-> i2], Delimiters[k])
\* The server puts the decoded path in the scope.
ScopePath(path) == Unquote(path)
Dispatch ==
    /\ stage = "sent"
    /\ route' = RouteOf(ScopePath(url.path))
    /\ stage' = IF route'.handler = "none" THEN "refused" ELSE "routed"
    /\ UNCHANGED <<call, named, url>>
Handle ==
    /\ stage = "routed" /\ stage' = (IF Accepts THEN "done" ELSE "refused")
    /\ UNCHANGED <<call, named, url, route>>
Return ==
    /\ stage \in {"done", "refused"} /\ stage' = "idle" /\ call' = NoCall /\ named' = Nothing
    /\ route' = NoRoute /\ url' = [path |-> <<>>, delimiter |-> "$"]
SomeoneSends ==
    /\ stage = "idle"
    /\ \/ \E op \in TableOps, t \in Tables :
             \/ ClientSends(op, t, <<>>)
             \/ \E t2 \in Tables : OtherSends(op, t, <<>>, t2, <<>>)
       \/ \E op \in IndexOps, t \in Tables, i \in Indexes :
             \/ ClientSends(op, t, i)
             \/ \E t2 \in Tables : OtherSends(op, t, i, t2, i)
             \/ \E i2 \in Indexes : OtherSends(op, t, i, t, i2)
Next == SomeoneSends \/ Dispatch \/ Handle \/ Return
Spec == Init /\ [][Next]_vars
-----------------------------------------------------------------------------
Literal(text) == \A k \in DOMAIN text : text[k][1] = 0
LiteralNames(t, i) == Literal(i) /\ \A k \in DOMAIN t : Literal(t[k])
HasIndexPart(text) == \E k \in DOMAIN text : k + 2 <= Len(text)
                          /\ SubSeq(text, k, k + 2) = <<Slash, Plain("index"), Slash>>
\* What a handler performs is the operation that was called, and, for names without a
\* percent escape, on the table and the index that the path names too.
PerformsWhatWasAsked == (stage = "done") =>
    /\ route.handler = call.op
    /\ (LiteralNames(call.table, call.index) /\ LiteralNames(named.table, named.index)) =>
           /\ named.table = call.table
           /\ (call.op \in IndexOps) => (named.index = call.index)
\* A call of the client for names without percent escapes and without "/index/" inside
\* reaches its handler, whatever slashes and delimiters the names hold; describe, which
\* sends the name a second time as dotted text, only where SQL reads that text back.
PlainNamesReach ==
    (/\ stage = "refused" /\ named = [table |-> call.table, index |-> call.index]
     /\ LiteralNames(call.table, call.index))
    => \/ call.op = "describe" /\ TableReference(call.table) # call.table
       \/ HasIndexPart(call.index)
       \/ \E k \in DOMAIN call.table : HasIndexPart(call.table[k])
=============================================================================
