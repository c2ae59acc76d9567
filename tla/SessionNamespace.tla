-------------------------- MODULE SessionNamespace --------------------------
(***************************************************************************)
(* The names of a DataFusion session as Python sees them (context.py,      *)
(* catalog.py, io.py).  A SessionContext object is a handle on a native    *)
(* state; the state holds a catalog list; the list holds a schema (catalog *)
(* "datafusion", schema "public"); the schema names table providers.  Each *)
(* of the four can be shared.  A schema is the native one in memory, or a  *)
(* provider written in Python, whose methods decide what a call does.  A   *)
(* data frame holds the provider its name had when the frame was made.     *)
(***************************************************************************)
EXTENDS Integers, Sequences

CONSTANTS Handles, Frames, Names,
          MaxStates, MaxLists, MaxProviders, MaxTemps   \* model bounds

NamespaceAssumption ==
    /\ {MaxStates, MaxLists, MaxProviders} \subseteq Nat \ {0} /\ MaxTemps \in Nat

VARIABLES handle,    \* SessionContext |-> its native state (0: none)
          state,     \* native states: the catalog list of each
          lists,     \* catalog lists: what they are and their schema
          schemas,   \* schemas: tables by name, how many have generated names
          providers, \* number of table providers made
          frame,     \* frame |-> the provider it reads (0: none)
          held,      \* the schema object the program keeps (0: none)
          out        \* what the last call did

vars == <<handle, state, lists, schemas, providers, frame, held, out>>
Absent == 0          \* no provider
Ok == "returned"
Raised == "raised"
Replaced == "replaced"   \* a CREATE OR REPLACE that put another table under a taken name

TypeOK ==
    /\ handle \in [Handles -> 0 .. Len(state)]
    /\ \A s \in DOMAIN state : state[s] \in DOMAIN lists
    /\ \A l \in DOMAIN lists : /\ lists[l].kind \in {"list", "method"}
                               /\ lists[l].schema \in DOMAIN schemas
    /\ \A c \in DOMAIN schemas : /\ schemas[c].kind \in {"memory", "python"}
                                 /\ schemas[c].tables \in [Names -> 0 .. providers]
                                 /\ schemas[c].temps \in 0 .. MaxTemps
    /\ providers \in 0 .. MaxProviders /\ frame \in [Frames -> 0 .. providers]
    /\ held \in 0 .. Len(schemas) /\ out \in {Ok, Raised, Replaced}

EmptySchema(kind) == [kind |-> kind, tables |-> [n \in Names |-> Absent], temps |-> 0]
\* State 1 is the process-wide one, made on first use.
Init ==
    /\ handle = [h \in Handles |-> 0]
    /\ state = <<1>> /\ lists = <<[kind |-> "list", schema |-> 1]>>
    /\ schemas = <<EmptySchema("memory")>> /\ providers = 0
    /\ frame = [f \in Frames |-> Absent] /\ held = 0 /\ out = Ok

Open(h) == handle[h] # 0
ListOf(h) == lists[state[handle[h]]]
\* The tables that names resolve to through h: a list that is no list has none.
Tables(h) == IF ListOf(h).kind = "list" THEN schemas[ListOf(h).schema].tables
             ELSE [n \in Names |-> Absent]
-----------------------------------------------------------------------------
(* Handles.                                                                *)
GlobalCtx(h) ==
    /\ ~Open(h)
    /\ handle' = [handle EXCEPT ![h] = 1]
    /\ out' = Ok
    /\ UNCHANGED <<state, lists, schemas, providers, frame, held>>
NewSession(h) ==
    /\ ~Open(h) /\ Len(state) < MaxStates /\ Len(lists) < MaxLists
    /\ schemas' = Append(schemas, EmptySchema("memory"))
    /\ lists' = Append(lists, [kind |-> "list", schema |-> Len(schemas')])
    /\ state' = Append(state, Len(lists'))
    /\ handle' = [handle EXCEPT ![h] = Len(state')]
    /\ out' = Ok
    /\ UNCHANGED <<providers, frame, held>>
\* enable_url_table: a copy of the state, over the catalog list of the original.
EnableUrlTable(h, g) ==
    /\ Open(h) /\ ~Open(g) /\ Len(state) < MaxStates
    /\ state' = Append(state, state[handle[h]])
    /\ handle' = [handle EXCEPT ![g] = Len(state')]
    /\ out' = Ok
    /\ UNCHANGED <<lists, schemas, providers, frame, held>>
\* A context object of its own over the state of h; the codecs are in ExpressionShipping.
Derive(h, g) ==
    /\ Open(h) /\ ~Open(g)
    /\ handle' = [handle EXCEPT ![g] = handle[h]]
    /\ out' = Ok
    /\ UNCHANGED <<state, lists, schemas, providers, frame, held>>
WithLogicalCodec(h, g) == Derive(h, g)
WithPhysicalCodec(h, g) == Derive(h, g)
WithInlining(h, g) == Derive(h, g)
-----------------------------------------------------------------------------
(* Tables.                                                                 *)

\* What schema c makes of a new provider under n.  The schema in memory refuses a name
\* that is taken; a schema written in Python takes it, replaces what is there, ignores the
\* call or raises, after it took the provider too.
Taken(c, n) == schemas[c].kind = "memory" /\ schemas[c].tables[n] # Absent
Bound(c, n, t) == [schemas EXCEPT ![c].tables[n] = t]
Bind(c, n) ==
    /\ providers < MaxProviders /\ providers' = providers + 1
    /\ \/ Taken(c, n) /\ out' = Raised /\ UNCHANGED schemas
       \/ ~Taken(c, n) /\ out' = Ok /\ schemas' = Bound(c, n, providers')
       \/ /\ schemas[c].kind = "python" /\ out' \in {Ok, Raised}
          /\ \E t \in {schemas[c].tables[n], providers'} : schemas' = Bound(c, n, t)
\* A name taken away: one that is not there is no error.  A schema written in Python is
\* called with the name alone: its method as SchemaProvider declares it takes two
\* arguments and the call raises, one that gives the second a default runs.
Unbind(c, n) ==
    \/ schemas[c].kind = "memory" /\ out' = Ok /\ schemas' = Bound(c, n, Absent)
    \/ /\ schemas[c].kind = "python" /\ out' \in {Ok, Raised}
       /\ \E t \in {schemas[c].tables[n], Absent} : schemas' = Bound(c, n, t)

Listed(h) == Open(h) /\ ListOf(h).kind = "list"
\* Through a session whose catalog list is none: there is no schema.
NoSchema(h) ==
    /\ Open(h) /\ ListOf(h).kind # "list" /\ out' = Raised
    /\ UNCHANGED <<handle, state, lists, schemas, providers, held>>

\* Mutant: a registration replaces the table of that name.
PutReplaces(h, n) ==
    LET c == ListOf(h).schema IN
    /\ Listed(h) /\ providers < MaxProviders /\ providers' = providers + 1
    /\ out' = Ok /\ schemas' = Bound(c, n, providers')
    /\ UNCHANGED <<handle, state, lists, held>>
\* ctx.register_table(name, provider), for a new provider.
Put(h, n) ==
    \/ Listed(h) /\ Bind(ListOf(h).schema, n) /\ UNCHANGED <<handle, state, lists, held>>
    \/ NoSchema(h)
\* Under a generated name, which is never taken: a schema in Python may raise all the same.
PutTemp(h) ==
    LET c == ListOf(h).schema IN
    \/ /\ Listed(h) /\ providers < MaxProviders /\ providers' = providers + 1
       /\ \/ /\ schemas[c].temps < MaxTemps
             /\ schemas' = [schemas EXCEPT ![c].temps = @ + 1]
          \/ schemas[c].kind = "python" /\ out' = Raised /\ UNCHANGED schemas
       /\ UNCHANGED <<handle, state, lists, held>>
    \/ NoSchema(h)
RegisterTable(h, n) == Put(h, n) /\ UNCHANGED frame
RegisterTableProvider(h, n) == RegisterTable(h, n)
RegisterView(h, n, f) == frame[f] # Absent /\ Put(h, n) /\ UNCHANGED frame
RegisterBatch(h, n) == Put(h, n) /\ UNCHANGED frame
RegisterRecordBatches(h, n) == Put(h, n) /\ UNCHANGED frame
RegisterDataset(h, n) == Put(h, n) /\ UNCHANGED frame

\* Partition columns: an Arrow type is taken as it is, the words "string" and "int"
\* stand for one, and any other word raises.
ColumnTypes == {"arrow", "string", "int", "word"}
ConvertTablePartitionCols(types) == "word" \notin types
\* The columns are converted before anything is registered.
RegisterFile(h, n, types) ==
    IF ConvertTablePartitionCols(types) THEN Put(h, n) /\ UNCHANGED frame
    ELSE Open(h) /\ out' = Raised
         /\ UNCHANGED <<handle, state, lists, schemas, providers, frame, held>>
RegisterListingTable(h, n, types) == RegisterFile(h, n, types)
RegisterParquet(h, n, types) == RegisterFile(h, n, types)
RegisterJson(h, n, types) == RegisterFile(h, n, types)
RegisterAvro(h, n, types) == RegisterFile(h, n, types)
RegisterArrow(h, n, types) == RegisterFile(h, n, types)
DeregisterTable(h, n) ==
    /\ UNCHANGED frame
    /\ \/ /\ Listed(h) /\ Unbind(ListOf(h).schema, n)
          /\ UNCHANGED <<handle, state, lists, providers, held>>
       \/ NoSchema(h)
-----------------------------------------------------------------------------
(* Frames.                                                                 *)

\* A frame over a provider that no name has: a file, batches, a table object.
ReadFile(f, types) ==
    /\ IF ConvertTablePartitionCols(types) /\ providers < MaxProviders
       THEN /\ providers' = providers + 1 /\ frame' = [frame EXCEPT ![f] = providers']
            /\ out' = Ok
       ELSE out' = Raised /\ UNCHANGED <<providers, frame>>
    /\ UNCHANGED <<handle, state, lists, schemas, held>>
ReadJson(h, f, types) == Open(h) /\ ReadFile(f, types)
ReadParquet(h, f, types) == Open(h) /\ ReadFile(f, types)
ReadAvro(h, f, types) == Open(h) /\ ReadFile(f, types)
ReadArrow(h, f, types) == Open(h) /\ ReadFile(f, types)
ReadBatches(h, f) == Open(h) /\ ReadFile(f, {})
ReadTable(h, f) == Open(h) /\ ReadFile(f, {})
\* The functions of io.py read through the process-wide session.
IoReadParquet(f, types) == ReadFile(f, types)
IoReadJson(f, types) == ReadFile(f, types)
IoReadCsv(f) == ReadFile(f, {})
IoReadAvro(f, types) == ReadFile(f, types)
TableExist(h, n) == Tables(h)[n] # Absent
\* table: the frame of a name, KeyError without it.
TableFrame(h, n, f) ==
    /\ Open(h)
    /\ IF ~TableExist(h, n) THEN out' = Raised /\ UNCHANGED frame
       ELSE out' = Ok /\ frame' = [frame EXCEPT ![f] = Tables(h)[n]]
    /\ UNCHANGED <<handle, state, lists, schemas, providers, held>>
\* A frame of nothing, or of a plan that was made before.
ReadEmpty(h) ==
    /\ Open(h) /\ out' = Ok
    /\ UNCHANGED <<handle, state, lists, schemas, providers, frame, held>>

\* create_dataframe: the batches are registered, and the frame reads the name back, from
\* a schema in Python what it has there.
CreateDataframe(h, n, f) ==
    LET read == schemas'[ListOf(h).schema].tables[n] IN
    /\ Put(h, n)
    /\ \/ out' = Ok /\ read # Absent /\ frame' = [frame EXCEPT ![f] = read]
       \/ out' = Raised /\ UNCHANGED frame
CreateUnnamed(h, f) ==
    /\ PutTemp(h)
    /\ \/ out' = Ok /\ frame' = [frame EXCEPT ![f] = providers']
       \/ /\ out' = Raised /\ UNCHANGED frame
          /\ schemas' = schemas \/ schemas[ListOf(h).schema].kind = "python"
FromArrow(h, f) == CreateUnnamed(h, f) \/ \E n \in Names : CreateDataframe(h, n, f)
FromPylist(h, f) == FromArrow(h, f)
FromPydict(h, f) == FromArrow(h, f)
FromPandas(h, f) == FromArrow(h, f)
FromPolars(h, f) == FromArrow(h, f)
\* sql(query, df=frame): the frame becomes a view under a generated name, and the
\* statement is planned; whether or not it fails, the view stays.
SqlOverFrame(h, f, g) ==
    /\ frame[f] # Absent /\ PutTemp(h)
    /\ \/ out' = Ok /\ frame' = [frame EXCEPT ![g] = providers']
       \/ out' = Raised /\ UNCHANGED frame
\* sql(statement) that creates or drops a table or view, with views (0 or 1) frames in its
\* text: in memory a taken name is left alone (IF NOT EXISTS, or the call raises), replaced
\* (OR REPLACE) or removed (DROP); the options may forbid the statement.
SqlDdl(h, n, views) ==
    LET c == ListOf(h).schema
        old == schemas[c].tables[n] IN
    /\ views > 0 => \E f \in Frames : frame[f] # Absent
    /\ UNCHANGED frame
    /\ \/ /\ Listed(h) /\ schemas[c].temps + views <= MaxTemps
          /\ providers < MaxProviders /\ providers' = providers + 1
          /\ \E t \in {old, providers', Absent} :
                /\ schemas' = [schemas EXCEPT ![c].tables[n] = t, ![c].temps = @ + views]
                /\ \/ (t = old \/ schemas[c].kind = "python") /\ out' \in {Ok, Raised}
                   \/ out' = IF Absent \in {old, t} \/ t = old THEN Ok ELSE Replaced
          /\ UNCHANGED <<handle, state, lists, held>>
       \/ NoSchema(h)
SqlWithOptions(h, f, g) == SqlOverFrame(h, f, g)
-----------------------------------------------------------------------------
(* Catalogs.                                                               *)

\* register_catalog_provider_list: of a CatalogList, the attribute catalog is passed
\* on, which is a method and not the list.
RegisterCatalogList(h, isCatalogList) ==
    /\ Open(h) /\ Len(lists) < MaxLists
    /\ schemas' = Append(schemas, EmptySchema("memory"))
    /\ lists' = Append(lists, [kind |-> IF isCatalogList THEN "method" ELSE "list",
                               schema |-> Len(schemas')])
    /\ state' = [state EXCEPT ![handle[h]] = Len(lists')]
    /\ out' = Ok /\ UNCHANGED <<handle, providers, frame, held>>
\* Mutant: the catalog is named and its schema is not kept.
CatalogUnkept(h, kind) ==
    /\ Open(h) /\ ListOf(h).kind = "list" /\ Len(schemas) < MaxLists + 1
    /\ lists' = [lists EXCEPT ![state[handle[h]]].schema = Len(schemas) + 1]
    /\ out' = Ok /\ UNCHANGED <<handle, state, schemas, providers, frame, held>>
\* register_catalog_provider, and Catalog.register_schema: the list names another schema.
RegisterCatalog(h, kind) ==
    /\ Open(h) /\ ListOf(h).kind = "list" /\ Len(schemas) < MaxLists + 1
    /\ schemas' = Append(schemas, EmptySchema(kind))
    /\ lists' = [lists EXCEPT ![state[handle[h]]].schema = Len(schemas')]
    /\ out' = Ok /\ UNCHANGED <<handle, state, providers, frame, held>>
RegisterSchema(h, kind) == RegisterCatalog(h, kind)
\* catalog(name).schema(name): an object over the schema there is now.
HoldSchema(h) ==
    /\ Open(h) /\ ListOf(h).kind = "list" /\ held' = ListOf(h).schema /\ out' = Ok
    /\ UNCHANGED <<handle, state, lists, schemas, providers, frame>>
SchemaRegister(n) ==
    held # 0 /\ Bind(held, n) /\ UNCHANGED <<handle, state, lists, frame, held>>
SchemaDeregister(n) ==
    held # 0 /\ Unbind(held, n) /\ UNCHANGED <<handle, state, lists, providers, frame, held>>

Columns == {{"arrow", "int"}, {"string", "word"}}
RegisterSome(h, n) ==
    \/ RegisterTable(h, n) \/ RegisterTableProvider(h, n) \/ RegisterBatch(h, n)
    \/ RegisterRecordBatches(h, n) \/ RegisterDataset(h, n)
RegisterFiles(h, n, t) ==
    \/ RegisterListingTable(h, n, t) \/ RegisterParquet(h, n, t) \/ RegisterJson(h, n, t)
    \/ RegisterAvro(h, n, t) \/ RegisterArrow(h, n, t)
ReadFiles(h, f, t) ==
    ReadJson(h, f, t) \/ ReadParquet(h, f, t) \/ ReadAvro(h, f, t) \/ ReadArrow(h, f, t)
ReadSome(h, f) ==
    \/ ReadBatches(h, f) \/ ReadTable(h, f) \/ FromPylist(h, f) \/ FromPydict(h, f)
    \/ FromPandas(h, f) \/ FromPolars(h, f)
IoRead(f, t) == IoReadParquet(f, t) \/ IoReadJson(f, t) \/ IoReadAvro(f, t)
Next ==
    \/ \E h \in Handles : \/ GlobalCtx(h) \/ NewSession(h) \/ HoldSchema(h) \/ ReadEmpty(h)
    \/ \E h, g \in Handles : \/ EnableUrlTable(h, g) \/ WithLogicalCodec(h, g)
                             \/ WithPhysicalCodec(h, g) \/ WithInlining(h, g)
    \/ \E h \in Handles, n \in Names, t \in Columns : RegisterFiles(h, n, t)
    \/ \E h \in Handles, n \in Names : RegisterSome(h, n) \/ DeregisterTable(h, n)
    \/ \E h \in Handles, n \in Names, views \in 0 .. 1 : SqlDdl(h, n, views)
    \/ \E h \in Handles, n \in Names, f \in Frames : RegisterView(h, n, f) \/ TableFrame(h, n, f)
    \/ \E h \in Handles, f \in Frames, t \in Columns : ReadFiles(h, f, t)
    \/ \E h \in Handles, f \in Frames : ReadSome(h, f)
    \/ \E f \in Frames, t \in Columns : IoRead(f, t)
    \/ \E f \in Frames : IoReadCsv(f)
    \/ \E h \in Handles, f, g \in Frames : SqlOverFrame(h, f, g) \/ SqlWithOptions(h, f, g)
    \/ \E h \in Handles, b \in BOOLEAN : RegisterCatalogList(h, b)
    \/ \E h \in Handles, k \in {"memory", "python"} : RegisterCatalog(h, k) \/ RegisterSchema(h, k)
    \/ \E n \in Names : SchemaRegister(n) \/ SchemaDeregister(n)
Spec == Init /\ [][Next]_vars

-----------------------------------------------------------------------------
(* In a schema in memory a name keeps its provider until it is removed: no *)
(* call through any handle or schema object replaces a table that is there *)
(* but the statement that says so, CREATE OR REPLACE.  What a schema       *)
(* written in Python does with a taken name is its own affair.             *)
NamesKeep == \A c \in DOMAIN schemas, n \in Names :
    schemas[c].kind = "memory" /\ schemas[c].tables[n] # Absent =>
        \/ schemas'[c].tables[n] \in {Absent, schemas[c].tables[n]}
        \/ out' = Replaced

(* A call that raised changed no name of a schema in memory, whichever of  *)
(* its steps raised.                                                       *)
RefusedChangesNoName == out' = Raised =>
    \A c \in DOMAIN schemas :
        schemas[c].kind = "memory" => schemas'[c].tables = schemas[c].tables

=============================================================================
