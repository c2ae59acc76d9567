----------------------------- MODULE RestContract -----------------------------
(***************************************************************************)
(* The JSON messages between the HTTP client and the server, three times:  *)
(* what the encoders of the project write (transport/models.py and the     *)
(* bodies of transport/http.py and server/app.py), what its decoders take, *)
(* and what the published OpenAPI document allows (server/openapi.py).     *)
(* A field is abstracted to the class of its JSON value, a message to its  *)
(* fields.  Failures travel as codes (transport/errors.py).                *)
(***************************************************************************)
EXTENDS Naturals, Sequences, FiniteSetsExt, TLC

VARIABLES stage,  \* "idle", "asked", "working", "answered", "failed", "read"
          op,     \* the operation called
          sender, \* "client" or "other", any program written from the document
          part,   \* the message on the wire, or the message inside it looked at
          body,   \* field |-> class of its value
          extra,  \* does the message have a field of another name?
          raised, \* the exception of the service ("": none)
          wire,   \* status and code of an error on the wire
          seen    \* the exception of the caller ("": none)
vars == <<stage, op, sender, part, body, extra, raised, wire, seen>>

\* Classes of JSON values.  float_one is written 1.0; blank is white space; none
\* is an empty array, texts and hollow arrays of strings, hollow with an empty one;
\* identifier .. infos stand for a value that is itself a message of the project.
Classes == {"absent", "null", "empty", "blank", "text", "boolean", "minus", "zero", "one",
            "float_one", "half", "none", "texts", "hollow", "numbers", "object",
            "identifier", "ivf", "options", "query", "infos", "identifiers"}
-----------------------------------------------------------------------------
(* The decoders.  body.get makes a missing field a null, except where       *)
(* _require_fields asks for it.                                            *)
String == {"text", "blank"}
OptionalString == String \cup {"null", "absent"}
PositiveInteger == {"one"}
OptionalPositiveInteger == PositiveInteger \cup {"null", "absent"}
NonNegativeInteger == {"zero", "one"}
OptionalNonNegativeInteger == NonNegativeInteger \cup {"null", "absent"}
OptionalNumber == {"minus", "zero", "one", "float_one", "half", "null", "absent"}
Boolean == {"boolean"}
PortableSortOrder == {"none", "texts", "null", "absent"}
SchemaFromBase64 == {"text"}
RequireFields(table) == [f \in DOMAIN table |-> table[f] \ {"absent"}]

IdentifierFromJson == [catalog |-> String, namespace |-> {"none", "texts"}, name |-> String]
VectorQueryFromJson ==
    [source |-> {"identifier"}, query |-> {"numbers"}, column |-> OptionalString,
     index |-> OptionalString, projection |-> {"null", "absent", "none", "texts"},
     result_limit |-> PositiveInteger \cup {"absent"}, probe_count |-> OptionalPositiveInteger,
     predicate |-> OptionalString, bypass_index |-> Boolean \cup {"absent"}]
RegistrationFromJson == RequireFields(
    [name |-> String, source |-> String, partition_schema |-> SchemaFromBase64 \cup {"null"},
     parquet_pruning |-> Boolean, file_extension |-> String, skip_metadata |-> Boolean,
     schema |-> SchemaFromBase64 \cup {"null"}, file_sort_order |-> PortableSortOrder])
\* The enumerations of encoding and metric are checked by the constructor of IVF.
IvfFromJson == RequireFields([type |-> {"text"}, nlist |-> PositiveInteger,
                              encoding |-> {"text"}, metric |-> {"text"}])
WriterOptionsFromJson == RequireFields(
    [partitions |-> OptionalPositiveInteger, compression |-> {"text"},
     target_file_size |-> PositiveInteger, max_row_group_rows |-> OptionalPositiveInteger,
     write_batch_rows |-> PositiveInteger])
IndexStatusFromJson == RequireFields(
    [state |-> {"text"}, progress |-> OptionalNumber, phase |-> OptionalString,
     completed |-> OptionalNonNegativeInteger, total |-> OptionalNonNegativeInteger,
     current_snapshot_id |-> OptionalNonNegativeInteger,
     error |-> OptionalString, error_code |-> OptionalString])
IndexInfoFromJson == RequireFields(
    [name |-> String, column |-> String, family |-> String, metric |-> String,
     parameters |-> {"object"}, current_snapshot_id |-> NonNegativeInteger])
\* The handlers of server/app.py and, for answers, the methods of transport/http.py.
DescribeTable == [reference |-> String]
DeregisterTable == [identifier |-> {"identifier"}]
CreateIndex ==
    [source |-> {"identifier"}, index |-> String, column |-> String, key |-> {"texts"},
     config |-> {"ivf"}, writer_options |-> {"options", "null", "absent"}]
ListIndexes == [source |-> {"identifier"}]
RegisterIndex == [source |-> {"identifier"}, index |-> String, manifest_location |-> String]
ScopedIndex == [source |-> {"identifier"}, index |-> String]
RefreshIndex ==
    [source |-> {"identifier"}, index |-> String, config |-> {"ivf", "null", "absent"},
     writer_options |-> {"options", "null", "absent"}]
QuerySql == [sql |-> {"text"}]
ExplainTable == [query |-> {"query"}, verbose |-> Boolean \cup {"absent"},
                 analyze |-> Boolean \cup {"absent"}]
ExplainSql == [sql |-> {"text"}, verbose |-> Boolean \cup {"absent"},
               analyze |-> Boolean \cup {"absent"}]
PlanOf == [plan |-> {"empty", "blank", "text"}]
TableDescriptorOf == [identifier |-> {"identifier"}, schema |-> SchemaFromBase64]
IndexesOf == [indexes |-> {"infos", "none"}]
RenderedSqlOf == [sql |-> {"empty", "blank", "text"}]
\* Query parameters: one and zero are decimal strings, one a limit within its maximum.
ListTables == [limit |-> {"one", "absent"}, page_token |-> {"zero", "one", "absent"}]
ListTablesOf == [tables |-> {"identifiers", "none"}, next_page_token |-> OptionalString]
\* Bodies the client does not look at.
IgnoredBodies ==
    [AcceptedResponse |-> [accepted |-> Classes], DeregisterResponse |-> [deregistered |-> Classes],
     DropIndexResponse |-> [dropped |-> Classes], RegisterIndexResponse |-> [registered |-> Classes],
     ArrowStream |-> [bytes |-> Classes]]

Decoder == IgnoredBodies @@
    [TableIdentifier |-> IdentifierFromJson, VectorQuery |-> VectorQueryFromJson,
     RegisterParquetRequest |-> RegistrationFromJson, IvfConfig |-> IvfFromJson,
     WriteOptions |-> WriterOptionsFromJson, IndexStatus |-> IndexStatusFromJson,
     IndexInfo |-> IndexInfoFromJson, DescribeTableRequest |-> DescribeTable,
     ScopedTableRequest |-> DeregisterTable, CreateIndexRequest |-> CreateIndex,
     IndexTableRequest |-> ListIndexes, RegisterIndexRequest |-> RegisterIndex,
     ScopedIndexRequest |-> ScopedIndex, RefreshIndexRequest |-> RefreshIndex,
     SqlQuery |-> QuerySql, ExplainVectorQuery |-> ExplainTable,
     ExplainSqlQuery |-> ExplainSql, PlanResponse |-> PlanOf,
     TableDescriptor |-> TableDescriptorOf, ListIndexesResponse |-> IndexesOf,
     RenderedSql |-> RenderedSqlOf, ListTablesQuery |-> ListTables,
     ListTablesResponse |-> ListTablesOf]
Parts == DOMAIN Decoder
\* _reject_unknown and _only_fields; describe, list and the readers of answers have neither.
OnlyFields == {"TableIdentifier", "VectorQuery", "RegisterParquetRequest", "IvfConfig",
               "WriteOptions", "IndexStatus", "IndexInfo", "ScopedTableRequest",
               "CreateIndexRequest", "IndexTableRequest", "RegisterIndexRequest",
               "ScopedIndexRequest", "RefreshIndexRequest", "SqlQuery", "ExplainVectorQuery",
               "ExplainSqlQuery"}
\* Error and code of a status come together.
Joint(b) == part = "IndexStatus" => ((b["error"] = "null") <=> (b["error_code"] = "null"))
Takes(b, x) == /\ \A f \in DOMAIN Decoder[part] : b[f] \in Decoder[part][f]
               /\ (x => part \notin OnlyFields) /\ Joint(b)
-----------------------------------------------------------------------------
(* The schemas of the OpenAPI document.  In JSON Schema 1.0 is an integer.  *)
MinLength1 == {"text", "blank"}
AnyString == {"text", "blank", "empty"}
Minimum1 == {"one", "float_one"}
Minimum0 == {"zero", "one", "float_one"}
Number == {"minus", "zero", "one", "float_one", "half"}
Nullable(set) == set \cup {"null"}
Optional(set) == set \cup {"absent"}

TableIdentifierSchema ==
    [catalog |-> MinLength1, namespace |-> {"none", "texts"}, name |-> MinLength1]
RegisterParquetSchema ==
    [name |-> MinLength1, source |-> MinLength1, partition_schema |-> Nullable({"text"}),
     parquet_pruning |-> {"boolean"}, file_extension |-> MinLength1,
     skip_metadata |-> {"boolean"}, schema |-> Nullable({"text"}),
     file_sort_order |-> {"none", "texts"}]
ConfigurationSchemas ==
    [IvfConfig |-> [type |-> {"text"}, nlist |-> Minimum1, encoding |-> {"text"},
                    metric |-> {"text"}],
     WriteOptions |-> [partitions |-> Nullable(Minimum1), compression |-> {"text"},
                       target_file_size |-> Minimum1, max_row_group_rows |-> Nullable(Minimum1),
                       write_batch_rows |-> Minimum1]]
IndexRequestSchemas ==
    [CreateIndexRequest |->
         [source |-> {"identifier"}, index |-> MinLength1, column |-> MinLength1,
          key |-> {"texts"}, config |-> {"ivf"}, writer_options |-> Nullable({"options"})],
     RegisterIndexRequest |->
         [source |-> {"identifier"}, index |-> MinLength1, manifest_location |-> MinLength1],
     RefreshIndexRequest |->
         [source |-> {"identifier"}, index |-> MinLength1, config |-> Nullable({"ivf"}),
          writer_options |-> Nullable({"options"})],
     ScopedIndexRequest |-> [source |-> {"identifier"}, index |-> MinLength1]]
IndexAnswerSchemas ==
    [IndexStatus |->
         [state |-> {"text"}, progress |-> Nullable(Number), phase |-> Nullable(AnyString),
          completed |-> Nullable(Minimum0), total |-> Nullable(Minimum0),
          current_snapshot_id |-> Nullable(Minimum0),
          error |-> Nullable(AnyString), error_code |-> Nullable(AnyString)],
     IndexInfo |->
         [name |-> MinLength1, column |-> MinLength1, family |-> MinLength1,
          metric |-> MinLength1, parameters |-> {"object"}, current_snapshot_id |-> Minimum0],
     ListIndexesResponse |-> [indexes |-> {"infos", "none"}]]
VectorQuerySchema ==
    [source |-> {"identifier"}, query |-> {"numbers"},
     column |-> Optional(Nullable(AnyString)), index |-> Optional(Nullable(AnyString)),
     projection |-> Optional(Nullable({"none", "texts"})), result_limit |-> Optional(Minimum1),
     probe_count |-> Optional(Nullable(Minimum1)), predicate |-> Optional(Nullable(AnyString)),
     bypass_index |-> Optional({"boolean"})]
QuerySchemas ==
    [SqlQuery |-> [sql |-> MinLength1],
     ExplainVectorQuery |-> [query |-> {"query"}, verbose |-> Optional({"boolean"}),
                             analyze |-> Optional({"boolean"})],
     ExplainSqlQuery |-> [sql |-> MinLength1, verbose |-> Optional({"boolean"}),
                          analyze |-> Optional({"boolean"})],
     DescribeTableRequest |-> [reference |-> MinLength1],
     TableDescriptor |-> [identifier |-> {"identifier"}, schema |-> {"text"}],
     PlanResponse |-> [plan |-> AnyString]]
ListTablesSchemas ==
    [ListTablesQuery |-> [limit |-> Optional(Minimum1 \ {"float_one"}),
                          page_token |-> Optional(AnyString \cup {"minus", "zero", "one", "half"})],
     ListTablesResponse |-> [tables |-> {"identifiers", "none"},
                             next_page_token |-> Nullable(AnyString)]]
DoneSchemas ==
    [AcceptedResponse |-> [accepted |-> {"boolean"}],
     DeregisterResponse |-> [deregistered |-> {"boolean"}],
     DropIndexResponse |-> [dropped |-> {"boolean"}],
     RegisterIndexResponse |-> [registered |-> {"boolean"}]]
ArrowResponse == [bytes |-> {"object"}]
TableScopeSchemas == [ScopedTableRequest |-> [identifier |-> {"identifier"}],
                      IndexTableRequest |-> [source |-> {"identifier"}]]
Schema(p) ==
    CASE p = "TableIdentifier"                  -> TableIdentifierSchema
      [] p = "RegisterParquetRequest"           -> RegisterParquetSchema
      [] p = "VectorQuery"                      -> VectorQuerySchema
      [] p \in DOMAIN ConfigurationSchemas      -> ConfigurationSchemas[p]
      [] p \in DOMAIN IndexRequestSchemas       -> IndexRequestSchemas[p]
      [] p \in DOMAIN IndexAnswerSchemas        -> IndexAnswerSchemas[p]
      [] p \in DOMAIN QuerySchemas              -> QuerySchemas[p]
      [] p \in DOMAIN ListTablesSchemas         -> ListTablesSchemas[p]
      [] p \in DOMAIN DoneSchemas               -> DoneSchemas[p]
      [] p = "RenderedSql"                      -> QuerySchemas.SqlQuery
      [] p = "ArrowStream"                      -> ArrowResponse
      [] OTHER                                  -> TableScopeSchemas[p]
\* additionalProperties is false but for these.
OpenSchemas == {"TableDescriptor", "PlanResponse", "ListIndexesResponse", "ListTablesQuery",
                "ListTablesResponse", "ArrowStream"} \cup DOMAIN DoneSchemas
Documented(b, x) == /\ \A f \in DOMAIN Schema(part) : b[f] \in Schema(part)[f]
                    /\ (x => part \in OpenSchemas)
-----------------------------------------------------------------------------
(* The encoders: what the client's and the server's code can put in a field. *)
IdentifierToJson == [catalog |-> String, namespace |-> {"none", "texts"}, name |-> String]
VectorQueryToJson ==
    [source |-> {"identifier"}, query |-> {"numbers", "none"},
     column |-> AnyString \cup {"null"}, index |-> AnyString \cup {"null"},
     projection |-> {"null", "none", "texts", "hollow"}, result_limit |-> {"minus", "zero", "one"},
     probe_count |-> {"null", "minus", "zero", "one"}, predicate |-> AnyString \cup {"null"},
     bypass_index |-> {"boolean"}]
RegistrationToJson ==
    [name |-> String, source |-> String, partition_schema |-> {"null", "text"},
     parquet_pruning |-> {"boolean"}, file_extension |-> String,
     skip_metadata |-> {"boolean"}, schema |-> {"null", "text"},
     file_sort_order |-> {"none", "texts"}]
IvfToJson == [type |-> {"text"}, nlist |-> {"one"}, encoding |-> {"text"}, metric |-> {"text"}]
WriterOptionsToJson ==
    [partitions |-> {"null", "one"}, compression |-> {"text"}, target_file_size |-> {"one"},
     max_row_group_rows |-> {"null", "one"}, write_batch_rows |-> {"one"}]
IndexStatusToJson ==
    [state |-> {"text"}, progress |-> {"null", "zero", "half", "one"},
     phase |-> {"null", "text"}, completed |-> {"null", "zero", "one"},
     total |-> {"null", "zero", "one"}, current_snapshot_id |-> {"null", "zero", "one"},
     error |-> {"null", "text"}, error_code |-> {"null", "text"}]
IndexInfoToJson ==
    [name |-> {"text"}, column |-> {"text"}, family |-> {"text"}, metric |-> {"text"},
     parameters |-> {"object"}, current_snapshot_id |-> {"zero", "one"}]
CreateIndexBody ==
    [source |-> {"identifier"}, index |-> AnyString, column |-> AnyString,
     key |-> {"none", "texts", "hollow"}, config |-> {"ivf"}, writer_options |-> {"options", "null"}]
\* _index_path refuses an index name that is empty or blank.
IndexBodies ==
    [RegisterIndexRequest |-> [source |-> {"identifier"}, index |-> {"text"},
                               manifest_location |-> AnyString],
     RefreshIndexRequest |-> [source |-> {"identifier"}, index |-> {"text"},
                              config |-> {"ivf", "null"}, writer_options |-> {"options", "null"}],
     ScopedIndexRequest |-> [source |-> {"identifier"}, index |-> {"text"}]]
TableBodies == [DescribeTableRequest |-> [reference |-> {"text"}],
                ScopedTableRequest |-> [identifier |-> {"identifier"}],
                IndexTableRequest |-> [source |-> {"identifier"}]]
SqlBody == [sql |-> {"text"}]
ExplainBodies ==
    [ExplainVectorQuery |-> [query |-> {"query"}, verbose |-> {"boolean"}, analyze |-> {"boolean"}],
     ExplainSqlQuery |-> [sql |-> AnyString, verbose |-> {"boolean"}, analyze |-> {"boolean"}]]
ListTablesParameters == [limit |-> {"one"}, page_token |-> {"absent", "one"}]
TableDescriptorToJson == [identifier |-> {"identifier"}, schema |-> {"text"}]
ServerBodies ==
    [PlanResponse |-> [plan |-> {"text"}], RenderedSql |-> [sql |-> {"text"}],
     ListIndexesResponse |-> [indexes |-> {"infos", "none"}],
     ListTablesResponse |-> [tables |-> {"identifiers", "none"}, next_page_token |-> {"null", "text"}],
     TableDescriptor |-> TableDescriptorToJson, ArrowStream |-> ArrowResponse] @@ DoneSchemas
Encoder(p) ==
    CASE p = "TableIdentifier"         -> IdentifierToJson
      [] p = "VectorQuery"             -> VectorQueryToJson
      [] p = "RegisterParquetRequest"  -> RegistrationToJson
      [] p = "IvfConfig"               -> IvfToJson
      [] p = "WriteOptions"            -> WriterOptionsToJson
      [] p = "IndexStatus"             -> IndexStatusToJson
      [] p = "IndexInfo"               -> IndexInfoToJson
      [] p = "CreateIndexRequest"      -> CreateIndexBody
      [] p = "SqlQuery"                -> SqlBody
      [] p = "ListTablesQuery"         -> ListTablesParameters
      [] p \in DOMAIN IndexBodies      -> IndexBodies[p]
      [] p \in DOMAIN TableBodies      -> TableBodies[p]
      [] p \in DOMAIN ExplainBodies    -> ExplainBodies[p]
      [] OTHER                         -> ServerBodies[p]
-----------------------------------------------------------------------------
(* The operations of the document: request and answer, then what is inside.  *)
Operations ==
    [listTables |-> <<"ListTablesQuery", "ListTablesResponse">>,
     describeTable |-> <<"DescribeTableRequest", "TableDescriptor">>,
     registerParquetTable |-> <<"RegisterParquetRequest", "TableDescriptor">>,
     deregisterTable |-> <<"ScopedTableRequest", "DeregisterResponse">>,
     queryTable |-> <<"VectorQuery", "ArrowStream">>,
     explainTable |-> <<"ExplainVectorQuery", "PlanResponse">>,
     renderQuerySql |-> <<"VectorQuery", "RenderedSql">>]
IndexOperations ==
    [createIndex |-> <<"CreateIndexRequest", "AcceptedResponse">>,
     listIndexes |-> <<"IndexTableRequest", "ListIndexesResponse">>,
     getIndexStatus |-> <<"ScopedIndexRequest", "IndexStatus">>,
     registerIndex |-> <<"RegisterIndexRequest", "RegisterIndexResponse">>,
     refreshIndex |-> <<"RefreshIndexRequest", "AcceptedResponse">>,
     dropIndex |-> <<"ScopedIndexRequest", "DropIndexResponse">>,
     executeSql |-> <<"SqlQuery", "ArrowStream">>,
     explainSql |-> <<"ExplainSqlQuery", "PlanResponse">>]
Paths == Operations @@ IndexOperations
Inside(p) ==
    {q \in {"TableIdentifier", "VectorQuery", "IvfConfig", "WriteOptions", "IndexInfo"} :
         LET class == [TableIdentifier |-> "identifier", VectorQuery |-> "query", IvfConfig |-> "ivf",
                       WriteOptions |-> "options", IndexInfo |-> "infos"][q]
         IN  \E f \in DOMAIN Encoder(p) : class \in Encoder(p)[f]}
RequestParts(o) == {Paths[o][1]} \cup Inside(Paths[o][1])
AnswerParts(o) == {Paths[o][2]} \cup Inside(Paths[o][2])
\* Every message an encoder can write.
Bodies(table) ==
    FoldSet(LAMBDA f, some : {(f :> c) @@ b : c \in table[f], b \in some},
            {[f \in {} |-> ""]}, DOMAIN table)
\* The two shapes of a build status: of a build at work or failed, and of a publication.
StatusShape(b) == part' = "IndexStatus" =>
    /\ \A f \in {"progress", "phase", "completed", "total"} :
           (b[f] = "null") <=> (b["progress"] = "null")
    /\ (b["progress"] = "null") => (b["current_snapshot_id"] # "null")
    /\ (b["error"] = "null") <=> (b["error_code"] = "null")
-----------------------------------------------------------------------------
(* Failures. *)
NativeErrors == {"QueryQueueFullError", "QueryQueueTimeoutError", "IndexNotFoundError",
                 "AlreadyExistsError", "BuildAlreadyRunningError", "AmbiguousIndexError",
                 "InvalidSchemaError", "InvalidMetadataError", "InvalidArgumentError",
                 "CatalogError", "StorageError", "BackendError"}
PublicErrors == NativeErrors \cup {"UnsupportedOperationError"}
ServiceErrors == PublicErrors \cup {"ParqDBError", "PermissionError", "ValueError", "RuntimeError"}
\* The source policy forbids paths; a table that is not registered is a ValueError.
Raises(o) == NativeErrors \cup {"ParqDBError", "RuntimeError"}
             \cup (IF o = "registerParquetTable" THEN {"PermissionError"} ELSE {})
             \cup (IF o \in {"listTables", "registerParquetTable", "deregisterTable", "executeSql",
                             "explainSql"} THEN {} ELSE {"ValueError"})
IsInstance(e, type) ==
    \/ e = type
    \/ type = "ParqDBError" /\ e \in PublicErrors
    \/ type = "RuntimeError" /\ e \in PublicErrors \cup {"ParqDBError"}
ServerErrors ==
    << <<"QueryQueueFullError", 429, "query_queue_full">>,
       <<"QueryQueueTimeoutError", 429, "query_queue_timeout">>,
       <<"IndexNotFoundError", 404, "index_not_found">>,
       <<"AlreadyExistsError", 409, "already_exists">>,
       <<"BuildAlreadyRunningError", 409, "build_already_running">>,
       <<"AmbiguousIndexError", 409, "ambiguous_index">>,
       <<"InvalidSchemaError", 400, "invalid_schema">>,
       <<"InvalidMetadataError", 400, "invalid_metadata">>,
       <<"InvalidArgumentError", 400, "invalid_argument">>,
       <<"PermissionError", 403, "permission_denied">>,
       <<"UnsupportedOperationError", 501, "unsupported_operation">>,
       <<"TypeError", 400, "invalid_argument">>, <<"ValueError", 400, "invalid_argument">>,
       <<"CatalogError", 500, "catalog_error">>, <<"StorageError", 500, "storage_error">>,
       <<"BackendError", 500, "backend_error">> >>
ClientErrors ==
    [query_queue_full |-> "QueryQueueFullError", query_queue_timeout |-> "QueryQueueTimeoutError",
     index_not_found |-> "IndexNotFoundError", already_exists |-> "AlreadyExistsError",
     build_already_running |-> "BuildAlreadyRunningError", ambiguous_index |-> "AmbiguousIndexError",
     invalid_schema |-> "InvalidSchemaError", invalid_metadata |-> "InvalidMetadataError",
     invalid_argument |-> "InvalidArgumentError", permission_denied |-> "PermissionError",
     unsupported_operation |-> "UnsupportedOperationError", catalog_error |-> "CatalogError",
     storage_error |-> "StorageError", backend_error |-> "BackendError"]
ClassifyServerError(e) ==
    LET matching == {i \in DOMAIN ServerErrors : IsInstance(e, ServerErrors[i][1])}
    IN  IF matching = {} THEN [status |-> 500, code |-> "internal"]
        ELSE [status |-> ServerErrors[Min(matching)][2], code |-> ServerErrors[Min(matching)][3]]
RaiseRemoteError(code) == IF code \in DOMAIN ClientErrors THEN ClientErrors[code] ELSE "BackendError"
RaiseRemoteBuildError(code) ==
    IF code \in DOMAIN ClientErrors THEN ClientErrors[code] ELSE "ParqDBError"
\* A failed build: the code in its status, and the exception of an embedded wait.
BuildFailureCode ==
    [InvalidArgument |-> "invalid_argument", InvalidSchema |-> "invalid_schema",
     IndexNotFound |-> "index_not_found", AlreadyExists |-> "already_exists",
     BuildAlreadyRunning |-> "build_already_running", AmbiguousIndex |-> "ambiguous_index",
     InvalidMetadata |-> "invalid_metadata", Catalog |-> "catalog_error",
     Storage |-> "storage_error", Backend |-> "backend_error"]
BuildFailed ==
    [InvalidArgument |-> "InvalidArgumentError", InvalidSchema |-> "InvalidSchemaError",
     IndexNotFound |-> "IndexNotFoundError", AlreadyExists |-> "AlreadyExistsError",
     BuildAlreadyRunning |-> "BuildAlreadyRunningError", AmbiguousIndex |-> "AmbiguousIndexError",
     InvalidMetadata |-> "InvalidMetadataError", Catalog |-> "CatalogError",
     Storage |-> "StorageError", Backend |-> "BackendError"]
-----------------------------------------------------------------------------
NoError == [status |-> 200, code |-> ""]
NoBody == [f \in {} |-> ""]
TypeOK ==
    /\ stage \in {"idle", "asked", "working", "answered", "failed", "read"}
    /\ op \in DOMAIN Paths \cup {""} /\ sender \in {"", "client", "other"}
    /\ part \in Parts \cup {""} /\ extra \in BOOLEAN
    /\ \A f \in DOMAIN body : body[f] \in Classes
    /\ part # "" => DOMAIN body = DOMAIN Decoder[part] /\ DOMAIN body = DOMAIN Schema(part)
    /\ raised \in ServiceErrors \cup {""}
    /\ wire.status \in {200, 400, 403, 404, 409, 429, 500, 501}
    /\ seen \in ServiceErrors \cup {"", "unreadable"}
    /\ (stage = "failed") => (wire.status >= 400)

Init == /\ stage = "idle" /\ op = "" /\ sender = "" /\ part = "" /\ body = NoBody
        /\ extra = FALSE /\ raised = "" /\ wire = NoError /\ seen = ""
Ask(who, o, p, b, x) ==
    /\ stage' = "asked" /\ op' = o /\ sender' = who /\ part' = p /\ body' = b /\ extra' = x
    /\ UNCHANGED <<raised, wire, seen>>
ClientAsks ==
    /\ stage = "idle"
    /\ \E o \in DOMAIN Paths : \E p \in RequestParts(o) : \E b \in Bodies(Encoder(p)) :
           Ask("client", o, p, b, FALSE)
\* A message the decoder takes, with one field of any class or one more field.
OtherAsks ==
    /\ stage = "idle"
    /\ \E o \in DOMAIN Paths : \E p \in RequestParts(o) :
        LET usual == [f \in DOMAIN Decoder[p] |->
                          CHOOSE c \in Decoder[p][f] : c \notin {"absent", "null"}]
        IN  \/ \E f \in DOMAIN usual, c \in Classes :
                   Ask("other", o, p, [usual EXCEPT ![f] = c], FALSE)
            \/ Ask("other", o, p, usual, TRUE)

\* _handle turns what a handler raises into an error response.
Fail(e) == stage' = "failed" /\ wire' = ClassifyServerError(e)
Decode ==
    /\ stage = "asked"
    /\ \/ Takes(body, extra) /\ stage' = "working" /\ UNCHANGED wire
       \/ ~Takes(body, extra) /\ Fail("ValueError")
    /\ part' = "" /\ body' = NoBody /\ extra' = FALSE
    /\ UNCHANGED <<op, sender, raised, seen>>
ServiceRaises == \E e \in Raises(op) :
    /\ stage = "working" /\ Fail(e) /\ raised' = e
    /\ UNCHANGED <<op, sender, part, body, extra, seen>>
ServiceAnswers ==
    /\ stage = "working" /\ sender = "client" /\ stage' = "answered"
    /\ \E p \in AnswerParts(op) : part' = p /\ \E b \in Bodies(Encoder(p)) :
           /\ body' = b /\ StatusShape(b)
           /\ IF p = "IndexStatus" /\ b["error"] # "null"
              THEN \E kind \in DOMAIN BuildFailureCode :
                       /\ wire' = [status |-> 200, code |-> BuildFailureCode[kind]]
                       /\ raised' = BuildFailed[kind]
              ELSE UNCHANGED <<wire, raised>>
    /\ UNCHANGED <<op, sender, extra, seen>>
ClientReads ==
    /\ stage = "answered" /\ stage' = "read"
    /\ seen' = IF ~Takes(body, FALSE) THEN "unreadable"
               ELSE IF wire.code # "" THEN RaiseRemoteBuildError(wire.code) ELSE ""
    /\ UNCHANGED <<op, sender, part, body, extra, raised, wire>>
ClientReadsError ==
    /\ stage = "failed" /\ stage' = "read" /\ seen' = RaiseRemoteError(wire.code)
    /\ UNCHANGED <<op, sender, part, body, extra, raised, wire>>
Return ==
    /\ stage = "read" /\ stage' = "idle" /\ op' = "" /\ sender' = "" /\ part' = ""
    /\ body' = NoBody /\ extra' = FALSE /\ raised' = "" /\ wire' = NoError /\ seen' = ""
Next == ClientAsks \/ OtherAsks \/ Decode \/ ServiceRaises \/ ServiceAnswers \/ ClientReads
        \/ ClientReadsError \/ Return
Spec == Init /\ [][Next]_vars
-----------------------------------------------------------------------------
\* A call no deployment can answer: an empty name, vector, key, predicate or statement, a
\* limit below one.
Hopeless(b) == \E f \in DOMAIN b : \/ b[f] \in {"empty", "hollow"}
                                   \/ f \in {"query", "key"} /\ b[f] = "none"
                                   \/ f = "sql" /\ b[f] = "blank"
                                   \/ /\ f \in {"result_limit", "probe_count"}
                                      /\ b[f] \in {"minus", "zero"}
\* What the client writes for a call that can succeed is what the document allows, and
\* the handlers of the server take it.
ProperCallsUnderstood ==
    (stage = "asked" /\ sender = "client" /\ ~Hopeless(body))
        => (Documented(body, extra) /\ Takes(body, extra))
\* What the server answers is what the document allows, and the client can read it.
ServerAnswersDecode == /\ (stage = "answered") => Documented(body, extra)
                       /\ seen # "unreadable"
\* An exception of the public hierarchy raised in the service, or that ended a build, is
\* the exception the caller of the client gets; nothing raised is lost.
ErrorsSurvive == (stage = "read") =>
    /\ (raised \in PublicErrors) => (seen = raised)
    /\ (raised # "") => (seen # "")
=============================================================================
