---------------------------- MODULE TableRegistry ----------------------------
(***************************************************************************)
(* Registered tables: the persistent definitions (the SQLite catalog) and  *)
(* the providers of the running session (the DataFusion context), changed  *)
(* one after the other by register_parquet and deregister_table, read one  *)
(* after the other by table, and listed page by page over HTTP.            *)
(*                                                                         *)
(* Callers share one session.  An embedded caller reaches the service in   *)
(* process; a remote one through HTTP, where a request or its answer may   *)
(* be lost and a table reference is resolved by listing.  Names are        *)
(* numbers, in the order the catalog lists them.  A definition and a       *)
(* provider are identified by the registration that made them.             *)
(***************************************************************************)
EXTENDS Integers, FiniteSets, SequencesExt

CONSTANTS Names,       \* table names, in the catalog's order
          Callers,     \* users of the session
          Remote,      \* the ones that use the HTTP client
          PageSize,    \* the limit the client asks for (1000 in the code)
          MaxCalls,    \* calls of all callers together (model bound)
          MaxRestarts  \* restarts of the process (model bound)

RegistryAssumption ==
    /\ Names \subseteq Nat /\ IsFiniteSet(Names)
    /\ IsFiniteSet(Callers) /\ Callers # {} /\ Remote \subseteq Callers
    /\ PageSize \in Nat \ {0} /\ MaxCalls \in Nat /\ MaxRestarts \in Nat

VARIABLES catalog,    \* name |-> the registration that defined it
          ctx,        \* name |-> the registration whose provider is visible
          call,       \* caller |-> the call it runs
          out,        \* caller |-> how its last call ended
          calls, restarts,
          hist,       \* caller |-> names registered always and ever while it listed
          unsettled   \* names whose registration and deregistration overlapped, or whose
                      \* rollback failed

vars == <<catalog, ctx, call, out, calls, restarts, hist, unsettled>>

None == <<>>
\* A definition restored when the process started is registration 0.
Ids == Callers \X (0 .. MaxCalls)
Id(c) == <<c, calls[c]>>
\* The registrations and other calls begun so far.
Begun == {id \in Ids : 0 < id[2] /\ id[2] <= calls[id[1]]}
NoOutcome == [op |-> "none", n |-> 0, res |-> "none"]
NotListing == [always |-> {}, ever |-> {}]
Ops == {"register", "deregister", "table", "list"}
Idle == [op |-> "none", n |-> 0, at |-> "idle", got |-> <<>>, tokens |-> <<>>]
Points == {"idle", "encode", "request", "handle", "validate", "check", "context", "provider", "create", "publish", "bind",
           "undo", "describe", "definition", "page", "listed", "load", "drop", "forget"}
Results == {"none", "ok", "exists", "invalid", "failed", "repeated", "unavailable"}

TypeOK ==
    /\ catalog \in [Names -> Ids \union {None}] /\ ctx \in [Names -> Ids \union {None}]
    /\ \A c \in Callers :
          /\ call[c].op \in Ops \union {"none"} /\ call[c].n \in Names \union {0}
          /\ call[c].at \in Points /\ (call[c].at = "idle" <=> call[c] = Idle)
          /\ Range(call[c].got) \subseteq Names /\ Range(call[c].tokens) \subseteq Nat
          /\ out[c].res \in Results /\ out[c].n \in Names \union {0}
          /\ hist[c].always \subseteq hist[c].ever /\ hist[c].ever \subseteq Names
    /\ calls \in [Callers -> 0 .. MaxCalls] /\ restarts \in 0 .. MaxRestarts
    /\ unsettled \subseteq Names

Registered == {n \in Names : catalog[n] # None}

\* A session opens with what the catalog holds.
Init ==
    /\ LET c == CHOOSE x \in Callers : TRUE IN catalog \in [Names -> {None, <<c, 0>>}]
    /\ ctx = catalog
    /\ call = [c \in Callers |-> Idle]
    /\ out = [c \in Callers |-> NoOutcome]
    /\ calls = [c \in Callers |-> 0] /\ restarts = 0
    /\ hist = [c \in Callers |-> NotListing] /\ unsettled = {}

\* Calls of kind op on n that are running.
Running(n, op) == {c \in Callers : call[c].at # "idle" /\ call[c].n = n /\ call[c].op = op}
At(c, p) == call[c].at = p
Goto(c, p) == call' = [call EXCEPT ![c].at = p] /\ UNCHANGED out
\* The call ends with res in the caller's process.
EndsHere(c, res) ==
    /\ call' = [call EXCEPT ![c] = Idle]
    /\ out' = [out EXCEPT ![c] = [op |-> call[c].op, n |-> call[c].n, res |-> res]]
\* The service answers res: a remote caller may lose the answer.
Ends(c, res) == EndsHere(c, res) \/ (c \in Remote /\ EndsHere(c, "unavailable"))
Kept == UNCHANGED <<calls, restarts, unsettled>>

-----------------------------------------------------------------------------
(* The portable operations.                                                *)

Begin(c, op, n, p) ==
    /\ At(c, "idle") /\ Cardinality(Begun) < MaxCalls
    /\ calls' = [calls EXCEPT ![c] = @ + 1]
    /\ call' = [call EXCEPT ![c] = [Idle EXCEPT !.op = op, !.n = n, !.at = p]]
    /\ out' = [out EXCEPT ![c] = NoOutcome]
    /\ UNCHANGED <<catalog, ctx, restarts>>
\* SessionService: what each operation does first.
ServiceStart(op) == CASE op = "register" -> "validate" [] op = "list" -> "page"
                      [] op = "table" -> "describe" [] op = "deregister" -> "load"
\* The in-process transport calls the service; the HTTP client encodes a
\* registration, and lists the tables to resolve a reference.
Start(c, op) ==
    IF c \notin Remote THEN ServiceStart(op)
    ELSE IF op = "register" THEN "encode" ELSE "page"
RegisterParquet(c, n) ==
    /\ Begin(c, "register", n, Start(c, "register"))
    /\ unsettled' = IF Running(n, "deregister") = {} THEN unsettled ELSE unsettled \union {n}
ListTables(c) ==
    Begin(c, "list", 0, Start(c, "list")) /\ UNCHANGED unsettled
Table(c, n) ==
    Begin(c, "table", n, Start(c, "table")) /\ UNCHANGED unsettled
DeregisterTable(c, n) ==
    /\ Begin(c, "deregister", n, Start(c, "deregister"))
    /\ unsettled' = IF Running(n, "register") = {} THEN unsettled ELSE unsettled \union {n}

-----------------------------------------------------------------------------
(* The HTTP client and the handlers.                                       *)

\* register_parquet of the client refuses what it cannot encode.
EncodeRegistration(c) ==
    /\ At(c, "encode") /\ Kept /\ UNCHANGED <<catalog, ctx>>
    /\ EndsHere(c, "invalid") \/ Goto(c, "request")
\* _request_json: the request is lost, or its handler starts.
Request(c) ==
    /\ At(c, "request") /\ Kept /\ UNCHANGED <<catalog, ctx>>
    /\ \/ Goto(c, IF call[c].op = "register" THEN "handle" ELSE ServiceStart(call[c].op))
       \/ EndsHere(c, "unavailable")
\* _register_table: the route and the source policy may refuse the registration.
HandleRegistration(c) ==
    /\ At(c, "handle") /\ Kept /\ UNCHANGED <<catalog, ctx>>
    /\ Ends(c, "invalid") \/ Goto(c, ServiceStart("register"))

\* list_tables of the catalog orders by name.
InOrder(S) == CHOOSE s \in [1 .. Cardinality(S) -> S] :
                  \A i, j \in DOMAIN s : i < j => s[i] < s[j]
Slice(all, offset) == SubSeq(all, offset + 1, Min({offset + PageSize, Len(all)}))
\* _list_tables of the server: one page of the sorted definitions, and the offset
\* of the next one while there is one (0: none).
Page(offset) ==
    LET all == InOrder(Registered)
        next == offset + Len(Slice(all, offset))
    IN  [tables |-> Slice(all, offset), token |-> IF next < Len(all) THEN next ELSE 0]

\* list_tables of the client follows the page tokens.
FollowPages(c) ==
    LET cur == call[c]
        page == Page(IF cur.tokens = <<>> THEN 0 ELSE Last(cur.tokens))
        got == cur.got \o page.tables
    IN  /\ At(c, "page") /\ c \in Remote
        /\ \/ EndsHere(c, "unavailable")
           \/ /\ page.token = 0 /\ UNCHANGED out
              /\ call' = [call EXCEPT ![c].got = got, ![c].at = "listed"]
           \/ /\ page.token # 0 /\ page.token \in Range(cur.tokens) /\ EndsHere(c, "repeated")
           \/ /\ page.token # 0 /\ page.token \notin Range(cur.tokens) /\ UNCHANGED out
              /\ call' = [call EXCEPT ![c].got = got, ![c].tokens = Append(@, page.token)]
        /\ Kept /\ UNCHANGED <<catalog, ctx>>

\* list_tables of the service: all definitions at once.
ListDefinitions(c) ==
    /\ At(c, "page") /\ c \notin Remote /\ UNCHANGED out
    /\ call' = [call EXCEPT ![c].got = InOrder(Registered), ![c].at = "listed"]
    /\ Kept /\ UNCHANGED <<catalog, ctx>>

\* The listing is returned, or _resolve_identifier picks the one candidate in it.
ResolveIdentifier(c) ==
    /\ At(c, "listed") /\ Kept /\ UNCHANGED <<catalog, ctx>>
    /\ IF call[c].op = "list" THEN EndsHere(c, "ok")
       ELSE IF Cardinality({i \in DOMAIN call[c].got : call[c].got[i] = call[c].n}) = 1
            THEN Goto(c, "request")
            ELSE EndsHere(c, "invalid")

-----------------------------------------------------------------------------
(* Session::register_parquet_table; _register_table then describes it.     *)

\* The embedded session refuses paths and sort orders it cannot persist.
ValidateRegistration(c) ==
    /\ At(c, "validate") /\ Kept /\ UNCHANGED <<catalog, ctx>>
    /\ Ends(c, "invalid") \/ Goto(c, "check")
CheckDefinition(c) ==
    /\ At(c, "check") /\ Kept /\ UNCHANGED <<catalog, ctx>>
    /\ IF catalog[call[c].n] # None THEN Ends(c, "exists") ELSE Goto(c, "context")
CheckContext(c) ==
    /\ At(c, "context") /\ Kept /\ UNCHANGED <<catalog, ctx>>
    /\ IF ctx[call[c].n] # None THEN Ends(c, "exists") ELSE Goto(c, "provider")
\* The provider is built from the files: the source may be unreadable.
BuildProvider(c) ==
    /\ At(c, "provider") /\ Kept /\ UNCHANGED <<catalog, ctx>>
    /\ Goto(c, "create") \/ Ends(c, "failed")
\* Mutant: the definition is replaced when the name was taken meanwhile.
CreateReplaces(c) ==
    /\ At(c, "create") /\ Kept /\ UNCHANGED ctx
    /\ catalog' = [catalog EXCEPT ![call[c].n] = Id(c)] /\ Goto(c, "publish")
\* create_table: the name is unique in the catalog.
CreateDefinition(c) ==
    /\ At(c, "create") /\ Kept /\ UNCHANGED ctx
    /\ IF catalog[call[c].n] # None THEN Ends(c, "exists") /\ UNCHANGED catalog
       ELSE catalog' = [catalog EXCEPT ![call[c].n] = Id(c)] /\ Goto(c, "publish")
\* register_table refuses a name the context has.
PublishTable(c) ==
    /\ At(c, "publish") /\ Kept /\ UNCHANGED catalog
    /\ IF ctx[call[c].n] # None THEN Goto(c, "undo") /\ UNCHANGED ctx
       ELSE ctx' = [ctx EXCEPT ![call[c].n] = Id(c)] /\ Goto(c, "bind")
\* bind_provider_reference may refuse the schema: the provider is withdrawn.
BindSource(c) ==
    /\ At(c, "bind") /\ Kept /\ UNCHANGED catalog
    /\ \/ ctx' = [ctx EXCEPT ![call[c].n] = None] /\ Goto(c, "undo")
       \/ /\ UNCHANGED ctx
          /\ IF c \in Remote THEN Goto(c, "describe") ELSE Ends(c, "ok")
\* drop_table, whose own failure is ignored: the definition then stays behind.
UndoDefinition(c) ==
    /\ At(c, "undo") /\ Ends(c, "failed") /\ UNCHANGED <<ctx, calls, restarts>>
    /\ \/ catalog' = [catalog EXCEPT ![call[c].n] = None] /\ UNCHANGED unsettled
       \/ UNCHANGED catalog /\ unsettled' = unsettled \union {call[c].n}

-----------------------------------------------------------------------------
(* table: the provider first, then the definition.                         *)

Describe(c) ==
    /\ At(c, "describe") /\ Kept /\ UNCHANGED <<catalog, ctx>>
    /\ IF ctx[call[c].n] = None THEN Ends(c, "failed") ELSE Goto(c, "definition")
Definition(c) ==
    /\ At(c, "definition") /\ Kept /\ UNCHANGED <<catalog, ctx>>
    /\ Ends(c, IF catalog[call[c].n] = None THEN "invalid" ELSE "ok")

(* deregister_table: the definition first, then the provider.              *)

LoadDefinition(c) ==
    /\ At(c, "load") /\ Kept /\ UNCHANGED <<catalog, ctx>>
    /\ Goto(c, IF catalog[call[c].n] = None THEN "forget" ELSE "drop")
DropDefinition(c) ==
    /\ At(c, "drop") /\ Kept /\ UNCHANGED ctx
    /\ IF catalog[call[c].n] = None THEN Ends(c, "failed") /\ UNCHANGED catalog
       ELSE catalog' = [catalog EXCEPT ![call[c].n] = None] /\ Goto(c, "forget")
ForgetTable(c) ==
    /\ At(c, "forget") /\ ctx' = [ctx EXCEPT ![call[c].n] = None]
    /\ Ends(c, "ok") /\ Kept /\ UNCHANGED catalog

\* The process ends and a new one restores the providers from the definitions.
Restart ==
    /\ restarts < MaxRestarts /\ restarts' = restarts + 1
    /\ ctx' = catalog /\ call' = [c \in Callers |-> Idle]
    /\ out' = [c \in Callers |-> IF At(c, "idle") THEN out[c] ELSE
                  [op |-> call[c].op, n |-> call[c].n, res |-> "unavailable"]]
    /\ UNCHANGED <<catalog, calls, unsettled>>

-----------------------------------------------------------------------------
Operation(c) == \/ ListTables(c)
                \/ \E n \in Names : RegisterParquet(c, n) \/ Table(c, n) \/ DeregisterTable(c, n)
Step(c) == \/ EncodeRegistration(c) \/ Request(c) \/ HandleRegistration(c)
           \/ ValidateRegistration(c) \/ FollowPages(c) \/ ListDefinitions(c) \/ ResolveIdentifier(c)
           \/ CheckDefinition(c) \/ CheckContext(c) \/ BuildProvider(c) \/ CreateDefinition(c)
           \/ PublishTable(c) \/ BindSource(c) \/ UndoDefinition(c)
           \/ Describe(c) \/ Definition(c)
           \/ LoadDefinition(c) \/ DropDefinition(c) \/ ForgetTable(c)

\* What is registered while each caller lists.
Track == hist' = [c \in Callers |->
    IF call'[c].at \notin {"page", "listed"} THEN NotListing
    ELSE IF At(c, "page") THEN [always |-> hist[c].always \intersect Registered',
                                ever |-> hist[c].ever \union Registered']
    ELSE IF At(c, "listed") THEN hist[c]
    ELSE [always |-> Registered', ever |-> Registered']]

Next == /\ Restart \/ \E c \in Callers : Operation(c) \/ Step(c)
        /\ Track
Spec == Init /\ [][Next]_vars
\* A call that began goes on.
FairSpec == Spec /\ \A c \in Callers : WF_vars(Step(c) /\ Track)

-----------------------------------------------------------------------------
(* No sequence of overlapping registrations rebinds a name: a definition,  *)
(* and a provider of the running session, is only ever withdrawn.          *)
NoRebind ==
    \A n \in Names : /\ catalog[n] # None => catalog'[n] \in {catalog[n], None}
                     /\ ctx[n] # None /\ restarts' = restarts => ctx'[n] \in {ctx[n], None}

(* When nothing runs on a name, the session and the catalog agree on it,   *)
(* whatever registrations overlapped, failed and were undone, and across   *)
(* restarts, as long as no deregistration overlapped a registration of it  *)
(* and no rollback failed.                                                 *)
SettledNamesAgree == \A n \in Names \ unsettled :
    Running(n, "register") = {} /\ Running(n, "deregister") = {} => catalog[n] = ctx[n]

(* A registration that is answered with an error left nothing behind, with *)
(* the same two exceptions.                                                *)
FailedLeavesNothing == \A c \in Callers :
    (/\ At(c, "idle") /\ out[c].op = "register" /\ out[c].n \notin unsettled
     /\ out[c].res \in {"exists", "invalid", "failed"})
        => catalog[out[c].n] # Id(c) /\ ctx[out[c].n] # Id(c)

(* A listing holds only names registered while it ran, and exactly the     *)
(* registered ones, in order, if they did not change; whatever changes     *)
(* meanwhile, the server never repeats a page token.                       *)
ListingSound == \A c \in Callers :
    /\ At(c, "listed") =>
          /\ Range(call[c].got) \subseteq hist[c].ever
          /\ hist[c].always = hist[c].ever => call[c].got = InOrder(hist[c].ever)
    /\ out[c].res # "repeated"

(* Every call ends, also a listing under which the tables change.          *)
CallsEnd == \A c \in Callers : ~At(c, "idle") ~> At(c, "idle")
=============================================================================
