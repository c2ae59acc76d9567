----------------------------- MODULE PythonApi ------------------------------
(***************************************************************************)
(* The parts of the Python package that run in one process: the DataFusion *)
(* API and publication.  The components share no state, so that each       *)
(* behaviour runs one of them.  The variables of the others are 0; version *)
(* belongs to the source file in both halves of publication, state and out *)
(* to the build and to the namespace, and the components that are not      *)
(* named below have theirs in the slots v1, v2, ... in the order of their  *)
(* vars.                                                                   *)
(***************************************************************************)
EXTENDS Integers, Sequences

CONSTANTS Vars, OptionSessions, MaxObjects, Char, Other,                   \* options
          Handles, Frames, TableNames, MaxStates, MaxLists, MaxProviders, MaxTemps, \* namespace
          Threads, Sessions, Strict, Global, PythonFns, FfiFns, NoFn, NoCtx,
          MaxMessages,                                                     \* shipping
          Items,                                                           \* builders
          MaxValue, FrameRows, MaxOps,                                     \* frames
          Publishers, MaxAttempts, PublicationEdits,                       \* publication
          ModelFiles, SourceRows, MaxRuns, BuildEdits,                           \* build
          Callables, Explicit, Inner, MaxHandles,                          \* functions
          PartitionRows                                                    \* windows

VARIABLES component,  \* the one that runs in this behaviour
          registered, worker, sender, installed, bytes, got,
          store, exists, object, attempts, pub, overlap,
          made, statePart, model, embedded, artifact, run, runs, edits, disturbed, catalogued, halted,
          handle, lists, schemas, providers, frame, held,
          handles, registry, tables, last,
          keys, evaluator, arrived, ended, answered, method, ranks, memoized,
          version, state, out,
          v1, v2, v3, v4, v5, v6
shipping == <<registered, worker, sender, installed, bytes, got>>
publication == <<store, exists, object, attempts, pub, overlap>>
build == <<made, statePart, model, embedded, artifact, run, runs, edits, disturbed, catalogued,
           halted>>
namespace == <<handle, lists, schemas, providers, frame, held>>
functions == <<handles, registry, tables, last>>
windows == <<keys, evaluator, arrived, ended, answered, method, ranks, memoized>>
slots == <<v1, v2, v3, v4, v5, v6>>
vars == <<component, shipping, publication, build, namespace, functions, windows, version, state,
          out, slots>>

Options == INSTANCE SessionOptions WITH
    Sessions <- OptionSessions, obj <- v1, ref <- v2, session <- v3, reader <- v4
Namespace == INSTANCE SessionNamespace WITH Names <- TableNames
Shipping == INSTANCE ExpressionShipping
Builders == INSTANCE ExprBuilders WITH last <- v1
Lazy == INSTANCE LazyFrames WITH
    MaxRows <- FrameRows, table <- v1, frame <- v2, columns <- v3, ops <- v4,
    seen <- v5, last <- v6
Publication == INSTANCE StaticPublication WITH MaxEdits <- PublicationEdits
Build == INSTANCE PublicationBuild WITH Rows <- SourceRows, MaxEdits <- BuildEdits
Functions == INSTANCE UserFunctions
Windows == INSTANCE WindowRuns WITH MaxRows <- PartitionRows

ASSUME ApiAssumption ==
    /\ Options!OptionsAssumption
    /\ Namespace!NamespaceAssumption
    /\ Shipping!ShippingAssumption
    /\ Builders!BuildersAssumption
    /\ Lazy!FramesAssumption
    /\ Publication!PublicationAssumption
    /\ Build!BuildAssumption
    /\ Functions!FunctionsAssumption
    /\ Windows!WindowAssumption

ShippingOff == /\ registered = 0 /\ worker = 0 /\ sender = 0 /\ installed = 0 /\ bytes = 0
               /\ got = 0
PublicationOff == /\ store = 0 /\ exists = 0 /\ object = 0 /\ attempts = 0 /\ pub = 0
                  /\ overlap = 0
BuildOff == /\ made = 0 /\ statePart = 0 /\ model = 0 /\ embedded = 0 /\ artifact = 0
            /\ run = 0 /\ runs = 0 /\ edits = 0 /\ disturbed = 0 /\ catalogued = 0 /\ halted = 0
NamespaceOff == /\ handle = 0 /\ lists = 0 /\ schemas = 0 /\ providers = 0 /\ frame = 0
                /\ held = 0
FunctionsOff == /\ handles = 0 /\ registry = 0 /\ tables = 0 /\ last = 0
WindowsOff == /\ keys = 0 /\ evaluator = 0 /\ arrived = 0 /\ ended = 0 /\ answered = 0
              /\ method = 0 /\ ranks = 0 /\ memoized = 0
SharedOff == version = 0 /\ state = 0 /\ out = 0
SlotsOff == v1 = 0 /\ v2 = 0 /\ v3 = 0 /\ v4 = 0 /\ v5 = 0 /\ v6 = 0
DataFusionOff == ShippingOff /\ NamespaceOff /\ FunctionsOff /\ WindowsOff
PublishingOff == PublicationOff /\ BuildOff
NamedOff == DataFusionOff /\ PublishingOff /\ SharedOff
Init ==
    \/ component = "options" /\ Options!Init /\ NamedOff /\ v5 = 0 /\ v6 = 0
    \/ /\ component = "builders" /\ Builders!Init /\ NamedOff /\ v2 = 0 /\ v3 = 0 /\ v4 = 0
       /\ v5 = 0 /\ v6 = 0
    \/ component = "frames" /\ Lazy!Init /\ NamedOff
    \/ /\ component = "namespace" /\ Namespace!Init /\ version = 0 /\ SlotsOff
       /\ ShippingOff /\ FunctionsOff /\ WindowsOff /\ PublishingOff
    \/ /\ component = "shipping" /\ Shipping!Init /\ SharedOff /\ SlotsOff
       /\ NamespaceOff /\ FunctionsOff /\ WindowsOff /\ PublishingOff
    \/ /\ component = "functions" /\ Functions!Init /\ SharedOff /\ SlotsOff
       /\ ShippingOff /\ NamespaceOff /\ WindowsOff /\ PublishingOff
    \/ /\ component = "windows" /\ Windows!Init /\ SharedOff /\ SlotsOff
       /\ ShippingOff /\ NamespaceOff /\ FunctionsOff /\ PublishingOff
    \/ /\ component = "publication" /\ Publication!Init /\ state = 0 /\ out = 0 /\ SlotsOff
       /\ DataFusionOff /\ BuildOff
    \/ /\ component = "build" /\ Build!Init /\ SlotsOff
       /\ DataFusionOff /\ PublicationOff

\* What a step of a component leaves alone.
Named == <<component, shipping, publication, build, namespace, functions, windows, version, state,
           out>>
OptionsRest == <<Named, v5, v6>>
BuildersRest == <<Named, v2, v3, v4, v5, v6>>
NamespaceRest == <<component, shipping, publication, build, functions, windows, version, slots>>
ShippingRest == <<component, publication, build, namespace, functions, windows, version, state,
                  out, slots>>
FunctionsRest == <<component, shipping, publication, build, namespace, windows, version, state,
                   out, slots>>
WindowsRest == <<component, shipping, publication, build, namespace, functions, version, state,
                 out, slots>>
PublicationRest == <<component, shipping, build, namespace, functions, windows, state, out, slots>>
BuildRest == <<component, shipping, publication, namespace, functions, windows, slots>>

OptionsNext ==
    /\ component = "options" /\ Options!Next
    /\ UNCHANGED OptionsRest
NamespaceNext ==
    /\ component = "namespace" /\ Namespace!Next
    /\ UNCHANGED NamespaceRest
ShippingNext ==
    /\ component = "shipping" /\ Shipping!Next
    /\ UNCHANGED ShippingRest
BuildersNext ==
    /\ component = "builders" /\ Builders!Next
    /\ UNCHANGED BuildersRest
FramesNext ==
    /\ component = "frames" /\ Lazy!Next
    /\ UNCHANGED Named
PublicationNext ==
    /\ component = "publication" /\ Publication!Next
    /\ UNCHANGED PublicationRest
BuildNext ==
    /\ component = "build" /\ Build!Next
    /\ UNCHANGED BuildRest
FunctionsNext ==
    /\ component = "functions" /\ Functions!Next
    /\ UNCHANGED FunctionsRest
WindowsNext ==
    /\ component = "windows" /\ Windows!Next
    /\ UNCHANGED WindowsRest

Next == \/ OptionsNext
        \/ NamespaceNext
        \/ ShippingNext
        \/ BuildersNext
        \/ FramesNext
        \/ PublicationNext
        \/ BuildNext
        \/ FunctionsNext
        \/ WindowsNext
Spec == Init /\ [][Next]_vars

-----------------------------------------------------------------------------
(* What is checked, of the component that runs.                            *)

\* Every component's own type invariant.
TypeOK ==
    /\ component = "options" => Options!TypeOK
    /\ component = "namespace" => Namespace!TypeOK
    /\ component = "shipping" => Shipping!TypeOK
    /\ component = "builders" => Builders!TypeOK
    /\ component = "frames" => Lazy!TypeOK
    /\ component = "publication" => Publication!TypeOK
    /\ component = "build" => Build!TypeOK
    /\ component = "functions" => Functions!TypeOK
    /\ component = "windows" => Windows!TypeOK

\* The slots of a thread hold what it installed; bytes of a strict session carry no code,
\* and whoever asks for a strict session gets no function rebuilt from code; one that
\* travelled as code is never taken for another of its name (ipc.py, Expr.to_bytes,
\* Expr.__reduce__, Expr.from_bytes).
ShippedAsAllowed == component = "shipping" => Shipping!ShippedAsAllowed

\* A call means what its text says: a reader uses the characters its options were built
\* with; a subscript, the bounds of a window frame and a string among arguments stand for
\* what Python or the documentation makes of them; an execution that does not raise returns
\* the rows documented for the table as it is then, or as it was cached, a join uses the keys
\* it was given and a file the codec and level asked for.  The forms that are known to
\* differ are left out (options.py, expr.py, dataframe.py).
MeansWhatIsWritten ==
    /\ component = "options" => Options!CheckedCharacters
    /\ component = "builders" =>
          /\ Builders!PlainSubscripts
          /\ Builders!CountedBounds
          /\ Builders!StringsByPlace
    /\ component = "frames" =>
          /\ Lazy!AsDocumented
          /\ Lazy!JoinKeysAsGiven
          /\ Lazy!FileAsAsked

\* A function is evaluated as it was declared: one that udf, udaf, udwf or udtf made can run
\* wherever it is registered, looked up and registered again; a window function is asked by
\* the tabled method, over ranges that do not depend on how the rows were cut into batches,
\* and answers every row once (user_defined.py).
EvaluatedAsDeclared ==
    /\ component = "functions" => Functions!RegisteredCanRun
    /\ component = "windows" =>
          /\ Windows!BatchesDoNotShow
          /\ Windows!RanksPartitionRows
          /\ Windows!CallsTheTabledMethod
          /\ Windows!AllAnswered

\* A manifest whose write ended lists objects that are all there and whole, for S3 unless
\* two publications ran at once (one whose write failed may stay where deleting it failed
\* too); an index was built for the request of the build that returned it; the work
\* directory never refuses its recorded request again, and the source's name is only taken
\* in the catalog after a build stopped between registering it and recording the index
\* (publish, build_index).
PublishedAsRequested ==
    /\ component = "publication" => Publication!ManifestComplete
    /\ component = "build" => Build!PublishedAsRequested

\* Nothing is lost on the way: a name of a schema in memory keeps its provider until it is
\* removed or a statement says OR REPLACE, a call that raised changed no such name, a
\* callback's table reaches the session of the call; what is committed, and what a stopped
\* build completed, stays (context.py, catalog.py, user_defined.py, publish.py).
NothingLost == [][
    /\ component = "namespace" => Namespace!NamesKeep /\ Namespace!RefusedChangesNoName
    /\ component = "functions" => Functions!CallbackTablesPropagate
    /\ component = "publication" => Publication!CommittedStays
    /\ component = "build" => Build!WorkIsKept]_vars
=============================================================================
