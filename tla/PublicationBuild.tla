--------------------------- MODULE PublicationBuild ---------------------------
(***************************************************************************)
(* The build half of "parqdb publish": build_index of publish.py and the   *)
(* command that calls it.  A work directory records the request, then the  *)
(* downloaded model, the embedded source and the index warehouse, whose    *)
(* catalog keeps the name of the source; a build that was killed or failed *)
(* is run again on the same directory.                                     *)
(***************************************************************************)
EXTENDS Integers, Sequences, FiniteSets

CONSTANTS ModelFiles,   \* files of the embedding model
          Rows,         \* rows of the source
          MaxRuns,      \* commands started (model bound)
          MaxEdits      \* edits of the source file (model bound)

BuildAssumption == Rows \in Nat /\ MaxRuns \in Nat /\ MaxEdits \in Nat

VARIABLES made,       \* the work directory exists
          statePart,  \* build-state.json.part is in it
          state,      \* <<>> or <<request>>: build-state.json
          model,      \* model file |-> "none", "part" or "whole"
          embedded,   \* embedding-source.parquet: none, part, or whole with its input
          catalogued, \* publication_source is in the warehouse's catalog
          artifact,   \* <<>> or <<what the index was built from>>
          version,    \* of the source file
          run,        \* the running command
          runs, edits,
          disturbed,  \* the source was edited while a command ran
          halted,     \* a command stopped while the index was built (history)
          out         \* how the last command ended

vars == <<made, statePart, state, model, embedded, artifact, version, run, runs, edits,
          disturbed, out, catalogued, halted>>
warehouse == <<catalogued, halted>>
files == <<made, statePart, state, model, embedded, artifact>>
NotRunning == [pc |-> "none"]
Absent == [status |-> "none"]
\* Arguments of a command without --index-manifest: it builds first.
Arguments == [vector : BOOLEAN, text : BOOLEAN, nlist : 0 .. Rows + 1,
              include_model : BOOLEAN]
Pcs == {"prepare", "make", "part", "replace", "download", "downloading", "embed", "embedding", "find",
        "register", "index", "publish"}

TypeOK ==
    /\ made \in BOOLEAN /\ statePart \in BOOLEAN /\ Len(state) <= 1 /\ Len(artifact) <= 1
    /\ model \in [ModelFiles -> {"none", "part", "whole"}]
    /\ embedded.status \in {"none", "part", "whole"} /\ version \in {0, 1}
    /\ run.pc \in Pcs \cup {"none"} /\ runs <= MaxRuns /\ edits <= MaxEdits /\ disturbed \in BOOLEAN
    /\ out.kind \in {"none", "refused", "failed", "taken", "built"}
    /\ catalogued \in BOOLEAN /\ halted \in BOOLEAN
    /\ state # <<>> \/ statePart \/ artifact # <<>> \/ embedded # Absent => made
Init ==
    /\ made = FALSE /\ statePart = FALSE /\ state = <<>> /\ artifact = <<>> /\ embedded = Absent
    /\ model = [f \in ModelFiles |-> "none"] /\ version = 0 /\ run = NotRunning /\ runs = 0 /\ edits = 0
    /\ disturbed = FALSE /\ out = [kind |-> "none"] /\ catalogued = FALSE /\ halted = FALSE

End(result) == run' = NotRunning /\ out' = result
Goto(pc) == run' = [run EXCEPT !.pc = pc] /\ UNCHANGED out
Refuse(r) == End([kind |-> "refused", request |-> r])
-----------------------------------------------------------------------------
(* The command's checks, then build_index's: exactly one kind of column,   *)
(* and as many clusters as there are rows at most.                         *)
CommandAccepts(a) == a.nlist > 0
BuildAccepts(a) == a.vector # a.text /\ a.nlist > 0 /\ a.nlist <= Rows
RequestOf(a) == [sha |-> version, text |-> a.text, nlist |-> a.nlist]
Command(a) ==
    /\ run = NotRunning /\ runs < MaxRuns /\ runs' = runs + 1
    /\ IF CommandAccepts(a) /\ BuildAccepts(a)
       THEN /\ run' = [pc |-> "prepare", request |-> RequestOf(a), model |-> a.include_model]
            /\ UNCHANGED out
       ELSE End([kind |-> "refused", request |-> RequestOf(a), arguments |-> TRUE])
    /\ UNCHANGED <<files, version, edits, disturbed, warehouse>>
\* _prepare_build_work: the recorded request must be this one; without a record the
\* directory must be empty.
PrepareBuildWork ==
    /\ run.pc = "prepare"
    /\ IF state # <<>>
       THEN IF state[1] = run.request THEN Goto("download") ELSE Refuse(run.request)
       ELSE IF statePart \/ embedded # Absent \/ artifact # <<>> THEN Refuse(run.request) ELSE Goto("make")
    /\ UNCHANGED <<files, version, runs, edits, disturbed, warehouse>>
MakeWork ==
    /\ run.pc = "make" /\ Goto("part") /\ made' = TRUE
    /\ UNCHANGED <<statePart, state, model, embedded, artifact, version, runs, edits, disturbed, warehouse>>
WriteStatePart ==
    /\ run.pc = "part" /\ Goto("replace") /\ statePart' = TRUE
    /\ UNCHANGED <<made, state, model, embedded, artifact, version, runs, edits, disturbed, warehouse>>
ReplaceState ==
    /\ run.pc = "replace" /\ Goto("download") /\ statePart' = FALSE /\ state' = <<run.request>>
    /\ UNCHANGED <<made, model, embedded, artifact, version, runs, edits, disturbed, warehouse>>
-----------------------------------------------------------------------------
(* The model: a file that is there is kept, another is downloaded beside   *)
(* its place and moved there.                                              *)
DownloadMinilm ==
    /\ run.pc = "download"
    /\ IF run.request.text
       THEN LET missing == {f \in ModelFiles : model[f] # "whole"}
            IN  IF missing = {} THEN Goto("embed") /\ UNCHANGED model
                ELSE /\ Goto("downloading")
                     /\ model' = [model EXCEPT ![CHOOSE f \in missing : TRUE] = "part"]
       ELSE Goto("find") /\ UNCHANGED model
    /\ UNCHANGED <<made, statePart, state, embedded, artifact, version, runs, edits, disturbed, warehouse>>
ReplaceModelFile ==
    /\ run.pc = "downloading" /\ Goto("download")
    /\ model' = [f \in ModelFiles |-> IF model[f] = "part" THEN "whole" ELSE model[f]]
    /\ UNCHANGED <<made, statePart, state, embedded, artifact, version, runs, edits, disturbed, warehouse>>
\* The embedded source likewise; a leftover part is deleted first.
EmbedMinilm ==
    /\ run.pc = "embed"
    /\ IF embedded.status = "whole" THEN Goto("find") /\ UNCHANGED embedded
       ELSE Goto("embedding") /\ embedded' = [status |-> "part", source |-> version]
    /\ UNCHANGED <<made, statePart, state, model, artifact, version, runs, edits, disturbed, warehouse>>
ReplaceEmbedded ==
    /\ run.pc = "embedding" /\ Goto("find") /\ embedded' = [embedded EXCEPT !.status = "whole"]
    /\ UNCHANGED <<made, statePart, state, model, artifact, version, runs, edits, disturbed, warehouse>>
\* An artifact in the warehouse, found by its manifest, is reused.
FindIndexArtifact ==
    /\ run.pc = "find" /\ Goto(IF artifact # <<>> THEN "publish" ELSE "register")
    /\ UNCHANGED <<files, version, runs, edits, disturbed, warehouse>>
\* Without one the source, or the embedded source, is registered in the catalog of the
\* warehouse, which refuses a name it has, and the index is built from it.
RegisterSource ==
    /\ run.pc = "register"
    /\ IF catalogued THEN End([kind |-> "taken"]) /\ UNCHANGED catalogued
       ELSE Goto("index") /\ catalogued' = TRUE
    /\ UNCHANGED <<files, version, runs, edits, disturbed, halted>>
BuildParqdbIndex ==
    /\ run.pc = "index" /\ Goto("publish")
    /\ artifact' = <<[nlist |-> run.request.nlist, text |-> run.request.text,
                      whole |-> run.request.text => embedded.status = "whole",
                      source |-> IF run.request.text THEN embedded.source ELSE version]>>
    /\ UNCHANGED <<made, statePart, state, model, embedded, version, runs, edits, disturbed, warehouse>>
\* The command has the index; only now it sees that a model it is to include was not used.
BuiltIndex ==
    /\ run.pc = "publish"
    /\ IF run.model /\ ~run.request.text
       THEN End([kind |-> "refused", request |-> run.request, arguments |-> TRUE])
       ELSE End([kind |-> "built", request |-> run.request, artifact |-> artifact[1]])
    /\ UNCHANGED <<files, version, runs, edits, disturbed, warehouse>>
-----------------------------------------------------------------------------
\* A step raises (a download, the model, the build, a full disk), or the process is
\* killed: the directory stays as it is.  A failed build leaves no manifest.
Stop ==
    /\ run # NotRunning /\ End([kind |-> "failed"]) /\ halted' = (halted \/ run.pc = "index")
    /\ UNCHANGED <<files, version, runs, edits, disturbed, catalogued>>
EditSource ==
    /\ edits < MaxEdits /\ edits' = edits + 1 /\ version' = 1 - version
    /\ disturbed' = (disturbed \/ run # NotRunning)
    /\ UNCHANGED <<files, run, runs, out, warehouse>>
Next ==
    \/ (\E a \in Arguments : Command(a)) \/ PrepareBuildWork \/ MakeWork \/ WriteStatePart \/ ReplaceState
    \/ DownloadMinilm \/ ReplaceModelFile \/ EmbedMinilm \/ ReplaceEmbedded \/ FindIndexArtifact
    \/ RegisterSource \/ BuildParqdbIndex \/ BuiltIndex \/ Stop \/ EditSource
Spec == Init /\ [][Next]_vars
-----------------------------------------------------------------------------
\* The index a build returns was made for this very request, from the source with the
\* recorded hash and from a whole embedding, whatever requests used the directory and
\* were stopped before it, unless the source was edited under a running build
\* (publish.py:158-177, 410-447, 480-482).
BuiltFromRequest ==
    out.kind = "built" =>
        /\ out.artifact.whole /\ out.artifact.nlist = out.request.nlist
        /\ out.artifact.text = out.request.text
        /\ ~disturbed => out.artifact.source = out.request.sha
\* Once the request is recorded, every run of it resumes: the work directory never refuses
\* it again, and the warehouse refuses the source only after a run that was stopped between
\* the registration of the source and the manifest of the index, which no later run in
\* that directory makes up for (publish.py:480-482, 490, 528-540).
NotRefusedAgain ==
    out.kind = "refused" /\ "arguments" \notin DOMAIN out => state # <<out.request>>
TakenAfterHalt == out.kind = "taken" => halted
ResumedOnceRecorded == NotRefusedAgain /\ TakenAfterHalt
\* The build half of a publication does what was asked for, now and when it is resumed.
PublishedAsRequested == BuiltFromRequest /\ ResumedOnceRecorded
\* What is complete is not made again: the recorded request, a whole model file, a whole
\* embedding and the artifact stay as they are (publish.py:327, 410, 480).
WorkIsKept ==
    /\ state # <<>> => state' = state
    /\ \A f \in ModelFiles : model[f] = "whole" => model'[f] = "whole"
    /\ embedded.status = "whole" => embedded' = embedded
    /\ artifact # <<>> => artifact' = artifact
=============================================================================
