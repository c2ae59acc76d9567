-------------------------- MODULE StaticPublication --------------------------
(***************************************************************************)
(* publish of publish.py: an index artifact, with its source file and its  *)
(* embedding model on request, is copied to a local directory or an S3     *)
(* prefix, the manifest last.  Several publishers may be given the same    *)
(* destination, a write may fail, the process may be killed, and the       *)
(* source file may be edited while it runs.                                *)
(***************************************************************************)
EXTENDS Integers, Sequences, FiniteSets

CONSTANTS Publishers,
          MaxAttempts,   \* publications started (model bound)
          MaxEdits       \* edits of the source file (model bound)

PublicationAssumption == MaxAttempts \in Nat \ {0} /\ MaxEdits \in Nat

Paths == {"index", "documents", "model", "manifest"}
None == [kind |-> "none"]
Torn == [kind |-> "torn"]
\* What an object holds: the files of a publisher's artifact, the source file in one
\* of its versions, or the manifest, which lists every other object by its content.
IndexFile(p) == [kind |-> "index", by |-> p]
ModelFile(p) == [kind |-> "model", by |-> p]
SourceFile(v) == [kind |-> "source", version |-> v]
\* A manifest that is there although its write raised: the call goes on to clean up.
Stray == [kind |-> "stray"]
Manifest(p, objs) == [kind |-> "manifest", by |-> p, lists |-> objs]

VARIABLES store,     \* "local" or "s3"
          exists,    \* the destination directory (local)
          object,    \* path |-> content
          version,   \* of the source file
          attempts,  \* publications started so far
          pub,       \* publisher |-> where its publish call is
          overlap    \* two publish calls have been between check and end at once (s3)

vars == <<store, exists, object, version, attempts, pub, overlap>>
Idle == [pc |-> "idle", plan |-> <<>>, next |-> 1]
Ended == {"idle", "refused", "failed", "killed", "done", "unverified"}

TypeOK ==
    /\ store \in {"local", "s3"} /\ exists \in BOOLEAN /\ DOMAIN object = Paths
    /\ version \in 0 .. MaxEdits /\ attempts \in 0 .. MaxAttempts /\ overlap \in BOOLEAN
    /\ \A p \in Publishers :
          /\ pub[p].pc \in Ended \cup {"check", "write", "writing", "cleanup", "committed"}
          /\ pub[p].next \in 1 .. Len(pub[p].plan) + 1
    /\ store = "local" /\ ~exists => \A x \in Paths : object[x] = None
Init ==
    /\ store \in {"local", "s3"} /\ exists = FALSE /\ object = [x \in Paths |-> None]
    /\ version = 0 /\ attempts = 0 /\ pub = [p \in Publishers |-> Idle] /\ overlap = FALSE

\* A call that has ended keeps nothing.
Goto(p, pc) ==
    pub' = [pub EXCEPT ![p] = IF pc \in Ended THEN [Idle EXCEPT !.pc = pc] ELSE [@ EXCEPT !.pc = pc]]
-----------------------------------------------------------------------------
(* The inputs: which parts to publish, and what is wrong with them: one    *)
(* thing at most, for a second one is refused like the first.              *)
Request(source, embedding, wrong) ==
    [source |-> source, keyed |-> (source # <<>>) # (wrong = "keyed"), dense |-> wrong # "dense",
     intact |-> wrong # "intact", embedding |-> embedding, assets |-> embedding # (wrong = "assets")]
Requests == {Request(source, embedding, wrong) :
                source \in {<<>>, <<"documents">>, <<"index">>, <<"manifest">>},
                embedding \in BOOLEAN, wrong \in {"nothing", "keyed", "dense", "intact", "assets"}}
\* Objects of the artifact, each with the size and hash the manifest records.
ValidateIndexObjects(r) == r.intact
ReferencedIndexPaths(p) == <<[path |-> "index", content |-> IndexFile(p)]>>
\* The source has a dense int64 key from zero, one row per indexed row and row groups
\* of one size.
SourceDescriptor(r) == r.dense
Listed(objs) == [x \in {objs[i].path : i \in DOMAIN objs} |->
                    (objs[CHOOSE i \in DOMAIN objs : objs[i].path = x]).content]
\* Mutant: the manifest goes out before the files it lists.
ManifestFirst(p, r) ==
    LET objs == ReferencedIndexPaths(p)
    IN  <<[path |-> "manifest", content |-> Manifest(p, Listed(objs))]>> \o objs
PublicationObjects(p, r) ==
    LET source == [i \in DOMAIN r.source |-> [path |-> r.source[i], content |-> SourceFile(version)]]
        model == IF r.embedding THEN <<[path |-> "model", content |-> ModelFile(p)]>> ELSE <<>>
        objs == ReferencedIndexPaths(p) \o source \o model
    IN  Append(objs, [path |-> "manifest", content |-> Manifest(p, Listed(objs))])
EnsureUniquePaths(objs) == \A i, j \in DOMAIN objs : objs[i].path = objs[j].path => i = j

\* publish up to the writer: everything is validated and hashed before anything is
\* written.
Publish(p, r) ==
    LET objs == PublicationObjects(p, r)
        accepted == /\ (r.source = <<>>) = ~r.keyed
                    /\ r.source # <<>> => SourceDescriptor(r)
                    /\ ValidateIndexObjects(r) /\ r.embedding = r.assets
                    /\ EnsureUniquePaths(objs)
    IN  /\ pub[p].pc \in {"idle", "refused", "failed", "killed"} /\ attempts < MaxAttempts
        /\ pub' = [pub EXCEPT ![p] = [pc |-> IF accepted THEN "check" ELSE "refused",
                                      plan |-> IF accepted THEN objs ELSE <<>>, next |-> 1]]
        /\ attempts' = attempts + 1
        /\ UNCHANGED <<store, exists, object, version, overlap>>
-----------------------------------------------------------------------------
(* The writers.                                                            *)
LocalEnsureEmpty(p) ==
    /\ store = "local" /\ pub[p].pc = "check"
    /\ IF exists THEN Goto(p, "refused") /\ UNCHANGED exists
       ELSE Goto(p, "write") /\ exists' = TRUE
    /\ UNCHANGED <<store, object, version, overlap, attempts>>
S3EnsureEmpty(p) ==
    /\ store = "s3" /\ pub[p].pc = "check"
    /\ IF \E i \in DOMAIN pub[p].plan : object[pub[p].plan[i].path] # None
       THEN Goto(p, "refused") /\ UNCHANGED overlap
       ELSE /\ Goto(p, "write")
            /\ overlap' = (overlap \/ \E q \in Publishers \ {p} :
                                         pub[q].pc \in {"write", "writing", "cleanup"})
    /\ UNCHANGED <<store, exists, object, version, attempts>>
Current(p) == pub[p].plan[pub[p].next]
\* A source is copied as it is now, whatever was hashed.
Bytes(item) == IF item.content.kind = "source" THEN SourceFile(version) ELSE item.content
\* The local file is there, and empty, while it is copied; S3 shows it when complete.
OpenObject(p) ==
    /\ pub[p].pc = "write" /\ Goto(p, "writing")
    /\ object' = IF store = "local" THEN [object EXCEPT ![Current(p).path] = Torn] ELSE object
    /\ UNCHANGED <<store, exists, version, overlap, attempts>>
WriteObject(p) ==
    /\ pub[p].pc = "writing"
    /\ object' = [object EXCEPT ![Current(p).path] = Bytes(Current(p))]
    /\ pub' = [pub EXCEPT ![p].next = @ + 1,
                          ![p].pc = IF pub[p].next = Len(pub[p].plan) THEN "committed" ELSE "write"]
    /\ UNCHANGED <<store, exists, version, overlap, attempts>>
\* A write that raises may have stored a part, for closing the stream completes an upload,
\* or everything; to S3, the path it was writing is then deleted, unless that fails too.
Stored(item) == IF item.content.kind = "manifest" THEN Stray ELSE Bytes(item)
WriteFails(p) ==
    LET x == Current(p).path
        left == {Torn, Stored(Current(p))} \cup (IF store = "s3" THEN {None, object[x]} ELSE {})
    IN  /\ pub[p].pc = "writing" /\ Goto(p, "cleanup")
        /\ \E c \in left : object' = [object EXCEPT ![x] = c]
        /\ UNCHANGED <<store, exists, version, overlap, attempts>>
\* rmtree passes over what it cannot remove: the directory goes when nothing is left in it.
LocalCleanup(p) ==
    /\ store = "local" /\ pub[p].pc = "cleanup"
    /\ \/ \E x \in Paths : /\ object[x] # None /\ object' = [object EXCEPT ![x] = None]
                          /\ UNCHANGED <<exists, pub>>
       \/ /\ Goto(p, "failed") /\ UNCHANGED object
          /\ exists' \in {TRUE, \E x \in Paths : object[x] # None}
    /\ UNCHANGED <<store, version, overlap, attempts>>
\* What was written is deleted, last first; a delete that fails is passed over.
S3Cleanup(p) ==
    /\ store = "s3" /\ pub[p].pc = "cleanup"
    /\ IF pub[p].next = 1 THEN Goto(p, "failed") /\ UNCHANGED object
       ELSE /\ pub' = [pub EXCEPT ![p].next = @ - 1]
            /\ object' \in {object, [object EXCEPT ![pub[p].plan[pub[p].next - 1].path] = None]}
    /\ UNCHANGED <<store, exists, version, overlap, attempts>>
\* After the commit the public URL is tried; a failure is reported, nothing undone.
VerifyPublication(p) ==
    /\ pub[p].pc = "committed" /\ \E pc \in {"done", "unverified"} : Goto(p, pc)
    /\ UNCHANGED <<store, exists, object, version, overlap, attempts>>
-----------------------------------------------------------------------------
Kill(p) ==
    /\ pub[p].pc \notin Ended /\ Goto(p, "killed")
    /\ UNCHANGED <<store, exists, object, version, overlap, attempts>>
EditSource ==
    /\ version < MaxEdits /\ version' = version + 1
    /\ UNCHANGED <<store, exists, object, pub, overlap, attempts>>

Step(p) ==
    \/ (\E r \in Requests : Publish(p, r))
    \/ LocalEnsureEmpty(p) \/ S3EnsureEmpty(p) \/ OpenObject(p) \/ WriteObject(p) \/ WriteFails(p)
    \/ LocalCleanup(p) \/ S3Cleanup(p) \/ VerifyPublication(p) \/ Kill(p)
Next == EditSource \/ \E p \in Publishers : Step(p)
Spec == Init /\ [][Next]_vars
-----------------------------------------------------------------------------
Visible == object["manifest"].kind = "manifest"
SameFile(c, d) == c = d \/ (c.kind = "source" /\ d.kind = "source")
\* A manifest whose write ended lists objects that are all there, whole, and from the
\* publication that wrote it, whatever failed, was killed, was left behind by a cleanup or
\* was retried before; for S3 unless two publications of one prefix ran at once
\* (publish.py:99-105).  A manifest stored by a write that raised is none: what it lists
\* may be deleted by the cleanup of its call while the delete of itself has failed.
ManifestComplete == ~overlap /\ Visible =>
    \A x \in DOMAIN object["manifest"].lists : SameFile(object[x], object["manifest"].lists[x])
\* What is committed stays: no later publication, failure or verification changes an
\* object of a publication whose manifest was written (publish.py:106-116).
CommittedStays == ~overlap /\ ~overlap' /\ Visible => object' = object
=============================================================================
