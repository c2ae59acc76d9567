----------------------------- MODULE IndexLifecycle -----------------------------
(***************************************************************************)
(* The life of indexes in one warehouse: builds (create and refresh of     *)
(* session/build.rs), registration and drop (session/catalog.rs), the      *)
(* SQLite catalog with its tombstones, garbage collection (maintenance.rs) *)
(* and a query that has resolved its index.                                *)
(*                                                                         *)
(* An operation o of Ops runs once.  It names all it writes: its snapshot  *)
(* root <<"data", o>>, its metadata document <<"meta", o>> and, if it      *)
(* trains, the centroid artifact <<"cdata", o>>, <<"cmeta", o>>.  The      *)
(* session lock and the build leases are used as LeaseTable promises, so   *)
(* who holds a guard or a lease follows from where it is; the centroid     *)
(* catalog is CentroidRegistry's one entry (one source, one fingerprint).  *)
(*                                                                         *)
(* Time: age counts ticks since a write, up to Old; the collector deletes  *)
(* what is older than Retention (MINIMUM_RETENTION_MS).                    *)
(***************************************************************************)
EXTENDS Naturals, FiniteSets

CONSTANTS Ops, Names,
          Sources,     \* exact states of the source table
          Retention,
          None

ASSUME LifecycleConstants ==
    /\ Retention \in Nat
    /\ None \notin Ops \cup Names \cup Sources

VARIABLES store,     \* objects in the warehouse
          age,       \* ticks since an object was written
          rows,      \* rows[n]: operation whose metadata the catalog row of n names
          tombs,     \* catalog_tombstones, by the operation that wrote the metadata
          tombAge,   \* ticks since unreachable_since_ms
          registry,  \* the ready centroid artifact, or None
          pc, name, base, cent, src,   \* of each operation
          snaps,     \* snaps[o]: the snapshots <<data, centroids>> in o's metadata,
                     \* centroids being None in a registered artifact
          gc,        \* the collector
          query,     \* a resolved query: what it will read, and since when
          request    \* a drop_table_index_in that has verified its source

job == <<pc, name, base, cent, src, snaps>>
catalog == <<rows, tombs, tombAge>>
others == <<gc, query, request>>
vars == <<store, age, rows, tombs, tombAge, registry, pc, name, base, cent, src,
          snaps, gc, query, request>>

Old == Retention + 1

Objects == {"data", "cdata", "cmeta", "meta"} \X Ops

Building == {"pinned", "trained", "stored", "resolved", "built"}

Publishing == {"publish", "written"}

IdleGC == [pc |-> "idle", todo |-> {}, keep |-> {}, expired |-> {}]

IdleQuery == [reads |-> {}, age |-> 0]

IdleDrop == [name |-> None, source |-> None]

Init ==
    /\ store = {} /\ age = [x \in Objects |-> 0]
    /\ rows = [n \in Names |-> None]
    /\ tombs = {} /\ tombAge = [o \in Ops |-> 0]
    /\ registry = None
    /\ pc = [o \in Ops |-> "idle"]
    /\ name = [o \in Ops |-> None]
    /\ base = [o \in Ops |-> None]
    /\ cent = [o \in Ops |-> None]
    /\ src = [o \in Ops |-> None]
    /\ snaps = [o \in Ops |-> {}]
    /\ gc = IdleGC /\ query = IdleQuery /\ request = IdleDrop

-----------------------------------------------------------------------------
\* Guards and leases.

NoWriter == gc.pc = "idle" /\ \A o \in Ops : pc[o] \notin Publishing

LeaseFree(n) == \A o \in Ops : pc[o] \in Building => name[o] # n

\* The snapshot roots that build leases pin (active_build_roots).
Pins ==
    {<<"data", o>> : o \in {p \in Ops : pc[p] \in Building}} \cup
    {<<"cdata", o>> : o \in {p \in Ops : pc[p] \in Building \ {"pinned"}}}

Put(x) ==
    /\ store' = store \cup {x}
    /\ age' = [age EXCEPT ![x] = 0]

Goto(o, from, to) ==
    /\ pc[o] = from
    /\ pc' = [pc EXCEPT ![o] = to]

\* The operation returns an error, or its process dies; what it wrote stays.
End(o, how) ==
    /\ pc' = [pc EXCEPT ![o] = how]
    /\ name' = [name EXCEPT ![o] = None]
    /\ base' = [base EXCEPT ![o] = None]
    /\ cent' = [cent EXCEPT ![o] = None]
    /\ UNCHANGED <<src, snaps>>

Fail(o) ==
    /\ pc[o] \in Building \cup Publishing
    /\ End(o, "failed")
    /\ UNCHANGED <<store, age, catalog, registry, others>>

-----------------------------------------------------------------------------
\* Builds.

\* reserve_build, the check of the catalog (create: no row; refresh: load the
\* row's metadata) and set_snapshot_root, all under the shared setup guard.
BeginBuild(o, n, s) ==
    /\ pc[o] = "idle"
    /\ NoWriter
    /\ LeaseFree(n)
    /\ rows[n] # None => <<"meta", rows[n]>> \in store
    /\ pc' = [pc EXCEPT ![o] = "pinned"]
    /\ name' = [name EXCEPT ![o] = n]
    /\ base' = [base EXCEPT ![o] = rows[n]]
    /\ src' = [src EXCEPT ![o] = s]
    /\ UNCHANGED <<cent, snaps, store, age, catalog, registry, others>>

\* load_ivf_centroids: a ready artifact is read and its reference kept.
LoadCentroids(o) ==
    /\ registry # None
    /\ {<<"cmeta", registry>>, <<"cdata", registry>>} \subseteq store
    /\ cent' = [cent EXCEPT ![o] = registry]

ReuseCentroids(o) ==
    /\ Goto(o, "pinned", "resolved")
    /\ LoadCentroids(o)
    /\ UNCHANGED <<name, base, src, snaps, store, age, catalog, registry, others>>

\* Nothing is registered: pin a second root (add_snapshot_root, under a shared
\* guard), train and write the centroid tables.
TrainCentroids(o) ==
    /\ Goto(o, "pinned", "trained")
    /\ registry = None
    /\ NoWriter
    /\ Put(<<"cdata", o>>)
    /\ UNCHANGED <<name, base, cent, src, snaps, catalog, registry, others>>

WriteCentroidMeta(o) ==
    /\ Goto(o, "trained", "stored")
    /\ Put(<<"cmeta", o>>)
    /\ UNCHANGED <<name, base, cent, src, snaps, catalog, registry, others>>

\* publish_ivf_centroids, or what another build has published by then.
PublishCentroids(o) ==
    /\ Goto(o, "stored", "resolved")
    /\ \/ /\ registry = None
          /\ registry' = o
          /\ cent' = [cent EXCEPT ![o] = o]
       \/ /\ LoadCentroids(o)
          /\ UNCHANGED registry
    /\ UNCHANGED <<name, base, src, snaps, store, age, catalog, others>>

WritePostings(o) ==
    /\ Goto(o, "resolved", "built")
    /\ Put(<<"data", o>>)
    /\ UNCHANGED <<name, base, cent, src, snaps, catalog, registry, others>>

\* coordination.write() before publish_initial or publish_refresh.
BeginPublish(o) ==
    /\ NoWriter
    /\ Goto(o, "built", "publish")
    /\ UNCHANGED <<name, base, cent, src, snaps, store, age, catalog, registry, others>>

\* register_table_index_in: an artifact outside the warehouse, with centroids of
\* its own.  The exclusive guard comes before the exists check.
BeginRegister(o, n, s) ==
    /\ pc[o] = "idle"
    /\ NoWriter
    /\ rows[n] = None
    /\ pc' = [pc EXCEPT ![o] = "publish"]
    /\ name' = [name EXCEPT ![o] = n]
    /\ src' = [src EXCEPT ![o] = s]
    /\ UNCHANGED <<base, cent, snaps, store, age, catalog, registry, others>>

\* The snapshots of o's metadata whose tables are in the warehouse.
Managed(o) == {s \in snaps[o] : s[2] # None}

\* write_initial or write_update: the base's snapshots and the new one.
WriteMeta(o) ==
    /\ Goto(o, "publish", "written")
    /\ Put(<<"meta", o>>)
    /\ snaps' = [snaps EXCEPT ![o] =
          (IF base[o] = None THEN {} ELSE snaps[base[o]]) \cup {<<o, cent[o]>>}]
    /\ UNCHANGED <<name, base, cent, src, catalog, registry, others>>

Entomb(o) ==
    /\ tombs' = tombs \cup {o}
    /\ tombAge' = [tombAge EXCEPT ![o] = 0]

\* Mutant: the row is not compared with the base of the refresh.
CatalogNotCompared(o) == TRUE

\* SqliteCatalog::register and ::commit: the row must still be what the
\* operation started from (a first registration: no row).
CatalogMatches(o) == rows[name[o]] = base[o]

\* Mutant: a first registration leaves a tombstone too.
CommitEntombsAlways(o) ==
    /\ pc[o] = "written"
    /\ CatalogMatches(o)
    /\ rows' = [rows EXCEPT ![name[o]] = o]
    /\ Entomb(base[o])
    /\ End(o, "done")
    /\ UNCHANGED <<store, age, registry, others>>

CommitOk(o) ==
    /\ pc[o] = "written"
    /\ CatalogMatches(o)
    /\ rows' = [rows EXCEPT ![name[o]] = o]
    /\ IF base[o] = None THEN UNCHANGED <<tombs, tombAge>> ELSE Entomb(base[o])
    /\ End(o, "done")
    /\ UNCHANGED <<store, age, registry, others>>

\* AlreadyExists, IndexNotFound or CommitConflict.
CommitRejected(o) ==
    /\ pc[o] = "written"
    /\ ~CatalogMatches(o)
    /\ End(o, "failed")
    /\ UNCHANGED <<store, age, catalog, registry, others>>

-----------------------------------------------------------------------------
\* Drop.

DropRow(n) ==
    /\ rows[n] # None
    /\ Entomb(rows[n])
    /\ rows' = [rows EXCEPT ![n] = None]
    /\ UNCHANGED <<store, age, registry, job, gc, query>>

DropIndex(n) ==
    /\ NoWriter
    /\ DropRow(n)
    /\ UNCHANGED request

\* drop_table_index_in loads the entry, with no guard, and compares its source ...
VerifyDrop(n, s) ==
    /\ request = IdleDrop
    /\ rows[n] # None /\ <<"meta", rows[n]>> \in store
    /\ src[rows[n]] = s
    /\ request' = [name |-> n, source |-> s]
    /\ UNCHANGED <<store, age, catalog, registry, job, gc, query>>

\* ... and takes the exclusive guard afterwards.
DropVerified ==
    /\ request # IdleDrop
    /\ NoWriter
    /\ \/ DropRow(request.name)
       \/ /\ rows[request.name] = None
          /\ UNCHANGED <<store, age, catalog, registry, job, gc, query>>
    /\ request' = IdleDrop

-----------------------------------------------------------------------------
\* Queries: resolve_search under a shared guard.  The objects are read later,
\* with no guard and no lease.

Resolve(n) ==
    /\ query = IdleQuery
    /\ NoWriter
    /\ rows[n] # None
    /\ query' = [reads |-> store \cap UNION {{<<"data", s[1]>>, <<"cdata", s[2]>>} :
                                              s \in Managed(rows[n])},
                 age |-> 0]
    /\ query'.reads # {}
    /\ UNCHANGED <<store, age, catalog, registry, job, gc, request>>

EndQuery ==
    /\ query # IdleQuery
    /\ query' = IdleQuery
    /\ UNCHANGED <<store, age, catalog, registry, job, gc, request>>

-----------------------------------------------------------------------------
\* remove_orphans, under the exclusive guard.

\* index_metadata_references: all snapshots, their centroids included.
References(o) ==
    UNION {{<<"data", s[1]>>, <<"cmeta", s[2]>>, <<"cdata", s[2]>>} : s \in Managed(o)}

\* tombstone_references: metadata that is already gone refers to nothing.
TombstoneReferences(o) ==
    {<<"meta", o>>} \cup (IF <<"meta", o>> \in store THEN References(o) ELSE {})

\* Mutant: an object becomes collectable one tick early.
IsExpiredEarly(ticks) == ticks >= Retention

IsExpired(ticks) == ticks > Retention

ExpiredTombs == {o \in tombs : IsExpired(tombAge[o])}

\* Mutant: the roots of running builds are not added.
ReachableWithoutPins ==
    (UNION {{<<"meta", rows[n]>>} \cup References(rows[n]) : n \in {m \in Names : rows[m] # None}})
    \cup (UNION {TombstoneReferences(o) : o \in tombs \ ExpiredTombs})

\* reachable_locations, the active roots and the retained tombstones.
Reachable ==
    (UNION {{<<"meta", rows[n]>>} \cup References(rows[n]) : n \in {m \in Names : rows[m] # None}})
    \cup Pins
    \cup (UNION {TombstoneReferences(o) : o \in tombs \ ExpiredTombs})

Verified == UNION {TombstoneReferences(o) : o \in ExpiredTombs}

\* Mutant: what an expired tombstone refers to goes, whoever else refers to it.
CandidatesByTombstone ==
    {x \in store : x \in Verified \/ (x \notin Reachable /\ IsExpired(age[x]))}

Candidates == {x \in store \ Reachable : x \in Verified \/ IsExpired(age[x])}

\* A catalog row without metadata makes reachable_locations fail.
BeginGC ==
    /\ NoWriter
    /\ \A n \in Names : rows[n] # None => <<"meta", rows[n]>> \in store
    /\ gc' = [pc |-> "delete", todo |-> Candidates, keep |-> Reachable,
              expired |-> ExpiredTombs]
    /\ UNCHANGED <<store, age, catalog, registry, job, query, request>>

IsData(x) == x[1] \in {"data", "cdata"}

\* Candidates are sorted by location: "indexes/" before "metadata/".
DeleteObject(x) ==
    /\ gc.pc = "delete"
    /\ x \in gc.todo
    /\ IsData(x) \/ \A y \in gc.todo : ~IsData(y)
    /\ store' = store \ {x}
    /\ age' = [age EXCEPT ![x] = 0]
    /\ gc' = [gc EXCEPT !.todo = @ \ {x}]
    /\ UNCHANGED <<catalog, registry, job, query, request>>

PurgeCentroids ==
    /\ gc.pc = "delete" /\ gc.todo = {}
    /\ registry' = IF registry # None /\ <<"cmeta", registry>> \notin store \cup gc.keep
                   THEN None ELSE registry
    /\ gc' = [gc EXCEPT !.pc = "purge"]
    /\ UNCHANGED <<store, age, catalog, job, query, request>>

PurgeTombstones ==
    /\ gc.pc = "purge"
    /\ tombs' = tombs \ {o \in gc.expired : <<"meta", o>> \notin store \cup gc.keep}
    /\ tombAge' = [o \in Ops |-> IF o \in tombs' THEN tombAge[o] ELSE 0]
    /\ gc' = IdleGC
    /\ UNCHANGED <<store, age, rows, registry, job, query, request>>

CrashGC ==
    /\ gc.pc # "idle"
    /\ gc' = IdleGC
    /\ UNCHANGED <<store, age, catalog, registry, job, query, request>>

-----------------------------------------------------------------------------
\* A build that wrote centroid metadata publishes within the retention period:
\* the leases pin snapshot roots, not metadata documents.
BuildsAreShort ==
    \A o \in Ops : pc[o] \in Building \cup Publishing /\ <<"cmeta", o>> \in store
        => age[<<"cmeta", o>>] < Retention

Older(ticks) == IF ticks < Old THEN ticks + 1 ELSE Old

Tick ==
    /\ BuildsAreShort
    /\ age' = [x \in Objects |-> IF x \in store THEN Older(age[x]) ELSE age[x]]
    /\ tombAge' = [o \in Ops |-> IF o \in tombs THEN Older(tombAge[o]) ELSE tombAge[o]]
    /\ query' = IF query = IdleQuery \/ query.age = Retention
                THEN IdleQuery ELSE [query EXCEPT !.age = @ + 1]
    /\ UNCHANGED <<store, rows, tombs, registry, job, gc, request>>

Operation(o) ==
    \/ \E n \in Names, s \in Sources : BeginBuild(o, n, s) \/ BeginRegister(o, n, s)
    \/ ReuseCentroids(o) \/ TrainCentroids(o) \/ WriteCentroidMeta(o) \/ PublishCentroids(o)
    \/ WritePostings(o) \/ BeginPublish(o) \/ WriteMeta(o)
    \/ CommitOk(o) \/ CommitRejected(o) \/ Fail(o)

Collector ==
    \/ BeginGC \/ PurgeCentroids \/ PurgeTombstones \/ CrashGC
    \/ \E x \in Objects : DeleteObject(x)

Next ==
    \/ \E o \in Ops : Operation(o)
    \/ \E n \in Names : DropIndex(n) \/ Resolve(n)
    \/ \E n \in Names, s \in Sources : VerifyDrop(n, s)
    \/ DropVerified \/ EndQuery
    \/ Collector
    \/ Tick

Spec == Init /\ [][Next]_vars

-----------------------------------------------------------------------------
\* Properties.

\* Types of the lifecycle's state.
TypeOK ==
    /\ store \subseteq Objects
    /\ age \in [Objects -> 0..Old]
    /\ rows \in [Names -> Ops \cup {None}]
    /\ tombs \subseteq Ops
    /\ tombAge \in [Ops -> 0..Old]
    /\ registry \in Ops \cup {None}
    /\ pc \in [Ops -> Building \cup Publishing \cup {"idle", "failed", "done"}]
    /\ name \in [Ops -> Names \cup {None}]
    /\ base \in [Ops -> Ops \cup {None}]
    /\ cent \in [Ops -> Ops \cup {None}]
    /\ src \in [Ops -> Sources \cup {None}]
    /\ snaps \in [Ops -> SUBSET (Ops \X (Ops \cup {None}))]
    /\ gc \in [pc : {"idle", "delete", "purge"}, todo : SUBSET Objects,
               keep : SUBSET Objects, expired : SUBSET Ops]
    /\ query \in [reads : SUBSET Objects, age : 0..Retention]
    /\ request \in [name : Names \cup {None}, source : Sources \cup {None}]

\* A published index has its metadata, the postings of every snapshot and the
\* centroids its own builds trained, whatever was collected, crashed or refreshed
\* meanwhile.
PublishedComplete ==
    \A n \in Names : rows[n] # None =>
        /\ <<"meta", rows[n]>> \in store
        /\ \A s \in Managed(rows[n]) :
            /\ <<"data", s[1]>> \in store
            /\ s[1] = s[2] => {<<"cmeta", s[2]>>, <<"cdata", s[2]>>} \subseteq store

\* "The retention period begins when a published object loses catalog
\* reachability, not when its files were created" (spec/catalog.md): whatever a
\* query resolved to stays readable for Retention, though nothing pins it.
QueryReadsWithinRetention == query.reads \subseteq store

\* The collector never takes an object away from a published index, not even one
\* that an expired tombstone (a dropped index that shared it) has verified.
ReachableStays ==
    [][\A n \in Names : rows[n] # None =>
          store \cap ({<<"meta", rows[n]>>} \cup References(rows[n])) \subseteq store']_vars

\* A row that changes hands without a drop keeps every snapshot it had: no refresh
\* overwrites one that was published after the refresh loaded its base.
NoSnapshotLost ==
    [][\A n \in Names : rows[n] # None /\ rows'[n] # None
          => snaps[rows[n]] \subseteq snaps'[rows'[n]]]_vars

\* "An implementation must conservatively retain objects that may belong to an
\* in-progress operation" (spec/catalog.md): every index that is published finds
\* the centroids its snapshots name, reused ones included.
CentroidsRetained ==
    \A n \in Names : rows[n] # None =>
        \A s \in Managed(rows[n]) : {<<"cmeta", s[2]>>, <<"cdata", s[2]>>} \subseteq store

\* "Removes an index mapping after verifying its exact source-table state"
\* (session/catalog.rs): the mapping that goes is bound to the source asked for.
DropsVerifiedSource ==
    [][\A n \in Names :
          request.name = n /\ request' = IdleDrop /\ rows[n] # None /\ rows'[n] = None
            => src[rows[n]] = request.source]_vars
=================================================================================
