-------------------------- MODULE IndexLifecycleProofs --------------------------
(***************************************************************************)
(* Published indexes stay complete, refreshes lose nothing and queries     *)
(* keep what they resolved, for any number of operations, names and source *)
(* states and any retention period.                                        *)
(*                                                                         *)
(* The collector deletes from a list it made earlier, while builds and     *)
(* queries go on.  The invariant says what keeps that list harmless: who   *)
(* may run beside it (WriterInv), what is never on it (CollectInv), and,   *)
(* for the two kinds of objects that nothing pins, that a clock runs ahead *)
(* of the retention period (AgeInv, QueryInv).                             *)
(***************************************************************************)
EXTENDS IndexLifecycle, TLAPS

\* The collector's guard excludes publication; its list is empty between sweeps.
WriterInv ==
    /\ gc.pc # "idle" => \A o \in Ops : pc[o] \notin Publishing
    /\ gc.pc = "idle" => gc.todo = {}
    /\ request # IdleDrop => request.name \in Names

\* What rows, tombstones and refreshes refer to was committed before, and does not
\* change any more.
CommittedInv ==
    /\ \A n \in Names : rows[n] # None => pc[rows[n]] = "done"
    /\ \A o \in tombs : pc[o] = "done"
    /\ \A o \in Ops : base[o] # None => pc[base[o]] = "done"

\* The operations whose centroid artifact may be known to others.
Resolved(o) == pc[o] \notin {"idle", "pinned", "trained", "stored"}

KnownInv ==
    /\ registry # None => Resolved(registry)
    /\ \A o \in Ops : cent[o] # None => Resolved(o) /\ Resolved(cent[o])
    /\ \A o \in Ops : \A s \in Managed(o) : Resolved(s[2])

\* What an operation has written, and not yet written.
JobOf(o) ==
    /\ pc[o] \in Building \cup Publishing => name[o] \in Names
    /\ pc[o] \in {"idle", "pinned"} => <<"cdata", o>> \notin store
    /\ pc[o] \in {"idle", "pinned", "trained"} => <<"cmeta", o>> \notin store
    /\ pc[o] \in {"trained", "stored"} => <<"cdata", o>> \in store
    /\ pc[o] = "stored" => <<"cmeta", o>> \in store
    /\ pc[o] \in Building \cup Publishing /\ cent[o] = o
          => {<<"cmeta", o>>, <<"cdata", o>>} \subseteq store
    /\ pc[o] \in {"built"} \cup Publishing /\ cent[o] # None => <<"data", o>> \in store
    /\ pc[o] = "written" =>
          /\ <<"meta", o>> \in store
          /\ snaps[o] = (IF base[o] = None THEN {} ELSE snaps[base[o]]) \cup {<<o, cent[o]>>}

JobInv == \A o \in Ops : JobOf(o)

\* What the collector's list never holds.
CollectInv ==
    /\ gc.todo \subseteq store
    /\ \A n \in Names : rows[n] # None =>
          gc.todo \cap ({<<"meta", rows[n]>>} \cup References(rows[n])) = {}
    /\ \A o \in Ops : pc[o] \in Building =>
          gc.todo \cap {<<"data", o>>, <<"cdata", o>>, <<"cmeta", o>>} = {}

\* Centroid metadata is young while its build runs, and no tombstone that refers to
\* it is older than it.
AgeInv ==
    /\ \A o \in Ops : pc[o] \in Building \cup Publishing /\ <<"cmeta", o>> \in store
          => age[<<"cmeta", o>>] <= Retention
    /\ \A o \in tombs : \A s \in Managed(o) : <<"cmeta", s[2]>> \in store
          => tombAge[o] <= age[<<"cmeta", s[2]>>]

\* The metadata p still holds for the query: it is published, or lost its row after
\* the query resolved.
HeldBy(p) ==
    /\ <<"meta", p>> \in store \ gc.todo
    /\ \/ \E n \in Names : rows[n] = p
       \/ p \in tombs /\ tombAge[p] <= query.age

QueryInv ==
    \A x \in query.reads :
        /\ x \in store \ gc.todo
        /\ \E p \in Ops : HeldBy(p) /\ x \in References(p)

IInv ==
    /\ TypeOK /\ WriterInv /\ CommittedInv /\ KnownInv /\ JobInv
    /\ CollectInv /\ AgeInv /\ PublishedComplete /\ QueryInv

USE LifecycleConstants

\* What a metadata document refers to.
LEMMA InReferences ==
    ASSUME NEW o, NEW x
    PROVE  x \in References(o) <=>
             \E s \in Managed(o) : x \in {<<"data", s[1]>>, <<"cmeta", s[2]>>, <<"cdata", s[2]>>}
  BY DEF References

LEMMA ReferencesTyped ==
    ASSUME TypeOK, NEW o \in Ops
    PROVE  References(o) \subseteq Objects
  BY DEF References, Managed, TypeOK, Objects

\* What the collector holds to be reachable.
LEMMA InReachable ==
    ASSUME NEW x
    PROVE  x \in Reachable <=>
             \/ \E n \in Names : rows[n] # None /\ x \in {<<"meta", rows[n]>>} \cup References(rows[n])
             \/ x \in Pins
             \/ \E o \in tombs \ ExpiredTombs : x \in TombstoneReferences(o)
<1> DEFINE Of(n) == {<<"meta", rows[n]>>} \cup References(rows[n])
           Row == UNION {Of(n) : n \in {m \in Names : rows[m] # None}}
           Tomb == UNION {TombstoneReferences(o) : o \in tombs \ ExpiredTombs}
<1>1. x \in Tomb <=> \E o \in tombs \ ExpiredTombs : x \in TombstoneReferences(o)
  OBVIOUS
<1>2. x \in Row <=> \E n \in Names : rows[n] # None /\ x \in Of(n)
  <2> HIDE DEF Of
  <2> QED
    OBVIOUS
<1>3. Reachable = Row \cup Pins \cup Tomb
  BY DEF Reachable
<1> QED
  BY <1>1, <1>2, <1>3

LEMMA ReachableTyped == TypeOK => Reachable \subseteq Objects
<1> SUFFICES ASSUME TypeOK, NEW x \in Reachable PROVE x \in Objects
  OBVIOUS
<1>1. \A o \in Ops : <<"meta", o>> \in Objects /\ References(o) \subseteq Objects
  BY ReferencesTyped DEF Objects
<1>2. \A o \in Ops : TombstoneReferences(o) \subseteq Objects
  BY <1>1 DEF TombstoneReferences
<1>3. Pins \subseteq Objects
  BY DEF Pins, Objects
<1>4. CASE \E n \in Names : rows[n] # None /\ x \in {<<"meta", rows[n]>>} \cup References(rows[n])
  <2>1. \A n \in Names : rows[n] # None => rows[n] \in Ops
    BY DEF TypeOK
  <2>2. QED
    BY <1>1, <1>4, <2>1
<1>5. CASE \E o \in tombs \ ExpiredTombs : x \in TombstoneReferences(o)
  <2>1. tombs \subseteq Ops
    BY DEF TypeOK
  <2>2. QED
    BY <1>2, <1>5, <2>1
<1>6. QED
  BY <1>3, <1>4, <1>5, InReachable

-----------------------------------------------------------------------------
\* Every step preserves each part of the invariant.

LEMMA Count ==
    ASSUME NEW n \in Nat, NEW k \in 0..n, k # n
    PROVE  k + 1 \in 0..n
  OBVIOUS

LEMMA TypeStep == IInv /\ [Next]_vars => TypeOK'
<1> SUFFICES ASSUME IInv, [Next]_vars PROVE TypeOK'
  OBVIOUS
<1> USE DEF IInv, TypeOK, WriterInv, Objects, Building, Publishing, Goto, job, catalog, others,
     IdleGC, IdleQuery, IdleDrop, Old
<1>1. ASSUME NEW o \in Ops, NEW n \in Names, NEW s \in Sources, BeginBuild(o, n, s)
      PROVE  TypeOK'
  BY <1>1 DEF BeginBuild
<1>2. ASSUME NEW o \in Ops, NEW n \in Names, NEW s \in Sources, BeginRegister(o, n, s)
      PROVE  TypeOK'
  BY <1>2 DEF BeginRegister
<1>3. ASSUME NEW o \in Ops, ReuseCentroids(o) PROVE TypeOK'
  BY <1>3 DEF ReuseCentroids, LoadCentroids
<1>4. ASSUME NEW o \in Ops, TrainCentroids(o) PROVE TypeOK'
  BY <1>4 DEF TrainCentroids, Put
<1>5. ASSUME NEW o \in Ops, WriteCentroidMeta(o) PROVE TypeOK'
  BY <1>5 DEF WriteCentroidMeta, Put
<1>6. ASSUME NEW o \in Ops, PublishCentroids(o) PROVE TypeOK'
  BY <1>6 DEF PublishCentroids, LoadCentroids
<1>7. ASSUME NEW o \in Ops, WritePostings(o) PROVE TypeOK'
  BY <1>7 DEF WritePostings, Put
<1>8. ASSUME NEW o \in Ops, BeginPublish(o) PROVE TypeOK'
  BY <1>8 DEF BeginPublish
<1>9. ASSUME NEW o \in Ops, WriteMeta(o) PROVE TypeOK'
  BY <1>9 DEF WriteMeta, Put
<1>10. ASSUME NEW o \in Ops, CommitOk(o) PROVE TypeOK'
  <2>1. rows' \in [Names -> Ops \cup {None}]
    BY <1>10 DEF CommitOk
  <2>2. tombs' \subseteq Ops /\ tombAge' \in [Ops -> 0..Old]
    BY <1>10 DEF CommitOk, Entomb
  <2>3. /\ pc' \in [Ops -> Building \cup Publishing \cup {"idle", "failed", "done"}]
        /\ name' \in [Ops -> Names \cup {None}]
        /\ base' \in [Ops -> Ops \cup {None}]
        /\ cent' \in [Ops -> Ops \cup {None}]
    BY <1>10 DEF CommitOk, End
  <2>4. QED
    BY <1>10, <2>1, <2>2, <2>3 DEF CommitOk, End
<1>11. ASSUME NEW o \in Ops, CommitRejected(o) PROVE TypeOK'
  BY <1>11 DEF CommitRejected, End
<1>12. ASSUME NEW o \in Ops, Fail(o) PROVE TypeOK'
  BY <1>12 DEF Fail, End
<1>13. ASSUME NEW n \in Names, DropIndex(n) PROVE TypeOK'
  BY <1>13 DEF DropIndex, DropRow, Entomb
<1>14. ASSUME NEW n \in Names, Resolve(n) PROVE TypeOK'
  BY <1>14 DEF Resolve
<1>15. ASSUME NEW n \in Names, NEW s \in Sources, VerifyDrop(n, s) PROVE TypeOK'
  BY <1>15 DEF VerifyDrop
<1>16. CASE DropVerified
  <2>1. /\ request.name \in Names
        /\ UNCHANGED <<store, age, registry, job, gc, query>> /\ request' = IdleDrop
        /\ DropRow(request.name) \/ UNCHANGED catalog
    BY <1>16 DEF DropVerified, DropRow
  <2>2. /\ rows' \in [Names -> Ops \cup {None}]
        /\ tombs' \subseteq Ops /\ tombAge' \in [Ops -> 0..Old]
    <3>1. CASE UNCHANGED catalog
      BY <3>1
    <3>2. CASE DropRow(request.name)
      <4>1. rows[request.name] \in Ops
        BY <2>1, <3>2 DEF DropRow
      <4>2. rows' \in [Names -> Ops \cup {None}]
        BY <3>2 DEF DropRow
      <4>3. tombs' \subseteq Ops
        BY <3>2, <4>1 DEF DropRow, Entomb
      <4>4. tombAge' \in [Ops -> 0..Old]
        BY <3>2, <4>1 DEF DropRow, Entomb
      <4>5. QED
        BY <4>2, <4>3, <4>4
    <3>3. QED
      BY <2>1, <3>1, <3>2
  <2>3. request' \in [name : Names \cup {None}, source : Sources \cup {None}]
    BY <2>1
  <2>4. QED
    BY <2>1, <2>2, <2>3
<1>17. CASE EndQuery
  BY <1>17 DEF EndQuery
<1>18. CASE BeginGC
  <2>1. Candidates \subseteq Objects /\ Reachable \subseteq Objects /\ ExpiredTombs \subseteq Ops
    BY ReachableTyped DEF Candidates, ExpiredTombs
  <2>2. gc' \in [pc : {"idle", "delete", "purge"}, todo : SUBSET Objects,
                keep : SUBSET Objects, expired : SUBSET Ops]
    BY <1>18, <2>1 DEF BeginGC
  <2>3. QED
    BY <1>18, <2>2 DEF BeginGC
<1>19. CASE PurgeCentroids
  BY <1>19 DEF PurgeCentroids
<1>20. CASE PurgeTombstones
  BY <1>20 DEF PurgeTombstones
<1>21. CASE CrashGC
  BY <1>21 DEF CrashGC
<1>22. ASSUME NEW x \in Objects, DeleteObject(x) PROVE TypeOK'
  <2>1. store' \subseteq Objects
    BY <1>22 DEF DeleteObject
  <2>2. age' \in [Objects -> 0..Old]
    BY <1>22 DEF DeleteObject
  <2>3. gc' \in [pc : {"idle", "delete", "purge"}, todo : SUBSET Objects,
                keep : SUBSET Objects, expired : SUBSET Ops]
    BY <1>22 DEF DeleteObject
  <2>4. QED
    BY <1>22, <2>1, <2>2, <2>3 DEF DeleteObject
<1>23. CASE Tick
  <2>1. \A k \in 0..Old : Older(k) \in 0..Old
    BY DEF Older
  <2>2. age' \in [Objects -> 0..Old]
    BY <1>23, <2>1 DEF Tick
  <2>3. tombAge' \in [Ops -> 0..Old]
    BY <1>23, <2>1 DEF Tick
  <2>4. query' \in [reads : SUBSET Objects, age : 0..Retention]
    <3>1. CASE query = IdleQuery \/ query.age = Retention
      BY <1>23, <3>1 DEF Tick
    <3>2. CASE ~(query = IdleQuery \/ query.age = Retention)
      <4>1. query.age + 1 \in 0..Retention
        <5>1. query.age \in 0..Retention /\ query.age # Retention
          BY <3>2
        <5>2. QED
          BY <5>1, Count
      <4>2. query' = [query EXCEPT !.age = query.age + 1]
        BY <1>23, <3>2 DEF Tick
      <4>3. QED
        BY <4>1, <4>2
    <3>3. QED
      BY <3>1, <3>2
  <2>5. QED
    BY <1>23, <2>2, <2>3, <2>4 DEF Tick
<1>24. CASE UNCHANGED vars
  BY <1>24 DEF vars
<1> HIDE DEF IInv, TypeOK
<1>25. QED
  BY <1>1, <1>2, <1>3, <1>4, <1>5, <1>6, <1>7, <1>8, <1>9, <1>10, <1>11, <1>12, <1>13, <1>14,
       <1>15, <1>16, <1>17, <1>18, <1>19, <1>20, <1>21, <1>22, <1>23, <1>24 DEF Next,
       Operation, Collector

LEMMA WriterStep == IInv /\ [Next]_vars => WriterInv'
<1> SUFFICES ASSUME IInv, [Next]_vars PROVE WriterInv'
  OBVIOUS
<1> USE DEF IInv, TypeOK, WriterInv, NoWriter, Building, Publishing, Goto, job, catalog,
     others, IdleGC, IdleQuery, IdleDrop
<1>1. ASSUME NEW o \in Ops, NEW n \in Names, NEW s \in Sources, BeginBuild(o, n, s)
      PROVE  WriterInv'
  BY <1>1 DEF BeginBuild
<1>2. ASSUME NEW o \in Ops, NEW n \in Names, NEW s \in Sources, BeginRegister(o, n, s)
      PROVE  WriterInv'
  BY <1>2 DEF BeginRegister
<1>3. ASSUME NEW o \in Ops, ReuseCentroids(o) PROVE WriterInv'
  BY <1>3 DEF ReuseCentroids, LoadCentroids
<1>4. ASSUME NEW o \in Ops, TrainCentroids(o) PROVE WriterInv'
  BY <1>4 DEF TrainCentroids, Put
<1>5. ASSUME NEW o \in Ops, WriteCentroidMeta(o) PROVE WriterInv'
  BY <1>5 DEF WriteCentroidMeta, Put
<1>6. ASSUME NEW o \in Ops, PublishCentroids(o) PROVE WriterInv'
  BY <1>6 DEF PublishCentroids, LoadCentroids
<1>7. ASSUME NEW o \in Ops, WritePostings(o) PROVE WriterInv'
  BY <1>7 DEF WritePostings, Put
<1>8. ASSUME NEW o \in Ops, BeginPublish(o) PROVE WriterInv'
  BY <1>8 DEF BeginPublish
<1>9. ASSUME NEW o \in Ops, WriteMeta(o) PROVE WriterInv'
  BY <1>9 DEF WriteMeta, Put
<1>10. ASSUME NEW o \in Ops, CommitOk(o) PROVE WriterInv'
  BY <1>10 DEF CommitOk, CatalogMatches, Entomb, End
<1>11. ASSUME NEW o \in Ops, CommitRejected(o) PROVE WriterInv'
  BY <1>11 DEF CommitRejected, End
<1>12. ASSUME NEW o \in Ops, Fail(o) PROVE WriterInv'
  BY <1>12 DEF Fail, End
<1>13. ASSUME NEW n \in Names, DropIndex(n) PROVE WriterInv'
  BY <1>13 DEF DropIndex, DropRow, Entomb
<1>14. ASSUME NEW n \in Names, Resolve(n) PROVE WriterInv'
  BY <1>14 DEF Resolve
<1>15. ASSUME NEW n \in Names, NEW s \in Sources, VerifyDrop(n, s) PROVE WriterInv'
  BY <1>15 DEF VerifyDrop
<1>16. CASE DropVerified
  BY <1>16 DEF DropVerified, DropRow, Entomb
<1>17. CASE EndQuery
  BY <1>17 DEF EndQuery
<1>18. CASE BeginGC
  BY <1>18 DEF BeginGC
<1>19. CASE PurgeCentroids
  BY <1>19 DEF PurgeCentroids
<1>20. CASE PurgeTombstones
  BY <1>20 DEF PurgeTombstones
<1>21. CASE CrashGC
  BY <1>21 DEF CrashGC
<1>22. ASSUME NEW x \in Objects, DeleteObject(x) PROVE WriterInv'
  BY <1>22 DEF DeleteObject
<1>23. CASE Tick
  BY <1>23 DEF Tick, Older
<1>24. CASE UNCHANGED vars
  BY <1>24 DEF vars
<1> HIDE DEF IInv, WriterInv
<1>25. QED
  BY <1>1, <1>2, <1>3, <1>4, <1>5, <1>6, <1>7, <1>8, <1>9, <1>10, <1>11, <1>12, <1>13, <1>14,
       <1>15, <1>16, <1>17, <1>18, <1>19, <1>20, <1>21, <1>22, <1>23, <1>24 DEF Next,
       Operation, Collector

LEMMA CommittedStep == IInv /\ [Next]_vars => CommittedInv'
<1> SUFFICES ASSUME IInv, [Next]_vars PROVE CommittedInv'
  OBVIOUS
<1> USE DEF IInv, TypeOK, WriterInv, CommittedInv, JobInv, NoWriter, Building, Publishing,
     Goto, job, catalog, others, IdleGC, IdleQuery, IdleDrop
<1>1. ASSUME NEW o \in Ops, NEW n \in Names, NEW s \in Sources, BeginBuild(o, n, s)
      PROVE  CommittedInv'
  BY <1>1 DEF BeginBuild
<1>2. ASSUME NEW o \in Ops, NEW n \in Names, NEW s \in Sources, BeginRegister(o, n, s)
      PROVE  CommittedInv'
  BY <1>2 DEF BeginRegister
<1>3. ASSUME NEW o \in Ops, ReuseCentroids(o) PROVE CommittedInv'
  BY <1>3 DEF ReuseCentroids, LoadCentroids
<1>4. ASSUME NEW o \in Ops, TrainCentroids(o) PROVE CommittedInv'
  BY <1>4 DEF TrainCentroids, Put
<1>5. ASSUME NEW o \in Ops, WriteCentroidMeta(o) PROVE CommittedInv'
  BY <1>5 DEF WriteCentroidMeta, Put
<1>6. ASSUME NEW o \in Ops, PublishCentroids(o) PROVE CommittedInv'
  BY <1>6 DEF PublishCentroids, LoadCentroids
<1>7. ASSUME NEW o \in Ops, WritePostings(o) PROVE CommittedInv'
  BY <1>7 DEF WritePostings, Put
<1>8. ASSUME NEW o \in Ops, BeginPublish(o) PROVE CommittedInv'
  BY <1>8 DEF BeginPublish
<1>9. ASSUME NEW o \in Ops, WriteMeta(o) PROVE CommittedInv'
  BY <1>9 DEF WriteMeta, Put
<1>10. ASSUME NEW o \in Ops, CommitOk(o) PROVE CommittedInv'
  <2>1. name[o] \in Names /\ pc[o] = "written" /\ rows' = [rows EXCEPT ![name[o]] = o]
    BY <1>10 DEF CommitOk, JobOf
  <2>2. pc' = [pc EXCEPT ![o] = "done"]
    BY <1>10 DEF CommitOk, End
  <2>3. \A n \in Names : rows'[n] # None => pc'[rows'[n]] = "done"
    BY <2>1, <2>2
  <2>4. \A p \in tombs' : pc'[p] = "done"
    BY <1>10, <2>2 DEF CommitOk, Entomb
  <2>5. \A p \in Ops : base'[p] # None => pc'[base'[p]] = "done"
    BY <1>10, <2>2 DEF CommitOk, End
  <2>6. QED
    BY <2>3, <2>4, <2>5
<1>11. ASSUME NEW o \in Ops, CommitRejected(o) PROVE CommittedInv'
  BY <1>11 DEF CommitRejected, End
<1>12. ASSUME NEW o \in Ops, Fail(o) PROVE CommittedInv'
  BY <1>12 DEF Fail, End
<1>13. ASSUME NEW n \in Names, DropIndex(n) PROVE CommittedInv'
  BY <1>13 DEF DropIndex, DropRow, Entomb
<1>14. ASSUME NEW n \in Names, Resolve(n) PROVE CommittedInv'
  BY <1>14 DEF Resolve
<1>15. ASSUME NEW n \in Names, NEW s \in Sources, VerifyDrop(n, s) PROVE CommittedInv'
  BY <1>15 DEF VerifyDrop
<1>16. CASE DropVerified
  BY <1>16 DEF DropVerified, DropRow, Entomb
<1>17. CASE EndQuery
  BY <1>17 DEF EndQuery
<1>18. CASE BeginGC
  BY <1>18 DEF BeginGC
<1>19. CASE PurgeCentroids
  BY <1>19 DEF PurgeCentroids
<1>20. CASE PurgeTombstones
  BY <1>20 DEF PurgeTombstones
<1>21. CASE CrashGC
  BY <1>21 DEF CrashGC
<1>22. ASSUME NEW x \in Objects, DeleteObject(x) PROVE CommittedInv'
  BY <1>22 DEF DeleteObject
<1>23. CASE Tick
  BY <1>23 DEF Tick, Older
<1>24. CASE UNCHANGED vars
  BY <1>24 DEF vars
<1> HIDE DEF IInv, CommittedInv
<1>25. QED
  BY <1>1, <1>2, <1>3, <1>4, <1>5, <1>6, <1>7, <1>8, <1>9, <1>10, <1>11, <1>12, <1>13, <1>14,
       <1>15, <1>16, <1>17, <1>18, <1>19, <1>20, <1>21, <1>22, <1>23, <1>24 DEF Next,
       Operation, Collector

LEMMA KnownStep == IInv /\ [Next]_vars => KnownInv'
<1> SUFFICES ASSUME IInv, [Next]_vars PROVE KnownInv'
  OBVIOUS
<1> USE DEF IInv, TypeOK, KnownInv, CommittedInv, Resolved, Managed, Building, Publishing,
     Goto, job, catalog, others, IdleGC, IdleQuery, IdleDrop
<1>1. ASSUME NEW o \in Ops, NEW n \in Names, NEW s \in Sources, BeginBuild(o, n, s)
      PROVE  KnownInv'
  BY <1>1 DEF BeginBuild
<1>2. ASSUME NEW o \in Ops, NEW n \in Names, NEW s \in Sources, BeginRegister(o, n, s)
      PROVE  KnownInv'
  BY <1>2 DEF BeginRegister
<1>3. ASSUME NEW o \in Ops, ReuseCentroids(o) PROVE KnownInv'
  BY <1>3 DEF ReuseCentroids, LoadCentroids
<1>4. ASSUME NEW o \in Ops, TrainCentroids(o) PROVE KnownInv'
  BY <1>4 DEF TrainCentroids, Put
<1>5. ASSUME NEW o \in Ops, WriteCentroidMeta(o) PROVE KnownInv'
  BY <1>5 DEF WriteCentroidMeta, Put
<1>6. ASSUME NEW o \in Ops, PublishCentroids(o) PROVE KnownInv'
  BY <1>6 DEF PublishCentroids, LoadCentroids
<1>7. ASSUME NEW o \in Ops, WritePostings(o) PROVE KnownInv'
  BY <1>7 DEF WritePostings, Put
<1>8. ASSUME NEW o \in Ops, BeginPublish(o) PROVE KnownInv'
  BY <1>8 DEF BeginPublish
<1>9. ASSUME NEW o \in Ops, WriteMeta(o) PROVE KnownInv'
  BY <1>9 DEF WriteMeta, Put
<1>10. ASSUME NEW o \in Ops, CommitOk(o) PROVE KnownInv'
  BY <1>10 DEF CommitOk, CatalogMatches, Entomb, End
<1>11. ASSUME NEW o \in Ops, CommitRejected(o) PROVE KnownInv'
  BY <1>11 DEF CommitRejected, End
<1>12. ASSUME NEW o \in Ops, Fail(o) PROVE KnownInv'
  BY <1>12 DEF Fail, End
<1>13. ASSUME NEW n \in Names, DropIndex(n) PROVE KnownInv'
  BY <1>13 DEF DropIndex, DropRow, Entomb
<1>14. ASSUME NEW n \in Names, Resolve(n) PROVE KnownInv'
  BY <1>14 DEF Resolve
<1>15. ASSUME NEW n \in Names, NEW s \in Sources, VerifyDrop(n, s) PROVE KnownInv'
  BY <1>15 DEF VerifyDrop
<1>16. CASE DropVerified
  BY <1>16 DEF DropVerified, DropRow, Entomb
<1>17. CASE EndQuery
  BY <1>17 DEF EndQuery
<1>18. CASE BeginGC
  BY <1>18 DEF BeginGC
<1>19. CASE PurgeCentroids
  BY <1>19 DEF PurgeCentroids
<1>20. CASE PurgeTombstones
  BY <1>20 DEF PurgeTombstones
<1>21. CASE CrashGC
  BY <1>21 DEF CrashGC
<1>22. ASSUME NEW x \in Objects, DeleteObject(x) PROVE KnownInv'
  BY <1>22 DEF DeleteObject
<1>23. CASE Tick
  BY <1>23 DEF Tick, Older
<1>24. CASE UNCHANGED vars
  BY <1>24 DEF vars
<1> HIDE DEF IInv, KnownInv
<1>25. QED
  BY <1>1, <1>2, <1>3, <1>4, <1>5, <1>6, <1>7, <1>8, <1>9, <1>10, <1>11, <1>12, <1>13, <1>14,
       <1>15, <1>16, <1>17, <1>18, <1>19, <1>20, <1>21, <1>22, <1>23, <1>24 DEF Next,
       Operation, Collector

-----------------------------------------------------------------------------
\* What a step leaves alone.

\* A committed operation has ended: its document is never written again.
LEMMA CommittedStable ==
    ASSUME IInv, [Next]_vars, NEW p \in Ops, pc[p] = "done"
    PROVE  /\ pc'[p] = "done" /\ snaps'[p] = snaps[p]
           /\ Managed(p)' = Managed(p) /\ References(p)' = References(p)
<1> DEFINE Stable == pc'[p] = "done" /\ snaps'[p] = snaps[p]
<1> SUFFICES Stable
  BY DEF References, Managed
<1>a. TypeOK
  BY DEF IInv
<1> USE DEF Building, Publishing, Goto, job, catalog, others, IdleGC, IdleQuery, IdleDrop
<1>1. ASSUME NEW o \in Ops, NEW n \in Names, NEW s \in Sources, BeginBuild(o, n, s) PROVE Stable
  BY <1>1, <1>a DEF BeginBuild, TypeOK
<1>2. ASSUME NEW o \in Ops, NEW n \in Names, NEW s \in Sources, BeginRegister(o, n, s)
      PROVE  Stable
  BY <1>2, <1>a DEF BeginRegister, TypeOK
<1>3. ASSUME NEW o \in Ops, ReuseCentroids(o) PROVE Stable
  BY <1>3, <1>a DEF ReuseCentroids, LoadCentroids, TypeOK
<1>4. ASSUME NEW o \in Ops, TrainCentroids(o) PROVE Stable
  BY <1>4, <1>a DEF TrainCentroids, Put, TypeOK
<1>5. ASSUME NEW o \in Ops, WriteCentroidMeta(o) PROVE Stable
  BY <1>5, <1>a DEF WriteCentroidMeta, Put, TypeOK
<1>6. ASSUME NEW o \in Ops, PublishCentroids(o) PROVE Stable
  BY <1>6, <1>a DEF PublishCentroids, LoadCentroids, TypeOK
<1>7. ASSUME NEW o \in Ops, WritePostings(o) PROVE Stable
  BY <1>7, <1>a DEF WritePostings, Put, TypeOK
<1>8. ASSUME NEW o \in Ops, BeginPublish(o) PROVE Stable
  BY <1>8, <1>a DEF BeginPublish, TypeOK
<1>9. ASSUME NEW o \in Ops, WriteMeta(o) PROVE Stable
  BY <1>9, <1>a DEF WriteMeta, Put, TypeOK
<1>10. ASSUME NEW o \in Ops, CommitOk(o) PROVE Stable
  BY <1>10, <1>a DEF CommitOk, CatalogMatches, Entomb, End, TypeOK
<1>11. ASSUME NEW o \in Ops, CommitRejected(o) PROVE Stable
  BY <1>11, <1>a DEF CommitRejected, End, TypeOK
<1>12. ASSUME NEW o \in Ops, Fail(o) PROVE Stable
  BY <1>12, <1>a DEF Fail, End, TypeOK
<1>13. ASSUME NEW n \in Names, DropIndex(n) PROVE Stable
  BY <1>13, <1>a DEF DropIndex, DropRow, Entomb, TypeOK
<1>14. ASSUME NEW n \in Names, Resolve(n) PROVE Stable
  BY <1>14, <1>a DEF Resolve, TypeOK
<1>15. ASSUME NEW n \in Names, NEW s \in Sources, VerifyDrop(n, s) PROVE Stable
  BY <1>15, <1>a DEF VerifyDrop, TypeOK
<1>16. CASE DropVerified
  BY <1>16, <1>a DEF DropVerified, DropRow, Entomb, TypeOK
<1>17. CASE EndQuery
  BY <1>17, <1>a DEF EndQuery, TypeOK
<1>18. CASE BeginGC
  BY <1>18, <1>a DEF BeginGC, TypeOK
<1>19. CASE PurgeCentroids
  BY <1>19, <1>a DEF PurgeCentroids, TypeOK
<1>20. CASE PurgeTombstones
  BY <1>20, <1>a DEF PurgeTombstones, TypeOK
<1>21. CASE CrashGC
  BY <1>21, <1>a DEF CrashGC, TypeOK
<1>22. ASSUME NEW x \in Objects, DeleteObject(x) PROVE Stable
  BY <1>22, <1>a DEF DeleteObject, TypeOK
<1>23. CASE Tick
  BY <1>23, <1>a DEF Tick, Older, TypeOK
<1>24. CASE UNCHANGED vars
  BY <1>24, <1>a DEF vars, TypeOK
<1> HIDE DEF IInv, Stable
<1>25. QED
  BY <1>1, <1>2, <1>3, <1>4, <1>5, <1>6, <1>7, <1>8, <1>9, <1>10, <1>11, <1>12, <1>13, <1>14,
       <1>15, <1>16, <1>17, <1>18, <1>19, <1>20, <1>21, <1>22, <1>23, <1>24 DEF Next,
       Operation, Collector

\* How a step may change the catalog and the store.
LEMMA Changes ==
    [Next]_vars =>
        /\ \/ store \subseteq store' \/ \E x \in Objects : DeleteObject(x)
        /\ \/ UNCHANGED rows
           \/ \E o \in Ops : CommitOk(o)
           \/ NoWriter /\ \E n \in Names \cup {request.name} : DropRow(n)
<1> SUFFICES ASSUME [Next]_vars
             PROVE  /\ \/ store \subseteq store' \/ \E x \in Objects : DeleteObject(x)
                    /\ \/ UNCHANGED rows
                       \/ \E o \in Ops : CommitOk(o)
                       \/ NoWriter /\ \E n \in Names \cup {request.name} : DropRow(n)
  OBVIOUS
<1>1. ASSUME NEW o \in Ops, Operation(o)
      PROVE  store \subseteq store' /\ (UNCHANGED rows \/ CommitOk(o))
  <2>1. store \subseteq store'
    BY <1>1 DEF Operation, BeginBuild, BeginRegister, ReuseCentroids, TrainCentroids,
           WriteCentroidMeta, PublishCentroids, WritePostings, BeginPublish, WriteMeta, CommitOk,
           CommitRejected, Fail, Put
  <2>2. UNCHANGED rows \/ CommitOk(o)
    BY <1>1 DEF Operation, BeginBuild, BeginRegister, ReuseCentroids, TrainCentroids,
           WriteCentroidMeta, PublishCentroids, WritePostings, BeginPublish, WriteMeta,
           CommitRejected, Fail, catalog
  <2>3. QED
    BY <2>1, <2>2
<1>2. ASSUME NEW n \in Names, DropIndex(n)
      PROVE  store \subseteq store' /\ NoWriter /\ DropRow(n)
  BY <1>2 DEF DropIndex, DropRow
<1>3. CASE DropVerified
  BY <1>3 DEF DropVerified, DropRow, catalog
<1>4. ASSUME \/ \E n \in Names : Resolve(n)
             \/ \E n \in Names, s \in Sources : VerifyDrop(n, s)
             \/ EndQuery \/ Tick \/ UNCHANGED vars
      PROVE  UNCHANGED <<store, rows>>
  BY <1>4 DEF Resolve, VerifyDrop, EndQuery, Tick, vars, catalog
<1>5. ASSUME Collector
      PROVE  /\ UNCHANGED store \/ \E x \in Objects : DeleteObject(x)
             /\ UNCHANGED rows
  BY <1>5 DEF Collector, BeginGC, PurgeCentroids, PurgeTombstones, CrashGC, DeleteObject, catalog
<1>6. QED
  BY <1>1, <1>2, <1>3, <1>4, <1>5 DEF Next

\* A step that leaves an operation and what it wrote alone.
LEMMA Bystander ==
    ASSUME IInv, NEW p \in Ops,
           pc'[p] = pc[p], name'[p] = name[p], base'[p] = base[p], cent'[p] = cent[p],
           snaps'[p] = snaps[p],
           base[p] # None => snaps'[base[p]] = snaps[base[p]],
           <<"data", p>> \in store' <=> <<"data", p>> \in store,
           <<"cdata", p>> \in store' <=> <<"cdata", p>> \in store,
           <<"cmeta", p>> \in store' <=> <<"cmeta", p>> \in store,
           <<"meta", p>> \in store' <=> <<"meta", p>> \in store
    PROVE  JobOf(p)'
<1>1. JobOf(p)
  BY DEF IInv, JobInv
<1>2. QED
  BY <1>1 DEF JobOf

LEMMA JobStep == IInv /\ [Next]_vars => JobInv'
<1> SUFFICES ASSUME IInv, [Next]_vars, NEW p \in Ops PROVE JobOf(p)'
  BY DEF JobInv
<1> USE DEF Building, Publishing, Goto, job, catalog, others, IdleGC, IdleQuery, IdleDrop
<1>a. TypeOK /\ WriterInv
  BY DEF IInv
<1>b. CommittedInv /\ KnownInv /\ CollectInv
  BY DEF IInv
<1>c. JobOf(p)
  BY DEF IInv, JobInv
<1>1. ASSUME NEW o \in Ops, NEW n \in Names, NEW s \in Sources, BeginBuild(o, n, s)
      PROVE  JobOf(p)'
  BY <1>1, <1>a, <1>b, <1>c DEF BeginBuild, TypeOK, JobOf, KnownInv, Resolved
<1>2. ASSUME NEW o \in Ops, NEW n \in Names, NEW s \in Sources, BeginRegister(o, n, s)
      PROVE  JobOf(p)'
  BY <1>2, <1>a, <1>b, <1>c DEF BeginRegister, TypeOK, JobOf, KnownInv, Resolved
<1>3. ASSUME NEW o \in Ops, ReuseCentroids(o) PROVE JobOf(p)'
  BY <1>3, <1>a, <1>b, <1>c DEF ReuseCentroids, LoadCentroids, TypeOK, JobOf, KnownInv, Resolved
<1>4. ASSUME NEW o \in Ops, TrainCentroids(o) PROVE JobOf(p)'
  <2>1. CASE p = o
    BY <1>4, <2>1, <1>a, <1>b, <1>c DEF TrainCentroids, Put, TypeOK, JobOf, KnownInv, Resolved,
         CommittedInv
  <2>2. CASE p # o
    <3>1. /\ pc'[p] = pc[p] /\ name'[p] = name[p] /\ base'[p] = base[p] /\ cent'[p] = cent[p]
          /\ snaps' = snaps
      BY <1>4, <2>2, <1>a, <1>b DEF TrainCentroids, Put, TypeOK, CommittedInv
    <3>2. \A k \in {"data", "cdata", "cmeta", "meta"} : <<k, p>> \in store' <=> <<k, p>> \in store
      BY <1>4, <2>2 DEF TrainCentroids, Put
    <3>3. QED
      BY <3>1, <3>2, Bystander
  <2>3. QED
    BY <2>1, <2>2
<1>5. ASSUME NEW o \in Ops, WriteCentroidMeta(o) PROVE JobOf(p)'
  <2>1. CASE p = o
    BY <1>5, <2>1, <1>a, <1>b, <1>c DEF WriteCentroidMeta, Put, TypeOK, JobOf, KnownInv,
         Resolved, CommittedInv
  <2>2. CASE p # o
    <3>1. /\ pc'[p] = pc[p] /\ name'[p] = name[p] /\ base'[p] = base[p] /\ cent'[p] = cent[p]
          /\ snaps' = snaps
      BY <1>5, <2>2, <1>a, <1>b DEF WriteCentroidMeta, Put, TypeOK, CommittedInv
    <3>2. \A k \in {"data", "cdata", "cmeta", "meta"} : <<k, p>> \in store' <=> <<k, p>> \in store
      BY <1>5, <2>2 DEF WriteCentroidMeta, Put
    <3>3. QED
      BY <3>1, <3>2, Bystander
  <2>3. QED
    BY <2>1, <2>2
<1>6. ASSUME NEW o \in Ops, PublishCentroids(o) PROVE JobOf(p)'
  <2>1. CASE p = o
    BY <1>6, <2>1, <1>a, <1>b, <1>c DEF PublishCentroids, LoadCentroids, TypeOK, JobOf,
         KnownInv, Resolved, CommittedInv
  <2>2. CASE p # o
    <3>1. /\ pc'[p] = pc[p] /\ name'[p] = name[p] /\ base'[p] = base[p] /\ cent'[p] = cent[p]
          /\ snaps' = snaps
      BY <1>6, <2>2, <1>a, <1>b DEF PublishCentroids, LoadCentroids, TypeOK, CommittedInv
    <3>2. \A k \in {"data", "cdata", "cmeta", "meta"} : <<k, p>> \in store' <=> <<k, p>> \in store
      BY <1>6, <2>2 DEF PublishCentroids, LoadCentroids
    <3>3. QED
      BY <3>1, <3>2, Bystander
  <2>3. QED
    BY <2>1, <2>2
<1>7. ASSUME NEW o \in Ops, WritePostings(o) PROVE JobOf(p)'
  <2>1. CASE p = o
    BY <1>7, <2>1, <1>a, <1>b, <1>c DEF WritePostings, Put, TypeOK, JobOf, KnownInv, Resolved,
         CommittedInv
  <2>2. CASE p # o
    <3>1. /\ pc'[p] = pc[p] /\ name'[p] = name[p] /\ base'[p] = base[p] /\ cent'[p] = cent[p]
          /\ snaps' = snaps
      BY <1>7, <2>2, <1>a, <1>b DEF WritePostings, Put, TypeOK, CommittedInv
    <3>2. \A k \in {"data", "cdata", "cmeta", "meta"} : <<k, p>> \in store' <=> <<k, p>> \in store
      BY <1>7, <2>2 DEF WritePostings, Put
    <3>3. QED
      BY <3>1, <3>2, Bystander
  <2>3. QED
    BY <2>1, <2>2
<1>8. ASSUME NEW o \in Ops, BeginPublish(o) PROVE JobOf(p)'
  BY <1>8, <1>a, <1>b, <1>c DEF BeginPublish, TypeOK, JobOf
<1>9. ASSUME NEW o \in Ops, WriteMeta(o) PROVE JobOf(p)'
  <2>1. CASE p = o
    BY <1>9, <2>1, <1>a, <1>b, <1>c DEF WriteMeta, Put, TypeOK, JobOf, KnownInv, Resolved,
         CommittedInv
  <2>2. CASE p # o
    <3>1. /\ pc'[p] = pc[p] /\ name'[p] = name[p] /\ base'[p] = base[p] /\ cent'[p] = cent[p]
          /\ snaps'[p] = snaps[p] /\ (base[p] # None => snaps'[base[p]] = snaps[base[p]])
      BY <1>9, <2>2, <1>a, <1>b DEF WriteMeta, Put, TypeOK, CommittedInv
    <3>2. \A k \in {"data", "cdata", "cmeta", "meta"} : <<k, p>> \in store' <=> <<k, p>> \in store
      BY <1>9, <2>2 DEF WriteMeta, Put
    <3>3. QED
      BY <3>1, <3>2, Bystander
  <2>3. QED
    BY <2>1, <2>2
<1>10. ASSUME NEW o \in Ops, CommitOk(o) PROVE JobOf(p)'
  BY <1>10, <1>a, <1>b, <1>c DEF CommitOk, End, TypeOK, JobOf, CommittedInv
<1>11. ASSUME NEW o \in Ops, CommitRejected(o) PROVE JobOf(p)'
  BY <1>11, <1>a, <1>b, <1>c DEF CommitRejected, End, TypeOK, JobOf, CommittedInv
<1>12. ASSUME NEW o \in Ops, Fail(o) PROVE JobOf(p)'
  BY <1>12, <1>a, <1>b, <1>c DEF Fail, End, TypeOK, JobOf, CommittedInv
<1>13. ASSUME NEW x \in Objects, DeleteObject(x) PROVE JobOf(p)'
  <2>1. pc[p] \notin Publishing
    BY <1>13, <1>a DEF DeleteObject, WriterInv
  <2>2. /\ UNCHANGED job
        /\ store' \subseteq store
        /\ pc[p] \in Building => store' \cap {<<"data", p>>, <<"cdata", p>>, <<"cmeta", p>>}
                                = store \cap {<<"data", p>>, <<"cdata", p>>, <<"cmeta", p>>}
    BY <1>13, <1>b DEF DeleteObject, CollectInv
  <2>3. QED
    BY <1>c, <2>1, <2>2 DEF JobOf
<1>14. ASSUME NEW n \in Names, DropIndex(n) \/ Resolve(n) \/ \E s \in Sources : VerifyDrop(n, s)
       PROVE  JobOf(p)'
  <2>1. UNCHANGED <<job, store>>
    BY <1>14 DEF DropIndex, DropRow, Resolve, VerifyDrop
  <2>2. QED
    BY <2>1, Bystander
<1>15. CASE DropVerified \/ EndQuery \/ BeginGC \/ PurgeCentroids \/ PurgeTombstones \/ CrashGC \/ Tick \/ UNCHANGED vars
  <2>1. UNCHANGED <<job, store>>
    BY <1>15 DEF DropVerified, DropRow, EndQuery, BeginGC, PurgeCentroids, PurgeTombstones,
         CrashGC,
            Tick, vars
  <2>2. QED
    BY <2>1, Bystander
<1> HIDE DEF IInv, JobOf
<1>16. QED
  BY <1>1, <1>2, <1>3, <1>4, <1>5, <1>6, <1>7, <1>8, <1>9, <1>10, <1>11, <1>12, <1>13, <1>14,
       <1>15 DEF Next, Operation, Collector

\* A step beside the collector: the list stays, and so does what it must not hold.
Beside ==
    /\ gc'.todo = gc.todo
    /\ store \subseteq store'
    /\ \/ gc.todo = {}
       \/ UNCHANGED rows /\ \A o \in Ops : pc'[o] \in Building => pc[o] \in Building

LEMMA CollectStep == IInv /\ [Next]_vars => CollectInv'
<1> SUFFICES ASSUME IInv, [Next]_vars PROVE CollectInv'
  OBVIOUS
<1>1. TypeOK /\ WriterInv /\ CommittedInv /\ CollectInv /\ JobInv /\ AgeInv
  BY DEF IInv
<1>2. ASSUME Beside PROVE CollectInv'
  <2>1. CASE gc.todo = {}
    BY <1>2, <2>1 DEF Beside, CollectInv
  <2>2. CASE gc.todo # {}
    <3>1. \A n \in Names : rows[n] # None => References(rows[n])' = References(rows[n])
      BY <1>1, <1>2, <2>2, CommittedStable DEF Beside, TypeOK, CommittedInv
    <3>2. QED
      BY <1>1, <1>2, <2>2, <3>1 DEF Beside, CollectInv
  <2>3. QED
    BY <2>1, <2>2
<1>3. CASE BeginGC
  <2>1. gc'.todo = Candidates /\ UNCHANGED <<store, rows, pc, snaps>>
    BY <1>3 DEF BeginGC, catalog, job
  <2>2. Candidates \subseteq store
    BY DEF Candidates
  <2>3. ASSUME NEW n \in Names, rows[n] # None
        PROVE  Candidates \cap ({<<"meta", rows[n]>>} \cup References(rows[n])) = {}
    BY <2>3, InReachable DEF Candidates
  <2>4. ASSUME NEW o \in Ops, pc[o] \in Building
        PROVE  Candidates \cap {<<"data", o>>, <<"cdata", o>>, <<"cmeta", o>>} = {}
    <3>1. <<"data", o>> \notin Candidates
      BY <2>4, InReachable DEF Candidates, Pins
    <3>2. <<"cdata", o>> \notin Candidates
      <4>1. CASE pc[o] = "pinned"
        BY <1>1, <4>1 DEF JobInv, JobOf, Candidates
      <4>2. CASE pc[o] # "pinned"
        <5>1. <<"cdata", o>> \in Pins
          BY <2>4, <4>2 DEF Pins
        <5>2. QED
          BY <5>1, InReachable DEF Candidates
      <4>3. QED
        BY <4>1, <4>2
    <3>3. <<"cmeta", o>> \notin Candidates
      <4> SUFFICES ASSUME <<"cmeta", o>> \in Candidates PROVE FALSE
        OBVIOUS
      <4>1. age[<<"cmeta", o>>] \in 0..Old /\ age[<<"cmeta", o>>] <= Retention
        BY <1>1, <2>4 DEF Candidates, AgeInv, TypeOK, Objects
      <4>2. <<"cmeta", o>> \in Verified
        BY <4>1 DEF Candidates, IsExpired, Old
      <4>3. PICK p \in ExpiredTombs : <<"cmeta", o>> \in TombstoneReferences(p)
        BY <4>2 DEF Verified
      <4>4. p \in Ops /\ p \in tombs /\ tombAge[p] \in 0..Old /\ tombAge[p] > Retention
        BY <1>1 DEF ExpiredTombs, IsExpired, TypeOK
      <4>5. <<"cmeta", o>> \in References(p)
        BY <4>3 DEF TombstoneReferences
      <4>6. PICK s \in Managed(p) : <<"cmeta", o>> = <<"cmeta", s[2]>>
        BY <4>5, InReferences
      <4>7. tombAge[p] <= age[<<"cmeta", o>>]
        BY <1>1, <4>4, <4>6 DEF AgeInv, Candidates
      <4>8. QED
        BY <4>1, <4>4, <4>7 DEF Old
    <3>4. QED
      BY <3>1, <3>2, <3>3
  <2>5. \A o \in Ops : References(o)' = References(o)
    BY <2>1 DEF References, Managed
  <2>6. QED
    BY <1>1, <2>1, <2>2, <2>3, <2>4, <2>5 DEF CollectInv, TypeOK
<1>4. ASSUME NEW x \in Objects, DeleteObject(x) PROVE CollectInv'
  <2>1. gc'.todo = gc.todo \ {x} /\ store' = store \ {x} /\ UNCHANGED <<rows, pc, snaps>>
    BY <1>1, <1>4 DEF DeleteObject, catalog, job, TypeOK
  <2>2. \A o : References(o)' = References(o)
    BY <2>1 DEF References, Managed
  <2>3. QED
    BY <1>1, <2>1, <2>2 DEF CollectInv
<1>5. CASE PurgeTombstones \/ CrashGC
  <2>1. gc'.todo = {}
    BY <1>5 DEF PurgeTombstones, CrashGC, IdleGC
  <2>2. QED
    BY <2>1 DEF CollectInv
<1>6. ASSUME NEW o \in Ops, Operation(o) PROVE Beside
  <2>1. gc' = gc /\ store \subseteq store'
    BY <1>6 DEF Operation, others, BeginBuild, BeginRegister, ReuseCentroids, TrainCentroids,
         WriteCentroidMeta, PublishCentroids, WritePostings, BeginPublish, WriteMeta, CommitOk,
         CommitRejected, Fail, Put
  <2>2. CASE gc.todo = {}
    BY <2>1, <2>2 DEF Beside
  <2>3. CASE gc.todo # {}
    <3>1. ~NoWriter /\ pc[o] \notin Publishing
      BY <1>1, <2>3 DEF NoWriter, WriterInv
    <3>2. ReuseCentroids(o) \/ WriteCentroidMeta(o) \/ PublishCentroids(o) \/ WritePostings(o) \/ Fail(o)
      BY <1>6, <3>1 DEF Operation, BeginBuild, BeginRegister, TrainCentroids, BeginPublish,
           WriteMeta,
           CommitOk, CommitRejected, Goto, Publishing
    <3>3. UNCHANGED rows /\ \A p \in Ops : pc'[p] \in Building => pc[p] \in Building
      BY <1>1, <3>2 DEF ReuseCentroids, WriteCentroidMeta, PublishCentroids, WritePostings,
           Fail, End,
           Goto, catalog, Building, Publishing, TypeOK
    <3>4. QED
      BY <2>1, <3>3 DEF Beside
  <2>4. QED
    BY <2>2, <2>3
<1>7. ASSUME NEW n \in Names, DropIndex(n) \/ Resolve(n) PROVE Beside
  BY <1>1, <1>7 DEF DropIndex, DropRow, Resolve, NoWriter, WriterInv, Beside
<1>8. CASE DropVerified
  <2>1. gc.todo = {}
    BY <1>1, <1>8 DEF DropVerified, NoWriter, WriterInv
  <2>2. UNCHANGED <<store, gc>>
    BY <1>8 DEF DropVerified, DropRow
  <2>3. QED
    BY <1>2, <2>1, <2>2 DEF Beside
<1>9. CASE EndQuery \/ PurgeCentroids \/ Tick
  <2>1. gc'.todo = gc.todo
    BY <1>1, <1>9 DEF EndQuery, PurgeCentroids, Tick, TypeOK
  <2>2. UNCHANGED <<store, rows, pc>>
    BY <1>9 DEF EndQuery, PurgeCentroids, Tick, catalog, job
  <2>3. QED
    BY <1>2, <2>1, <2>2 DEF Beside
<1>10. ASSUME NEW n \in Names, NEW s \in Sources, VerifyDrop(n, s) PROVE Beside
  BY <1>10 DEF VerifyDrop, Beside, catalog, job
<1>11. CASE UNCHANGED vars
  <2>1. UNCHANGED <<store, rows, pc, gc>>
    BY <1>11 DEF vars
  <2>2. QED
    BY <1>2, <2>1 DEF Beside
<1>12. QED
  BY <1>2, <1>3, <1>4, <1>5, <1>6, <1>7, <1>8, <1>9, <1>10, <1>11 DEF Next, Collector

LEMMA AgeStep == IInv /\ [Next]_vars => AgeInv'
<1> SUFFICES ASSUME IInv, [Next]_vars PROVE AgeInv'
  OBVIOUS
<1>1. TypeOK /\ CommittedInv /\ JobInv /\ KnownInv /\ AgeInv
  BY DEF IInv
<1>2. \A o \in tombs : Managed(o)' = Managed(o)
  BY <1>1, CommittedStable DEF TypeOK, CommittedInv
<1> DEFINE Running == Building \cup Publishing
           Cm(o) == <<"cmeta", o>>
           Young(o) == pc[o] \in Running /\ Cm(o) \in store => age[Cm(o)] <= Retention
           Dated(o) == \A s \in Managed(o) : Cm(s[2]) \in store => tombAge[o] <= age[Cm(s[2])]
<1>3. (\A o \in Ops : Young(o)) /\ (\A o \in tombs : Dated(o))
  BY <1>1 DEF AgeInv
<1>5. ASSUME NEW o \in Ops, pc[o] \in {"idle", "pinned", "trained"} PROVE Cm(o) \notin store
  BY <1>1, <1>5 DEF JobInv, JobOf
\* Steps that leave the ages alone.
<1>6. ASSUME UNCHANGED <<store, age, tombs, tombAge>>,
             \A o \in Ops : pc'[o] \in Running => pc[o] \in Running \/ Cm(o) \notin store
      PROVE  AgeInv'
  BY <1>2, <1>3, <1>6 DEF AgeInv
\* Steps that write an object.
<1>7. ASSUME NEW o \in Ops, NEW k \in {"data", "cdata", "meta"}, Put(<<k, o>>), UNCHANGED <<tombs, tombAge>>,
             \A p \in Ops : pc'[p] \in Running => pc[p] \in Running
      PROVE  AgeInv'
  <2>1. \A p : (Cm(p) \in store' <=> Cm(p) \in store) /\ age'[Cm(p)] = age[Cm(p)]
    BY <1>1, <1>7 DEF Put, TypeOK
  <2>2. QED
    BY <1>2, <1>3, <1>7, <2>1 DEF AgeInv
<1>8. ASSUME NEW o \in Ops, WriteCentroidMeta(o) PROVE AgeInv'
  <2>1. /\ pc[o] = "trained" /\ age' = [age EXCEPT ![Cm(o)] = 0] /\ store' = store \cup {Cm(o)}
        /\ UNCHANGED <<tombs, tombAge>>
    BY <1>8 DEF WriteCentroidMeta, Goto, Put, catalog
  <2>2. \A p \in Ops : pc'[p] \in Running => pc[p] \in Running
    BY <1>1, <1>8 DEF WriteCentroidMeta, Goto, TypeOK, Building, Publishing
  <2>3. age'[Cm(o)] = 0 /\ \A p \in Ops : p # o => age'[Cm(p)] = age[Cm(p)]
    BY <1>1, <2>1 DEF TypeOK, Objects
  <2>4. \A p \in Ops : Young(p)'
    BY <1>3, <2>1, <2>2, <2>3
  <2>5. ASSUME NEW p \in tombs, NEW s \in Managed(p) PROVE s[2] \in Ops /\ s[2] # o
    BY <1>1, <2>1 DEF TypeOK, Managed, KnownInv, Resolved
  <2>6. \A p \in tombs' : Dated(p)'
    BY <1>2, <1>3, <2>1, <2>3, <2>5
  <2>7. QED
    BY <2>4, <2>6 DEF AgeInv
\* Steps that date a tombstone.
<1>9. ASSUME NEW o \in Ops, Entomb(o), UNCHANGED <<store, age>>,
             \A p \in Ops : pc'[p] \in Running => pc[p] \in Running
      PROVE  AgeInv'
  <2>1. tombAge'[o] = 0 /\ \A p \in Ops : p # o => tombAge'[p] = tombAge[p]
    BY <1>1, <1>9 DEF Entomb, TypeOK
  <2>2. ASSUME NEW p \in tombs', p # o PROVE Dated(p)'
    BY <1>1, <1>2, <1>3, <1>9, <2>1, <2>2 DEF Entomb, TypeOK
  <2>3. \A x \in Objects : age[x] \in Nat
    BY <1>1 DEF TypeOK, Old
  <2>4. snaps' \in [Ops -> SUBSET (Ops \X (Ops \cup {None}))]
    BY TypeStep DEF TypeOK
  <2>5. \A s \in Managed(o)' : Cm(s[2]) \in Objects
    BY <2>4 DEF Managed, Objects
  <2>6. Dated(o)'
    BY <1>9, <2>1, <2>3, <2>5
  <2>7. QED
    BY <1>3, <1>9, <2>2, <2>6 DEF AgeInv
<1>10. CASE Tick
  <2>1. UNCHANGED <<store, tombs, pc>> /\ BuildsAreShort
    BY <1>10 DEF Tick, job
  <2>2. \A p \in Ops : Young(p)'
    <3>1. ASSUME NEW p \in Ops, pc[p] \in Running, Cm(p) \in store PROVE age'[Cm(p)] <= Retention
      <4>1. age[Cm(p)] < Retention /\ age[Cm(p)] \in Nat /\ Cm(p) \in Objects
        BY <1>1, <2>1, <3>1 DEF BuildsAreShort, TypeOK, Objects, Old
      <4>2. age'[Cm(p)] = age[Cm(p)] + 1
        BY <1>10, <3>1, <4>1 DEF Tick, Older, Old
      <4>3. QED
        BY <4>1, <4>2
    <3>2. QED
      BY <2>1, <3>1
  <2>3. \A j, k \in 0..Old : j <= k => Older(j) <= Older(k)
    BY DEF Older, Old
  <2>4. ASSUME NEW p \in tombs, NEW s \in Managed(p), Cm(s[2]) \in store PROVE tombAge'[p] <= age'[Cm(s[2])]
    <3>1. Cm(s[2]) \in Objects /\ p \in Ops
      BY <1>1, <2>4 DEF TypeOK
    <3>2. age'[Cm(s[2])] = Older(age[Cm(s[2])]) /\ tombAge'[p] = Older(tombAge[p])
      BY <1>10, <2>4, <3>1 DEF Tick
    <3>3. tombAge[p] <= age[Cm(s[2])] /\ tombAge[p] \in 0..Old /\ age[Cm(s[2])] \in 0..Old
      BY <1>1, <1>3, <2>4, <3>1 DEF TypeOK
    <3>4. QED
      BY <2>3, <3>2, <3>3
  <2>5. \A p \in tombs' : Dated(p)'
    BY <1>2, <2>1, <2>4
  <2>6. QED
    BY <2>2, <2>5 DEF AgeInv
<1>11. ASSUME NEW x \in Objects, DeleteObject(x) PROVE AgeInv'
  <2>1. store' = store \ {x} /\ UNCHANGED <<tombs, tombAge, pc>>
    BY <1>11 DEF DeleteObject, catalog, job
  <2>2. \A y : y # x => age'[y] = age[y]
    BY <1>1, <1>11 DEF DeleteObject, TypeOK
  <2>3. QED
    BY <1>2, <1>3, <2>1, <2>2 DEF AgeInv
<1>12. CASE PurgeTombstones
  <2>1. UNCHANGED <<store, age, pc>> /\ tombs' \subseteq tombs /\ \A o \in tombs' : tombAge'[o] = tombAge[o]
    BY <1>1, <1>12 DEF PurgeTombstones, job, TypeOK
  <2>2. QED
    BY <1>2, <1>3, <2>1 DEF AgeInv
<1>13. ASSUME NEW o \in Ops, Operation(o) PROVE AgeInv'
  <2> USE DEF Goto, catalog, Building, Publishing
  <2>1. ASSUME NEW n \in Names, NEW s \in Sources, BeginBuild(o, n, s) \/ BeginRegister(o, n, s) PROVE AgeInv'
    <3>1. UNCHANGED <<store, age, tombs, tombAge>>
      BY <2>1 DEF BeginBuild, BeginRegister
    <3>2. pc[o] = "idle" /\ \A p \in Ops : p # o => pc'[p] = pc[p]
      BY <1>1, <2>1 DEF BeginBuild, BeginRegister, TypeOK
    <3>3. QED
      BY <1>5, <1>6, <3>1, <3>2
  <2>2. CASE ReuseCentroids(o) \/ PublishCentroids(o) \/ BeginPublish(o) \/ CommitRejected(o) \/ Fail(o)
    <3>1. UNCHANGED <<store, age, tombs, tombAge>>
      BY <2>2 DEF ReuseCentroids, PublishCentroids, BeginPublish, CommitRejected, Fail
    <3>2. \A p \in Ops : pc'[p] \in Running => pc[p] \in Running
      BY <1>1, <2>2 DEF ReuseCentroids, PublishCentroids, BeginPublish, CommitRejected, Fail,
           End, TypeOK
    <3>3. QED
      BY <1>6, <3>1, <3>2
  <2>3. CASE TrainCentroids(o) \/ WritePostings(o) \/ WriteMeta(o)
    <3>1. PICK k \in {"data", "cdata", "meta"} : Put(<<k, o>>)
      BY <2>3 DEF TrainCentroids, WritePostings, WriteMeta
    <3>2. UNCHANGED <<tombs, tombAge>>
      BY <2>3 DEF TrainCentroids, WritePostings, WriteMeta
    <3>3. \A p \in Ops : pc'[p] \in Running => pc[p] \in Running
      BY <1>1, <2>3 DEF TrainCentroids, WritePostings, WriteMeta, TypeOK
    <3>4. QED
      BY <1>7, <3>1, <3>2, <3>3
  <2>4. CASE CommitOk(o)
    <3>1. UNCHANGED <<store, age>> /\ \A p \in Ops : pc'[p] \in Running => pc[p] \in Running
      BY <1>1, <2>4 DEF CommitOk, End, TypeOK
    <3>2. CASE base[o] = None
      BY <1>6, <2>4, <3>1, <3>2 DEF CommitOk
    <3>3. CASE base[o] # None
      BY <1>1, <1>9, <2>4, <3>1, <3>3 DEF CommitOk, TypeOK
    <3>4. QED
      BY <3>2, <3>3
  <2>5. QED
    BY <1>8, <1>13, <2>1, <2>2, <2>3, <2>4 DEF Operation
<1>14. ASSUME NEW n \in Names, DropRow(n) PROVE AgeInv'
  BY <1>1, <1>9, <1>14 DEF DropRow, TypeOK, job
<1>15. CASE DropVerified
  <2>1. request.name \in Names
    BY <1>15 DEF IInv, WriterInv, DropVerified
  <2>2. CASE DropRow(request.name)
    BY <1>14, <2>1, <2>2
  <2>3. CASE UNCHANGED <<store, age, tombs, tombAge, pc>>
    BY <1>6, <2>3
  <2>4. QED
    BY <1>15, <2>2, <2>3 DEF DropVerified, catalog, job
<1>16. ASSUME UNCHANGED <<store, age, tombs, tombAge, pc>> PROVE AgeInv'
  BY <1>6, <1>16
<1>17. CASE EndQuery \/ BeginGC \/ PurgeCentroids \/ CrashGC \/ UNCHANGED vars
  BY <1>16, <1>17 DEF EndQuery, BeginGC, PurgeCentroids, CrashGC, vars, catalog, job
<1>18. ASSUME NEW n \in Names, Resolve(n) PROVE AgeInv'
  BY <1>16, <1>18 DEF Resolve, catalog, job
<1>19. ASSUME NEW n \in Names, NEW s \in Sources, VerifyDrop(n, s) PROVE AgeInv'
  BY <1>16, <1>19 DEF VerifyDrop, catalog, job
<1>20. QED
  BY <1>10, <1>11, <1>12, <1>13, <1>14, <1>15, <1>17, <1>18, <1>19 DEF Next, Collector,
       DropIndex

LEMMA PublishedStep == IInv /\ [Next]_vars => PublishedComplete'
<1> SUFFICES ASSUME IInv, [Next]_vars, NEW n \in Names, rows'[n] # None
             PROVE  /\ <<"meta", rows'[n]>> \in store'
                    /\ \A s \in Managed(rows[n])' :
                         /\ <<"data", s[1]>> \in store'
                         /\ s[1] = s[2] => {<<"cmeta", s[2]>>, <<"cdata", s[2]>>} \subseteq store'
  BY DEF PublishedComplete
<1> DEFINE Whole(p) ==
      /\ <<"meta", p>> \in store
      /\ \A s \in Managed(p) :
           /\ <<"data", s[1]>> \in store
           /\ s[1] = s[2] => {<<"cmeta", s[2]>>, <<"cdata", s[2]>>} \subseteq store
<1>1. TypeOK /\ WriterInv /\ CommittedInv /\ CollectInv /\ JobInv /\ \A m \in Names : rows[m] # None => Whole(rows[m])
  BY DEF IInv, PublishedComplete
<1>2. ASSUME NEW x \in Objects, DeleteObject(x) PROVE Whole(rows[n])'
  <2>1. rows' = rows /\ rows[n] \in Ops /\ pc[rows[n]] = "done" /\ store' = store \ {x}
    BY <1>1, <1>2 DEF DeleteObject, catalog, TypeOK, CommittedInv
  <2>2. Managed(rows[n])' = Managed(rows[n])
    BY <2>1, CommittedStable
  <2>3. x # <<"meta", rows[n]>> /\ x \notin References(rows[n])
    BY <1>1, <1>2, <2>1 DEF DeleteObject, CollectInv
  <2>4. QED
    BY <1>1, <2>1, <2>2, <2>3, InReferences
<1>3. ASSUME store \subseteq store', rows[n] # None, rows'[n] = rows[n] PROVE Whole(rows[n])'
  <2>1. Managed(rows[n])' = Managed(rows[n])
    BY <1>1, <1>3, CommittedStable DEF TypeOK, CommittedInv
  <2>2. QED
    BY <1>1, <1>3, <2>1
<1>4. ASSUME NEW o \in Ops, CommitOk(o) PROVE Whole(rows[n])'
  <2>1. name[o] \in Names /\ pc[o] = "written" /\ rows[name[o]] = base[o]
        /\ rows' = [rows EXCEPT ![name[o]] = o] /\ store' = store /\ snaps' = snaps
    BY <1>1, <1>4 DEF CommitOk, CatalogMatches, End, JobInv, JobOf, Publishing
  <2>2. CASE n = name[o]
    <3>1. rows'[n] = o
      BY <1>1, <2>1, <2>2 DEF TypeOK
    <3>2. <<"meta", o>> \in store /\ snaps[o] = (IF base[o] = None THEN {} ELSE snaps[base[o]]) \cup {<<o, cent[o]>>}
      BY <1>1, <2>1 DEF JobInv, JobOf
    <3>3. cent[o] # None => <<"data", o>> \in store
      BY <1>1, <2>1 DEF JobInv, JobOf, Publishing
    <3>4. cent[o] = o => {<<"cmeta", o>>, <<"cdata", o>>} \subseteq store
      BY <1>1, <2>1 DEF JobInv, JobOf, Publishing
    <3>5. base[o] # None => Whole(base[o])
      BY <1>1, <2>1, <2>2
    <3>6. ASSUME NEW s \in Managed(o)
          PROVE  \/ s = <<o, cent[o]>> /\ cent[o] # None
                 \/ base[o] # None /\ s \in Managed(base[o])
      <4>1. s \in snaps[o] /\ s[2] # None
        BY DEF Managed
      <4>2. \/ s = <<o, cent[o]>>
            \/ base[o] # None /\ s \in snaps[base[o]]
        <5>1. CASE base[o] = None
          BY <3>2, <4>1, <5>1
        <5>2. CASE base[o] # None
          BY <3>2, <4>1, <5>2
        <5>3. QED
          BY <5>1, <5>2
      <4>3. QED
        BY <4>1, <4>2 DEF Managed
    <3>7. Whole(o)
      BY <3>2, <3>3, <3>4, <3>5, <3>6
    <3>8. Whole(o)'
      BY <3>7, <2>1 DEF Managed
    <3>9. QED
      BY <3>1, <3>8
  <2>3. CASE n # name[o]
    <3>1. rows'[n] = rows[n]
      BY <1>1, <2>1, <2>3 DEF TypeOK
    <3>2. QED
      BY <2>1, <3>1, <1>3
  <2>4. QED
    BY <2>2, <2>3
<1>5. ASSUME NEW m \in Names \cup {request.name}, DropRow(m) PROVE Whole(rows[n])'
  <2>1. rows'[n] = rows[n] /\ store' = store
    BY <1>1, <1>5 DEF DropRow, TypeOK
  <2>2. QED
    BY <2>1, <1>3
<1>6. CASE store \subseteq store' /\ rows' = rows
  BY <1>3, <1>6
<1>7. (\E x \in Objects : DeleteObject(x)) => rows' = rows
  BY DEF DeleteObject, catalog
<1>8. ASSUME NEW o \in Ops, CommitOk(o) PROVE store' = store
  BY <1>8 DEF CommitOk
<1>9. QED
  BY <1>2, <1>4, <1>5, <1>6, <1>7, <1>8, Changes

\* Nothing goes on the collector's list after it was made, and only what is on it is
\* deleted.
LEMMA OnlyListedGo ==
    ASSUME TypeOK, [Next]_vars, ~BeginGC
    PROVE  store \ gc.todo \subseteq store' \ gc'.todo
<1>1. CASE \E x \in Objects : DeleteObject(x)
  BY <1>1 DEF DeleteObject, TypeOK
<1>2. CASE store \subseteq store' /\ gc'.todo \subseteq gc.todo
  BY <1>2
<1>3. CASE PurgeCentroids
  BY <1>3 DEF PurgeCentroids, TypeOK
<1>4. CASE ~PurgeCentroids /\ ~\E x \in Objects : DeleteObject(x)
  <2>1. UNCHANGED gc \/ gc' = IdleGC
    <3>1. ASSUME NEW o \in Ops, Operation(o) PROVE UNCHANGED gc
      BY <3>1 DEF Operation, BeginBuild, BeginRegister, ReuseCentroids, TrainCentroids,
             WriteCentroidMeta, PublishCentroids, WritePostings, BeginPublish, WriteMeta, CommitOk,
             CommitRejected, Fail, others
    <3>2. ASSUME NEW n \in Names, DropIndex(n) \/ Resolve(n) PROVE UNCHANGED gc
      BY <3>2 DEF DropIndex, DropRow, Resolve
    <3>3. ASSUME NEW n \in Names, NEW s \in Sources, VerifyDrop(n, s) PROVE UNCHANGED gc
      BY <3>3 DEF VerifyDrop
    <3>4. ASSUME DropVerified \/ EndQuery \/ Tick \/ UNCHANGED vars PROVE UNCHANGED gc
      BY <3>4 DEF DropVerified, DropRow, EndQuery, Tick, vars
    <3>5. ASSUME PurgeTombstones \/ CrashGC PROVE gc' = IdleGC
      BY <3>5 DEF PurgeTombstones, CrashGC
    <3>6. QED
      BY <1>4, <3>1, <3>2, <3>3, <3>4, <3>5 DEF Next, Collector
  <2>2. gc'.todo \subseteq gc.todo
    BY <2>1 DEF IdleGC
  <2>3. QED
    BY <1>2, <1>4, <2>2, Changes
<1>5. QED
  BY <1>1, <1>3, <1>4

\* The operation p is published, or lost its row at most a ticks ago.
Held(p, a) ==
    \/ \E n \in Names : rows[n] = p
    \/ p \in tombs /\ tombAge[p] <= a

\* What leaves the catalog is dated by a tombstone in the same step, and a tombstone
\* stays as long as the document it dates.
LEMMA HeldStays ==
    ASSUME IInv, [Next]_vars, ~Tick, NEW p \in Ops, NEW a \in Nat,
           <<"meta", p>> \in store, Held(p, a)
    PROVE  Held(p, a)'
<1>1. TypeOK /\ WriterInv /\ JobInv
  BY DEF IInv
<1>2. CASE UNCHANGED <<rows, tombs, tombAge>>
  BY <1>2 DEF Held
<1>3. ASSUME NEW o \in Ops, NEW n \in Names, Entomb(o), rows[n] = o,
             \A m \in Names : m # n => rows'[m] = rows[m]
      PROVE  Held(p, a)'
  <2>1. CASE p = o
    BY <1>1, <1>3, <2>1 DEF Entomb, Held, TypeOK
  <2>2. CASE p # o
    <3>1. p \in tombs => p \in tombs' /\ tombAge'[p] = tombAge[p]
      BY <1>1, <1>3, <2>2 DEF Entomb, TypeOK
    <3>2. QED
      BY <1>3, <2>2, <3>1 DEF Held
  <2>3. QED
    BY <2>1, <2>2
<1>4. ASSUME NEW o \in Ops, CommitOk(o) PROVE Held(p, a)'
  <2>1. name[o] \in Names /\ rows[name[o]] = base[o] /\ rows' = [rows EXCEPT ![name[o]] = o]
    BY <1>1, <1>4 DEF CommitOk, CatalogMatches, JobInv, JobOf, Publishing
  <2>2. CASE base[o] = None
    <3>1. UNCHANGED <<tombs, tombAge>> /\ \A n \in Names : rows[n] # None => rows'[n] = rows[n]
      BY <1>1, <1>4, <2>1, <2>2 DEF CommitOk, TypeOK
    <3>2. QED
      BY <3>1 DEF Held
  <2>3. CASE base[o] # None
    BY <1>1, <1>3, <1>4, <2>1, <2>3 DEF CommitOk, TypeOK
  <2>4. QED
    BY <2>2, <2>3
<1>5. ASSUME NEW n \in Names, DropRow(n) PROVE Held(p, a)'
  BY <1>1, <1>3, <1>5 DEF DropRow, TypeOK
<1>6. CASE DropVerified
  <2>1. request.name \in Names
    BY <1>1, <1>6 DEF WriterInv, DropVerified
  <2>2. QED
    BY <1>2, <1>5, <1>6, <2>1 DEF DropVerified, catalog
<1>7. CASE PurgeTombstones
  <2>1. UNCHANGED rows
    BY <1>7 DEF PurgeTombstones
  <2>2. p \in tombs => p \in tombs' /\ tombAge'[p] = tombAge[p]
    BY <1>1, <1>7 DEF PurgeTombstones, TypeOK
  <2>3. QED
    BY <2>1, <2>2 DEF Held
<1>8. ASSUME ~DropVerified, ~PurgeTombstones,
             ~\E o \in Ops : CommitOk(o), ~\E n \in Names : DropRow(n)
      PROVE  UNCHANGED <<rows, tombs, tombAge>>
  <2>1. ASSUME NEW o \in Ops, Operation(o) PROVE UNCHANGED catalog
    BY <1>8, <2>1 DEF Operation, BeginBuild, BeginRegister, ReuseCentroids, TrainCentroids,
           WriteCentroidMeta, PublishCentroids, WritePostings, BeginPublish, WriteMeta,
           CommitRejected, Fail, catalog
  <2>2. ASSUME NEW n \in Names, DropIndex(n) \/ Resolve(n) PROVE UNCHANGED catalog
    BY <1>8, <2>2 DEF DropIndex, Resolve
  <2>3. ASSUME NEW n \in Names, NEW s \in Sources, VerifyDrop(n, s) PROVE UNCHANGED catalog
    BY <2>3 DEF VerifyDrop
  <2>4. ASSUME EndQuery \/ UNCHANGED vars PROVE UNCHANGED catalog
    BY <2>4 DEF EndQuery, vars, catalog
  <2>5. ASSUME Collector PROVE UNCHANGED catalog
    BY <1>8, <2>5 DEF Collector, BeginGC, PurgeCentroids, CrashGC, DeleteObject, catalog
  <2>6. QED
    BY <1>8, <2>1, <2>2, <2>3, <2>4, <2>5 DEF Next, catalog
<1>9. QED
  BY <1>2, <1>4, <1>5, <1>6, <1>7, <1>8

LEMMA HeldAges ==
    ASSUME TypeOK, Tick, NEW p \in Ops, NEW a \in Nat, Held(p, a)
    PROVE  Held(p, a + 1)'
<1>1. rows' = rows /\ tombs' = tombs
  BY DEF Tick
<1>2. ASSUME p \in tombs, tombAge[p] <= a PROVE tombAge'[p] <= a + 1
  <2>1. tombAge'[p] = Older(tombAge[p]) /\ tombAge[p] \in 0..Old
    BY <1>2 DEF Tick, TypeOK
  <2>2. QED
    BY <1>2, <2>1 DEF Older, Old
<1>3. QED
  BY <1>1, <1>2 DEF Held

\* What is held within the retention period is reachable for the collector.
LEMMA HeldIsReachable ==
    ASSUME TypeOK, NEW p \in Ops, NEW a \in 0..Retention,
           <<"meta", p>> \in store, Held(p, a)
    PROVE  {<<"meta", p>>} \cup References(p) \subseteq Reachable
<1>1. CASE \E n \in Names : rows[n] = p
  BY <1>1, InReachable
<1>2. CASE p \in tombs /\ tombAge[p] <= a
  <2>1. tombAge[p] \in 0..Old
    BY DEF TypeOK
  <2>2. p \in tombs \ ExpiredTombs
    BY <1>2, <2>1 DEF ExpiredTombs, IsExpired, Old
  <2>3. {<<"meta", p>>} \cup References(p) = TombstoneReferences(p)
    BY DEF TombstoneReferences
  <2>4. QED
    BY <2>2, <2>3, InReachable
<1>3. QED
  BY <1>1, <1>2 DEF Held

LEMMA QueryStep == IInv /\ [Next]_vars => QueryInv'
<1> SUFFICES ASSUME IInv, [Next]_vars, NEW x \in query'.reads
             PROVE  /\ x \in store' \ gc'.todo
                    /\ \E p \in Ops : HeldBy(p)' /\ x \in References(p)'
  BY DEF QueryInv
<1>1. TypeOK /\ WriterInv /\ CommittedInv /\ PublishedComplete /\ QueryInv
  BY DEF IInv
<1>2. PICK a \in 0..Retention : query.age = a
  BY <1>1 DEF TypeOK
<1>3. ASSUME NEW n \in Names, Resolve(n)
      PROVE  x \in store' \ gc'.todo /\ \E p \in Ops : HeldBy(p)' /\ x \in References(p)'
  <2>1. /\ UNCHANGED <<store, rows, snaps, gc>> /\ gc.todo = {}
        /\ rows[n] \in Ops /\ <<"meta", rows[n]>> \in store
    BY <1>1, <1>3 DEF Resolve, catalog, job, NoWriter, WriterInv, TypeOK, PublishedComplete
  <2>2. x \in store /\ x \in UNION {{<<"data", s[1]>>, <<"cdata", s[2]>>} : s \in Managed(rows[n])}
    BY <1>3 DEF Resolve
  <2>3. x \in References(rows[n])
    BY <2>2, InReferences
  <2>4. References(rows[n])' = References(rows[n])
    BY <2>1 DEF References, Managed
  <2>5. HeldBy(rows[n])'
    BY <2>1 DEF HeldBy
  <2>6. QED
    BY <2>1, <2>2, <2>3, <2>4, <2>5
<1>4. ASSUME x \in query.reads, NEW b \in Nat, query'.age = b,
             \A p \in Ops : <<"meta", p>> \in store /\ Held(p, a) => Held(p, b)'
      PROVE  x \in store' \ gc'.todo /\ \E p \in Ops : HeldBy(p)' /\ x \in References(p)'
  <2>1. PICK p \in Ops : HeldBy(p) /\ x \in References(p)
    BY <1>1, <1>4 DEF QueryInv
  <2>2. x \in store \ gc.todo /\ <<"meta", p>> \in store \ gc.todo /\ Held(p, a)
    BY <1>1, <1>2, <1>4, <2>1 DEF QueryInv, HeldBy, Held
  <2>3. pc[p] = "done"
    BY <1>1, <2>2 DEF Held, CommittedInv, TypeOK
  <2>4. x \in References(p)'
    BY <2>1, <2>3, CommittedStable
  <2>5. {x, <<"meta", p>>} \subseteq store' \ gc'.todo
    <3>1. CASE BeginGC
      <4>1. gc'.todo = Candidates /\ store' = store
        BY <3>1 DEF BeginGC
      <4>2. {x, <<"meta", p>>} \subseteq Reachable
        BY <1>1, <1>2, <2>1, <2>2, HeldIsReachable
      <4>3. QED
        BY <2>2, <4>1, <4>2 DEF Candidates
    <3>2. CASE ~BeginGC
      BY <1>1, <2>2, <3>2, OnlyListedGo
    <3>3. QED
      BY <3>1, <3>2
  <2>6. HeldBy(p)'
    BY <1>4, <2>2, <2>5 DEF HeldBy, Held
  <2>7. QED
    BY <2>4, <2>5, <2>6
<1>5. CASE Tick
  <2>1. query'.reads = query.reads /\ query'.age = a + 1
    <3>1. ~(query = IdleQuery \/ query.age = Retention)
      BY <1>5 DEF Tick, IdleQuery
    <3>2. query' = [query EXCEPT !.age = query.age + 1]
      BY <1>5, <3>1 DEF Tick
    <3>3. QED
      BY <1>1, <1>2, <3>2 DEF TypeOK
  <2>2. \A p \in Ops : Held(p, a) => Held(p, a + 1)'
    BY <1>1, <1>5, HeldAges
  <2>3. QED
    BY <1>4, <2>1, <2>2
<1>6. CASE EndQuery
  BY <1>6 DEF EndQuery, IdleQuery
<1>7. CASE ~Tick /\ query' = query
  <2>1. \A p \in Ops : <<"meta", p>> \in store /\ Held(p, a) => Held(p, a)'
    BY <1>7, HeldStays
  <2>2. QED
    BY <1>2, <1>4, <1>7, <2>1
<1>8. query' = query \/ Tick \/ EndQuery \/ \E n \in Names : Resolve(n)
  <2>1. ASSUME NEW o \in Ops, Operation(o) PROVE query' = query
    BY <2>1 DEF Operation, BeginBuild, BeginRegister, ReuseCentroids, TrainCentroids,
           WriteCentroidMeta, PublishCentroids, WritePostings, BeginPublish, WriteMeta, CommitOk,
           CommitRejected, Fail, others
  <2>2. ASSUME NEW n \in Names, DropIndex(n) PROVE query' = query
    BY <2>2 DEF DropIndex, DropRow
  <2>3. ASSUME NEW n \in Names, NEW s \in Sources, VerifyDrop(n, s) PROVE query' = query
    BY <2>3 DEF VerifyDrop
  <2>4. ASSUME DropVerified \/ UNCHANGED vars PROVE query' = query
    BY <2>4 DEF DropVerified, DropRow, vars
  <2>5. ASSUME Collector PROVE query' = query
    BY <2>5 DEF Collector, BeginGC, PurgeCentroids, PurgeTombstones, CrashGC, DeleteObject
  <2>6. QED
    BY <2>1, <2>2, <2>3, <2>4, <2>5 DEF Next
<1>9. QED
  BY <1>3, <1>5, <1>6, <1>7, <1>8

-----------------------------------------------------------------------------
LEMMA InitIInv == Init => IInv
<1> SUFFICES ASSUME Init PROVE IInv
  OBVIOUS
<1>1. TypeOK
  BY DEF Init, TypeOK, Old, IdleGC, IdleQuery, IdleDrop, Objects
<1>2. WriterInv /\ CommittedInv /\ KnownInv /\ CollectInv /\ AgeInv
  BY DEF Init, WriterInv, CommittedInv, KnownInv, CollectInv, AgeInv, IdleGC, Managed,
       Building, Publishing
<1>3. JobInv
  BY DEF Init, JobInv, JobOf, Building, Publishing
<1>4. PublishedComplete /\ QueryInv
  BY DEF Init, PublishedComplete, QueryInv, IdleQuery
<1>5. QED
  BY <1>1, <1>2, <1>3, <1>4 DEF IInv

\* The invariant of the module: it holds initially and every step preserves it.
THEOREM Invariance == Spec => []IInv
<1>1. IInv /\ [Next]_vars => IInv'
  BY TypeStep, WriterStep, CommittedStep, KnownStep, JobStep, CollectStep, AgeStep,
       PublishedStep, QueryStep
     DEF IInv
<1>2. QED
  BY <1>1, InitIInv, PTL DEF Spec

\* The state of catalog, store, operations and collector keeps its types (TypeOK).
THEOREM TypeCorrect == Spec => []TypeOK
<1>1. IInv => TypeOK
  BY DEF IInv
<1>2. QED
  BY <1>1, Invariance, PTL

\* A catalog row never points at an index with missing parts (PublishedComplete),
\* however builds, refreshes, drops, crashes and collections interleave, as long as a
\* build publishes within the retention period of its centroid metadata.
THEOREM PublishedIsComplete == Spec => []PublishedComplete
<1>1. IInv => PublishedComplete
  BY DEF IInv
<1>2. QED
  BY <1>1, Invariance, PTL

\* What resolve_search returned can be read for the retention period, though the
\* query holds neither a guard nor a lease: the tombstone that a drop or a refresh
\* leaves is never older than the query.
THEOREM QueriesReadWithinRetention == Spec => []QueryReadsWithinRetention
<1>1. IInv => QueryReadsWithinRetention
  BY DEF IInv, QueryInv, QueryReadsWithinRetention
<1>2. QED
  BY <1>1, Invariance, PTL

\* SqliteCatalog::commit compares the row with the base of the refresh, so a row
\* that changes hands keeps all the snapshots it had.
THEOREM RefreshesLoseNothing == Spec => NoSnapshotLost
<1> DEFINE A == \A n \in Names : rows[n] # None /\ rows'[n] # None
                  => snaps[rows[n]] \subseteq snaps'[rows'[n]]
<1>1. IInv /\ [Next]_vars => A
  <2> SUFFICES ASSUME IInv, [Next]_vars, NEW n \in Names, rows[n] # None, rows'[n] # None
               PROVE  snaps[rows[n]] \subseteq snaps'[rows'[n]]
    OBVIOUS
  <2>1. TypeOK /\ CommittedInv /\ JobInv
    BY DEF IInv
  <2>2. snaps'[rows[n]] = snaps[rows[n]]
    BY <2>1, CommittedStable DEF TypeOK, CommittedInv
  <2>3. CASE rows'[n] = rows[n]
    BY <2>2, <2>3
  <2>4. ASSUME NEW o \in Ops, CommitOk(o) PROVE snaps[rows[n]] \subseteq snaps'[rows'[n]]
    <3>1. /\ rows' = [rows EXCEPT ![name[o]] = o] /\ rows[name[o]] = base[o] /\ snaps' = snaps
          /\ base[o] # None => snaps[base[o]] \subseteq snaps[o]
      BY <2>1, <2>4 DEF CommitOk, CatalogMatches, End, JobInv, JobOf
    <3>2. CASE n = name[o]
      BY <2>1, <3>1, <3>2 DEF TypeOK
    <3>3. CASE n # name[o]
      BY <2>1, <2>3, <3>1, <3>3 DEF TypeOK
    <3>4. QED
      BY <3>2, <3>3
  <2>5. ASSUME NEW m \in Names \cup {request.name}, DropRow(m) PROVE rows'[n] = rows[n]
    BY <2>1, <2>5 DEF DropRow, TypeOK
  <2>6. QED
    BY <2>3, <2>4, <2>5, Changes
<1>2. QED
  BY <1>1, Invariance, PTL DEF Spec, NoSnapshotLost

\* remove_orphans deletes from a list it made earlier; no object of a published index
\* is on that list, not even one that an expired tombstone refers to as well.
THEOREM CollectorSparesPublished == Spec => ReachableStays
<1> DEFINE A == \A n \in Names : rows[n] # None =>
                  store \cap ({<<"meta", rows[n]>>} \cup References(rows[n])) \subseteq store'
<1>1. IInv /\ [Next]_vars => A
  <2> SUFFICES ASSUME IInv, [Next]_vars PROVE A
    OBVIOUS
  <2>1. CASE store \subseteq store'
    BY <2>1
  <2>2. ASSUME NEW x \in Objects, DeleteObject(x) PROVE A
    BY <2>2 DEF DeleteObject, IInv, CollectInv
  <2>3. QED
    BY <2>1, <2>2, Changes
<1>2. QED
  BY <1>1, Invariance, PTL DEF Spec, ReachableStays

=================================================================================
