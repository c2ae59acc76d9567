------------------------------ MODULE PageCache ------------------------------
(***************************************************************************)
(* The cache of decompressed Parquet pages (parquet/page_cache.rs).  A     *)
(* page has two lifetimes: its Arc, whose count says whether it is pinned, *)
(* and its buffer, which Arrow arrays keep after the Arc is gone and which *)
(* is charged to live_bytes until the last reference.  Lookup, insertion   *)
(* and resizing hold the mutex; readers drop their references without it,  *)
(* so that pins and live_bytes can fall while an insertion evicts.         *)
(***************************************************************************)
EXTENDS Naturals, Sequences, SequencesExt, FiniteSets, FiniteSetsExt

CONSTANTS Readers, Keys, Charge, Capacities, MaxBuffers
\* A key has at most one resident page and a reader at most one page, so that there are
\* never more buffers than that: the bound is never reached.
ChargeAssumption ==
    /\ Charge \in [Keys -> Nat \ {0}] /\ "free" \notin Keys
    /\ Capacities \subseteq Nat
    /\ Readers \cap {"free", "resize"} = {}
    /\ IsFiniteSet(Keys) /\ IsFiniteSet(Readers)
    /\ MaxBuffers \in Nat /\ MaxBuffers >= Cardinality(Keys) + Cardinality(Readers)

VARIABLES entries,  \* buffers eligible for lookup, least recently used first
          keyOf,    \* buffer |-> the key of its page, "free" when there is none
          hold,     \* what each reader has: a page, its buffer only, an own copy, a miss
          live,     \* live_bytes
          resident, \* resident_bytes
          capacity,
          lock      \* the mutex held across steps: by a reader, by set_capacity, or free
vars == <<entries, keyOf, hold, live, resident, capacity, lock>>

Buffers == 1..MaxBuffers
None == [how |-> "none", id |-> 0, key |-> "free"]
Resident(id) == \E n \in DOMAIN entries : entries[n] = id
HeldBy(id, h) == {r \in Readers : h[r].how \in {"page", "slice"} /\ h[r].id = id}
Pinned(id) == \E r \in Readers : hold[r].how = "page" /\ hold[r].id = id
\* The sum of a weight for each buffer, and of what the buffers in ids are charged for.
Total(weight) ==
    LET upTo[n \in 0..MaxBuffers] == IF n = 0 THEN 0 ELSE upTo[n - 1] + weight[n]
    IN  upTo[MaxBuffers]
Bytes(ids) == Total([id \in Buffers |-> IF id \in ids THEN Charge[keyOf[id]] ELSE 0])
\* The place of a key in the map, if it has one.
Entry(k) == {n \in DOMAIN entries : keyOf[entries[n]] = k}
TypeOK == /\ entries \in Seq(Buffers) /\ IsInjective(entries)
          /\ keyOf \in [Buffers -> Keys \cup {"free"}]
          /\ hold \in [Readers -> [how : {"none", "page", "slice", "own", "reading"},
                                  id : Buffers \cup {0}, key : Keys \cup {"free"}]]
          /\ live \in Nat /\ resident \in Nat /\ capacity \in Capacities
          /\ lock \in Readers \cup {"free", "resize"}
          /\ (lock \in Readers) => (hold[lock].how = "reading")

Init == /\ entries = <<>> /\ keyOf = [id \in Buffers |-> "free"] /\ hold = [r \in Readers |-> None]
        /\ live = 0 /\ resident = 0 /\ capacity \in Capacities /\ lock = "free"
Holds(r, how, id, k) == hold' = [hold EXCEPT ![r] = [how |-> how, id |-> id, key |-> k]]
ToBack(n) == entries' = Append(RemoveAt(entries, n), entries[n])
\* Buffers whose last reference goes away are freed, and TrackedPageBuffer::drop
\* takes their charge from live_bytes.
Freed(dropped) == /\ keyOf' = [id \in Buffers |-> IF id \in dropped THEN "free" ELSE keyOf[id]]
                  /\ live' = live - Bytes(dropped)

Get(r, k) ==
    /\ lock = "free" /\ hold[r].how = "none"
    /\ \/ \E n \in Entry(k) : ToBack(n) /\ Holds(r, "page", entries[n], k)
       \/ Entry(k) = {} /\ Holds(r, "reading", 0, k) /\ UNCHANGED entries
    /\ UNCHANGED <<keyOf, live, resident, capacity, lock>>
\* The page was read and decompressed outside of the mutex.
Insert(r) ==
    LET k == hold[r].key IN
    /\ lock = "free" /\ hold[r].how = "reading"
    /\ \/ \E n \in Entry(k) : ToBack(n) /\ Holds(r, "page", entries[n], k) /\ UNCHANGED lock
       \/ Entry(k) = {} /\ Charge[k] > capacity /\ Holds(r, "own", 0, k) /\ UNCHANGED <<entries, lock>>
       \/ Entry(k) = {} /\ Charge[k] <= capacity /\ lock' = r /\ UNCHANGED <<entries, hold>>
    /\ UNCHANGED <<keyOf, live, resident, capacity>>
Unpinned == {n \in DOMAIN entries : ~Pinned(entries[n])}
\* Mutant: the charge of an evicted page leaves live_bytes although arrays keep its buffer.
EvictOneForgets ==
    LET n == Min(Unpinned)
        id == entries[n]
    IN  /\ entries' = SubSeq(entries, n + 1, Len(entries)) \o SubSeq(entries, 1, n - 1)
        /\ resident' = resident - Charge[keyOf[id]]
        /\ Freed({id})
\* Pinned entries in front of the one that goes move to the back.  The scan is one step:
\* references dropped during it only change which unpinned entry is found first.
EvictOneUnpinned ==
    LET n == Min(Unpinned)
        id == entries[n]
    IN  /\ entries' = SubSeq(entries, n + 1, Len(entries)) \o SubSeq(entries, 1, n - 1)
        /\ resident' = resident - Charge[keyOf[id]]
        /\ Freed(IF HeldBy(id, hold) = {} THEN {id} ELSE {})
\* Mutant: only what is eligible for lookup counts.
FitsResident(k) == resident + Charge[k] <= capacity
Fits(k) == live + Charge[k] <= capacity
InsertStep(r) ==
    LET k == hold[r].key IN
    /\ lock = r
    /\ \/ ~Fits(k) /\ Unpinned # {} /\ EvictOneUnpinned /\ UNCHANGED <<hold, lock>>
       \/ ~Fits(k) /\ Unpinned = {} /\ Holds(r, "own", 0, k) /\ lock' = "free"
          /\ UNCHANGED <<entries, keyOf, live, resident>>
       \/ /\ Fits(k)
          /\ LET id == Min({i \in Buffers : keyOf[i] = "free"}) IN
             /\ keyOf' = [keyOf EXCEPT ![id] = k] /\ entries' = Append(entries, id)
             /\ Holds(r, "page", id, k)
          /\ live' = live + Charge[k] /\ resident' = resident + Charge[k] /\ lock' = "free"
    /\ UNCHANGED capacity
RetireAll == /\ entries' = <<>> /\ resident' = 0
             /\ Freed({id \in Buffers : Resident(id) /\ HeldBy(id, hold) = {}})
SetCapacity(c) ==
    /\ lock = "free" /\ capacity' = c
    /\ IF c = 0 THEN RetireAll /\ UNCHANGED lock
       ELSE lock' = "resize" /\ UNCHANGED <<entries, keyOf, live, resident>>
    /\ UNCHANGED hold
ResizeStep ==
    /\ lock = "resize"
    /\ IF live > capacity /\ Unpinned # {} THEN EvictOneUnpinned /\ UNCHANGED lock
       ELSE lock' = "free" /\ UNCHANGED <<entries, keyOf, live, resident>>
    /\ UNCHANGED <<hold, capacity>>
Clear == lock = "free" /\ RetireAll /\ UNCHANGED <<hold, capacity, lock>>

\* The decoder makes an Arrow array over the page's bytes and drops the page.
Slice(r) == hold[r].how = "page" /\ Holds(r, "slice", hold[r].id, hold[r].key)
            /\ UNCHANGED <<entries, keyOf, live, resident, capacity, lock>>
Drop(r) ==
    /\ hold[r].how \in {"page", "slice", "own"}
    /\ hold' = [hold EXCEPT ![r] = None]
    /\ IF hold[r].how # "own" /\ ~Resident(hold[r].id) /\ HeldBy(hold[r].id, hold') = {}
       THEN Freed({hold[r].id}) ELSE UNCHANGED <<keyOf, live>>
    /\ UNCHANGED <<entries, resident, capacity, lock>>

Next == \/ \E r \in Readers : \/ \E k \in Keys : Get(r, k)
                              \/ Insert(r) \/ InsertStep(r) \/ Slice(r) \/ Drop(r)
        \/ \E c \in Capacities : SetCapacity(c)
        \/ ResizeStep \/ Clear
\* A thread that holds the mutex runs; readers need not ever drop what they have.
Spec == Init /\ [][Next]_vars /\ WF_vars(ResizeStep) /\ \A r \in Readers : WF_vars(InsertStep(r))
-----------------------------------------------------------------------------
\* live_bytes is what the buffers that something still refers to are charged for, and
\* resident_bytes what those in the cache are: nothing leaks, nothing is taken off twice.
Accounted ==
    /\ \A id \in Buffers : (keyOf[id] # "free") <=> (Resident(id) \/ HeldBy(id, hold) # {})
    /\ live = Bytes({id \in Buffers : keyOf[id] # "free"})
    /\ resident = Bytes({id \in Buffers : Resident(id)})
\* The budget is hard for admissions: whatever pages and arrays readers keep, a page is
\* admitted only if all that is alive fits with it.
AdmitsWithinCapacity == (live' > live) => (live' <= capacity)
\* A page has one place in the cache, however many readers missed it at once.
CanonicalPage == \A m, n \in DOMAIN entries : (keyOf[entries[m]] = keyOf[entries[n]]) => (m = n)
\* Cache pressure never takes a page a reader has; only clearing and capacity 0 do.
PinnedStay == \A r \in Readers :
    (hold[r].how = "page" /\ hold'[r] = hold[r] /\ Resident(hold[r].id) /\ ~Resident(hold[r].id)')
        => (entries' = <<>> /\ lock = "free")
\* Eviction ends: the mutex is given back, although readers may keep what they have for ever.
MutexFreed == (lock # "free") ~> (lock = "free")
=============================================================================
