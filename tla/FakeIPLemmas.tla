---------------------------- MODULE FakeIPLemmas ----------------------------
(***************************************************************************)
(* The inductive invariant of the FakeIP store, and that each of its steps *)
(* keeps it, for any callers, domains, range of addresses and number of    *)
(* failures, Resets and crashes.                                           *)
(***************************************************************************)
EXTENDS FakeIP, TLAPS

Disks == [domain : [Addrs -> Domains \cup {NoDomain}], addr : [Domains -> Addrs \cup {Unset}],
          meta : 0..N \cup {Unset}]

\* The domain of an address in the batch being written or else on disk, under
\* what is pending.
Beneath(a) == IF writing.domain[a] # NoDomain THEN writing.domain[a] ELSE disk.domain[a]

\* Where Create holds addressAccess.
Locked == {"diskagain", "meta"} \cup PastCheck

-----------------------------------------------------------------------------
(***************************************************************************)
(* The invariant, but for the contents of the batches.                     *)
(***************************************************************************)

\* Who holds the locks, and what the locals of Create are.
LockShape ==
    /\ flusher = Nobody <=> flush = "none"
    /\ flush \in {"none", "deleting"} => writing = newPendingWrites
    /\ \A p \in Procs : pc[p] \in Locked => holder = p
    /\ closing # "no" => snapshot \in 0..N
    /\ sealed => holder = Nobody /\ closing \in {"flushing", "flushed", "closed"}

CallShape ==
    \A p \in Procs :
        /\ pc[p] # "idle" => dom[p] \in Domains
        /\ pc[p] \in {"olddisk", "queue"} => addr[p] \in Addrs

\* The address that Start would go on from once everything is written: pending,
\* being written or on disk, unless that is being deleted.
Metadata ==
    IF pending.meta # Unset THEN pending.meta
    ELSE IF writing.meta # Unset THEN writing.meta
    ELSE IF flush = "deleting" THEN Unset ELSE disk.meta

MetadataKnown ==
    \/ Metadata \in {current, snapshot}
    \/ Metadata = Unset /\ \A d \in Domains : given[d] = Unset

\* Where Create has moved on to an address and not yet saved it.
Allocating == PastCheck \cup {"meta"}

\* What Close saved, or a Create after it, unless a Create has yet to save.
MetadataSaved ==
    (closing \notin {"no", "snapped"} /\ \A p \in Procs : pc[p] \notin Allocating) => MetadataKnown

\* While no write fails: what Store.Close and CacheFile.Close have done.
CloseShape ==
    /\ flush # "failed"
    /\ (flush = "written" /\ writing.meta # Unset) => disk.meta = writing.meta
    /\ sealed => pending.count = 0
    /\ closing = "closed" => flush \notin {"writing", "deleting"}
    /\ MetadataSaved

\* What does not depend on the contents of the batches and the database.
Base == TypeOK /\ PendingIsFlushed /\ LockShape /\ CallShape /\ failures \in Nat
Shape == Base /\ (failures = 0 => CloseShape)

-----------------------------------------------------------------------------
(***************************************************************************)
(* The contents of the batches and of the database.                        *)
(***************************************************************************)

\* A batch has a record in both directions or in none.
Paired(batch) == \A a \in Addrs, d \in Domains : batch.domain[a] = d <=> batch.addr[d] = a

\* A batch that knows something of a domain has a newer domain for the address
\* the domain has underneath.
WritingCovers ==
    \A a \in Addrs, d \in Domains :
        (disk.domain[a] = d /\ writing.addr[d] # Unset) => writing.domain[a] # NoDomain
PendingCovers ==
    \A a \in Addrs, d \in Domains :
        (Beneath(a) = d /\ pending.addr[d] # Unset) => pending.domain[a] # NoDomain

\* What was written is on disk.
WrittenOnDisk ==
    flush = "written" =>
        \A a \in Addrs : writing.domain[a] # NoDomain => disk.domain[a] = writing.domain[a]

\* What Create allocated is visible, and does not rest on what Reset deletes.
GivenIsLoaded == \A d \in Domains : given[d] # Unset => FakeIPLoad(given[d]) = d
GivenIsPending ==
    flush = "deleting" => \A d \in Domains : given[d] # Unset => pending.domain[given[d]] = d

LayerInv ==
    /\ Paired(pending) /\ Paired(writing) /\ WritingCovers /\ PendingCovers
    /\ WrittenOnDisk /\ GivenIsLoaded /\ GivenIsPending

\* What a Create that holds the lock has found is still so.
CallKnows(p) ==
    /\ pc[p] = "diskagain" => CachedAddress(dom[p]) = Unset
    /\ pc[p] \in PastCheck => \A a \in Addrs : FakeIPLoad(a) # dom[p]
    /\ pc[p] = "olddisk" => CachedDomain(addr[p]) = NoDomain
    /\ pc[p] = "queue" =>
         /\ FakeIPLoad(addr[p]) \in {NoDomain, old[p]}
         /\ old[p] # NoDomain => \A a \in Addrs : FakeIPLoad(a) = old[p] => a = addr[p]

\* As long as no write failed, a domain whose address has a newer domain is
\* known to have another one or none.
Marked ==
    \A a \in Addrs, d \in Domains :
        /\ (disk.domain[a] = d /\ writing.domain[a] # NoDomain) => writing.addr[d] # Unset
        /\ (Beneath(a) = d /\ pending.domain[a] # NoDomain) => pending.addr[d] # Unset

\* What the contents of the batches and the database are.
Content ==
    /\ DiskAgrees
    /\ ~torn => LayerInv /\ \A p \in Procs : CallKnows(p)
    /\ (failures = 0 /\ ~torn) => Marked

Inv == Shape /\ Content

\* What Store.Close and CacheFile.Close do besides their Flushes.
CloseStep == StoreClose \/ CloseSaves \/ CacheFileClose \/ DatabaseCloses

\* Nothing but a crash takes CacheFile.Close back.
ClosedStays == closing \in Closed => closing' \in Closed

-----------------------------------------------------------------------------
(***************************************************************************)
(* Batches and their counts.                                               *)
(***************************************************************************)

\* How sets of addresses are counted.  The lemmas have this as a hypothesis, so
\* that only FakeIPProofs, where it is proved, needs the theorems about finite
\* sets.
Counting ==
    /\ \A S \in SUBSET Addrs : Cardinality(S) \in 0..N /\ (Cardinality(S) = 0 <=> S = {})
    /\ \A a \in Addrs : Cardinality({a}) = 1
    /\ \A S, T \in SUBSET Addrs :
         S \cap T = {} => Cardinality(S \cup T) = Cardinality(S) + Cardinality(T)

\* The special values are not addresses.
LEMMA Apart ==
    /\ N \in Nat \ {0} /\ Addrs \subseteq Nat
    /\ Unset \notin Addrs /\ Invalid \notin Addrs /\ Unset # Invalid /\ NoDomain \notin Domains
    /\ Unset \notin 0..N
  BY FakeIPAssumption DEF Addrs, Unset, Invalid

\* The fields of a batch.
LEMMA Fields ==
    ASSUME NEW b \in Batches
    PROVE  /\ b.domain \in [Addrs -> Domains \cup {NoDomain}]
           /\ b.addr \in [Domains -> Addrs \cup {Unset, Invalid}]
           /\ b.meta \in 0..N \cup {Unset} /\ b.count \in 0..N + 1
           /\ b = [domain |-> b.domain, addr |-> b.addr, meta |-> b.meta, count |-> b.count]
  BY Zenon DEF Batches

\* The records of a batch are at most as many as the addresses.
LEMMA RecordedFinite ==
    ASSUME Counting, NEW b
    PROVE  Recorded(b) \in SUBSET Addrs /\ Cardinality(Recorded(b)) \in 0..N
<1>1. Recorded(b) \in SUBSET Addrs
  BY Zenon DEF Recorded
<1> QED
  BY <1>1, Zenon DEF Counting

\* One address more.
LEMMA CountsOneMore ==
    ASSUME Counting, NEW S \in SUBSET Addrs, NEW a \in Addrs, a \notin S
    PROVE  Cardinality(S \cup {a}) = Cardinality(S) + 1
<1>1. S \cap {a} = {} /\ {a} \in SUBSET Addrs /\ Cardinality({a}) = 1
  BY Zenon DEF Counting
<1> QED
  BY <1>1 DEF Counting

\* The entries of a batch.
Entries(b) == Cardinality(Recorded(b)) + (IF b.meta # Unset THEN 1 ELSE 0)

\* There is at most one entry for each address, and one for the metadata.
LEMMA EntriesBounded ==
    ASSUME Counting, NEW b
    PROVE  Entries(b) \in 0..N + 1
  BY RecordedFinite, Apart DEF Entries

\* A batch that counts nothing holds nothing.
LEMMA CountsNothing ==
    ASSUME Counting, NEW b \in Batches, b.count = Entries(b), b.count = 0
    PROVE  b.meta = Unset /\ \A a \in Addrs : b.domain[a] = NoDomain
<1>1. Cardinality(Recorded(b)) = 0 /\ b.meta = Unset
  BY RecordedFinite DEF Entries
<1>2. Recorded(b) = {}
  BY <1>1, RecordedFinite, Zenon DEF Counting
<1> QED
  BY <1>1, <1>2, Zenon DEF Recorded

\* The empty batch.
LEMMA EmptyBatch ==
    /\ newPendingWrites \in Batches /\ newPendingWrites.count = 0
    /\ newPendingWrites.meta = Unset
    /\ \A a \in Addrs : newPendingWrites.domain[a] = NoDomain
    /\ \A d \in Domains : newPendingWrites.addr[d] = Unset
<1>1. newPendingWrites \in Batches
  BY Apart DEF newPendingWrites, NoRecords, Batches
<1> QED
  BY <1>1, Zenon DEF newPendingWrites, NoRecords

\* It has no entries.
LEMMA EmptyCounts ==
    ASSUME Counting, NEW b, b = newPendingWrites
    PROVE  b.count = Cardinality(Recorded(b)) + (IF b.meta # Unset THEN 1 ELSE 0)
<1>1. Recorded(b) = {} /\ b.meta = Unset /\ b.count = 0
  BY EmptyBatch, Zenon DEF Recorded
<1>2. Cardinality({}) = 0
  BY Zenon DEF Counting
<1> QED
  BY <1>1, <1>2

\* The empty database.
LEMMA EmptyDisk ==
    /\ NoRecords \in Disks /\ NoRecords.meta = Unset
    /\ \A a \in Addrs : NoRecords.domain[a] = NoDomain
    /\ \A d \in Domains : NoRecords.addr[d] = Unset
  BY Zenon DEF NoRecords, Disks

\* What is queued.
LEMMA Enqueued ==
    ASSUME Counting, TypeOK, NEW b \in Batches, NEW added \in BOOLEAN, EnqueueLocked(b, added),
           PendingIsFlushed, b.count = pending.count, loop' = loop, ClosedStays,
           added => Entries(b) = pending.count + 1,
           ~added => Entries(b) = pending.count
    PROVE  /\ pending' \in Batches /\ pending'.domain = b.domain
           /\ pending'.addr = b.addr /\ pending'.meta = b.meta
           /\ timer' \in BOOLEAN /\ PendingIsFlushed'
<1> DEFINE n == b.count + (IF added THEN 1 ELSE 0)
<1>1. /\ pending' = [domain |-> b.domain, addr |-> b.addr, meta |-> b.meta, count |-> n]
      /\ timer' = (timer \/ (added /\ b.count = 0 /\ FlushInterval > 0))
  <2>1. CASE added
    BY <2>1, Fields, Zenon DEF EnqueueLocked, Batches
  <2>2. CASE ~added
    BY <2>2, Fields DEF EnqueueLocked
  <2> QED
    BY <2>1, <2>2, Zenon
<1>2. n = Entries(b)
  BY Fields
<1>3. /\ pending'.domain = b.domain /\ pending'.addr = b.addr /\ pending'.meta = b.meta
      /\ pending'.count = Entries(b)
  BY <1>1, <1>2, Zenon
<1>4. pending' \in Batches
  <2>1. n \in 0..N + 1
    BY <1>2, EntriesBounded, Zenon
  <2> HIDE DEF n
  <2> QED
    BY <1>1, <2>1, Fields, Zenon DEF Batches
<1>5. timer' \in BOOLEAN
  BY <1>1, Zenon DEF TypeOK
<1>6. pending'.count = Cardinality(Recorded(pending')) + (IF pending'.meta # Unset THEN 1 ELSE 0)
  BY <1>3, Zenon DEF Entries, Recorded
<1>7. ASSUME pending'.count > 0, FlushInterval > 0, closing' \notin Closed
      PROVE  timer' \/ loop' = "flush"
  <2>1. CASE pending.count > 0
    BY <1>1, <1>7, <2>1, Zenon DEF PendingIsFlushed, ClosedStays
  <2>2. CASE ~(pending.count > 0)
    <3>1. added /\ b.count = 0
      BY <1>1, <1>3, <1>7, <2>2, Fields
    <3> QED
      BY <1>1, <1>7, <3>1, Zenon
  <2> QED
    BY <2>1, <2>2, Zenon
<1>8. PendingIsFlushed'
  BY <1>6, <1>7, Zenon DEF PendingIsFlushed
<1> QED
  BY <1>3, <1>4, <1>5, <1>8, Zenon

\* The metadata that is queued.
LEMMA MetaQueued ==
    ASSUME Counting, TypeOK, PendingIsFlushed, NEW m \in 0..N, SaveMetadataAsync(m), loop' = loop,
           ClosedStays
    PROVE  /\ pending' \in Batches /\ pending'.domain = pending.domain
           /\ pending'.addr = pending.addr /\ pending'.meta = m
           /\ timer' \in BOOLEAN /\ PendingIsFlushed'
<1> DEFINE b == [pending EXCEPT !.meta = m]
<1>1. pending \in Batches
  BY Zenon DEF TypeOK
<1>2. /\ b \in Batches /\ b.domain = pending.domain /\ b.addr = pending.addr /\ b.meta = m
      /\ b.count = pending.count
  BY <1>1, Zenon DEF Batches
<1>3. pending.count = Entries(pending) /\ pending.count \in Nat
  BY <1>1, Fields, Apart DEF PendingIsFlushed, Entries
<1>4. Cardinality(Recorded(b)) = Cardinality(Recorded(pending)) /\ m # Unset
  BY <1>2, Apart, Zenon DEF Recorded
<1>5. Entries(b) = pending.count + (IF pending.meta = Unset THEN 1 ELSE 0)
  BY <1>2, <1>3, <1>4, RecordedFinite DEF Entries
<1>6. EnqueueLocked(b, pending.meta = Unset)
  BY Zenon DEF SaveMetadataAsync
<1> HIDE DEF b
<1>7. (pending.meta = Unset) \in BOOLEAN
  OBVIOUS
<1>8. /\ pending.meta = Unset => Entries(b) = pending.count + 1
      /\ ~(pending.meta = Unset) => Entries(b) = pending.count
  BY <1>3, <1>5
<1>9. /\ pending' \in Batches /\ pending'.domain = b.domain
      /\ pending'.addr = b.addr /\ pending'.meta = b.meta
      /\ timer' \in BOOLEAN /\ PendingIsFlushed'
  BY <1>2, <1>6, <1>7, <1>8, Enqueued, Zenon
<1> QED
  BY <1>2, <1>9, Zenon

\* The record that is queued.
LEMMA RecordQueued ==
    ASSUME Counting, TypeOK, PendingIsFlushed, NEW a \in Addrs, NEW d \in Domains,
           NEW o \in Domains \cup {NoDomain}, QueueFakeIP(a, d, o), loop' = loop, ClosedStays
    PROVE  LET before == IF o # NoDomain THEN o ELSE pending.domain[a]
           IN  /\ pending' \in Batches /\ pending'.meta = pending.meta
               /\ pending'.domain = [pending.domain EXCEPT ![a] = d]
               /\ \A x \in Domains : pending'.addr[x] = IF x = d THEN a
                                                        ELSE IF x = before THEN Invalid
                                                        ELSE pending.addr[x]
               /\ timer' \in BOOLEAN /\ PendingIsFlushed'
<1> DEFINE before == IF o # NoDomain THEN o ELSE pending.domain[a]
           marked == IF before \notin {NoDomain, d} THEN [pending.addr EXCEPT ![before] = Invalid]
                                                    ELSE pending.addr
           b == [pending EXCEPT !.domain[a] = d, !.addr = [marked EXCEPT ![d] = a]]
           new == pending.domain[a] = NoDomain
<1>1. pending \in Batches
  BY Zenon DEF TypeOK
<1>2. pending.count = Entries(pending) /\ pending.count \in Nat
  BY <1>1, Fields, Apart DEF PendingIsFlushed, Entries
<1>3. marked \in [Domains -> Addrs \cup {Unset, Invalid}]
  BY <1>1, Fields, Zenon
<1>4. \A x \in Domains : [marked EXCEPT ![d] = a][x] = IF x = d THEN a
                             ELSE IF x = before THEN Invalid ELSE pending.addr[x]
  BY <1>1, Fields, Apart, Zenon
<1>5. [marked EXCEPT ![d] = a] \in [Domains -> Addrs \cup {Unset, Invalid}]
  BY <1>3, Zenon
<1> HIDE DEF marked
<1>6. /\ b \in Batches /\ b.domain = [pending.domain EXCEPT ![a] = d]
      /\ b.addr = [marked EXCEPT ![d] = a] /\ b.meta = pending.meta /\ b.count = pending.count
  BY <1>1, <1>5, Zenon DEF Batches
<1>7. EnqueueLocked(b, new)
  BY Zenon DEF QueueFakeIP, marked
<1> HIDE DEF b
<1>8. Recorded(b) = Recorded(pending) \cup {a} /\ (new <=> a \notin Recorded(pending))
  BY <1>1, <1>6, Fields, Apart DEF Recorded
<1>9. /\ new => Cardinality(Recorded(b)) = Cardinality(Recorded(pending)) + 1
      /\ ~new => Cardinality(Recorded(b)) = Cardinality(Recorded(pending))
  <2>1. CASE new
    BY <1>8, <2>1, CountsOneMore, RecordedFinite, Zenon
  <2>2. CASE ~new
    BY <1>8, <2>2, Zenon
  <2> QED
    BY <2>1, <2>2, Zenon
<1>10. /\ new => Entries(b) = pending.count + 1
       /\ ~new => Entries(b) = pending.count
  BY <1>2, <1>6, <1>9, RecordedFinite DEF Entries
<1>11. new \in BOOLEAN
  OBVIOUS
<1> HIDE DEF new
<1>12. /\ pending' \in Batches /\ pending'.domain = b.domain
       /\ pending'.addr = b.addr /\ pending'.meta = b.meta
       /\ timer' \in BOOLEAN /\ PendingIsFlushed'
  BY <1>6, <1>7, <1>10, <1>11, Enqueued, Zenon
<1>13. \A x \in Domains : pending'.addr[x] = IF x = d THEN a
                             ELSE IF x = before THEN Invalid ELSE pending.addr[x]
  <2>1. pending'.addr = [marked EXCEPT ![d] = a]
    BY <1>6, <1>12, Zenon
  <2> HIDE DEF before
  <2> QED
    BY <1>4, <2>1, Zenon
<1> QED
  BY <1>6, <1>12, <1>13, Zenon

\* The batch after a failed write has what was queued since and, where that says
\* nothing, what could not be written.
LEMMA Restored ==
    ASSUME Counting, TypeOK, PendingIsFlushed,
           NEW first \in Picks(writing, Restorable(pending, Recorded(writing)))
    PROVE  LET kept == {first[d] : d \in DOMAIN first}
               r == restored(first)
           IN  /\ r \in Batches /\ r.count = Entries(r)
               /\ kept \subseteq Restorable(pending, Recorded(writing))
               /\ DOMAIN first \subseteq Domains
               /\ r.domain = [a \in Addrs |-> IF a \in kept THEN writing.domain[a] ELSE pending.domain[a]]
               /\ r.addr = [d \in Domains |-> IF d \in DOMAIN first THEN first[d] ELSE pending.addr[d]]
               /\ r.meta = IF pending.meta # Unset THEN pending.meta ELSE writing.meta
<1> DEFINE R == Restorable(pending, Recorded(writing))
           kept == {first[d] : d \in DOMAIN first}
           put == restoreRecords(pending, first)
           r == restored(first)
           newdomain == [a \in Addrs |-> IF a \in kept THEN writing.domain[a] ELSE pending.domain[a]]
           newaddr == [d \in Domains |-> IF d \in DOMAIN first THEN first[d] ELSE pending.addr[d]]
           newmeta == IF pending.meta # Unset THEN pending.meta ELSE writing.meta
           n == pending.count + Cardinality(kept)
           more == IF pending.meta = Unset /\ writing.meta # Unset THEN 1 ELSE 0
<1>1. pending \in Batches /\ writing \in Batches
  BY Zenon DEF TypeOK
<1>2. /\ first \in [{writing.domain[a] : a \in R} -> R]
      /\ \A d \in DOMAIN first : writing.domain[first[d]] = d
  BY Zenon DEF Picks
<1>3. /\ R \subseteq Addrs
      /\ \A a \in R : pending.domain[a] = NoDomain /\ writing.domain[a] # NoDomain
  BY Zenon DEF Restorable, Recorded
<1>4. kept \subseteq R
  BY <1>2, Zenon
<1>5. DOMAIN first \subseteq Domains
  BY <1>1, <1>2, <1>3, Fields
<1>6. newdomain \in [Addrs -> Domains \cup {NoDomain}]
  BY <1>1, Fields
<1>7. newaddr \in [Domains -> Addrs \cup {Unset, Invalid}]
  BY <1>1, <1>2, <1>3, Fields
<1>8. newmeta \in 0..N \cup {Unset}
  BY <1>1, Fields, Zenon
<1>9. kept \in SUBSET Addrs /\ Cardinality(kept) \in Nat
  <2>1. kept \in SUBSET Addrs
    BY <1>3, <1>4, Zenon
  <2> HIDE DEF kept
  <2> QED
    BY <2>1, Apart DEF Counting
<1>10. put = [domain |-> newdomain, addr |-> newaddr, meta |-> pending.meta, count |-> n]
  BY Zenon DEF restoreRecords
<1>11. pending.count \in Nat
  BY <1>1, Fields, Apart
<1>12. r = [domain |-> newdomain, addr |-> newaddr, meta |-> newmeta, count |-> n + more]
  <2> HIDE DEF newdomain, newaddr, n, put
  <2>1. CASE pending.meta = Unset /\ writing.meta # Unset
    <3>1. r = [put EXCEPT !.meta = writing.meta, !.count = @ + 1]
      BY <2>1, Zenon DEF restored, put
    <3>2. newmeta = writing.meta /\ more = 1
      BY <2>1, Zenon
    <3> HIDE DEF r, newmeta, more
    <3> QED
      BY <3>1, <3>2, <1>10, Zenon
  <2>2. CASE ~(pending.meta = Unset /\ writing.meta # Unset)
    <3>1. r = put
      BY <2>2, Zenon DEF restored, put
    <3>2. newmeta = pending.meta /\ more = 0 /\ n \in Nat
      BY <2>2, <1>9, <1>11 DEF n
    <3> HIDE DEF r, newmeta, more
    <3> QED
      BY <3>1, <3>2, <1>10
  <2> QED
    BY <2>1, <2>2, Zenon
<1>13. /\ r.domain = newdomain /\ r.addr = newaddr /\ r.meta = newmeta /\ r.count = n + more
  <2> HIDE DEF r, newdomain, newaddr, newmeta, n, more
  <2> QED
    BY <1>12, Zenon
<1>14. Recorded(r) = Recorded(pending) \cup kept /\ Recorded(pending) \cap kept = {}
  <2>1. \A a \in Addrs : r.domain[a] = IF a \in kept THEN writing.domain[a] ELSE pending.domain[a]
    BY <1>13, Zenon
  <2> HIDE DEF r, kept, R
  <2> QED
    BY <2>1, <1>3, <1>4, Zenon DEF Recorded
<1>15. Cardinality(Recorded(r)) = Cardinality(Recorded(pending)) + Cardinality(kept)
  <2> HIDE DEF r, kept
  <2> QED
    BY <1>9, <1>14, RecordedFinite, Zenon DEF Counting
<1>16. pending.count = Cardinality(Recorded(pending)) + (IF pending.meta # Unset THEN 1 ELSE 0)
  BY Zenon DEF PendingIsFlushed
<1>17. r.count = Entries(r)
  <2>1. r.meta = newmeta
    BY <1>13, Zenon
  <2>2. (IF r.meta # Unset THEN 1 ELSE 0) = (IF pending.meta # Unset THEN 1 ELSE 0) + more
    BY <2>1
  <2>3. r.count = pending.count + Cardinality(kept) + more
    BY <1>13, Zenon
  <2> HIDE DEF r, newmeta, kept, more
  <2>4. more \in Nat
    BY Zenon DEF more
  <2> QED
    BY <1>9, <1>15, <1>16, <2>2, <2>3, <2>4, RecordedFinite DEF Entries
<1>18. r \in Batches
  <2>1. n + more \in 0..N + 1
    BY <1>13, <1>17, EntriesBounded
  <2> HIDE DEF newdomain, newaddr, newmeta, n, more, r
  <2> QED
    BY <2>1, <1>6, <1>7, <1>8, <1>12, Zenon DEF Batches
<1> QED
  BY <1>4, <1>5, <1>13, <1>17, <1>18, Zenon

\* What the end of a Flush does to the batches.
LEMMA FlushEnded ==
    ASSUME Counting, TypeOK, PendingIsFlushed, NEW f, FlushEnd(f), loop = "flush" => loop' = "flush",
           ClosedStays
    PROVE  /\ pending' \in Batches /\ writing' = newPendingWrites /\ timer' \in BOOLEAN
           /\ flusher' = Nobody /\ flush' = "none" /\ flusher = f
           /\ PendingIsFlushed'
<1>1. pending \in Batches /\ timer \in BOOLEAN
  BY Zenon DEF TypeOK
<1>2. writing' = newPendingWrites /\ flusher' = Nobody /\ flush' = "none" /\ flusher = f
  BY Zenon DEF FlushEnd
<1>3. CASE flush = "written" /\ UNCHANGED <<pending, timer>>
  <2>1. pending' = pending /\ timer' = timer
    BY <1>3, Zenon
  <2>2. PendingIsFlushed'
    BY <2>1, Zenon DEF PendingIsFlushed, Recorded, ClosedStays
  <2> QED
    BY <1>1, <1>2, <2>1, <2>2, Zenon
<1>4. ASSUME NEW first \in Picks(writing, Restorable(pending, Recorded(writing))),
             restorePendingLocked(first)
      PROVE  pending' \in Batches /\ timer' \in BOOLEAN /\ PendingIsFlushed'
  <2>1. /\ pending' = restored(first)
        /\ timer' = (timer \/ (pending.count = 0 /\ restored(first).count > 0 /\ FlushInterval > 0))
    BY <1>4, Zenon DEF restorePendingLocked
  <2>2. restored(first) \in Batches /\ restored(first).count = Entries(restored(first))
    BY Restored, Zenon
  <2>3. pending'.count = Cardinality(Recorded(pending')) + (IF pending'.meta # Unset THEN 1 ELSE 0)
    BY <2>1, <2>2, Zenon DEF Entries, Recorded
  <2>4. timer' \in BOOLEAN
    BY <1>1, <2>1, Zenon
  <2>5. ASSUME pending'.count > 0, FlushInterval > 0, closing' \notin Closed
        PROVE  timer' \/ loop' = "flush"
    <3>1. CASE pending.count = 0
      BY <2>1, <2>5, <3>1, Zenon
    <3>2. CASE pending.count # 0
      <4>1. pending.count > 0
        BY <3>2, <1>1, Fields, Apart
      <4> QED
        BY <4>1, <2>1, <2>5, Zenon DEF PendingIsFlushed, ClosedStays
    <3> QED
      BY <3>1, <3>2, Zenon
  <2>6. PendingIsFlushed'
    BY <2>3, <2>5, Zenon DEF PendingIsFlushed
  <2> QED
    BY <2>1, <2>2, <2>4, <2>6, Zenon
<1> QED
  BY <1>2, <1>3, <1>4, Zenon DEF FlushEnd

\* What the begin of a Flush does to the batches.
LEMMA FlushBegun ==
    ASSUME Counting, TypeOK, PendingIsFlushed, NEW f, FlushBegin(f)
    PROVE  /\ pending' \in Batches /\ writing' \in Batches /\ PendingIsFlushed'
           /\ pending'.count = 0
<1>1. pending \in Batches /\ writing \in Batches
  BY Zenon DEF TypeOK
<1>2. CASE pending.count = 0 /\ UNCHANGED <<pending, writing, flusher, flush>>
  <2>1. pending' = pending /\ writing' = writing
    BY <1>2, Zenon
  <2>2. PendingIsFlushed'
    BY <1>2, <2>1 DEF PendingIsFlushed, Recorded
  <2> QED
    BY <1>1, <1>2, <2>1, <2>2, Zenon
<1>3. CASE pending.count # 0 /\ writing' = pending /\ pending' = newPendingWrites
  <2>1. pending' \in Batches /\ pending'.count = 0
    BY <1>3, EmptyBatch, Zenon
  <2>2. PendingIsFlushed'
    BY <1>3, <2>1, EmptyCounts DEF PendingIsFlushed, Recorded
  <2> QED
    BY <1>1, <1>3, <2>1, <2>2, Zenon
<1> QED
  BY <1>2, <1>3, Zenon DEF FlushBegin

\* The database after the transaction.
LEMMA Written ==
    ASSUME TypeOK, NEW last \in Picks(writing, Recorded(writing)),
           disk' = writePending(disk, writing, last)
    PROVE  /\ disk' \in Disks
           /\ \A a \in Addrs : disk'.domain[a] = Beneath(a)
           /\ DOMAIN last = {writing.domain[a] : a \in Recorded(writing)}
           /\ \A d \in DOMAIN last : last[d] \in Recorded(writing) /\ writing.domain[last[d]] = d
           /\ \A d \in Domains : disk'.addr[d] =
                IF d \in DOMAIN last THEN last[d]
                ELSE IF disk.addr[d] \in Recorded(writing) /\ disk.domain[disk.addr[d]] = d
                     THEN Unset ELSE disk.addr[d]
           /\ disk'.meta = IF writing.meta # Unset THEN writing.meta ELSE disk.meta
<1> DEFINE S == Recorded(writing)
           newdomain == [a \in Addrs |-> IF a \in S THEN writing.domain[a] ELSE disk.domain[a]]
           newaddr == [d \in Domains |->
                IF d \in DOMAIN last THEN last[d]
                ELSE IF disk.addr[d] \in S /\ disk.domain[disk.addr[d]] = d
                     THEN Unset ELSE disk.addr[d]]
           newmeta == IF writing.meta # Unset THEN writing.meta ELSE disk.meta
           put == putRecords(disk, writing, S, last)
<1>1. writing \in Batches /\ disk \in Disks
  BY Zenon DEF TypeOK, Disks
<1>2. /\ disk.domain \in [Addrs -> Domains \cup {NoDomain}]
      /\ disk.addr \in [Domains -> Addrs \cup {Unset}] /\ disk.meta \in 0..N \cup {Unset}
  BY <1>1, Zenon DEF Disks
<1>3. /\ last \in [{writing.domain[a] : a \in S} -> S]
      /\ \A d \in DOMAIN last : writing.domain[last[d]] = d
  BY Zenon DEF Picks
<1>4. S \subseteq Addrs
  BY Zenon DEF Recorded
<1>5. newdomain \in [Addrs -> Domains \cup {NoDomain}]
  BY <1>1, <1>2, Fields, Zenon
<1>6. newaddr \in [Domains -> Addrs \cup {Unset}]
  BY <1>2, <1>3, <1>4, Zenon
<1>7. newmeta \in 0..N \cup {Unset}
  BY <1>1, <1>2, Fields, Zenon
<1>8. put = [domain |-> newdomain, addr |-> newaddr, meta |-> disk.meta]
  BY Zenon DEF putRecords
<1>9. disk' = [domain |-> newdomain, addr |-> newaddr, meta |-> newmeta]
  <2>1. disk' = [put EXCEPT !.meta = IF writing.meta # Unset THEN writing.meta ELSE @]
    BY Zenon DEF writePending
  <2> HIDE DEF newdomain, newaddr, put
  <2> QED
    BY <2>1, <1>8, Zenon
<1>10. /\ disk'.domain = newdomain /\ disk'.addr = newaddr /\ disk'.meta = newmeta
       /\ disk' \in Disks
  <2> HIDE DEF newdomain, newaddr, newmeta
  <2> QED
    BY <1>5, <1>6, <1>7, <1>9 DEF Disks
<1>11. \A a \in Addrs : disk'.domain[a] = Beneath(a)
  BY <1>10, Zenon DEF Beneath, Recorded
<1>12. /\ DOMAIN last = {writing.domain[a] : a \in S}
       /\ \A d \in DOMAIN last : last[d] \in S /\ writing.domain[last[d]] = d
  BY <1>3, Zenon
<1>13. \A d \in Domains : disk'.addr[d] = newaddr[d]
  BY <1>10, Zenon
<1> QED
  BY <1>10, <1>11, <1>12, <1>13, Zenon

-----------------------------------------------------------------------------
(***************************************************************************)
(* Base, action by action.                                                 *)
(***************************************************************************)

\* The batch is left alone.
LEMMA PendingSame ==
    ASSUME PendingIsFlushed, UNCHANGED <<pending, timer, loop>>, ClosedStays
    PROVE  PendingIsFlushed'
  BY Zenon DEF PendingIsFlushed, Recorded, ClosedStays

\* The steps of a Create before it queues anything.
LEMMA BaseLookups ==
    ASSUME Base, NEW p \in Procs,
           \/ \E d \in Domains : Create(p, d)
           \/ CreateReadsDisk(p) \/ CreateLocks(p) \/ CreateReadsDiskAgain(p)
           \/ CreateAllocates(p) \/ CreateReadsOld(p)
    PROVE  Base'
<1> USE DEF Base
<1>1. ASSUME NEW d \in Domains, Create(p, d) PROVE Base'
  <2>1. PendingIsFlushed'
    BY <1>1, PendingSame, Zenon DEF Create, flushVars, closeVars, ClosedStays
  <2>2. TypeOK'
    BY <1>1, Apart DEF TypeOK, Create, AfterCache, Return, Goto, flushVars, storeVars, bounds, closeVars
  <2>3. LockShape'
    BY <1>1 DEF TypeOK, LockShape, Create, AfterCache, Return, Goto, flushVars, storeVars, bounds, closeVars, Locked, PastCheck
  <2>4. CallShape'
    BY <1>1, Apart DEF TypeOK, CallShape, Create, AfterCache, Return, Goto, flushVars, storeVars, bounds, closeVars
  <2> QED
    BY <2>1, <2>2, <2>3, <2>4, <1>1, Zenon DEF Create, bounds, closeVars
<1>2. CASE CreateReadsDisk(p)
  <2>1. PendingIsFlushed'
    BY <1>2, PendingSame, Zenon DEF CreateReadsDisk, flushVars, closeVars, ClosedStays
  <2>2. TypeOK'
    BY <1>2, Apart DEF TypeOK, CreateReadsDisk, Return, Goto, flushVars, storeVars, bounds, closeVars
  <2>3. LockShape'
    BY <1>2 DEF TypeOK, LockShape, CreateReadsDisk, Return, Goto, flushVars, storeVars, bounds, closeVars, Locked, PastCheck
  <2>4. CallShape'
    BY <1>2 DEF TypeOK, CallShape, CreateReadsDisk, Return, Goto, flushVars, storeVars, bounds, closeVars
  <2> QED
    BY <2>1, <2>2, <2>3, <2>4, <1>2, Zenon DEF CreateReadsDisk, bounds, closeVars
<1>3. CASE CreateLocks(p)
  <2>1. PendingIsFlushed'
    BY <1>3, PendingSame, Zenon DEF CreateLocks, flushVars, closeVars, ClosedStays
  <2>2. TypeOK'
    <3>1. UNCHANGED <<pending, disk, timer, flushVars, current, reserved, given, bounds, closing, snapshot>>
      BY <1>3, Zenon DEF CreateLocks
    <3>2. sealed' \in BOOLEAN /\ holder' \in Procs \cup {Nobody}
      BY <1>3, Zenon DEF CreateLocks
    <3>3. /\ pc' \in [Procs -> {"idle", "disk", "lock", "diskagain", "allocate", "reserve",
                              "reserving", "olddisk", "queue", "meta"}]
          /\ dom' \in [Procs -> Domains \cup {NoDomain}] /\ addr' \in [Procs -> Addrs \cup {Unset}]
          /\ old' \in [Procs -> Domains \cup {NoDomain}]
      BY <1>3 DEF TypeOK, CreateLocks, AfterCache, Return, Goto
    <3> QED
      BY <3>1, <3>2, <3>3 DEF TypeOK, flushVars, bounds
  <2>3. LockShape'
    BY <1>3, FakeIPAssumption, Apart DEF TypeOK, LockShape, CreateLocks, AfterCache, Return, Goto, flushVars, storeVars, bounds, closeVars, Locked, PastCheck, Nobody
  <2>4. CallShape'
    BY <1>3, Apart DEF TypeOK, CallShape, CreateLocks, AfterCache, Return, Goto, flushVars, storeVars, bounds, closeVars
  <2> QED
    BY <2>1, <2>2, <2>3, <2>4, <1>3, Zenon DEF CreateLocks, bounds, closeVars
<1>4. CASE CreateReadsDiskAgain(p)
  <2>1. PendingIsFlushed'
    BY <1>4, PendingSame, Zenon DEF CreateReadsDiskAgain, flushVars, closeVars, ClosedStays
  <2>2. TypeOK'
    BY <1>4, Apart DEF TypeOK, CreateReadsDiskAgain, Return, Goto, flushVars, storeVars, bounds, closeVars
  <2>3. LockShape'
    BY <1>4 DEF TypeOK, LockShape, CreateReadsDiskAgain, Return, Goto, flushVars, storeVars, bounds, closeVars, Locked, PastCheck
  <2>4. CallShape'
    BY <1>4 DEF TypeOK, CallShape, CreateReadsDiskAgain, Return, Goto, flushVars, storeVars, bounds, closeVars
  <2> QED
    BY <2>1, <2>2, <2>3, <2>4, <1>4, Zenon DEF CreateReadsDiskAgain, bounds, closeVars
<1>5. CASE CreateAllocates(p)
  <2>1. PendingIsFlushed'
    BY <1>5, PendingSame, Zenon DEF CreateAllocates, flushVars, closeVars, ClosedStays
  <2>2. nextAddress(current) \in Addrs
    BY Apart DEF TypeOK, nextAddress, Addrs, closeVars
  <2>3. CachedDomain(nextAddress(current)) \in Domains \cup {NoDomain}
    BY <2>2, Fields DEF TypeOK, CachedDomain, closeVars
  <2>4. TypeOK'
    BY <1>5, <2>2, <2>3, Apart, FakeIPAssumption DEF TypeOK, CreateAllocates, Goto, flushVars, storeVars, Addrs, closeVars
  <2>5. LockShape'
    BY <1>5, Zenon DEF TypeOK, LockShape, CreateAllocates, Goto, flushVars, storeVars, Locked, PastCheck, closeVars
  <2>6. CallShape'
    BY <1>5, <2>2, Zenon DEF TypeOK, CallShape, CreateAllocates, Goto, flushVars, storeVars, closeVars
  <2> QED
    BY <2>1, <2>4, <2>5, <2>6, <1>5, Zenon DEF CreateAllocates
<1>6. CASE CreateReadsOld(p)
  <2>1. PendingIsFlushed'
    BY <1>6, PendingSame, Zenon DEF CreateReadsOld, flushVars, closeVars, ClosedStays
  <2>2. addr[p] \in Addrs
    BY <1>6, Zenon DEF CreateReadsOld, CallShape
  <2>3. TypeOK'
    BY <1>6, <2>2 DEF TypeOK, CreateReadsOld, Goto, flushVars, storeVars, bounds, closeVars
  <2>4. LockShape'
    BY <1>6, Zenon DEF TypeOK, LockShape, CreateReadsOld, Goto, flushVars, storeVars, bounds, closeVars, Locked, PastCheck
  <2>5. CallShape'
    BY <1>6, <2>2, Zenon DEF TypeOK, CallShape, CreateReadsOld, Goto, flushVars, storeVars, bounds, closeVars
  <2> QED
    BY <2>1, <2>3, <2>4, <2>5, <1>6, Zenon DEF CreateReadsOld, bounds, closeVars
<1> QED
  BY <1>1, <1>2, <1>3, <1>4, <1>5, <1>6, Zenon

\* The steps of a Create that queue something.
LEMMA BaseQueues ==
    ASSUME Counting, Base, NEW p \in Procs,
           CreateReserves(p) \/ CreateQueues(p) \/ CreateReturns(p)
    PROVE  Base'
<1> USE DEF Base
<1>1. CASE CreateReserves(p)
  <2>1. ReservedAhead(current) \in 0..N
    BY FakeIPAssumption DEF TypeOK, ReservedAhead, closeVars
  <2>2. pending' \in Batches /\ timer' \in BOOLEAN /\ PendingIsFlushed'
    BY <1>1, <2>1, MetaQueued, Zenon DEF CreateReserves, flushVars, closeVars, ClosedStays
  <2>3. TypeOK'
    BY <1>1, <2>2 DEF TypeOK, CreateReserves, Goto, flushVars, storeVars, bounds, closeVars
  <2>4. LockShape'
    BY <1>1, Zenon DEF TypeOK, LockShape, CreateReserves, Goto, flushVars, storeVars, bounds, closeVars, Locked, PastCheck
  <2>5. CallShape'
    BY <1>1, Zenon DEF TypeOK, CallShape, CreateReserves, Goto, closeVars
  <2> QED
    BY <1>1, <2>2, <2>3, <2>4, <2>5, Zenon DEF CreateReserves, bounds, closeVars
<1>2. CASE CreateQueues(p)
  <2>1. addr[p] \in Addrs /\ dom[p] \in Domains /\ old[p] \in Domains \cup {NoDomain}
    BY <1>2, Zenon DEF CreateQueues, CallShape, TypeOK, closeVars
  <2>2. QueueFakeIP(addr[p], dom[p], old[p]) /\ loop' = loop
    BY <1>2, Zenon DEF CreateQueues, flushVars
  <2>3. pending' \in Batches /\ timer' \in BOOLEAN /\ PendingIsFlushed'
    BY <1>2, <2>1, <2>2, RecordQueued, Zenon DEF CreateQueues, closeVars, ClosedStays
  <2>4. given' \in [Domains -> Addrs \cup {Unset}]
    BY <1>2, <2>1, Zenon DEF CreateQueues, TypeOK, closeVars
  <2>5. TypeOK'
    BY <1>2, <2>3, <2>4 DEF TypeOK, CreateQueues, Goto, flushVars, storeVars, bounds, closeVars
  <2>6. LockShape'
    BY <1>2, Zenon DEF TypeOK, LockShape, CreateQueues, Goto, flushVars, storeVars, bounds, closeVars, Locked, PastCheck
  <2>7. CallShape'
    BY <1>2, Zenon DEF TypeOK, CallShape, CreateQueues, Goto, closeVars
  <2> QED
    BY <1>2, <2>3, <2>5, <2>6, <2>7, Zenon DEF CreateQueues, bounds, closeVars
<1>3. CASE CreateReturns(p)
  <2>1. current \in 0..N
    BY Zenon DEF TypeOK, closeVars
  <2>2. pending' \in Batches /\ timer' \in BOOLEAN /\ PendingIsFlushed'
    BY <1>3, <2>1, MetaQueued, Zenon DEF CreateReturns, flushVars, closeVars, ClosedStays
  <2>3. TypeOK'
    BY <1>3, <2>2 DEF TypeOK, CreateReturns, Return, Goto, flushVars, storeVars, bounds, closeVars
  <2>4. LockShape'
    BY <1>3, Zenon DEF TypeOK, LockShape, CreateReturns, Return, Goto, flushVars, storeVars, bounds, closeVars, Locked, PastCheck
  <2>5. CallShape'
    BY <1>3, Zenon DEF TypeOK, CallShape, CreateReturns, Return, Goto, closeVars
  <2> QED
    BY <1>3, <2>2, <2>3, <2>4, <2>5, Zenon DEF CreateReturns, bounds, closeVars
<1> QED
  BY <1>1, <1>2, <1>3, Zenon

\* A Flush that begins, by whichever caller f.
LEMMA FlushBeginShape ==
    ASSUME Base, NEW f \in Procs \cup {"loop", "close"}, FlushBegin(f)
    PROVE  /\ flusher' \in Procs \cup {Nobody, "loop", "reset", "close"}
           /\ flush' \in {"none", "writing", "written", "failed", "deleting"}
           /\ flusher' = Nobody <=> flush' = "none"
           /\ flush' \in {"none", "deleting"} => writing' = newPendingWrites
  BY FakeIPAssumption DEF Base, TypeOK, LockShape, FlushBegin, Nobody, closeVars

\* The steps at which a Flush begins.
LEMMA BaseFlushBegins ==
    ASSUME Counting, Base, (\E p \in Procs : CreateFlushes(p)) \/ LoopFlushes \/ CloseFlushes
                           \/ CacheFileFlushes
    PROVE  Base'
<1> USE DEF Base
<1>1. ASSUME NEW p \in Procs, CreateFlushes(p) PROVE Base'
  <2>1. pending' \in Batches /\ writing' \in Batches /\ PendingIsFlushed'
    BY <1>1, FlushBegun, Zenon DEF CreateFlushes
  <2>2. /\ flusher' \in Procs \cup {Nobody, "loop", "reset", "close"}
        /\ flush' \in {"none", "writing", "written", "failed", "deleting"}
        /\ flusher' = Nobody <=> flush' = "none"
        /\ flush' \in {"none", "deleting"} => writing' = newPendingWrites
    BY <1>1, FlushBeginShape, Zenon DEF CreateFlushes
  <2>3. TypeOK'
    BY <1>1, <2>1, <2>2, FakeIPAssumption DEF TypeOK, CreateFlushes, Goto, bounds, closeVars
  <2>4. LockShape'
    BY <1>1, <2>2 DEF TypeOK, LockShape, CreateFlushes, Goto, Locked, PastCheck, closeVars
  <2>5. CallShape'
    BY <1>1 DEF TypeOK, CallShape, CreateFlushes, Goto, closeVars
  <2> QED
    BY <1>1, <2>1, <2>3, <2>4, <2>5, Zenon DEF CreateFlushes, bounds, closeVars
<1>2. CASE LoopFlushes
  <2>1. pending' \in Batches /\ writing' \in Batches /\ PendingIsFlushed'
    BY <1>2, FlushBegun, Zenon DEF LoopFlushes
  <2>2. /\ flusher' \in Procs \cup {Nobody, "loop", "reset", "close"}
        /\ flush' \in {"none", "writing", "written", "failed", "deleting"}
        /\ flusher' = Nobody <=> flush' = "none"
        /\ flush' \in {"none", "deleting"} => writing' = newPendingWrites
    BY <1>2, FlushBeginShape, Zenon DEF LoopFlushes
  <2>3. TypeOK'
    BY <1>2, <2>1, <2>2, Zenon DEF TypeOK, LoopFlushes, storeVars, callVars, bounds, closeVars
  <2>4. LockShape'
    BY <1>2, <2>2, Zenon DEF LockShape, LoopFlushes, storeVars, callVars, closeVars
  <2>5. CallShape'
    BY <1>2, Zenon DEF CallShape, LoopFlushes, callVars
  <2> QED
    BY <1>2, <2>1, <2>3, <2>4, <2>5, Zenon DEF LoopFlushes, bounds, closeVars
<1>3. CASE CloseFlushes
  <2>1. pending' \in Batches /\ writing' \in Batches /\ PendingIsFlushed'
    BY <1>3, FlushBegun, Zenon DEF CloseFlushes
  <2>2. /\ flusher' \in Procs \cup {Nobody, "loop", "reset", "close"}
        /\ flush' \in {"none", "writing", "written", "failed", "deleting"}
        /\ flusher' = Nobody <=> flush' = "none"
        /\ flush' \in {"none", "deleting"} => writing' = newPendingWrites
    BY <1>3, FlushBeginShape, Zenon DEF CloseFlushes
  <2>3. TypeOK'
    BY <1>3, <2>1, <2>2, Zenon DEF TypeOK, CloseFlushes, storeVars, callVars, bounds, closeVars
  <2>4. LockShape'
    BY <1>3, <2>2, Zenon DEF LockShape, CloseFlushes, storeVars, callVars, closeVars
  <2>5. CallShape'
    BY <1>3, Zenon DEF CallShape, CloseFlushes, callVars
  <2> QED
    BY <1>3, <2>1, <2>3, <2>4, <2>5, Zenon DEF CloseFlushes, bounds, closeVars
<1>4. CASE CacheFileFlushes
  <2>1. pending' \in Batches /\ writing' \in Batches /\ PendingIsFlushed'
    BY <1>4, FlushBegun, Zenon DEF CacheFileFlushes
  <2>2. /\ flusher' \in Procs \cup {Nobody, "loop", "reset", "close"}
        /\ flush' \in {"none", "writing", "written", "failed", "deleting"}
        /\ flusher' = Nobody <=> flush' = "none"
        /\ flush' \in {"none", "deleting"} => writing' = newPendingWrites
    BY <1>4, FlushBeginShape, Zenon DEF CacheFileFlushes
  <2>3. TypeOK'
    BY <1>4, <2>1, <2>2, Zenon DEF TypeOK, CacheFileFlushes, storeVars, callVars, bounds, closeVars
  <2>4. LockShape'
    BY <1>4, <2>2, Zenon DEF LockShape, CacheFileFlushes, storeVars, callVars, closeVars
  <2>5. CallShape'
    BY <1>4, Zenon DEF CallShape, CacheFileFlushes, callVars
  <2> QED
    BY <1>4, <2>1, <2>3, <2>4, <2>5, Zenon DEF CacheFileFlushes, bounds, closeVars
<1> QED
  BY <1>1, <1>2, <1>3, <1>4, Zenon

\* The steps at which a Flush ends.
LEMMA BaseFlushEnds ==
    ASSUME Counting, Base, (\E p \in Procs : CreateHasReserved(p)) \/ LoopGoesOn \/ CloseReturns
                           \/ CacheFileFlushed
    PROVE  Base'
<1> USE DEF Base
<1>1. ASSUME NEW p \in Procs, CreateHasReserved(p) PROVE Base'
  <2>1. /\ pending' \in Batches /\ writing' = newPendingWrites /\ timer' \in BOOLEAN
        /\ flusher' = Nobody /\ flush' = "none" /\ PendingIsFlushed'
    BY <1>1, FlushEnded, Zenon DEF CreateHasReserved, closeVars, ClosedStays
  <2>2. TypeOK'
    BY <1>1, <2>1, EmptyBatch, FakeIPAssumption DEF TypeOK, CreateHasReserved, Goto, bounds, closeVars
  <2>3. LockShape'
    BY <1>1, <2>1, Zenon DEF TypeOK, LockShape, CreateHasReserved, Goto, Locked, PastCheck, closeVars
  <2>4. CallShape'
    BY <1>1, Zenon DEF TypeOK, CallShape, CreateHasReserved, Goto, closeVars
  <2> QED
    BY <1>1, <2>1, <2>2, <2>3, <2>4, Zenon DEF CreateHasReserved, bounds, closeVars
<1>2. CASE LoopGoesOn
  <2>1. /\ pending' \in Batches /\ writing' = newPendingWrites /\ timer' \in BOOLEAN
        /\ flusher' = Nobody /\ flush' = "none" /\ PendingIsFlushed'
    BY <1>2, FlushEnded, Zenon DEF LoopGoesOn, closeVars, ClosedStays
  <2>2. TypeOK'
    BY <1>2, <2>1, EmptyBatch, Zenon DEF TypeOK, LoopGoesOn, storeVars, callVars, bounds, closeVars
  <2>3. LockShape'
    BY <1>2, <2>1, Zenon DEF LockShape, LoopGoesOn, storeVars, callVars, closeVars
  <2>4. CallShape'
    BY <1>2, Zenon DEF CallShape, LoopGoesOn, callVars
  <2> QED
    BY <1>2, <2>1, <2>2, <2>3, <2>4, Zenon DEF LoopGoesOn, bounds, closeVars
<1>3. CASE CloseReturns
  <2>1. /\ pending' \in Batches /\ writing' = newPendingWrites /\ timer' \in BOOLEAN
        /\ flusher' = Nobody /\ flush' = "none" /\ PendingIsFlushed'
    BY <1>3, FlushEnded, Zenon DEF CloseReturns, ClosedStays, Closed
  <2>2. TypeOK'
    BY <1>3, <2>1, EmptyBatch, Zenon DEF TypeOK, CloseReturns, storeVars, callVars, bounds, closeVars
  <2>3. LockShape'
    BY <1>3, <2>1, Zenon DEF LockShape, CloseReturns, storeVars, callVars, closeVars
  <2>4. CallShape'
    BY <1>3, Zenon DEF CallShape, CloseReturns, callVars
  <2> QED
    BY <1>3, <2>1, <2>2, <2>3, <2>4, Zenon DEF CloseReturns, bounds, closeVars
<1>4. CASE CacheFileFlushed
  <2>1. /\ pending' \in Batches /\ writing' = newPendingWrites /\ timer' \in BOOLEAN
        /\ flusher' = Nobody /\ flush' = "none" /\ PendingIsFlushed'
    BY <1>4, FlushEnded, Zenon DEF CacheFileFlushed, ClosedStays, Closed
  <2>2. TypeOK'
    BY <1>4, <2>1, EmptyBatch, Zenon DEF TypeOK, CacheFileFlushed, storeVars, callVars, bounds, closeVars
  <2>3. LockShape'
    BY <1>4, <2>1, Zenon DEF LockShape, CacheFileFlushed, storeVars, callVars, closeVars
  <2>4. CallShape'
    BY <1>4, Zenon DEF CallShape, CacheFileFlushed, callVars
  <2> QED
    BY <1>4, <2>1, <2>2, <2>3, <2>4, Zenon DEF CacheFileFlushed, bounds, closeVars
<1> QED
  BY <1>1, <1>2, <1>3, <1>4, Zenon

\* The transaction, and the timer.
LEMMA BaseTransaction ==
    ASSUME Base, FlushCommits \/ (\E db \in {disk, NoRecords} : FlushFails(db)) \/ LoopWakes
    PROVE  Base'
<1> USE DEF Base
<1>1. CASE FlushCommits
  <2>1. PICK last \in Picks(writing, Recorded(writing)) : disk' = writePending(disk, writing, last)
    BY <1>1, Zenon DEF FlushCommits
  <2>2. disk' \in Disks
    BY <2>1, Written, Zenon
  <2>3. PendingIsFlushed'
    BY <1>1, PendingSame, Zenon DEF FlushCommits, closeVars, ClosedStays
  <2>4. /\ UNCHANGED <<pending, timer, writing, loop, flusher, storeVars, callVars, given, bounds, closeVars>>
        /\ flush = "writing" /\ flush' = "written"
    BY <1>1, Zenon DEF FlushCommits
  <2>5. TypeOK'
    BY <2>2, <2>4 DEF TypeOK, Disks, storeVars, callVars, bounds, closeVars
  <2>6. LockShape' /\ CallShape'
    BY <2>4, Zenon DEF LockShape, CallShape, storeVars, callVars, closeVars
  <2> QED
    BY <2>3, <2>4, <2>5, <2>6, Zenon DEF bounds, closeVars
<1>2. ASSUME NEW db \in {disk, NoRecords}, FlushFails(db) PROVE Base'
  <2>1. disk' \in Disks
    BY <1>2, EmptyDisk, Zenon DEF FlushFails, TypeOK, Disks, closeVars
  <2>2. PendingIsFlushed'
    BY <1>2, PendingSame, Zenon DEF FlushFails, closeVars, ClosedStays
  <2>3. given' \in [Domains -> Addrs \cup {Unset}]
    BY <1>2, Zenon DEF FlushFails, TypeOK, closeVars
  <2>4. /\ UNCHANGED <<pending, timer, writing, loop, flusher, storeVars, callVars, torn, closeVars>>
        /\ flush = "writing" /\ flush' = "failed" /\ failures' = failures + 1
    BY <1>2, Zenon DEF FlushFails
  <2>5. TypeOK'
    BY <2>1, <2>3, <2>4 DEF TypeOK, Disks, storeVars, callVars, closeVars
  <2>6. LockShape' /\ CallShape'
    BY <2>4, Zenon DEF LockShape, CallShape, storeVars, callVars, closeVars
  <2> QED
    BY <2>2, <2>4, <2>5, <2>6
<1>3. CASE LoopWakes
  <2>1. PendingIsFlushed'
    <3>1. pending' = pending /\ loop' = "flush"
      BY <1>3, Zenon DEF LoopWakes
    <3> QED
      BY <3>1, Zenon DEF PendingIsFlushed, Recorded
  <2>2. timer' \in BOOLEAN
    BY <1>3, Zenon DEF LoopWakes, TypeOK, closeVars
  <2>3. TypeOK'
    BY <1>3, <2>2 DEF LoopWakes, TypeOK, storeVars, callVars, bounds, closeVars
  <2>4. LockShape' /\ CallShape'
    BY <1>3, Zenon DEF LoopWakes, LockShape, CallShape, storeVars, callVars, closeVars
  <2> QED
    BY <1>3, <2>1, <2>3, <2>4, Zenon DEF LoopWakes, bounds, closeVars
<1> QED
  BY <1>1, <1>2, <1>3, Zenon

\* The batch that FakeIPReset leaves is the empty one.
LEMMA ResetEmpties ==
    ASSUME Counting, Base, FakeIPReset
    PROVE  pending' = newPendingWrites
<1>1. /\ pending' = [newPendingWrites EXCEPT !.count =
                      pending.count - Cardinality(Recorded(pending))
                                    - (IF pending.meta # Unset THEN 1 ELSE 0)]
  BY Zenon DEF FakeIPReset
<1>2. pending.count - Cardinality(Recorded(pending)) - (IF pending.meta # Unset THEN 1 ELSE 0) = 0
  BY RecordedFinite DEF Base, PendingIsFlushed
<1> QED
  BY <1>1, <1>2, EmptyBatch, Fields, Zenon DEF newPendingWrites

\* Reset, Close and a crash.
LEMMA BaseRest ==
    ASSUME Counting, Base, FakeIPReset \/ FakeIPResetDeletes \/ CloseStep \/ CrashAndStart
    PROVE  Base'
<1> USE DEF Base
<1>1. CASE FakeIPReset
  <2>1. pending' = newPendingWrites
    BY <1>1, ResetEmpties, Zenon
  <2>2. PendingIsFlushed'
    BY <2>1, EmptyBatch, EmptyCounts DEF PendingIsFlushed, Recorded
  <2>3. given' \in [Domains -> Addrs \cup {Unset}]
    BY <1>1, Zenon DEF FakeIPReset
  <2>4. torn' \in BOOLEAN
    BY <1>1, Zenon DEF FakeIPReset, TypeOK, closeVars
  <2>5. /\ UNCHANGED <<disk, timer, writing, loop, storeVars, callVars, failures, closeVars>>
        /\ flusher = Nobody /\ flusher' = "reset" /\ flush' = "deleting"
    BY <1>1, Zenon DEF FakeIPReset
  <2>6. TypeOK'
    BY <2>1, <2>3, <2>4, <2>5, EmptyBatch, Zenon DEF TypeOK, storeVars, callVars, closeVars
  <2>7. LockShape' /\ CallShape'
    BY <2>5, Zenon DEF LockShape, CallShape, storeVars, callVars, Nobody, closeVars
  <2> QED
    BY <2>2, <2>5, <2>6, <2>7, Zenon
<1>2. CASE FakeIPResetDeletes
  <2>1. PendingIsFlushed'
    BY <1>2, PendingSame, Zenon DEF FakeIPResetDeletes, closeVars, ClosedStays
  <2>2. disk' \in Disks
    BY <1>2, EmptyDisk, Zenon DEF FakeIPResetDeletes, TypeOK, Disks, closeVars
  <2>3. torn' \in BOOLEAN /\ failures' \in Nat
    <3>1. torn \in BOOLEAN
      BY Zenon DEF TypeOK, closeVars
    <3>2. (torn' = torn /\ failures' = failures) \/ (torn' = TRUE /\ failures' = failures + 1)
      BY <1>2, Zenon DEF FakeIPResetDeletes
    <3>3. torn' \in BOOLEAN
      BY <3>1, <3>2, Zenon
    <3>4. failures' \in Nat
      BY <3>2
    <3> QED
      BY <3>3, <3>4, Zenon
  <2>4. TypeOK'
    BY <1>2, <2>2, <2>3, Zenon DEF FakeIPResetDeletes, TypeOK, Disks, storeVars, callVars, closeVars
  <2>5. LockShape' /\ CallShape'
    BY <1>2, Zenon DEF FakeIPResetDeletes, LockShape, CallShape, storeVars, callVars, closeVars
  <2> QED
    BY <2>1, <2>3, <2>4, <2>5, Zenon
<1>3. CASE CloseStep
  <2>1. CASE CloseSaves
    <3>1. snapshot \in 0..N
      BY <2>1, Zenon DEF CloseSaves, LockShape
    <3>2. pending' \in Batches /\ timer' \in BOOLEAN /\ PendingIsFlushed'
      BY <2>1, <3>1, MetaQueued, Zenon DEF CloseSaves, flushVars, TypeOK, ClosedStays, Closed
    <3>3. TypeOK'
      BY <2>1, <3>2 DEF CloseSaves, TypeOK, flushVars, storeVars, callVars, bounds
    <3>4. LockShape' /\ CallShape'
      BY <2>1, Zenon DEF CloseSaves, LockShape, CallShape, flushVars, storeVars, callVars
    <3> QED
      BY <2>1, <3>2, <3>3, <3>4, Zenon DEF CloseSaves, bounds
  <2>2. CASE StoreClose
    <3>1. PendingIsFlushed'
      BY <2>2, PendingSame, Zenon DEF StoreClose, flushVars, ClosedStays, Closed
    <3>2. TypeOK'
      BY <2>2 DEF StoreClose, TypeOK, flushVars, storeVars, callVars
    <3>3. LockShape' /\ CallShape'
      BY <2>2, Zenon DEF StoreClose, LockShape, CallShape, TypeOK, flushVars, storeVars, callVars
    <3> QED
      BY <2>2, <3>1, <3>2, <3>3, Zenon DEF StoreClose
  <2>3. CASE CacheFileClose
    <3>1. PendingIsFlushed'
      BY <2>3, Zenon DEF CacheFileClose, PendingIsFlushed, Recorded, Closed
    <3>2. TypeOK'
      BY <2>3, ZenonT(60) DEF CacheFileClose, TypeOK, flushVars, storeVars, callVars, bounds
    <3>3. LockShape' /\ CallShape'
      BY <2>3, Zenon DEF CacheFileClose, LockShape, CallShape, flushVars, storeVars, callVars
    <3> QED
      BY <2>3, <3>1, <3>2, <3>3, Zenon DEF CacheFileClose, bounds
  <2>4. CASE DatabaseCloses
    <3>1. PendingIsFlushed'
      BY <2>4, PendingSame, Zenon DEF DatabaseCloses, flushVars, ClosedStays, Closed
    <3>2. torn' \in BOOLEAN
      BY <2>4, Zenon DEF DatabaseCloses
    <3>3. TypeOK'
      BY <2>4, <3>2, ZenonT(60) DEF DatabaseCloses, TypeOK, flushVars, storeVars, callVars
    <3>4. LockShape' /\ CallShape'
      BY <2>4, Zenon DEF DatabaseCloses, LockShape, CallShape, flushVars, storeVars, callVars
    <3>5. failures' = failures \/ failures' = failures + 1
      BY <2>4, Zenon DEF DatabaseCloses
    <3>6. failures' \in Nat
      BY <3>5
    <3> QED
      BY <3>1, <3>3, <3>4, <3>6, Zenon
  <2> QED
    BY <1>3, <2>1, <2>2, <2>3, <2>4, Zenon DEF CloseStep
<1>4. CASE CrashAndStart
  <2>1. /\ pending' = newPendingWrites /\ writing' = newPendingWrites
        /\ timer' = FALSE /\ loop' = "waiting" /\ flusher' = Nobody /\ flush' = "none"
        /\ reserved' = 0 /\ holder' = Nobody
        /\ pc' = [p \in Procs |-> "idle"] /\ dom' = [p \in Procs |-> NoDomain]
        /\ addr' = [p \in Procs |-> Unset] /\ old' = [p \in Procs |-> NoDomain]
        /\ closing' = "no" /\ snapshot' = Unset /\ sealed' = FALSE
        /\ given' = [d \in Domains |-> disk'.addr[d]]
        /\ torn' = torn /\ failures' = failures
    BY <1>4, Zenon DEF CrashAndStart
  <2>2. disk' \in Disks /\ current' \in 0..N
    BY <1>4, EmptyDisk, Apart DEF CrashAndStart, TypeOK, Disks, closeVars
  <2>3. given' \in [Domains -> Addrs \cup {Unset}]
    BY <2>1, <2>2, Zenon DEF Disks
  <2>4. PendingIsFlushed'
    BY <2>1, EmptyBatch, EmptyCounts DEF PendingIsFlushed, Recorded
  <2>5. TypeOK'
    <3>1. /\ pc' \in [Procs -> {"idle"}] /\ dom' \in [Procs -> Domains \cup {NoDomain}]
          /\ addr' \in [Procs -> Addrs \cup {Unset}] /\ old' \in [Procs -> Domains \cup {NoDomain}]
      BY <2>1, Zenon
    <3>2. pending' \in Batches /\ writing' \in Batches /\ reserved' \in 0..Reserved
      BY <2>1, EmptyBatch, FakeIPAssumption
    <3>3. timer' \in BOOLEAN /\ torn' \in BOOLEAN /\ sealed' \in BOOLEAN /\ snapshot' \in 0..N \cup {Unset}
      BY <2>1, Zenon DEF TypeOK, closeVars
    <3>4. disk' \in [domain : [Addrs -> Domains \cup {NoDomain}], addr : [Domains -> Addrs \cup {Unset}],
                     meta : 0..N \cup {Unset}]
      BY <2>2, Zenon DEF Disks
    <3>5. /\ loop' = "waiting" /\ flusher' = Nobody /\ flush' = "none"
          /\ holder' = Nobody /\ closing' = "no"
      BY <2>1, Zenon
    <3> QED
      BY <2>2, <2>3, <3>1, <3>2, <3>3, <3>4, <3>5 DEF TypeOK, closeVars
  <2>6. LockShape' /\ CallShape'
    BY <2>1, Zenon DEF LockShape, CallShape, Locked, PastCheck, closeVars
  <2> QED
    BY <2>1, <2>4, <2>5, <2>6, Zenon
<1> QED
  BY <1>1, <1>2, <1>3, <1>4, Zenon

\* Nothing happens.
LEMMA BaseStutters ==
    ASSUME Base, UNCHANGED vars
    PROVE  Base'
  BY DEF Base, TypeOK, PendingIsFlushed, LockShape, CallShape, Recorded, vars,
         flushVars, storeVars, callVars, bounds, closeVars

\* Every step.
LEMMA BaseNext ==
    ASSUME Counting, Base, [Next]_vars
    PROVE  Base'
  BY BaseLookups, BaseQueues, BaseFlushBegins, BaseFlushEnds, BaseTransaction, BaseRest,
     BaseStutters, Zenon DEF Next, Running, CreateStep, CloseStep

-----------------------------------------------------------------------------
(***************************************************************************)
(* Store.Close.                                                            *)
(***************************************************************************)

\* Nobody changes the metadata, or what it is compared with.
LEMMA MetadataKept ==
    ASSUME MetadataSaved, Metadata' = Metadata, UNCHANGED <<current, snapshot, given>>,
           closing' \notin {"no", "snapped"} => closing \notin {"no", "snapped"},
           \A p \in Procs : pc[p] \in Allocating => pc'[p] \in Allocating
    PROVE  MetadataSaved'
  BY Zenon DEF MetadataSaved, MetadataKnown

\* A Flush takes the metadata along, or leaves it.
LEMMA CloseTaken ==
    ASSUME Counting, Base, CloseShape, NEW f, FlushBegin(f), disk' = disk
    PROVE  /\ Metadata' = Metadata /\ flush' \in {flush, "writing"}
           /\ flush' = "written" => writing' = writing
           /\ pending'.count = 0 /\ flush # "deleting"
<1>1. flusher = Nobody /\ flush = "none"
  BY Zenon DEF Base, LockShape, FlushBegin
<1>2. pending'.count = 0
  BY FlushBegun, Zenon DEF Base
<1>3. CASE pending' = pending /\ writing' = writing /\ flush' = flush
  BY <1>1, <1>2, <1>3, Zenon DEF Metadata
<1>4. CASE writing' = pending /\ pending' = newPendingWrites /\ flush' = "writing"
  <2>1. writing.meta = Unset /\ pending'.meta = Unset
    BY <1>1, <1>4, EmptyBatch, Zenon DEF Base, LockShape
  <2> QED
    BY <1>1, <1>2, <1>4, <2>1, Zenon DEF Metadata
<1> QED
  BY <1>3, <1>4, Zenon DEF FlushBegin

\* What was written can be forgotten.
LEMMA CloseForgotten ==
    ASSUME Base, CloseShape, NEW f, FlushEnd(f), disk' = disk
    PROVE  pending' = pending /\ flush' = "none" /\ Metadata' = Metadata
<1>1. flush = "written" /\ pending' = pending /\ writing' = newPendingWrites /\ flush' = "none"
  BY Zenon DEF FlushEnd, CloseShape
<1>2. writing'.meta = Unset
  BY <1>1, EmptyBatch, Zenon
<1> QED
  BY <1>1, <1>2, Zenon DEF Metadata, CloseShape

\* The steps of a Create that neither queue anything nor Flush.
LEMMA CloseLookups ==
    ASSUME Base, CloseShape, NEW p \in Procs,
           \/ \E d \in Domains : Create(p, d)
           \/ CreateReadsDisk(p) \/ CreateLocks(p) \/ CreateReadsDiskAgain(p)
           \/ CreateAllocates(p) \/ CreateReadsOld(p)
    PROVE  CloseShape'
<1>1. UNCHANGED <<pending, disk, flushVars, given, closing, snapshot>>
  BY Zenon DEF Create, CreateReadsDisk, CreateLocks, CreateReadsDiskAgain, CreateAllocates, CreateReadsOld, closeVars
<1>2. Metadata' = Metadata
  BY <1>1, Zenon DEF Metadata, flushVars
<1>3. pc \in [Procs -> {"idle", "disk", "lock", "diskagain", "allocate", "reserve",
                        "reserving", "olddisk", "queue", "meta"}]
  BY Zenon DEF Base, TypeOK
<1>4. MetadataSaved'
  <2>1. CASE CreateAllocates(p)
    <3>1. pc'[p] \in {"olddisk", "queue"}
      BY <1>3, <2>1, Zenon DEF CreateAllocates, Goto
    <3> QED
      BY <3>1, Zenon DEF MetadataSaved, Allocating, PastCheck
  <2>2. CASE CreateReadsOld(p)
    <3>1. pc'[p] = "queue"
      BY <1>3, <2>2, Zenon DEF CreateReadsOld, Goto
    <3> QED
      BY <3>1, Zenon DEF MetadataSaved, Allocating, PastCheck
  <2>3. CASE ~ CreateAllocates(p) /\ ~ CreateReadsOld(p)
    <3>1. current' = current /\ pc[p] \in {"idle", "disk", "lock", "diskagain"}
      BY <2>3, Zenon DEF Create, CreateReadsDisk, CreateLocks, CreateReadsDiskAgain, storeVars
    <3>2. \A q \in Procs \ {p} : pc'[q] = pc[q]
      BY <1>3, <2>3, Zenon DEF Create, CreateReadsDisk, CreateLocks, CreateReadsDiskAgain, AfterCache, Return, Goto
    <3>3. pc[p] \notin Allocating
      BY <3>1, Zenon DEF Allocating, PastCheck
    <3>4. \A q \in Procs : pc[q] \in Allocating => pc'[q] \in Allocating
      BY <3>2, <3>3, Zenon
    <3> QED
      BY <1>1, <1>2, <3>1, <3>4, MetadataKept, Zenon DEF CloseShape
  <2> QED
    BY <2>1, <2>2, <2>3, Zenon
<1>5. sealed' => sealed
  BY Zenon DEF Create, CreateReadsDisk, CreateLocks, CreateReadsDiskAgain, CreateAllocates, CreateReadsOld, closeVars
<1> QED
  BY <1>1, <1>4, <1>5, Zenon DEF CloseShape, flushVars

\* The steps of a Create that queue something.
LEMMA CloseQueues ==
    ASSUME Counting, Base, CloseShape, NEW p \in Procs,
           CreateReserves(p) \/ CreateQueues(p) \/ CreateReturns(p)
    PROVE  CloseShape'
<1>1. UNCHANGED <<disk, flushVars, closeVars>> /\ current' = current
  BY Zenon DEF CreateReserves, CreateQueues, CreateReturns, storeVars
<1>2. ~sealed
  <2>1. pc[p] \in Locked
    BY Zenon DEF CreateReserves, CreateQueues, CreateReturns, Locked, PastCheck
  <2>2. holder = p
    BY <2>1, Zenon DEF Base, LockShape
  <2> QED
    BY <2>2, FakeIPAssumption, Zenon DEF Base, LockShape, Nobody
<1>3. pc \in [Procs -> {"idle", "disk", "lock", "diskagain", "allocate", "reserve",
                        "reserving", "olddisk", "queue", "meta"}]
  BY Zenon DEF Base, TypeOK
<1>4. MetadataSaved'
  <2>1. CASE CreateReserves(p) \/ CreateQueues(p)
    <3>1. pc'[p] \in {"reserve", "meta"}
      BY <1>3, <2>1, Zenon DEF CreateReserves, CreateQueues, Goto
    <3> QED
      BY <3>1, Zenon DEF MetadataSaved, Allocating, PastCheck
  <2>2. CASE CreateReturns(p)
    <3>1. current \in 0..N
      BY Zenon DEF Base, TypeOK
    <3>2. pending'.meta = current
      BY <1>1, <2>2, <3>1, MetaQueued, Zenon DEF Base, CreateReturns, flushVars, closeVars, ClosedStays
    <3>3. Metadata' = current'
      BY <1>1, <3>1, <3>2, Apart, Zenon DEF Metadata
    <3> QED
      BY <3>3, Zenon DEF MetadataSaved, MetadataKnown
  <2> QED
    BY <2>1, <2>2, Zenon
<1> QED
  BY <1>1, <1>2, <1>4, Zenon DEF CloseShape, flushVars, closeVars

\* A Flush begins, by whichever caller.
LEMMA CloseFlushBegins ==
    ASSUME Counting, Base, CloseShape, closing # "closed",
           (\E p \in Procs : CreateFlushes(p)) \/ LoopFlushes \/ CloseFlushes \/ CacheFileFlushes
    PROVE  CloseShape'
<1>1. /\ \E f : FlushBegin(f)
      /\ UNCHANGED <<disk, current, snapshot, given>> /\ closing' # "closed"
      /\ closing' \notin {"no", "snapped"} => closing \notin {"no", "snapped"}
  BY Zenon DEF CreateFlushes, LoopFlushes, CloseFlushes, CacheFileFlushes, storeVars, closeVars
<1>2. /\ Metadata' = Metadata /\ flush' \in {flush, "writing"}
      /\ flush' = "written" => writing' = writing
      /\ pending'.count = 0
  BY <1>1, CloseTaken, Zenon
<1>3. MetadataSaved'
  <2>1. ASSUME NEW p \in Procs, CreateFlushes(p) PROVE MetadataSaved'
    <3>1. pc'[p] \in {"allocate", "reserving"}
      BY <2>1, Zenon DEF CreateFlushes, Goto, Base, TypeOK
    <3> QED
      BY <3>1, Zenon DEF MetadataSaved, Allocating, PastCheck
  <2>2. CASE LoopFlushes \/ CloseFlushes \/ CacheFileFlushes
    <3>1. pc' = pc
      BY <2>2, Zenon DEF LoopFlushes, CloseFlushes, CacheFileFlushes, callVars
    <3> QED
      BY <1>1, <1>2, <3>1, MetadataKept, Zenon DEF CloseShape
  <2> QED
    BY <2>1, <2>2, Zenon
<1> QED
  BY <1>1, <1>2, <1>3, Zenon DEF CloseShape

\* A Flush ends.
LEMMA CloseFlushEnds ==
    ASSUME Base, CloseShape,
           (\E p \in Procs : CreateHasReserved(p)) \/ LoopGoesOn \/ CloseReturns \/ CacheFileFlushed
    PROVE  CloseShape'
<1>1. /\ \E f : FlushEnd(f)
      /\ UNCHANGED <<disk, current, snapshot, sealed, given>>
      /\ closing' \notin {"no", "snapped"} => closing \notin {"no", "snapped"}
  BY Zenon DEF CreateHasReserved, LoopGoesOn, CloseReturns, CacheFileFlushed, storeVars, closeVars
<1>2. pending' = pending /\ flush' = "none" /\ Metadata' = Metadata
  BY <1>1, CloseForgotten, Zenon
<1>3. MetadataSaved'
  <2>1. ASSUME NEW p \in Procs, CreateHasReserved(p) PROVE MetadataSaved'
    <3>1. pc'[p] = "allocate"
      BY <2>1, Zenon DEF CreateHasReserved, Goto, Base, TypeOK
    <3> QED
      BY <3>1, Zenon DEF MetadataSaved, Allocating, PastCheck
  <2>2. CASE LoopGoesOn \/ CloseReturns \/ CacheFileFlushed
    <3>1. pc' = pc
      BY <2>2, Zenon DEF LoopGoesOn, CloseReturns, CacheFileFlushed, callVars
    <3> QED
      BY <1>1, <1>2, <3>1, MetadataKept, Zenon DEF CloseShape
  <2> QED
    BY <2>1, <2>2, Zenon
<1> QED
  BY <1>1, <1>2, <1>3, Zenon DEF CloseShape

\* The timer, the transaction, and nothing.
LEMMA CloseTransaction ==
    ASSUME Counting, Base, CloseShape, LoopWakes \/ FlushCommits \/ UNCHANGED vars
    PROVE  CloseShape'
<1>1. UNCHANGED <<pending, writing, current, pc, closing, snapshot, sealed, given>>
  BY Zenon DEF LoopWakes, FlushCommits, vars, flushVars, storeVars, callVars, closeVars
<1>2. CASE LoopWakes \/ UNCHANGED vars
  <2>1. UNCHANGED <<disk, flush>>
    BY <1>2, Zenon DEF LoopWakes, vars, flushVars
  <2>2. Metadata' = Metadata
    BY <1>1, <2>1, Zenon DEF Metadata
  <2>3. MetadataSaved'
    BY <1>1, <2>2, MetadataKept, Zenon DEF CloseShape
  <2> QED
    BY <1>1, <2>1, <2>3, Zenon DEF CloseShape
<1>3. CASE FlushCommits
  <2>1. flush = "writing" /\ flush' = "written"
    BY <1>3, Zenon DEF FlushCommits
  <2>2. PICK last \in Picks(writing, Recorded(writing)) : disk' = writePending(disk, writing, last)
    BY <1>3, Zenon DEF FlushCommits
  <2>3. disk'.meta = IF writing.meta # Unset THEN writing.meta ELSE disk.meta
    BY <2>2, Written, Zenon DEF Base
  <2>4. Metadata' = Metadata
    BY <1>1, <2>1, <2>3, Zenon DEF Metadata
  <2>5. MetadataSaved'
    BY <1>1, <2>4, MetadataKept, Zenon DEF CloseShape
  <2> QED
    BY <1>1, <2>1, <2>3, <2>5, Zenon DEF CloseShape
<1> QED
  BY <1>2, <1>3, Zenon

\* Reset and a crash.
LEMMA CloseResets ==
    ASSUME Counting, Base, CloseShape, failures = 0, failures' = 0,
           (closing # "closed" /\ FakeIPReset) \/ FakeIPResetDeletes \/ CrashAndStart
    PROVE  CloseShape'
<1>1. CASE closing # "closed" /\ FakeIPReset
  <2>1. pending' = newPendingWrites
    BY <1>1, ResetEmpties, Zenon
  <2>2. /\ UNCHANGED <<writing, closing, sealed>> /\ flusher = Nobody /\ flush' = "deleting"
        /\ given' = [d \in Domains |-> Unset]
    BY <1>1, Zenon DEF FakeIPReset, closeVars
  <2>3. pending'.meta = Unset /\ pending'.count = 0 /\ writing'.meta = Unset
    BY <2>1, <2>2, EmptyBatch, Zenon DEF Base, LockShape
  <2>4. MetadataSaved'
    BY <2>2, <2>3, Zenon DEF MetadataSaved, MetadataKnown, Metadata
  <2> QED
    BY <1>1, <2>2, <2>3, <2>4, Zenon DEF CloseShape
<1>2. CASE FakeIPResetDeletes
  <2>1. /\ UNCHANGED <<pending, writing, current, pc, closing, snapshot, sealed, given>>
        /\ flush = "deleting" /\ flush' = "none"
    BY <1>2, Zenon DEF FakeIPResetDeletes, storeVars, callVars, closeVars
  <2>2. disk' = NoRecords
    <3>1. disk' = NoRecords \/ failures' = failures + 1
      BY <1>2, Zenon DEF FakeIPResetDeletes
    <3> QED
      BY <3>1
  <2>3. Metadata' = Metadata
    BY <2>1, <2>2, Zenon DEF Metadata, NoRecords
  <2>4. MetadataSaved'
    BY <2>1, <2>3, MetadataKept, Zenon DEF CloseShape
  <2> QED
    BY <2>1, <2>4, Zenon DEF CloseShape
<1>3. CASE CrashAndStart
  BY <1>3, Zenon DEF CrashAndStart, CloseShape, MetadataSaved
<1> QED
  BY <1>1, <1>2, <1>3, Zenon

\* What Store.Close and CacheFile.Close do besides.
LEMMA CloseCloses ==
    ASSUME Counting, Base, CloseShape, failures = 0, failures' = 0, CloseStep
    PROVE  CloseShape'
<1>1. UNCHANGED <<writing, disk, flush, current, pc, sealed, given>>
  BY Zenon DEF CloseStep, StoreClose, CloseSaves, CacheFileClose, DatabaseCloses, flushVars, storeVars, callVars
<1>2. CASE StoreClose
  <2>1. pending' = pending /\ closing' = "snapped"
    BY <1>2, Zenon DEF StoreClose
  <2> QED
    BY <1>1, <2>1 DEF CloseShape, MetadataSaved
<1>3. CASE CloseSaves
  <2>1. snapshot \in 0..N /\ ~sealed
    BY <1>3, Zenon DEF CloseSaves, Base, LockShape
  <2>2. pending'.meta = snapshot
    BY <1>3, <2>1, MetaQueued, Zenon DEF CloseSaves, Base, flushVars, ClosedStays, Closed
  <2>3. Metadata' = snapshot'
    BY <1>3, <2>1, <2>2, Apart, Zenon DEF Metadata, CloseSaves
  <2>4. MetadataSaved'
    BY <2>3, Zenon DEF MetadataSaved, MetadataKnown
  <2>5. closing' = "save"
    BY <1>3, Zenon DEF CloseSaves
  <2> QED
    BY <1>1, <2>1, <2>4, <2>5 DEF CloseShape
<1>4. CASE CacheFileClose \/ DatabaseCloses
  <2>1. UNCHANGED <<pending, snapshot>> /\ closing \notin {"no", "snapped"}
    BY <1>4, Zenon DEF CacheFileClose, DatabaseCloses
  <2>2. Metadata' = Metadata
    BY <1>1, <2>1, Zenon DEF Metadata
  <2>3. MetadataSaved'
    BY <1>1, <2>1, <2>2, MetadataKept, Zenon DEF CloseShape
  <2>4. closing' = "closed" => flush \notin {"writing", "deleting"}
    <3>1. CASE CacheFileClose
      BY <3>1, Zenon DEF CacheFileClose
    <3>2. CASE DatabaseCloses /\ flush \in {"writing", "deleting"}
      <4>1. failures' = failures + 1
        BY <3>2, Zenon DEF DatabaseCloses
      <4> QED
        BY <4>1
    <3> QED
      BY <1>4, <3>1, <3>2, Zenon
  <2> QED
    BY <1>1, <2>1, <2>3, <2>4, Zenon DEF CloseShape
<1> QED
  BY <1>2, <1>3, <1>4, Zenon DEF CloseStep

\* Every step.
LEMMA CloseNext ==
    ASSUME Counting, Base, failures = 0 => CloseShape, [Next]_vars, failures' = 0
    PROVE  CloseShape'
<1>1. CASE \E db \in {disk, NoRecords} : FlushFails(db)
  BY <1>1 DEF FlushFails, Base
<1>2. CASE ~ \E db \in {disk, NoRecords} : FlushFails(db)
  <2>1. failures = 0
    <3>1. \/ failures' = failures \/ failures' = failures + 1
      BY <1>2, Zenon DEF Next, Running, CreateStep, Create, CreateReadsDisk, CreateLocks, CreateReadsDiskAgain,
         CreateReserves, CreateFlushes, CreateHasReserved, CreateAllocates, CreateReadsOld, CreateQueues,
         CreateReturns, LoopWakes, LoopFlushes, LoopGoesOn, FlushCommits, FakeIPReset, FakeIPResetDeletes,
         StoreClose, CloseSaves, CloseFlushes, CloseReturns, CacheFileClose, CacheFileFlushes,
         CacheFileFlushed, DatabaseCloses, CrashAndStart, bounds, vars
    <3> QED
      BY <3>1 DEF Base
  <2> QED
    BY <1>2, <2>1, CloseLookups, CloseQueues, CloseFlushBegins, CloseFlushEnds, CloseTransaction, CloseResets,
       CloseCloses, Zenon DEF Next, Running, CreateStep, CloseStep
<1> QED
  BY <1>1, <1>2, Zenon

\* The invariant holds when the store starts.
LEMMA ShapeInit ==
    ASSUME Counting, Init
    PROVE  Shape
<1>1. /\ pending = newPendingWrites /\ writing = newPendingWrites /\ disk = NoRecords
      /\ timer = FALSE /\ loop = "waiting" /\ flusher = Nobody /\ flush = "none"
      /\ current = 0 /\ reserved = 0 /\ holder = Nobody
      /\ pc = [p \in Procs |-> "idle"] /\ dom = [p \in Procs |-> NoDomain]
      /\ addr = [p \in Procs |-> Unset] /\ old = [p \in Procs |-> NoDomain]
      /\ closing = "no" /\ snapshot = Unset /\ sealed = FALSE
      /\ given = [d \in Domains |-> Unset] /\ torn = FALSE /\ failures = 0
  BY Zenon DEF Init
<1>2. /\ pc \in [Procs -> {"idle"}] /\ dom \in [Procs -> Domains \cup {NoDomain}]
      /\ addr \in [Procs -> Addrs \cup {Unset}] /\ old \in [Procs -> Domains \cup {NoDomain}]
      /\ given \in [Domains -> Addrs \cup {Unset}]
  BY <1>1, Zenon
<1>3. TypeOK
  <2>1. pending \in Batches /\ writing \in Batches /\ reserved \in 0..Reserved /\ current \in 0..N
    BY <1>1, EmptyBatch, FakeIPAssumption
  <2>2. disk \in [domain : [Addrs -> Domains \cup {NoDomain}], addr : [Domains -> Addrs \cup {Unset}],
                  meta : 0..N \cup {Unset}]
    BY <1>1, EmptyDisk, Zenon DEF Disks
  <2>3. /\ timer \in BOOLEAN /\ torn \in BOOLEAN /\ loop = "waiting" /\ flusher = Nobody
        /\ flush = "none" /\ holder = Nobody /\ closing = "no"
        /\ sealed \in BOOLEAN /\ snapshot \in 0..N \cup {Unset}
    BY <1>1, Zenon
  <2> QED
    BY <1>2, <2>1, <2>2, <2>3, Zenon DEF TypeOK
<1>4. PendingIsFlushed
  BY <1>1, EmptyBatch, EmptyCounts DEF PendingIsFlushed
<1>5. LockShape /\ CallShape /\ failures \in Nat
  BY <1>1, <1>2, Zenon DEF LockShape, CallShape, Locked, PastCheck
<1>6. CloseShape
  BY <1>1, Zenon DEF CloseShape, MetadataSaved
<1> QED
  BY <1>3, <1>4, <1>5, <1>6, Zenon DEF Shape, Base

\* Every step keeps the invariant.
LEMMA ShapeNext ==
    ASSUME Counting, Shape, [Next]_vars
    PROVE  Shape'
<1>1. Base'
  BY BaseNext, Zenon DEF Shape
<1>2. failures' = 0 => CloseShape'
  BY CloseNext, Zenon DEF Shape
<1> QED
  BY <1>1, <1>2, Zenon DEF Shape

-----------------------------------------------------------------------------
(***************************************************************************)
(* What the lookups see.                                                   *)
(***************************************************************************)

\* A domain that has an address in one direction has it in the other.
LEMMA LoadIsKnown ==
    ASSUME Base, Content, ~torn, NEW a \in Addrs, NEW d \in Domains, FakeIPLoad(a) = d
    PROVE  FakeIPLoadDomain(d) = a
<1>1. Paired(pending) /\ Paired(writing) /\ WritingCovers /\ PendingCovers /\ DiskAgrees
  BY Zenon DEF Content, LayerInv
<1>2. CASE pending.domain[a] # NoDomain
  BY <1>1, <1>2, Apart DEF FakeIPLoad, CachedDomain, FakeIPLoadDomain, CachedAddress, Paired
<1>3. CASE pending.domain[a] = NoDomain
  <2>1. Beneath(a) = d
    BY <1>3, Zenon DEF FakeIPLoad, CachedDomain, Beneath
  <2>2. pending.addr[d] = Unset
    BY <1>1, <1>3, <2>1, Zenon DEF PendingCovers
  <2>3. CASE writing.domain[a] # NoDomain
    BY <1>1, <2>1, <2>2, <2>3, Apart DEF FakeIPLoadDomain, CachedAddress, Paired, Beneath
  <2>4. CASE writing.domain[a] = NoDomain
    <3>1. disk.domain[a] = d
      BY <2>1, <2>4, Zenon DEF Beneath
    <3>2. writing.addr[d] = Unset
      BY <1>1, <2>4, <3>1, Zenon DEF WritingCovers
    <3>3. disk.addr[d] = a
      BY <1>1, <3>1, Zenon DEF DiskAgrees
    <3> QED
      BY <2>2, <3>2, <3>3, Zenon DEF FakeIPLoadDomain, CachedAddress
  <2> QED
    BY <2>3, <2>4, Zenon
<1> QED
  BY <1>2, <1>3, Zenon

\* No two addresses have one domain.
LEMMA LoadInjective ==
    ASSUME Base, Content, ~torn, NEW a \in Addrs, NEW b \in Addrs, NEW d \in Domains,
           FakeIPLoad(a) = d, FakeIPLoad(b) = d
    PROVE  a = b
  BY LoadIsKnown, Zenon

\* What a lookup returns.
LEMMA LoadTypes ==
    ASSUME Base
    PROVE  /\ \A a \in Addrs : /\ pending.domain[a] \in Domains \cup {NoDomain}
                               /\ writing.domain[a] \in Domains \cup {NoDomain}
                               /\ disk.domain[a] \in Domains \cup {NoDomain}
                               /\ CachedDomain(a) \in Domains \cup {NoDomain}
                               /\ FakeIPLoad(a) \in Domains \cup {NoDomain}
           /\ \A d \in Domains : /\ pending.addr[d] \in Addrs \cup {Unset, Invalid}
                                 /\ writing.addr[d] \in Addrs \cup {Unset, Invalid}
                                 /\ disk.addr[d] \in Addrs \cup {Unset}
                                 /\ given[d] \in Addrs \cup {Unset}
<1>1. /\ pending.domain \in [Addrs -> Domains \cup {NoDomain}]
      /\ writing.domain \in [Addrs -> Domains \cup {NoDomain}]
      /\ pending.addr \in [Domains -> Addrs \cup {Unset, Invalid}]
      /\ writing.addr \in [Domains -> Addrs \cup {Unset, Invalid}]
  BY Fields, Zenon DEF Base, TypeOK
<1>2. /\ disk.domain \in [Addrs -> Domains \cup {NoDomain}]
      /\ disk.addr \in [Domains -> Addrs \cup {Unset}]
      /\ given \in [Domains -> Addrs \cup {Unset}]
  BY Zenon DEF Base, TypeOK
<1> QED
  BY <1>1, <1>2, Zenon DEF CachedDomain, FakeIPLoad

\* The lookups see no more than before.
Shrinks ==
    /\ \A a \in Addrs : FakeIPLoad(a)' \in {NoDomain, FakeIPLoad(a)}
    /\ \A d \in Domains : CachedAddress(d) = Unset => CachedAddress(d)' = Unset
    /\ \A a \in Addrs : CachedDomain(a) = NoDomain => CachedDomain(a)' = NoDomain

\* Then a Create that does not move still knows what it knew.
LEMMA CallStays ==
    ASSUME Base, NEW q \in Procs, CallKnows(q), Shrinks,
           pc'[q] = pc[q], dom'[q] = dom[q], addr'[q] = addr[q], old'[q] = old[q]
    PROVE  CallKnows(q)'
<1>1. pc[q] # "idle" => dom[q] \in Domains
  BY Zenon DEF Base, CallShape
<1>2. pc[q] \in {"olddisk", "queue"} => addr[q] \in Addrs
  BY Zenon DEF Base, CallShape
<1>3. (pc[q] = "diskagain" => CachedAddress(dom[q]) = Unset)'
  BY <1>1, Zenon DEF CallKnows, Shrinks, CachedAddress
<1>4. (pc[q] \in PastCheck => \A a \in Addrs : FakeIPLoad(a) # dom[q])'
  BY <1>1, Apart, Zenon DEF CallKnows, Shrinks, PastCheck
<1>5. (pc[q] = "olddisk" => CachedDomain(addr[q]) = NoDomain)'
  BY <1>2, Zenon DEF CallKnows, Shrinks, CachedDomain
<1>6. (pc[q] = "queue" =>
         /\ FakeIPLoad(addr[q]) \in {NoDomain, old[q]}
         /\ old[q] # NoDomain => \A a \in Addrs : FakeIPLoad(a) = old[q] => a = addr[q])'
  <2> SUFFICES ASSUME pc[q] = "queue"
               PROVE  /\ FakeIPLoad(addr[q])' \in {NoDomain, old[q]}
                      /\ old[q] # NoDomain => \A a \in Addrs : FakeIPLoad(a)' = old[q] => a = addr[q]
    BY Zenon DEF FakeIPLoad, CachedDomain
  <2>1. /\ addr[q] \in Addrs /\ addr'[q] = addr[q]
        /\ FakeIPLoad(addr[q]) \in {NoDomain, old[q]}
        /\ old[q] # NoDomain => \A a \in Addrs : FakeIPLoad(a) = old[q] => a = addr[q]
    BY <1>2, Zenon DEF CallKnows
  <2>2. \A a \in Addrs : FakeIPLoad(a)' = NoDomain \/ FakeIPLoad(a)' = FakeIPLoad(a)
    BY Zenon DEF Shrinks
  <2>3. FakeIPLoad(addr[q])' = NoDomain \/ FakeIPLoad(addr[q])' = FakeIPLoad(addr[q])
    BY <2>1, <2>2, ZenonT(60) DEF FakeIPLoad, CachedDomain
  <2> QED
    BY <2>1, <2>2, <2>3, Zenon
<1> QED
  BY <1>3, <1>4, <1>5, <1>6, Zenon DEF CallKnows

\* Nothing is queued, written or forgotten: only metadata, timers and callers change.
SameLayers ==
    /\ pending'.domain = pending.domain /\ pending'.addr = pending.addr
    /\ UNCHANGED <<writing, disk, flush, given, torn>> /\ (failures' = 0 => failures = 0)

\* Then the contents agree as before.
LEMMA LayersStay ==
    ASSUME Base, Content, SameLayers, ~torn => \A q \in Procs : CallKnows(q)'
    PROVE  Content'
<1> USE DEF SameLayers
<1>1. DiskAgrees'
  BY Zenon DEF Content, DiskAgrees
<1>2. ASSUME ~torn PROVE LayerInv'
  <2>1. (Paired(pending) /\ Paired(writing) /\ WritingCovers /\ PendingCovers)'
    BY <1>2 DEF Content, LayerInv, Paired, WritingCovers, PendingCovers, Beneath
  <2>2. WrittenOnDisk' /\ GivenIsPending'
    BY <1>2, Zenon DEF Content, LayerInv, WrittenOnDisk, GivenIsPending
  <2>3. GivenIsLoaded'
    BY <1>2, Zenon DEF Content, LayerInv, GivenIsLoaded, FakeIPLoad, CachedDomain
  <2> QED
    BY <2>1, <2>2, <2>3, Zenon DEF LayerInv
<1>3. ASSUME failures = 0, ~torn PROVE Marked'
  BY <1>3, Zenon DEF Content, Marked, Beneath
<1> QED
  BY <1>1, <1>2, <1>3, Zenon DEF Content

\* And no lookup finds more.
LEMMA SameShrinks ==
    ASSUME SameLayers
    PROVE  Shrinks
<1>1. /\ pending'.domain = pending.domain /\ pending'.addr = pending.addr
      /\ writing' = writing /\ disk' = disk
  BY Zenon DEF SameLayers
<1> QED
  BY <1>1, Zenon DEF Shrinks, FakeIPLoad, CachedDomain, CachedAddress

-----------------------------------------------------------------------------
(***************************************************************************)
(* Content, action by action.                                              *)
(***************************************************************************)

\* The steps of Create p move nobody else.
LEMMA OthersStay ==
    ASSUME Base, NEW p \in Procs, CreateStep(p) \/ \E d \in Domains : Create(p, d),
           NEW q \in Procs, q # p
    PROVE  pc'[q] = pc[q] /\ dom'[q] = dom[q] /\ addr'[q] = addr[q] /\ old'[q] = old[q]
<1> USE DEF Base, TypeOK, Goto, Return
<1>1. CASE \E d \in Domains : Create(p, d)
  BY <1>1, Zenon DEF Create, AfterCache
<1>2. CASE CreateReadsDisk(p)
  BY <1>2, Zenon DEF CreateReadsDisk
<1>3. CASE CreateLocks(p)
  BY <1>3, Zenon DEF CreateLocks, AfterCache
<1>4. CASE CreateReadsDiskAgain(p)
  BY <1>4, Zenon DEF CreateReadsDiskAgain
<1>5. CASE CreateReserves(p) \/ CreateQueues(p) \/ CreateReturns(p)
  BY <1>5, Zenon DEF CreateReserves, CreateQueues, CreateReturns
<1>6. CASE CreateFlushes(p) \/ CreateHasReserved(p)
  BY <1>6, Zenon DEF CreateFlushes, CreateHasReserved
<1>7. CASE CreateAllocates(p) \/ CreateReadsOld(p)
  BY <1>7, Zenon DEF CreateAllocates, CreateReadsOld
<1> QED
  BY <1>1, <1>2, <1>3, <1>4, <1>5, <1>6, <1>7, Zenon DEF CreateStep

\* The steps of a Create that only look something up.
LEMMA ContentLookups ==
    ASSUME Base, Content, NEW p \in Procs,
           \/ \E d \in Domains : Create(p, d)
           \/ CreateReadsDisk(p) \/ CreateLocks(p) \/ CreateReadsDiskAgain(p)
           \/ CreateAllocates(p) \/ CreateReadsOld(p)
    PROVE  Content'
<1>1. /\ SameLayers /\ pending' = pending /\ writing' = writing /\ disk' = disk
  BY Zenon DEF Create, CreateReadsDisk, CreateLocks, CreateReadsDiskAgain, CreateAllocates,
         CreateReadsOld, SameLayers, flushVars, bounds, closeVars
<1>2. ASSUME ~torn PROVE \A q \in Procs : CallKnows(q)'
  <2>1. Shrinks /\ \A q \in Procs : CallKnows(q)
    BY <1>1, <1>2, SameShrinks, Zenon DEF Content
  <2>2. ASSUME NEW q \in Procs, q # p PROVE CallKnows(q)'
    <3>1. pc'[q] = pc[q] /\ dom'[q] = dom[q] /\ addr'[q] = addr[q] /\ old'[q] = old[q]
      BY <2>2, OthersStay, Zenon DEF CreateStep
    <3> QED
      BY <2>1, <2>2, <3>1, CallStays, Zenon
  <2>3. CallKnows(p)'
    <3>1. /\ \A a \in Addrs : FakeIPLoad(a)' = FakeIPLoad(a) /\ CachedDomain(a)' = CachedDomain(a)
          /\ \A d \in Domains : CachedAddress(d)' = CachedAddress(d)
      BY <1>1, Zenon DEF FakeIPLoad, CachedDomain, CachedAddress
    <3>2. pc \in [Procs -> {"idle", "disk", "lock", "diskagain", "allocate", "reserve",
                            "reserving", "olddisk", "queue", "meta"}]
      BY Zenon DEF Base, TypeOK
    <3>3. CASE (\E d \in Domains : Create(p, d)) \/ CreateReadsDisk(p)
      <4>1. pc'[p] \notin Locked
        BY <3>2, <3>3, Zenon DEF Create, CreateReadsDisk, AfterCache, Return, Goto, Locked, PastCheck
      <4> QED
        BY <4>1, Zenon DEF CallKnows, Locked, PastCheck
    <3>4. CASE CreateLocks(p)
      <4>1. dom[p] \in Domains
        BY <3>4, Zenon DEF CreateLocks, Base, CallShape
      <4>2. \/ pc'[p] = "idle"
            \/ pc'[p] = "allocate" /\ CachedAddress(dom[p]) = Invalid /\ dom'[p] = dom[p]
            \/ pc'[p] = "diskagain" /\ CachedAddress(dom[p]) = Unset /\ dom'[p] = dom[p]
        BY <3>2, <3>4, Apart DEF CreateLocks, AfterCache, Return, Goto, Base, TypeOK
      <4>3. CASE pc'[p] = "idle"
        BY <4>3, Zenon DEF CallKnows, PastCheck
      <4>4. CASE pc'[p] = "allocate" /\ CachedAddress(dom[p]) = Invalid /\ dom'[p] = dom[p]
        <5>1. FakeIPLoadDomain(dom[p]) = Invalid
          BY <4>4, Apart, Zenon DEF FakeIPLoadDomain
        <5>2. \A a \in Addrs : FakeIPLoad(a) # dom[p]
          BY <1>2, <4>1, <5>1, LoadIsKnown, Apart, Zenon
        <5>3. \A a \in Addrs : FakeIPLoad(a)' # dom'[p]
          BY <3>1, <4>4, <5>2, Zenon
        <5> QED
          BY <4>4, <5>3, Zenon DEF CallKnows
      <4>5. CASE pc'[p] = "diskagain" /\ CachedAddress(dom[p]) = Unset /\ dom'[p] = dom[p]
        <5>1. CachedAddress(dom[p])' = Unset
          BY <3>1, <4>1, <4>5, Zenon DEF CachedAddress
        <5> QED
          BY <4>5, <5>1, Zenon DEF CallKnows, PastCheck
      <4> QED
        BY <4>2, <4>3, <4>4, <4>5, Zenon
    <3>5. CASE CreateReadsDiskAgain(p)
      <4>1. dom[p] \in Domains /\ CachedAddress(dom[p]) = Unset
        BY <2>1, <3>5, Zenon DEF CreateReadsDiskAgain, Base, CallShape, CallKnows
      <4>2. \/ pc'[p] = "idle"
            \/ pc'[p] = "allocate" /\ disk.addr[dom[p]] = Unset /\ dom'[p] = dom[p]
        BY <3>2, <3>5, Zenon DEF CreateReadsDiskAgain, Return, Goto
      <4>3. CASE pc'[p] = "idle"
        BY <4>3, Zenon DEF CallKnows, PastCheck
      <4>4. CASE pc'[p] = "allocate" /\ disk.addr[dom[p]] = Unset /\ dom'[p] = dom[p]
        <5>1. FakeIPLoadDomain(dom[p]) = Unset
          BY <4>1, <4>4, Zenon DEF FakeIPLoadDomain
        <5>2. \A a \in Addrs : FakeIPLoad(a) # dom[p]
          BY <1>2, <4>1, <5>1, LoadIsKnown, Apart, Zenon
        <5>3. \A a \in Addrs : FakeIPLoad(a)' # dom'[p]
          BY <3>1, <4>4, <5>2, Zenon
        <5> QED
          BY <4>4, <5>3, Zenon DEF CallKnows
      <4> QED
        BY <4>2, <4>3, <4>4, Zenon
    <3>6. CASE CreateAllocates(p)
      <4> DEFINE n == nextAddress(current)
      <4>1. n \in Addrs
        BY Apart DEF Base, TypeOK, nextAddress, Addrs
      <4>2. /\ dom' = dom /\ addr'[p] = n /\ old'[p] = CachedDomain(n)
            /\ pc'[p] = IF CachedDomain(n) = NoDomain THEN "olddisk" ELSE "queue"
        BY <3>2, <3>6, Zenon DEF CreateAllocates, Goto, Base, TypeOK
      <4>3. \A a \in Addrs : FakeIPLoad(a) # dom[p]
        BY <2>1, <3>6, Zenon DEF CallKnows, CreateAllocates, PastCheck
      <4>4. \A a \in Addrs : FakeIPLoad(a)' # dom'[p]
        BY <3>1, <4>2, <4>3, Zenon
      <4> HIDE DEF n
      <4>5. CASE CachedDomain(n) = NoDomain
        <5>1. pc'[p] = "olddisk" /\ CachedDomain(addr[p])' = NoDomain
          BY <3>1, <4>1, <4>2, <4>5, Zenon DEF CachedDomain
        <5> QED
          BY <4>4, <5>1, Zenon DEF CallKnows
      <4>6. CASE CachedDomain(n) # NoDomain
        <5>1. FakeIPLoad(n) = CachedDomain(n) /\ CachedDomain(n) \in Domains
          BY <4>1, <4>6, LoadTypes, Zenon DEF FakeIPLoad
        <5>2. \A a \in Addrs : FakeIPLoad(a) = CachedDomain(n) => a = n
          BY <1>2, <4>1, <5>1, LoadInjective, Zenon
        <5>3. pc'[p] = "queue" /\ old'[p] = FakeIPLoad(n)
          BY <4>2, <4>6, <5>1, Zenon
        <5>4. FakeIPLoad(addr[p])' = FakeIPLoad(n)
          BY <1>1, <4>2, Zenon DEF FakeIPLoad, CachedDomain
        <5>5. \A a \in Addrs : FakeIPLoad(a)' = old'[p] => a = addr'[p]
          BY <3>1, <4>2, <5>1, <5>2, <5>3, Zenon
        <5> QED
          BY <4>4, <5>3, <5>4, <5>5, Zenon DEF CallKnows
      <4> QED
        BY <4>5, <4>6, Zenon
    <3>7. CASE CreateReadsOld(p)
      <4>1. addr[p] \in Addrs /\ CachedDomain(addr[p]) = NoDomain
        BY <2>1, <3>7, Zenon DEF CreateReadsOld, Base, CallShape, CallKnows
      <4>2. /\ dom' = dom /\ addr' = addr /\ old'[p] = disk.domain[addr[p]] /\ pc'[p] = "queue"
        BY <3>2, <3>7, Zenon DEF CreateReadsOld, Goto, Base, TypeOK
      <4>3. \A a \in Addrs : FakeIPLoad(a) # dom[p]
        BY <2>1, <3>7, Zenon DEF CallKnows, CreateReadsOld, PastCheck
      <4>4. \A a \in Addrs : FakeIPLoad(a)' # dom'[p]
        BY <3>1, <4>2, <4>3, Zenon
      <4>5. FakeIPLoad(addr[p]) = old'[p]
        BY <4>1, <4>2, Zenon DEF FakeIPLoad
      <4>6. FakeIPLoad(addr[p])' = old'[p]
        BY <1>1, <4>2, <4>5, Zenon DEF FakeIPLoad, CachedDomain
      <4>7. ASSUME old'[p] # NoDomain, NEW a \in Addrs, FakeIPLoad(a)' = old'[p] PROVE a = addr'[p]
        <5>1. FakeIPLoad(a) = old'[p] /\ old'[p] \in Domains
          BY <3>1, <4>7, LoadTypes, Zenon
        <5> QED
          BY <1>2, <4>1, <4>2, <4>5, <5>1, LoadInjective, Zenon
      <4> QED
        BY <4>2, <4>4, <4>6, <4>7, Zenon DEF CallKnows
    <3> QED
      BY <3>3, <3>4, <3>5, <3>6, <3>7, Zenon
  <2> QED
    BY <2>2, <2>3, Zenon
<1> QED
  BY <1>1, <1>2, LayersStay, Zenon

\* The steps that queue metadata or only close, the timer, and nothing at all.
LEMMA ContentMetadata ==
    ASSUME Counting, Base, Content,
           \/ \E p \in Procs : CreateReserves(p) \/ CreateReturns(p)
           \/ LoopWakes \/ CloseStep \/ UNCHANGED vars
    PROVE  Content'
<1>1. ASSUME SameLayers, ~torn, NEW q \in Procs,
             pc'[q] = pc[q], dom'[q] = dom[q], addr'[q] = addr[q], old'[q] = old[q]
      PROVE  CallKnows(q)'
  BY <1>1, SameShrinks, CallStays, Zenon DEF Content
<1>2. ASSUME NEW p \in Procs, CreateReserves(p) PROVE Content'
  <2>1. ReservedAhead(current) \in 0..N
    BY FakeIPAssumption DEF Base, TypeOK, ReservedAhead
  <2>2. SameLayers
    BY <1>2, <2>1, MetaQueued, Zenon DEF CreateReserves, flushVars, bounds, closeVars, SameLayers, Base, ClosedStays
  <2>3. ASSUME ~torn PROVE CallKnows(p)'
    <3>1. pc[p] = "allocate" /\ pc'[p] = "reserve" /\ dom' = dom
      BY <1>2, Zenon DEF CreateReserves, Goto, Base, TypeOK
    <3>2. dom[p] \in Domains /\ \A a \in Addrs : FakeIPLoad(a) # dom[p]
      BY <2>3, <3>1, Zenon DEF Base, CallShape, Content, CallKnows, PastCheck
    <3>3. \A a \in Addrs : FakeIPLoad(a)' \in {NoDomain, FakeIPLoad(a)}
      BY <2>2, SameShrinks, Zenon DEF Shrinks
    <3>4. \A a \in Addrs : FakeIPLoad(a)' # dom'[p]
      BY <3>1, <3>2, <3>3, Apart, Zenon
    <3> QED
      BY <3>1, <3>4, Zenon DEF CallKnows
  <2>4. ASSUME ~torn, NEW q \in Procs PROVE CallKnows(q)'
    BY <1>1, <1>2, <2>2, <2>3, <2>4, OthersStay, Zenon DEF CreateStep
  <2> QED
    BY <2>2, <2>4, LayersStay, Zenon
<1>3. ASSUME NEW p \in Procs, CreateReturns(p) PROVE Content'
  <2>1. current \in 0..N
    BY Zenon DEF Base, TypeOK
  <2>2. SameLayers
    BY <1>3, <2>1, MetaQueued, Zenon DEF CreateReturns, flushVars, bounds, closeVars, SameLayers, Base, ClosedStays
  <2>3. CallKnows(p)'
    <3>1. pc'[p] = "idle"
      BY <1>3, Zenon DEF CreateReturns, Return, Goto, Base, TypeOK
    <3> QED
      BY <3>1, Zenon DEF CallKnows, PastCheck
  <2>4. ASSUME ~torn, NEW q \in Procs PROVE CallKnows(q)'
    BY <1>1, <1>3, <2>2, <2>3, <2>4, OthersStay, Zenon DEF CreateStep
  <2> QED
    BY <2>2, <2>4, LayersStay, Zenon
<1>4. CASE LoopWakes \/ CloseStep \/ UNCHANGED vars
  <2>1. pc' = pc /\ dom' = dom /\ addr' = addr /\ old' = old
    BY <1>4, Zenon DEF LoopWakes, CloseStep, StoreClose, CloseSaves, CacheFileClose, DatabaseCloses, vars, callVars
  <2>2. CASE CloseSaves
    <3>1. snapshot \in 0..N
      BY <2>2, Zenon DEF CloseSaves, Base, LockShape
    <3>2. SameLayers
      BY <2>2, <3>1, MetaQueued, Zenon DEF CloseSaves, flushVars, bounds, SameLayers, Base, ClosedStays, Closed
    <3> QED
      BY <1>1, <2>1, <3>2, LayersStay, Zenon
  <2>3. CASE LoopWakes \/ StoreClose \/ CacheFileClose \/ UNCHANGED vars
    <3>1. SameLayers
      BY <2>3, Zenon DEF LoopWakes, StoreClose, CacheFileClose, vars, flushVars, bounds, SameLayers
    <3> QED
      BY <1>1, <2>1, <3>1, LayersStay, Zenon
  <2>4. CASE DatabaseCloses
    <3>1. UNCHANGED <<pending, writing, disk, flush, given>> /\ torn' = (torn \/ flush = "deleting")
      BY <2>4, Zenon DEF DatabaseCloses, flushVars
    <3>2. failures' = 0 => failures = 0
      <4>1. failures' = failures \/ failures' = failures + 1
        BY <2>4, Zenon DEF DatabaseCloses
      <4> QED
        BY <4>1 DEF Base
    <3>3. CASE flush = "deleting"
      BY <3>1, <3>3, Zenon DEF Content, DiskAgrees
    <3>4. CASE flush # "deleting"
      <4>1. torn' = torn
        BY <3>1, <3>4, Zenon DEF Base, TypeOK
      <4>2. SameLayers
        BY <3>1, <3>2, <4>1, Zenon DEF SameLayers
      <4> QED
        BY <1>1, <2>1, <4>2, LayersStay, Zenon
    <3> QED
      BY <3>3, <3>4, Zenon
  <2> QED
    BY <1>4, <2>2, <2>3, <2>4, Zenon DEF CloseStep
<1> QED
  BY <1>2, <1>3, <1>4, Zenon

\* A record is queued.
LEMMA ContentQueues ==
    ASSUME Counting, Base, Content, NEW p \in Procs, CreateQueues(p)
    PROVE  Content'
<1> DEFINE A == addr[p]
           D == dom[p]
           O == old[p]
<1>1. A \in Addrs /\ D \in Domains /\ O \in Domains \cup {NoDomain}
  BY Zenon DEF CreateQueues, Base, CallShape, TypeOK
<1>2. /\ QueueFakeIP(A, D, O) /\ loop' = loop /\ writing' = writing /\ disk' = disk /\ flush' = flush
      /\ torn' = torn /\ failures' = failures /\ ClosedStays
      /\ given' = [d \in Domains |-> IF d = D THEN A ELSE IF given[d] = A THEN Unset ELSE given[d]]
  BY Zenon DEF CreateQueues, flushVars, bounds, closeVars, ClosedStays
<1>3. pc[p] = "queue" /\ pc'[p] = "meta"
  BY Zenon DEF CreateQueues, Goto, Base, TypeOK
<1>4. DiskAgrees'
  BY <1>2, Zenon DEF Content, DiskAgrees
<1>5. ASSUME ~torn
      PROVE  LayerInv' /\ (\A q \in Procs : CallKnows(q)') /\ (failures = 0 => Marked')
  <2>1. /\ \A a \in Addrs : FakeIPLoad(a) # D
        /\ FakeIPLoad(A) \in {NoDomain, O}
        /\ O # NoDomain => \A a \in Addrs : FakeIPLoad(a) = O => a = A
    BY <1>3, <1>5, Zenon DEF Content, CallKnows, PastCheck
  <2>2. O # NoDomain \/ pending.domain[A] = NoDomain
    BY <1>1, <2>1, Zenon DEF FakeIPLoad, CachedDomain
  <2>3. /\ pending'.domain = [pending.domain EXCEPT ![A] = D]
        /\ \A x \in Domains : pending'.addr[x] =
              IF x = D THEN A
              ELSE IF x = (IF O # NoDomain THEN O ELSE pending.domain[A]) THEN Invalid
              ELSE pending.addr[x]
    BY <1>1, <1>2, RecordQueued DEF Base
  <2>4. /\ \A b \in Addrs : pending'.domain[b] = IF b = A THEN D ELSE pending.domain[b]
        /\ \A x \in Domains : pending'.addr[x] = IF x = D THEN A ELSE IF x = O THEN Invalid
                                                 ELSE pending.addr[x]
    <3>1. pending.domain \in [Addrs -> Domains \cup {NoDomain}]
      BY Fields, Zenon DEF Base, TypeOK
    <3> QED
      BY <1>1, <2>2, <2>3, <3>1, Apart, Zenon
  <2>5. \A b \in Addrs : FakeIPLoad(b)' = IF b = A THEN D ELSE FakeIPLoad(b)
    <3>1. \A b \in Addrs : CachedDomain(b)' = IF b = A THEN D ELSE CachedDomain(b)
      BY <1>1, <1>2, <2>4, Apart, Zenon DEF CachedDomain
    <3> QED
      BY <1>1, <1>2, <3>1, Apart, Zenon DEF FakeIPLoad
  <2>6. \A b \in Addrs : pending.domain[b] # NoDomain => FakeIPLoad(b) = pending.domain[b]
    BY Zenon DEF FakeIPLoad, CachedDomain
  <2>7. \A b \in Addrs : pending.domain[b] = NoDomain => FakeIPLoad(b) = Beneath(b)
    BY Zenon DEF FakeIPLoad, CachedDomain, Beneath
  <2>8. Paired(pending) /\ PendingCovers
    BY <1>5, Zenon DEF Content, LayerInv
  <2> HIDE DEF A, D, O
  <2>9. Paired(pending)'
    <3>1. SUFFICES ASSUME NEW b \in Addrs, NEW x \in Domains
                   PROVE  pending'.domain[b] = x <=> pending'.addr[x] = b
      BY Zenon DEF Paired
    <3>2. /\ pending'.domain[b] = (IF b = A THEN D ELSE pending.domain[b])
          /\ pending'.addr[x] = (IF x = D THEN A ELSE IF x = O THEN Invalid ELSE pending.addr[x])
          /\ pending.domain[b] = x <=> pending.addr[x] = b
          /\ pending.domain[A] = x <=> pending.addr[x] = A
      BY <1>1, <2>4, <2>8, Zenon DEF Paired
    <3>3. /\ pending.domain[b] = x => FakeIPLoad(b) = x
          /\ pending.domain[A] = x => FakeIPLoad(A) = x
      BY <1>1, <2>6, Apart, Zenon
    <3> QED
      BY <1>1, <2>1, <3>2, <3>3, Apart, Zenon
  <2>10. PendingCovers'
    <3>1. SUFFICES ASSUME NEW b \in Addrs, NEW x \in Domains, Beneath(b) = x,
                          pending'.addr[x] # Unset, pending'.domain[b] = NoDomain
                   PROVE  FALSE
      BY <1>2, Zenon DEF PendingCovers, Beneath
    <3>2. b # A /\ pending.domain[b] = NoDomain
      BY <1>1, <2>4, <3>1, Apart, Zenon
    <3>3. FakeIPLoad(b) = x
      BY <2>7, <3>1, <3>2, Zenon
    <3>4. x # D /\ x # O
      BY <1>1, <2>1, <3>2, <3>3, Apart, Zenon
    <3>5. pending.addr[x] # Unset
      BY <2>4, <3>1, <3>4, Zenon
    <3> QED
      BY <2>8, <3>1, <3>2, <3>5, Zenon DEF PendingCovers
  <2>11. Paired(writing)' /\ WritingCovers' /\ WrittenOnDisk'
    BY <1>2, <1>5 DEF Content, LayerInv, Paired, WritingCovers, WrittenOnDisk
  <2>12. \A d \in Domains : given'[d] # Unset => \/ d = D /\ given'[d] = A
                                                 \/ given'[d] = given[d] /\ given[d] # A
    BY <1>2, Zenon
  <2>13. GivenIsLoaded'
    <3>1. \A d \in Domains : given[d] # Unset => given[d] \in Addrs /\ FakeIPLoad(given[d]) = d
      BY <1>5, LoadTypes, Zenon DEF Content, LayerInv, GivenIsLoaded
    <3>2. \A d \in Domains, g \in Addrs : given'[d] = g => FakeIPLoad(g)' = d
      <4> SUFFICES ASSUME NEW d \in Domains, NEW g \in Addrs, given'[d] = g
                   PROVE  FakeIPLoad(g)' = d
        OBVIOUS
      <4>1. (d = D /\ g = A) \/ (given[d] = g /\ g # A)
        BY <2>12, Apart, Zenon
      <4>2. FakeIPLoad(g)' = IF g = A THEN D ELSE FakeIPLoad(g)
        BY <2>5, Zenon
      <4> QED
        BY <3>1, <4>1, <4>2, Apart, Zenon
    <3>3. \A d \in Domains : given'[d] # Unset => given'[d] \in Addrs
      BY <1>1, <2>12, <3>1, Zenon
    <3> QED
      BY <3>2, <3>3, Zenon DEF GivenIsLoaded, FakeIPLoad, CachedDomain
  <2>14. GivenIsPending'
    BY <1>1, <1>2, <1>5, <2>4, <2>12, LoadTypes, Zenon DEF Content, LayerInv, GivenIsPending
  <2>15. ASSUME failures = 0 PROVE Marked'
    <3>1. Marked
      BY <1>5, <2>15, Zenon DEF Content
    <3>2. ASSUME NEW b \in Addrs, NEW x \in Domains, Beneath(b) = x, pending'.domain[b] # NoDomain
          PROVE  pending'.addr[x] # Unset
      <4>1. CASE pending.domain[b] # NoDomain
        <5>1. pending.addr[x] # Unset
          BY <3>1, <3>2, <4>1, Zenon DEF Marked
        <5> QED
          BY <1>1, <2>4, <5>1, Apart, Zenon
      <4>2. CASE pending.domain[b] = NoDomain
        <5>1. b = A /\ FakeIPLoad(b) = x
          BY <2>4, <2>7, <3>2, <4>2, Zenon
        <5>2. x = O
          BY <2>1, <5>1, Apart, Zenon
        <5> QED
          BY <1>1, <2>4, <5>2, Apart, Zenon
      <4> QED
        BY <4>1, <4>2, Zenon
    <3>3. \A b \in Addrs : Beneath(b)' = Beneath(b)
      BY <1>2, Zenon DEF Beneath
    <3> QED
      BY <1>2, <3>1, <3>2, <3>3, Zenon DEF Marked
  <2>16. ASSUME NEW q \in Procs PROVE CallKnows(q)'
    <3>1. CASE q = p
      BY <1>3, <3>1, Zenon DEF CallKnows, PastCheck
    <3>2. CASE q # p
      <4>1. holder = p /\ pc'[q] = pc[q]
        BY <1>3, <3>2, OthersStay, Zenon DEF CreateStep, Base, LockShape, Locked, PastCheck
      <4>2. pc'[q] \notin Locked
        BY <3>2, <4>1, Zenon DEF Base, LockShape
      <4> QED
        BY <4>2, Zenon DEF CallKnows, Locked, PastCheck
    <3> QED
      BY <3>1, <3>2, Zenon
  <2> QED
    BY <2>9, <2>10, <2>11, <2>13, <2>14, <2>15, <2>16, Zenon DEF LayerInv
<1> QED
  BY <1>2, <1>4, <1>5, Zenon DEF Content

\* The content of the batches and the database moved, and the callers stayed.
LEMMA ContentMoves ==
    ASSUME Base, Content, DiskAgrees', torn \in BOOLEAN, torn' = torn,
           ~torn => LayerInv' /\ Shrinks,
           (failures' = 0 /\ ~torn) => Marked',
           UNCHANGED <<pc, dom, addr, old>>
    PROVE  Content'
<1>1. ASSUME ~torn, NEW q \in Procs PROVE CallKnows(q)'
  BY <1>1, CallStays, Zenon DEF Content
<1> QED
  BY <1>1, Zenon DEF Content

\* The batch is taken to be written.
LEMMA TakenContent ==
    ASSUME Base, Content, NEW f, FlushBegin(f), disk' = disk, given' = given, torn' = torn,
           failures' = failures
    PROVE  /\ DiskAgrees'
           /\ ~torn => LayerInv' /\ Shrinks
           /\ (failures = 0 /\ ~torn) => Marked'
<1>1. DiskAgrees'
  BY Zenon DEF Content, DiskAgrees
<1>2. CASE pending' = pending /\ writing' = writing /\ flush' = flush
  <2>1. SameLayers
    BY <1>2, Zenon DEF SameLayers
  <2>2. Shrinks
    BY <2>1, SameShrinks, Zenon
  <2>3. ASSUME ~torn PROVE LayerInv'
    <3>1. (Paired(pending) /\ Paired(writing) /\ WritingCovers /\ PendingCovers)'
      BY <1>2, <2>3 DEF Content, LayerInv, Paired, WritingCovers, PendingCovers, Beneath
    <3>2. WrittenOnDisk' /\ GivenIsPending'
      BY <1>2, <2>3, Zenon DEF Content, LayerInv, WrittenOnDisk, GivenIsPending
    <3>3. GivenIsLoaded'
      BY <1>2, <2>3, Zenon DEF Content, LayerInv, GivenIsLoaded, FakeIPLoad, CachedDomain
    <3> QED
      BY <3>1, <3>2, <3>3, Zenon DEF LayerInv
  <2>4. (failures = 0 /\ ~torn) => Marked'
    BY <1>2, Zenon DEF Content, Marked, Beneath
  <2> QED
    BY <1>1, <2>2, <2>3, <2>4, Zenon
<1>3. CASE flusher = Nobody /\ writing' = pending /\ pending' = newPendingWrites /\ flush' = "writing"
  <2>1. writing = newPendingWrites
    BY <1>3, Zenon DEF Base, LockShape
  <2>2. /\ \A a \in Addrs : /\ writing.domain[a] = NoDomain /\ pending'.domain[a] = NoDomain
                            /\ writing'.domain[a] = pending.domain[a]
                            /\ disk'.domain[a] = disk.domain[a]
        /\ \A d \in Domains : /\ writing.addr[d] = Unset /\ pending'.addr[d] = Unset
                              /\ writing'.addr[d] = pending.addr[d]
    BY <1>3, <2>1, EmptyBatch, Zenon
  <2>3. \A a \in Addrs : Beneath(a) = disk.domain[a]
    BY <2>2, Zenon DEF Beneath
  <2>4. Shrinks /\ \A a \in Addrs : FakeIPLoad(a)' = FakeIPLoad(a)
    BY <2>2, Zenon DEF Shrinks, FakeIPLoad, CachedDomain, CachedAddress
  <2>5. ASSUME ~torn PROVE LayerInv'
    <3>1. Paired(pending) /\ PendingCovers /\ GivenIsLoaded
      BY <2>5, Zenon DEF Content, LayerInv
    <3>2. Paired(pending)' /\ Paired(writing)'
      BY <2>2, <3>1, Apart DEF Paired
    <3>3. WritingCovers'
      BY <2>2, <2>3, <3>1 DEF PendingCovers, WritingCovers
    <3>4. PendingCovers'
      BY <2>2, Zenon DEF PendingCovers
    <3>5. WrittenOnDisk' /\ GivenIsPending'
      BY <1>3, Zenon DEF WrittenOnDisk, GivenIsPending
    <3>6. GivenIsLoaded'
      <4>1. \A d \in Domains : given[d] # Unset => given[d] \in Addrs /\ FakeIPLoad(given[d]) = d
        BY <3>1, LoadTypes, Zenon DEF GivenIsLoaded
      <4>2. \A d \in Domains, g \in Addrs : given[d] = g => FakeIPLoad(g)' = d
        BY <2>4, <4>1, Apart, Zenon
      <4> QED
        BY <4>1, <4>2 DEF GivenIsLoaded, FakeIPLoad, CachedDomain
    <3> QED
      BY <3>2, <3>3, <3>4, <3>5, <3>6, Zenon DEF LayerInv
  <2>6. ASSUME failures = 0, ~torn PROVE Marked'
    <3>1. Marked
      BY <2>6, Zenon DEF Content
    <3> QED
      BY <2>2, <2>3, <3>1 DEF Marked
  <2> QED
    BY <1>1, <2>4, <2>5, <2>6, Zenon
<1> QED
  BY <1>2, <1>3, Zenon DEF FlushBegin

\* The steps at which a Flush begins.
LEMMA ContentFlushBegins ==
    ASSUME Base, Content, (\E p \in Procs : CreateFlushes(p)) \/ LoopFlushes \/ CloseFlushes
                          \/ CacheFileFlushes
    PROVE  Content'
<1>1. /\ \E f : FlushBegin(f)
      /\ disk' = disk /\ given' = given /\ torn' = torn /\ failures' = failures
  BY Zenon DEF CreateFlushes, LoopFlushes, CloseFlushes, CacheFileFlushes, bounds, closeVars
<1>2. /\ DiskAgrees'
      /\ ~torn => LayerInv' /\ Shrinks
      /\ (failures = 0 /\ ~torn) => Marked'
  BY <1>1, TakenContent, Zenon
<1>3. torn \in BOOLEAN
  BY Zenon DEF Base, TypeOK
<1>4. ASSUME NEW p \in Procs, CreateFlushes(p) PROVE Content'
  <2>1. ASSUME ~torn PROVE CallKnows(p)'
    <3>1. pc[p] = "reserve" /\ pc'[p] \in {"allocate", "reserving"} /\ dom' = dom
      BY <1>4, Zenon DEF CreateFlushes, Goto, Base, TypeOK
    <3>2. dom[p] \in Domains /\ \A a \in Addrs : FakeIPLoad(a) # dom[p]
      BY <2>1, <3>1, Zenon DEF Base, CallShape, Content, CallKnows, PastCheck
    <3>3. \A a \in Addrs : FakeIPLoad(a)' \in {NoDomain, FakeIPLoad(a)}
      BY <1>2, <2>1, Zenon DEF Shrinks
    <3>4. \A a \in Addrs : FakeIPLoad(a)' # dom'[p]
      BY <3>1, <3>2, <3>3, Apart, Zenon
    <3> QED
      BY <3>1, <3>4, Zenon DEF CallKnows
  <2>2. ASSUME ~torn, NEW q \in Procs PROVE CallKnows(q)'
    <3>1. CASE q = p
      BY <2>1, <2>2, <3>1, Zenon
    <3>2. CASE q # p
      <4>1. pc'[q] = pc[q] /\ dom'[q] = dom[q] /\ addr'[q] = addr[q] /\ old'[q] = old[q]
        BY <1>4, <3>2, OthersStay, Zenon DEF CreateStep
      <4>2. CallKnows(q) /\ Shrinks
        BY <1>2, <2>2, Zenon DEF Content
      <4> QED
        BY <4>1, <4>2, CallStays, Zenon
    <3> QED
      BY <3>1, <3>2, Zenon
  <2> QED
    BY <1>1, <1>2, <2>2, Zenon DEF Content
<1>5. CASE LoopFlushes \/ CloseFlushes \/ CacheFileFlushes
  <2>1. UNCHANGED <<pc, dom, addr, old>>
    BY <1>5, Zenon DEF LoopFlushes, CloseFlushes, CacheFileFlushes, callVars
  <2>2. ~torn => LayerInv' /\ Shrinks
    BY <1>2, Zenon
  <2>3. (failures' = 0 /\ ~torn) => Marked'
    BY <1>1, <1>2, Zenon
  <2> QED
    BY <1>1, <1>2, <1>3, <2>1, <2>2, <2>3, ContentMoves, Zenon
<1> QED
  BY <1>4, <1>5, Zenon

\* What was given is still seen where the lookups of these addresses are as before.
LEMMA GivenStays ==
    ASSUME Base, GivenIsLoaded, given' = given, \A a \in Addrs : FakeIPLoad(a)' = FakeIPLoad(a)
    PROVE  GivenIsLoaded'
<1>1. \A d \in Domains : given[d] # Unset => given[d] \in Addrs /\ FakeIPLoad(given[d]) = d
  BY LoadTypes, Zenon DEF GivenIsLoaded
<1>2. \A d \in Domains, g \in Addrs : given[d] = g => FakeIPLoad(g)' = d
  BY <1>1, Apart, Zenon
<1> QED
  BY <1>1, <1>2, Zenon DEF GivenIsLoaded, FakeIPLoad, CachedDomain

\* The batch was written, and is forgotten.
LEMMA ForgottenContent ==
    ASSUME Base, Content, flush = "written", pending' = pending, writing' = newPendingWrites,
           flush' = "none", disk' = disk, given' = given, torn' = torn, failures' = failures
    PROVE  /\ DiskAgrees'
           /\ ~torn => LayerInv' /\ Shrinks
           /\ (failures = 0 /\ ~torn) => Marked'
<1>1. DiskAgrees'
  BY Zenon DEF Content, DiskAgrees
<1>2. /\ \A a \in Addrs : writing'.domain[a] = NoDomain
      /\ \A d \in Domains : writing'.addr[d] = Unset
  BY EmptyBatch, Zenon
<1>3. \A a \in Addrs : Beneath(a)' = disk.domain[a]
  BY <1>2, Zenon DEF Beneath
<1>4. ASSUME ~torn PROVE LayerInv' /\ Shrinks
  <2>1. Paired(pending) /\ PendingCovers /\ WrittenOnDisk /\ GivenIsLoaded
    BY <1>4, Zenon DEF Content, LayerInv
  <2>2. \A a \in Addrs : Beneath(a) = disk.domain[a]
    BY <2>1, Zenon DEF WrittenOnDisk, Beneath
  <2>3. \A a \in Addrs : FakeIPLoad(a)' = FakeIPLoad(a)
    BY <1>2, <2>2, Zenon DEF FakeIPLoad, CachedDomain, Beneath
  <2>4. Shrinks
    BY <1>2, <2>3, Zenon DEF Shrinks, CachedDomain, CachedAddress
  <2>5. Paired(pending)' /\ Paired(writing)' /\ WritingCovers'
    BY <1>2, <2>1, Apart, SMTT(30) DEF Paired, WritingCovers
  <2>6. PendingCovers'
    BY <1>3, <2>1, <2>2 DEF PendingCovers
  <2>7. WrittenOnDisk' /\ GivenIsPending'
    BY Zenon DEF WrittenOnDisk, GivenIsPending
  <2>8. GivenIsLoaded'
    BY <2>1, <2>3, GivenStays, Zenon
  <2> QED
    BY <2>4, <2>5, <2>6, <2>7, <2>8, Zenon DEF LayerInv
<1>5. ASSUME failures = 0, ~torn PROVE Marked'
  <2>1. Marked /\ WrittenOnDisk
    BY <1>5, Zenon DEF Content, LayerInv
  <2>2. \A a \in Addrs : Beneath(a) = disk.domain[a]
    BY <2>1, Zenon DEF WrittenOnDisk, Beneath
  <2> QED
    BY <1>2, <1>3, <2>1, <2>2 DEF Marked
<1> QED
  BY <1>1, <1>4, <1>5, Zenon

\* The batch was not written, and is put back.
LEMMA RestoredContent ==
    ASSUME Counting, Base, Content, failures # 0, disk' = disk, given' = given, torn' = torn, failures' = failures,
           NEW first \in Picks(writing, Restorable(pending, Recorded(writing))),
           pending' = restored(first), writing' = newPendingWrites, flush' = "none"
    PROVE  /\ DiskAgrees'
           /\ ~torn => LayerInv' /\ Shrinks
           /\ (failures = 0 /\ ~torn) => Marked'
<1> DEFINE R == Restorable(pending, Recorded(writing))
           kept == {first[d] : d \in DOMAIN first}
<1>1. DiskAgrees'
  BY Zenon DEF Content, DiskAgrees
<1>2. /\ \A a \in Addrs : writing'.domain[a] = NoDomain
      /\ \A d \in Domains : writing'.addr[d] = Unset
  BY EmptyBatch, Zenon
<1>3. /\ DOMAIN first = {writing.domain[a] : a \in R}
      /\ \A d \in DOMAIN first : first[d] \in R /\ writing.domain[first[d]] = d
  BY Zenon DEF Picks
<1>4. /\ kept \subseteq R /\ DOMAIN first \subseteq Domains
      /\ pending'.domain = [a \in Addrs |-> IF a \in kept THEN writing.domain[a] ELSE pending.domain[a]]
      /\ pending'.addr = [d \in Domains |-> IF d \in DOMAIN first THEN first[d] ELSE pending.addr[d]]
  BY Restored, Zenon DEF Base
<1>5. /\ \A a \in Addrs : pending'.domain[a] = IF a \in kept THEN writing.domain[a] ELSE pending.domain[a]
      /\ \A d \in Domains : pending'.addr[d] = IF d \in DOMAIN first THEN first[d] ELSE pending.addr[d]
  BY <1>4, Zenon
<1>6. \A a \in R : /\ a \in Addrs /\ pending.domain[a] = NoDomain /\ writing.domain[a] # NoDomain
                   /\ pending.addr[writing.domain[a]] = Unset
  BY Zenon DEF Restorable, Recorded
<1>7. ASSUME ~torn PROVE LayerInv' /\ Shrinks
  <2>1. Paired(pending) /\ Paired(writing) /\ PendingCovers /\ WritingCovers /\ GivenIsLoaded
    BY <1>7, Zenon DEF Content, LayerInv
  <2>2. \A d \in DOMAIN first : /\ d \in Domains /\ first[d] \in Addrs /\ writing.addr[d] = first[d]
                                /\ pending.addr[d] = Unset
    <3> SUFFICES ASSUME NEW d \in DOMAIN first
                 PROVE  /\ d \in Domains /\ first[d] \in Addrs /\ writing.addr[d] = first[d]
                        /\ pending.addr[d] = Unset
      OBVIOUS
    <3> HIDE DEF R
    <3>1. d \in Domains /\ first[d] \in R /\ writing.domain[first[d]] = d
      BY <1>3, <1>4, Zenon
    <3>2. first[d] \in Addrs /\ pending.addr[d] = Unset
      BY <1>6, <3>1, Zenon
    <3> QED
      BY <2>1, <3>1, <3>2, Zenon DEF Paired
  <2>3. \A a \in Addrs : (writing.domain[a] # NoDomain /\ pending.domain[a] = NoDomain) =>
                            writing.domain[a] \in DOMAIN first /\ first[writing.domain[a]] = a
    <3> SUFFICES ASSUME NEW a \in Addrs, writing.domain[a] # NoDomain, pending.domain[a] = NoDomain
                 PROVE  writing.domain[a] \in DOMAIN first /\ first[writing.domain[a]] = a
      OBVIOUS
    <3>1. writing.domain[a] \in Domains /\ Beneath(a) = writing.domain[a]
      BY LoadTypes, Zenon DEF Beneath
    <3>2. pending.addr[writing.domain[a]] = Unset
      BY <2>1, <3>1, Zenon DEF PendingCovers
    <3>3. a \in R
      BY <3>2, Zenon DEF Restorable, Recorded
    <3>4. writing.domain[a] \in DOMAIN first
      BY <1>3, <3>3, Zenon
    <3>5. writing.addr[writing.domain[a]] = a
      BY <2>1, <3>1, Zenon DEF Paired
    <3> QED
      BY <2>2, <3>4, <3>5, Zenon
  <2>4. \A a \in Addrs : a \in kept <=> writing.domain[a] # NoDomain /\ pending.domain[a] = NoDomain
    BY <1>4, <1>6, <2>3
  <2> HIDE DEF kept, R
  <2>5. \A a \in Addrs : pending'.domain[a] = CachedDomain(a)
    BY <1>5, <2>4, Zenon DEF CachedDomain
  <2>6. \A a \in Addrs : FakeIPLoad(a)' = FakeIPLoad(a) /\ CachedDomain(a)' = CachedDomain(a)
    BY <1>2, <2>5, Zenon DEF FakeIPLoad, CachedDomain
  <2>7. \A d \in Domains : CachedAddress(d) = Unset => CachedAddress(d)' = Unset
    BY <1>2, <1>5, <2>2, Apart, Zenon DEF CachedAddress
  <2>8. Shrinks
    BY <2>6, <2>7, Zenon DEF Shrinks
  <2>9. Paired(pending)'
    <3> SUFFICES ASSUME NEW a \in Addrs, NEW d \in Domains
                 PROVE  pending'.domain[a] = d <=> pending'.addr[d] = a
      BY Zenon DEF Paired
    <3>1. pending.domain[a] = d <=> pending.addr[d] = a
      BY <2>1, Zenon DEF Paired
    <3>2. writing.domain[a] = d <=> writing.addr[d] = a
      BY <2>1, Zenon DEF Paired
    <3>3. ASSUME pending'.domain[a] = d PROVE pending'.addr[d] = a
      <4>1. CASE pending.domain[a] # NoDomain
        <5>1. pending.addr[d] = a /\ d \notin DOMAIN first
          BY <1>5, <2>2, <2>4, <3>1, <3>3, <4>1, Apart
        <5> QED
          BY <1>5, <5>1, Zenon
      <4>2. CASE pending.domain[a] = NoDomain
        <5>1. writing.domain[a] = d
          BY <2>5, <3>3, <4>2, Zenon DEF CachedDomain
        <5>2. d \in DOMAIN first /\ first[d] = a
          BY <2>3, <4>2, <5>1, Apart, Zenon
        <5> QED
          BY <1>5, <5>2, Zenon
      <4> QED
        BY <4>1, <4>2, Zenon
    <3>4. ASSUME pending'.addr[d] = a PROVE pending'.domain[a] = d
      <4>1. CASE d \in DOMAIN first
        <5>1. first[d] = a
          BY <1>5, <3>4, <4>1, Zenon
        <5>2. writing.domain[a] = d /\ a \in R
          BY <1>3, <4>1, <5>1, Zenon
        <5>3. pending.domain[a] = NoDomain
          BY <1>6, <5>2, Zenon
        <5> QED
          BY <2>5, <5>2, <5>3, Zenon DEF CachedDomain
      <4>2. CASE d \notin DOMAIN first
        <5>1. pending.domain[a] = d
          BY <1>5, <3>1, <3>4, <4>2, Zenon
        <5> QED
          BY <2>5, <5>1, Apart, Zenon DEF CachedDomain
      <4> QED
        BY <4>1, <4>2, Zenon
    <3> QED
      BY <3>3, <3>4, Zenon
  <2>10. Paired(writing)' /\ WritingCovers'
    BY <1>2, Apart, Zenon DEF Paired, WritingCovers
  <2>11. PendingCovers'
    <3> SUFFICES ASSUME NEW a \in Addrs, NEW d \in Domains, Beneath(a)' = d, pending'.addr[d] # Unset
                 PROVE  pending'.domain[a] # NoDomain
      BY Zenon DEF PendingCovers
    <3>1. disk.domain[a] = d
      BY <1>2, Zenon DEF Beneath
    <3>2. CASE d \in DOMAIN first
      <4>1. writing.addr[d] # Unset
        BY <2>2, <3>2, Apart, Zenon
      <4>2. writing.domain[a] # NoDomain
        BY <2>1, <3>1, <4>1, Zenon DEF WritingCovers
      <4> QED
        BY <2>5, <4>2, Zenon DEF CachedDomain
    <3>3. CASE d \notin DOMAIN first /\ writing.domain[a] = NoDomain
      <4>1. pending.addr[d] # Unset /\ Beneath(a) = d
        BY <1>5, <3>1, <3>3, Zenon DEF Beneath
      <4>2. pending.domain[a] # NoDomain
        BY <2>1, <4>1, Zenon DEF PendingCovers
      <4> QED
        BY <2>5, <4>2, Zenon DEF CachedDomain
    <3>4. CASE writing.domain[a] # NoDomain
      BY <2>5, <3>4, Zenon DEF CachedDomain
    <3> QED
      BY <3>2, <3>3, <3>4, Zenon
  <2>12. WrittenOnDisk' /\ GivenIsPending'
    BY Zenon DEF WrittenOnDisk, GivenIsPending
  <2>13. GivenIsLoaded'
    BY <2>1, <2>6, GivenStays, Zenon
  <2> QED
    BY <2>8, <2>9, <2>10, <2>11, <2>12, <2>13, Zenon DEF LayerInv
<1> QED
  BY <1>1, <1>7, Zenon

\* The steps at which a Flush ends.
LEMMA ContentFlushEnds ==
    ASSUME Counting, Base, Content, failures = 0 => flush # "failed",
           (\E p \in Procs : CreateHasReserved(p)) \/ LoopGoesOn \/ CloseReturns
           \/ CacheFileFlushed
    PROVE  Content'
<1>1. /\ \E f : FlushEnd(f)
      /\ disk' = disk /\ given' = given /\ torn' = torn /\ failures' = failures
  BY Zenon DEF CreateHasReserved, LoopGoesOn, CloseReturns, CacheFileFlushed, bounds, closeVars
<1>2. /\ writing' = newPendingWrites /\ flush' = "none"
      /\ \/ flush = "written" /\ pending' = pending
         \/ /\ flush = "failed"
            /\ \E first \in Picks(writing, Restorable(pending, Recorded(writing))) : pending' = restored(first)
  BY <1>1, Zenon DEF FlushEnd, restorePendingLocked
<1>3. /\ DiskAgrees'
      /\ ~torn => LayerInv' /\ Shrinks
      /\ (failures = 0 /\ ~torn) => Marked'
  <2>1. CASE flush = "written" /\ pending' = pending
    BY <1>1, <1>2, <2>1, ForgottenContent, Zenon
  <2>2. CASE /\ flush = "failed"
             /\ \E first \in Picks(writing, Restorable(pending, Recorded(writing))) : pending' = restored(first)
    <3>1. failures # 0
      BY <2>2, Zenon
    <3> QED
      BY <1>1, <1>2, <2>2, <3>1, RestoredContent, Zenon
  <2> QED
    BY <1>2, <2>1, <2>2, Zenon
<1>4. torn \in BOOLEAN
  BY Zenon DEF Base, TypeOK
<1>5. ASSUME NEW p \in Procs, CreateHasReserved(p) PROVE Content'
  <2>1. ASSUME ~torn PROVE CallKnows(p)'
    <3>1. pc[p] = "reserving" /\ pc'[p] = "allocate" /\ dom' = dom
      BY <1>5, Zenon DEF CreateHasReserved, Goto, Base, TypeOK
    <3>2. dom[p] \in Domains /\ \A a \in Addrs : FakeIPLoad(a) # dom[p]
      BY <2>1, <3>1, Zenon DEF Base, CallShape, Content, CallKnows, PastCheck
    <3>3. \A a \in Addrs : FakeIPLoad(a)' \in {NoDomain, FakeIPLoad(a)}
      BY <1>3, <2>1, Zenon DEF Shrinks
    <3>4. \A a \in Addrs : FakeIPLoad(a)' # dom'[p]
      BY <3>1, <3>2, <3>3, Apart, Zenon
    <3> QED
      BY <3>1, <3>4, Zenon DEF CallKnows
  <2>2. ASSUME ~torn, NEW q \in Procs PROVE CallKnows(q)'
    <3>1. CASE q = p
      BY <2>1, <2>2, <3>1, Zenon
    <3>2. CASE q # p
      <4>1. pc'[q] = pc[q] /\ dom'[q] = dom[q] /\ addr'[q] = addr[q] /\ old'[q] = old[q]
        BY <1>5, <3>2, OthersStay, Zenon DEF CreateStep
      <4>2. CallKnows(q) /\ Shrinks
        BY <1>3, <2>2, Zenon DEF Content
      <4> QED
        BY <4>1, <4>2, CallStays, Zenon
    <3> QED
      BY <3>1, <3>2, Zenon
  <2> QED
    BY <1>1, <1>3, <2>2, Zenon DEF Content
<1>6. CASE LoopGoesOn \/ CloseReturns \/ CacheFileFlushed
  <2>1. UNCHANGED <<pc, dom, addr, old>>
    BY <1>6, Zenon DEF LoopGoesOn, CloseReturns, CacheFileFlushed, callVars
  <2>2. ~torn => LayerInv' /\ Shrinks
    BY <1>3, Zenon
  <2>3. (failures' = 0 /\ ~torn) => Marked'
    BY <1>1, <1>3, Zenon
  <2> QED
    BY <1>1, <1>3, <1>4, <2>1, <2>2, <2>3, ContentMoves, Zenon
<1> QED
  BY <1>5, <1>6, Zenon

\* The transaction commits.
LEMMA ContentCommits ==
    ASSUME Base, Content, FlushCommits
    PROVE  Content'
<1>1. /\ pending' = pending /\ writing' = writing /\ given' = given /\ torn' = torn
      /\ failures' = failures /\ flush' = "written" /\ UNCHANGED <<pc, dom, addr, old>>
  BY Zenon DEF FlushCommits, callVars, bounds, closeVars
<1>2. PICK last \in Picks(writing, Recorded(writing)) : disk' = writePending(disk, writing, last)
  BY Zenon DEF FlushCommits
<1>3. /\ \A a \in Addrs : disk'.domain[a] = Beneath(a)
      /\ DOMAIN last = {writing.domain[a] : a \in Recorded(writing)}
      /\ \A d \in DOMAIN last : last[d] \in Recorded(writing) /\ writing.domain[last[d]] = d
      /\ \A d \in Domains : disk'.addr[d] =
                IF d \in DOMAIN last THEN last[d]
                ELSE IF disk.addr[d] \in Recorded(writing) /\ disk.domain[disk.addr[d]] = d
                     THEN Unset ELSE disk.addr[d]
  BY <1>2, Written, Zenon DEF Base
<1>4. \A a \in Addrs : a \in Recorded(writing) <=> writing.domain[a] # NoDomain
  BY Zenon DEF Recorded
<1>5. \A a \in Addrs : Beneath(a)' = Beneath(a)
  BY <1>1, <1>3, Zenon DEF Beneath
<1>6. Shrinks /\ \A a \in Addrs : FakeIPLoad(a)' = FakeIPLoad(a)
  <2>1. \A a \in Addrs : FakeIPLoad(a)' = FakeIPLoad(a)
    BY <1>1, <1>3, Zenon DEF FakeIPLoad, CachedDomain, Beneath
  <2> QED
    BY <1>1, <2>1, Zenon DEF Shrinks, CachedDomain, CachedAddress
<1>7. DiskAgrees'
  <2> SUFFICES ASSUME NEW a \in Addrs, NEW d \in Domains
               PROVE  /\ disk'.addr[d] = a => disk'.domain[a] = d
                      /\ disk'.domain[a] = d => disk'.addr[d] = a \/ torn'
    BY Zenon DEF DiskAgrees
  <2>1. ASSUME disk'.addr[d] = a PROVE disk'.domain[a] = d
    <3>1. CASE d \in DOMAIN last
      <4>1. last[d] = a
        BY <1>3, <2>1, <3>1, Zenon
      <4>2. writing.domain[a] = d
        BY <1>3, <3>1, <4>1, Zenon
      <4> QED
        BY <1>3, <4>2, Apart, Zenon DEF Beneath
    <3>2. CASE d \notin DOMAIN last
      <4>1. disk.addr[d] = a
        BY <1>3, <2>1, <3>2, Apart, Zenon
      <4>2. disk.domain[a] = d
        BY <4>1, Zenon DEF Content, DiskAgrees
      <4>3. a \notin Recorded(writing)
        BY <1>3, <2>1, <3>2, <4>1, <4>2, Apart
      <4> QED
        BY <1>3, <1>4, <4>2, <4>3, Zenon DEF Beneath
    <3> QED
      BY <3>1, <3>2, Zenon
  <2>2. ASSUME disk'.domain[a] = d, ~torn PROVE disk'.addr[d] = a
    <3>1. Paired(writing) /\ WritingCovers
      BY <2>2, Zenon DEF Content, LayerInv
    <3>2. \A x \in DOMAIN last : x = d => writing.addr[d] = last[d] /\ last[d] \in Addrs
      BY <1>3, <3>1 DEF Paired, Recorded
    <3>3. Beneath(a) = d
      BY <1>3, <2>2, Zenon
    <3>4. CASE writing.domain[a] # NoDomain
      <4>1. writing.domain[a] = d /\ writing.addr[d] = a
        BY <3>1, <3>3, <3>4, Zenon DEF Beneath, Paired
      <4>2. d \in DOMAIN last
        BY <1>3, <1>4, <3>4, <4>1, Zenon
      <4> QED
        BY <1>3, <3>2, <4>1, <4>2, Zenon
    <3>5. CASE writing.domain[a] = NoDomain
      <4>1. disk.domain[a] = d
        BY <3>3, <3>5, Zenon DEF Beneath
      <4>2. writing.addr[d] = Unset
        BY <3>1, <3>5, <4>1, Zenon DEF WritingCovers
      <4>3. d \notin DOMAIN last
        BY <3>2, <4>2, Apart, Zenon
      <4>4. disk.addr[d] = a
        BY <2>2, <4>1, Zenon DEF Content, DiskAgrees
      <4> QED
        BY <1>3, <1>4, <3>5, <4>3, <4>4, Zenon
    <3> QED
      BY <3>4, <3>5, Zenon
  <2> QED
    BY <1>1, <2>1, <2>2, Zenon
<1>8. ASSUME ~torn PROVE LayerInv'
  <2>1. Paired(pending) /\ Paired(writing) /\ PendingCovers /\ WritingCovers /\ GivenIsLoaded
    BY <1>8, Zenon DEF Content, LayerInv
  <2>2. Paired(pending)' /\ Paired(writing)'
    BY <1>1, <2>1, SMTT(30) DEF Paired
  <2>3. WritingCovers'
    BY <1>1, <1>3, <2>1 DEF WritingCovers, Beneath
  <2>4. PendingCovers'
    BY <1>1, <1>5, <2>1, Zenon DEF PendingCovers
  <2>5. WrittenOnDisk' /\ GivenIsPending'
    BY <1>1, <1>3, Zenon DEF WrittenOnDisk, GivenIsPending, Beneath
  <2>6. GivenIsLoaded'
    BY <1>1, <1>6, <2>1, GivenStays, Zenon
  <2> QED
    BY <2>2, <2>3, <2>4, <2>5, <2>6, Zenon DEF LayerInv
<1>9. ASSUME failures = 0, ~torn PROVE Marked'
  <2>1. Marked /\ Paired(writing)
    BY <1>9, Zenon DEF Content, LayerInv
  <2>2. \A a \in Addrs, d \in Domains :
            (disk'.domain[a] = d /\ writing.domain[a] # NoDomain) => writing.addr[d] # Unset
    BY <1>3, <2>1, Apart DEF Paired, Beneath
  <2> QED
    BY <1>1, <1>5, <2>1, <2>2, Zenon DEF Marked
<1>10. torn \in BOOLEAN
  BY Zenon DEF Base, TypeOK
<1> QED
  BY <1>1, <1>6, <1>7, <1>8, <1>9, <1>10, ContentMoves, Zenon

\* The transaction fails, and may cost the database.
LEMMA ContentFails ==
    ASSUME Base, Content, NEW db \in {disk, NoRecords}, FlushFails(db)
    PROVE  Content'
<1>1. /\ pending' = pending /\ writing' = writing /\ torn' = torn /\ disk' = db
      /\ failures' = failures + 1 /\ flush' = "failed" /\ UNCHANGED <<pc, dom, addr, old>>
      /\ given' = [d \in Domains |-> IF db = disk \/ CachedAddress(d) # Unset THEN given[d] ELSE Unset]
  BY Zenon DEF FlushFails, callVars
<1>2. failures' # 0
  BY <1>1 DEF Base
<1>3. \/ disk' = disk
      \/ /\ \A a \in Addrs : disk'.domain[a] = NoDomain
         /\ \A d \in Domains : disk'.addr[d] = Unset
  BY <1>1, EmptyDisk, Zenon
<1>4. DiskAgrees'
  <2>1. CASE disk' = disk
    BY <1>1, <2>1, Zenon DEF Content, DiskAgrees
  <2>2. CASE disk' # disk
    BY <1>3, <2>2, Apart, Zenon DEF DiskAgrees
  <2> QED
    BY <2>1, <2>2, Zenon
<1>5. Shrinks
  BY <1>1, <1>3, Zenon DEF Shrinks, FakeIPLoad, CachedDomain, CachedAddress
<1>6. ASSUME ~torn PROVE LayerInv'
  <2>1. Paired(pending) /\ Paired(writing) /\ PendingCovers /\ WritingCovers /\ GivenIsLoaded
    BY <1>6, Zenon DEF Content, LayerInv
  <2>2. Paired(pending)' /\ Paired(writing)'
    BY <1>1, <2>1 DEF Paired
  <2>3. WritingCovers'
    BY <1>1, <1>3, <2>1, Apart, Zenon DEF WritingCovers
  <2>4. PendingCovers'
    <3>1. \A a \in Addrs : Beneath(a)' \in {NoDomain, Beneath(a)}
      BY <1>1, <1>3, Zenon DEF Beneath
    <3> QED
      BY <1>1, <2>1, <3>1, Apart, Zenon DEF PendingCovers
  <2>5. WrittenOnDisk' /\ GivenIsPending'
    BY <1>1, Zenon DEF WrittenOnDisk, GivenIsPending
  <2>6. GivenIsLoaded'
    <3>1. CASE disk' = disk
      <4>1. \A d \in Domains : given'[d] # Unset => given'[d] = given[d]
        BY <1>1, Zenon
      <4>2. \A a \in Addrs : FakeIPLoad(a)' = FakeIPLoad(a)
        BY <1>1, <3>1, Zenon DEF FakeIPLoad, CachedDomain
      <4>3. \A d \in Domains : given[d] # Unset => given[d] \in Addrs /\ FakeIPLoad(given[d]) = d
        BY <2>1, LoadTypes, Zenon DEF GivenIsLoaded
      <4>4. \A d \in Domains, g \in Addrs : given'[d] = g => FakeIPLoad(g)' = d
        BY <4>1, <4>2, <4>3, Apart, ZenonT(60)
      <4> QED
        BY <4>1, <4>3, <4>4, Zenon DEF GivenIsLoaded, FakeIPLoad, CachedDomain
    <3>2. CASE disk' # disk
      <4>1. \A d \in Domains : given'[d] # Unset => given'[d] = given[d] /\ CachedAddress(d) # Unset
        BY <1>1, <3>2, Zenon
      <4>2. ASSUME NEW d \in Domains, given'[d] # Unset
            PROVE  given'[d] \in Addrs /\ CachedDomain(given'[d]) = d
        <5>1. given'[d] = given[d] /\ CachedAddress(d) # Unset
          BY <4>1, <4>2, Zenon
        <5>2. given[d] \in Addrs /\ FakeIPLoad(given[d]) = d
          BY <2>1, <4>2, <5>1, LoadTypes, Zenon DEF GivenIsLoaded
        <5>3. FakeIPLoadDomain(d) = given[d]
          BY <1>6, <5>2, LoadIsKnown, Zenon
        <5>4. CachedAddress(d) = given[d]
          BY <5>1, <5>3, Zenon DEF FakeIPLoadDomain
        <5>5. pending.domain[given[d]] = d \/ writing.domain[given[d]] = d
          BY <2>1, <5>2, <5>4 DEF CachedAddress, Paired
        <5>6. CachedDomain(given[d]) = d
          BY <5>2, <5>5, Apart, Zenon DEF FakeIPLoad, CachedDomain
        <5> QED
          BY <5>1, <5>2, <5>6, Zenon
      <4> QED
        BY <1>1, <4>2, Apart DEF GivenIsLoaded, FakeIPLoad, CachedDomain
    <3> QED
      BY <3>1, <3>2, Zenon
  <2> QED
    BY <2>2, <2>3, <2>4, <2>5, <2>6, Zenon DEF LayerInv
<1>7. torn \in BOOLEAN
  BY Zenon DEF Base, TypeOK
<1> QED
  BY <1>1, <1>2, <1>4, <1>5, <1>6, <1>7, ContentMoves, Zenon

\* Reset empties the batch.
LEMMA ContentResets ==
    ASSUME Counting, Base, Content, FakeIPReset
    PROVE  Content'
<1>1. /\ writing' = writing /\ disk' = disk /\ failures' = failures /\ flush' = "deleting"
      /\ given' = [d \in Domains |-> Unset] /\ UNCHANGED <<pc, dom, addr, old>>
      /\ torn' = (torn \/ \E p \in Procs : pc[p] \in PastCheck) /\ flusher = Nobody
  BY Zenon DEF FakeIPReset, callVars
<1>2. writing = newPendingWrites /\ pending' = newPendingWrites
  BY <1>1, ResetEmpties, Zenon DEF Base, LockShape
<1>3. /\ \A a \in Addrs : pending'.domain[a] = NoDomain /\ writing'.domain[a] = NoDomain
      /\ \A d \in Domains : pending'.addr[d] = Unset /\ writing'.addr[d] = Unset
  BY <1>1, <1>2, EmptyBatch, Zenon
<1>4. torn => torn'
  BY <1>1, Zenon
<1>5. DiskAgrees'
  BY <1>1, <1>4, Zenon DEF Content, DiskAgrees
<1>6. (Paired(pending) /\ Paired(writing) /\ WritingCovers /\ PendingCovers)'
  BY <1>3, Apart, Zenon DEF Paired, WritingCovers, PendingCovers
<1>7. WrittenOnDisk' /\ GivenIsPending' /\ GivenIsLoaded'
  BY <1>1, Zenon DEF WrittenOnDisk, GivenIsPending, GivenIsLoaded
<1>8. ASSUME ~torn', NEW q \in Procs PROVE CallKnows(q)'
  <2>1. pc'[q] \notin PastCheck
    BY <1>1, <1>8, Zenon
  <2>2. pc'[q] = "diskagain" => dom'[q] \in Domains
    BY <1>1, Zenon DEF Base, CallShape
  <2>3. pc'[q] = "diskagain" => CachedAddress(dom[q])' = Unset
    BY <1>3, <2>2, Zenon DEF CachedAddress
  <2> QED
    BY <2>1, <2>3, Zenon DEF CallKnows, PastCheck
<1>9. Marked'
  BY <1>3, Zenon DEF Marked
<1> QED
  BY <1>5, <1>6, <1>7, <1>8, <1>9, Zenon DEF Content, LayerInv

\* Reset empties the database, or fails to.
LEMMA ContentDeletes ==
    ASSUME Base, Content, FakeIPResetDeletes
    PROVE  Content'
<1>1. /\ pending' = pending /\ writing' = writing /\ given' = given /\ flush = "deleting"
      /\ flush' = "none" /\ UNCHANGED <<pc, dom, addr, old>>
  BY Zenon DEF FakeIPResetDeletes, callVars
<1>2. CASE disk' = NoRecords /\ torn' = torn /\ failures' = failures
  <2>1. writing = newPendingWrites
    BY <1>1, Zenon DEF Base, LockShape
  <2>2. /\ \A a \in Addrs : disk'.domain[a] = NoDomain /\ writing.domain[a] = NoDomain
        /\ \A d \in Domains : disk'.addr[d] = Unset /\ writing.addr[d] = Unset
    BY <1>2, <2>1, EmptyBatch, EmptyDisk, Zenon
  <2>3. DiskAgrees'
    BY <2>2, Apart, Zenon DEF DiskAgrees
  <2>4. Shrinks
    BY <1>1, <2>2, Zenon DEF Shrinks, FakeIPLoad, CachedDomain, CachedAddress
  <2>5. ASSUME ~torn PROVE LayerInv'
    <3>1. Paired(pending) /\ Paired(writing) /\ GivenIsPending
      BY <2>5, Zenon DEF Content, LayerInv
    <3>2. (Paired(pending) /\ Paired(writing) /\ WritingCovers /\ PendingCovers)'
      BY <1>1, <2>2, <3>1, Apart DEF Paired, WritingCovers, PendingCovers, Beneath
    <3>3. WrittenOnDisk' /\ GivenIsPending'
      BY <1>1, Zenon DEF WrittenOnDisk, GivenIsPending
    <3>4. \A d \in Domains : given[d] # Unset => pending.domain[given[d]] = d
      BY <1>1, <3>1, Zenon DEF GivenIsPending
    <3>5. GivenIsLoaded'
      BY <1>1, <3>4, Apart, Zenon DEF GivenIsLoaded, FakeIPLoad, CachedDomain
    <3> QED
      BY <3>2, <3>3, <3>5, Zenon DEF LayerInv
  <2>6. Marked'
    BY <1>1, <2>2, Apart, Zenon DEF Marked, Beneath
  <2>7. torn \in BOOLEAN
    BY Zenon DEF Base, TypeOK
  <2> QED
    BY <1>1, <1>2, <2>3, <2>4, <2>5, <2>6, <2>7, ContentMoves, Zenon
<1>3. CASE torn' = TRUE /\ disk' = disk
  <2>1. DiskAgrees'
    BY <1>3, Zenon DEF Content, DiskAgrees
  <2> QED
    BY <1>3, <2>1, Zenon DEF Content
<1> QED
  BY <1>2, <1>3, Zenon DEF FakeIPResetDeletes

\* After a crash there is what is on disk.
LEMMA ContentCrash ==
    ASSUME Base, Content, CrashAndStart
    PROVE  Content'
<1>1. /\ pending' = newPendingWrites /\ writing' = newPendingWrites /\ flush' = "none"
      /\ pc' = [p \in Procs |-> "idle"] /\ given' = [d \in Domains |-> disk'.addr[d]]
      /\ torn' = torn /\ (disk' = disk \/ disk' = NoRecords)
  BY Zenon DEF CrashAndStart
<1>2. /\ \A a \in Addrs : pending'.domain[a] = NoDomain /\ writing'.domain[a] = NoDomain
      /\ \A d \in Domains : pending'.addr[d] = Unset /\ writing'.addr[d] = Unset
  BY <1>1, EmptyBatch, Zenon
<1>3. \/ disk' = disk
      \/ /\ \A a \in Addrs : disk'.domain[a] = NoDomain
         /\ \A d \in Domains : disk'.addr[d] = Unset
  BY <1>1, EmptyDisk, SMTT(30)
<1>4. DiskAgrees'
  BY <1>1, <1>3, Apart, ZenonT(60) DEF Content, DiskAgrees
<1>5. (Paired(pending) /\ Paired(writing) /\ WritingCovers /\ PendingCovers)'
  BY <1>2, Apart, Zenon DEF Paired, WritingCovers, PendingCovers
<1>6. WrittenOnDisk' /\ GivenIsPending'
  BY <1>1, Zenon DEF WrittenOnDisk, GivenIsPending
<1>7. \A a \in Addrs : FakeIPLoad(a)' = disk'.domain[a]
  BY <1>2, Zenon DEF FakeIPLoad, CachedDomain
<1>8. \A d \in Domains : given'[d] # Unset => given'[d] \in Addrs /\ disk'.addr[d] = given'[d]
  BY <1>1, <1>3, LoadTypes, Zenon
<1>9. \A d \in Domains, g \in Addrs : given'[d] = g => FakeIPLoad(g)' = d
  <2> SUFFICES ASSUME NEW d \in Domains, NEW g \in Addrs, given'[d] = g
               PROVE  FakeIPLoad(g)' = d
    BY Zenon
  <2>1. disk'.addr[d] = g
    BY <1>8, Apart, Zenon
  <2>2. disk'.domain[g] = d
    BY <1>4, <2>1, Zenon DEF DiskAgrees
  <2> QED
    BY <1>7, <2>2, Zenon
<1>10. GivenIsLoaded'
  BY <1>8, <1>9, Zenon DEF GivenIsLoaded, FakeIPLoad, CachedDomain
<1>11. \A q \in Procs : CallKnows(q)'
  BY <1>1, Zenon DEF CallKnows, PastCheck
<1>12. Marked'
  BY <1>2, Zenon DEF Marked
<1> QED
  BY <1>4, <1>5, <1>6, <1>10, <1>11, <1>12, Zenon DEF Content, LayerInv

\* Every step.
LEMMA ContentNext ==
    ASSUME Counting, Base, Content, failures = 0 => flush # "failed", [Next]_vars
    PROVE  Content'
  BY ContentLookups, ContentMetadata, ContentQueues, ContentFlushBegins, ContentFlushEnds,
     ContentCommits, ContentFails, ContentResets, ContentDeletes, ContentCrash, Zenon
     DEF Next, Running, CreateStep, CloseStep

\* The contents when the store starts.
LEMMA ContentInit == Init => Content
<1> SUFFICES ASSUME Init PROVE Content
  OBVIOUS
<1>1. /\ pending = newPendingWrites /\ writing = newPendingWrites /\ disk = NoRecords
      /\ flush = "none" /\ pc = [p \in Procs |-> "idle"] /\ given = [d \in Domains |-> Unset]
  BY Zenon DEF Init
<1>2. /\ \A a \in Addrs : /\ pending.domain[a] = NoDomain /\ writing.domain[a] = NoDomain
                          /\ disk.domain[a] = NoDomain
      /\ \A d \in Domains : pending.addr[d] = Unset /\ writing.addr[d] = Unset /\ disk.addr[d] = Unset
  BY <1>1, EmptyBatch, EmptyDisk, Zenon
<1>3. DiskAgrees /\ Marked
  BY <1>2, Apart, Zenon DEF DiskAgrees, Marked
<1>4. Paired(pending) /\ Paired(writing) /\ WritingCovers /\ PendingCovers
  BY <1>2, Apart, Zenon DEF Paired, WritingCovers, PendingCovers
<1>5. WrittenOnDisk /\ GivenIsLoaded /\ GivenIsPending
  BY <1>1, Zenon DEF WrittenOnDisk, GivenIsLoaded, GivenIsPending
<1>6. \A p \in Procs : CallKnows(p)
  BY <1>1, Zenon DEF CallKnows, PastCheck
<1> QED
  BY <1>3, <1>4, <1>5, <1>6, Zenon DEF Content, LayerInv
=============================================================================
