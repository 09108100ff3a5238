------------------------------- MODULE FakeIP --------------------------------
(***************************************************************************)
(* The FakeIP store (dns/transport/fakeip/store.go) over the cache file's  *)
(* write-back buffer (experimental/cachefile/pending.go, fakeip.go): each  *)
(* domain is given the next address of a range, in turn, and the two       *)
(* directions of the mapping are kept in a pending batch, in a batch being *)
(* written and in two buckets on disk.                                     *)
(*                                                                         *)
(* One address family is modelled; the code keeps the same state twice.    *)
(* Addresses are 1..N in the order they are handed out, 0 is the value the *)
(* current address starts from.                                            *)
(***************************************************************************)
EXTENDS Integers, FiniteSets

CONSTANTS
    Procs,        \* concurrent callers of Create
    Domains,
    NoDomain,     \* the empty string
    N,            \* how many addresses the range has to give
    Reserved,     \* reservedAddressCount
    FlushInterval,\* the option flush_interval; 0, the default, is none
    MaxCreates,   \* bound on the allocations
    MaxEvents     \* bound on the failed writes, Resets, closes and crashes together

ASSUME FakeIPAssumption ==
    /\ NoDomain \notin Domains
    /\ Procs \cap {"nobody", "loop", "reset", "close"} = {}
    /\ N \in Nat \ {0} /\ Reserved \in Nat \ {0} /\ FlushInterval \in Nat
    /\ MaxCreates \in Nat /\ MaxEvents \in Nat

VARIABLES
    pending,   \* c.pending
    writing,   \* c.writing, an empty batch for nil
    disk,      \* the committed database
    timer,     \* flushTimer is armed
    loop,      \* loopFlush waits for the timer or is about to call Flush
    flusher,   \* who holds flushAccess
    flush,     \* where that Flush is
    current, reserved, holder,   \* the Store; holder of addressAccess
    pc, dom, addr, old,          \* Create and its locals
    closing,   \* how far Box.Close is with Store.Close and CacheFile.Close
    snapshot,  \* the metadata Store.Close took
    sealed,    \* history: no Create had addressAccess since the Flush of CacheFile.Close
    given,     \* history: the address Create allocated to a domain
    torn,      \* history: FakeIPReset did not empty the batches and the database at once
    failures,  \* history: how many writes failed
    creates, events

storeVars == <<current, reserved, holder>>
callVars == <<pc, dom, addr, old>>
flushVars == <<writing, loop, flusher, flush>>
closeVars == <<closing, snapshot, sealed>>
bounds == <<torn, failures, creates, events>>
vars == <<pending, disk, timer, flushVars, storeVars, callVars, closeVars, given, bounds>>

Addrs == 1..N
Unset == -2      \* no entry in a map
Invalid == -1    \* netip.Addr{}: the domain is known to have no address
Nobody == "nobody"

NoRecords == [domain |-> [a \in Addrs |-> NoDomain], addr |-> [d \in Domains |-> Unset],
              meta |-> Unset]
newPendingWrites == [domain |-> NoRecords.domain, addr |-> NoRecords.addr,
                     meta |-> Unset, count |-> 0]

\* The record of a batch for a domain or an address, as the readers see it
\* under pendingAccess; writing is looked at only where pending has no entry.
CachedAddress(d) == IF pending.addr[d] # Unset THEN pending.addr[d] ELSE writing.addr[d]
CachedDomain(a) == IF pending.domain[a] # NoDomain THEN pending.domain[a] ELSE writing.domain[a]

\* What a lookup that is not disturbed returns.
FakeIPLoadDomain(d) == IF CachedAddress(d) # Unset THEN CachedAddress(d) ELSE disk.addr[d]
FakeIPLoad(a) == IF CachedDomain(a) # NoDomain THEN CachedDomain(a) ELSE disk.domain[a]

nextAddress(a) == IF a + 1 \notin Addrs THEN 1 ELSE a + 1

\* The address Reserved allocations ahead, nextAddress so many times over.
ReservedAhead(a) == ((a + Reserved - 1) % N) + 1

Init ==
    /\ pending = newPendingWrites /\ writing = newPendingWrites /\ disk = NoRecords
    /\ timer = FALSE /\ loop = "waiting" /\ flusher = Nobody /\ flush = "none"
    /\ current = 0 /\ reserved = 0 /\ holder = Nobody
    /\ pc = [p \in Procs |-> "idle"] /\ dom = [p \in Procs |-> NoDomain]
    /\ addr = [p \in Procs |-> Unset] /\ old = [p \in Procs |-> NoDomain]
    /\ closing = "no" /\ snapshot = Unset /\ sealed = FALSE
    /\ given = [d \in Domains |-> Unset]
    /\ torn = FALSE /\ failures = 0 /\ creates = 0 /\ events = 0

\* One more of the events MaxEvents bounds.
Event == events < MaxEvents /\ events' = events + 1

-----------------------------------------------------------------------------
(***************************************************************************)
(* The write-back buffer.                                                  *)
(***************************************************************************)

\* enqueueLocked: a batch that gets its first entry arms the timer, if there
\* is an interval.
EnqueueLocked(batch, added) ==
    /\ pending' = IF added THEN [batch EXCEPT !.count = @ + 1] ELSE batch
    /\ timer' = (timer \/ (added /\ batch.count = 0 /\ FlushInterval > 0))

SaveMetadataAsync(a) == EnqueueLocked([pending EXCEPT !.meta = a], pending.meta = Unset)

\* Mutant: the domain that had the address is not marked.
QueueFakeIP_NoMarker(a, d, oldDomain) ==
    EnqueueLocked([pending EXCEPT !.domain[a] = d, !.addr[d] = a], pending.domain[a] = NoDomain)

\* queueFakeIP after FakeIPLoad found oldDomain.
QueueFakeIP(a, d, oldDomain) ==
    LET before == IF oldDomain # NoDomain THEN oldDomain ELSE pending.domain[a]
        marked == IF before \notin {NoDomain, d} THEN [pending.addr EXCEPT ![before] = Invalid]
                                                 ELSE pending.addr
    IN  EnqueueLocked([pending EXCEPT !.domain[a] = d, !.addr = [marked EXCEPT ![d] = a]],
                      pending.domain[a] = NoDomain)

Recorded(batch) == {a \in Addrs : batch.domain[a] # NoDomain}

\* One of the addresses S for each domain that has some there: the one a loop
\* over the records, in whatever order, comes to first, or last.
Picks(batch, S) ==
    {f \in [{batch.domain[a] : a \in S} -> S] : \A d \in DOMAIN f : batch.domain[f[d]] = d}

\* Mutant: the record of the old domain stays in its bucket.
putRecords_KeepsOld(db, batch, S, last) ==
    [domain |-> [a \in Addrs |-> IF a \in S THEN batch.domain[a] ELSE db.domain[a]],
     addr |-> [d \in Domains |-> IF d \in DOMAIN last THEN last[d] ELSE db.addr[d]],
     meta |-> db.meta]

\* putFakeIP for each of the addresses S: an address that goes to another domain
\* is deleted from the record of the domain that had it.
putRecords(db, batch, S, last) ==
    [domain |-> [a \in Addrs |-> IF a \in S THEN batch.domain[a] ELSE db.domain[a]],
     addr |-> [d \in Domains |->
        IF d \in DOMAIN last THEN last[d]
        ELSE IF db.addr[d] \in S /\ db.domain[db.addr[d]] = d THEN Unset ELSE db.addr[d]],
     meta |-> db.meta]

writePending(db, batch, last) ==
    [putRecords(db, batch, Recorded(batch), last) EXCEPT
        !.meta = IF batch.meta # Unset THEN batch.meta ELSE @]

\* The records among S that restorePendingLocked puts back into a batch, but for
\* several of one domain: a newer record of either direction wins.
Restorable(batch, S) ==
    {a \in S : batch.domain[a] = NoDomain /\ batch.addr[writing.domain[a]] = Unset}

\* Mutant: the failed batch wins over what was queued since.
restoreRecords_Overwrites(batch, first) ==
    [domain |-> [a \in Addrs |-> IF a \in Recorded(writing) THEN writing.domain[a] ELSE batch.domain[a]],
     addr |-> [d \in Domains |-> IF writing.addr[d] \in Addrs THEN writing.addr[d] ELSE batch.addr[d]],
     meta |-> batch.meta,
     count |-> batch.count + Cardinality(Recorded(writing) \ Recorded(batch))]

restoreRecords(batch, first) ==
    LET kept == {first[d] : d \in DOMAIN first}
    IN  [domain |-> [a \in Addrs |-> IF a \in kept THEN writing.domain[a] ELSE batch.domain[a]],
         addr |-> [d \in Domains |-> IF d \in DOMAIN first THEN first[d] ELSE batch.addr[d]],
         meta |-> batch.meta,
         count |-> batch.count + Cardinality(kept)]

\* The metadata is put back if there is none newer.
restored(first) ==
    LET put == restoreRecords(pending, first)
    IN  IF pending.meta = Unset /\ writing.meta # Unset
        THEN [put EXCEPT !.meta = writing.meta, !.count = @ + 1] ELSE put

\* Mutant: the timer is not armed for what was restored.
restorePendingLocked_NoTimer(first) == pending' = restored(first) /\ UNCHANGED timer

restorePendingLocked(first) ==
    /\ pending' = restored(first)
    /\ timer' = (timer \/ (pending.count = 0 /\ restored(first).count > 0 /\ FlushInterval > 0))

\* Flush takes flushAccess and the batch, or returns at once.
FlushBegin(f) ==
    /\ flusher = Nobody
    /\ IF pending.count = 0 THEN UNCHANGED <<pending, writing, flusher, flush>>
       ELSE /\ writing' = pending /\ pending' = newPendingWrites
            /\ flusher' = f /\ flush' = "writing"

\* The transaction commits,
FlushCommits ==
    /\ flush = "writing"
    /\ \E last \in Picks(writing, Recorded(writing)) : disk' = writePending(disk, writing, last)
    /\ flush' = "written"
    /\ UNCHANGED <<pending, timer, writing, loop, flusher, storeVars, callVars, given, bounds, closeVars>>

\* or fails, and leaves the database alone or, after a panic, empty (resetDB).
FlushFails(db) ==
    /\ flush = "writing"
    /\ Event /\ failures' = failures + 1
    /\ disk' = db
    /\ given' = [d \in Domains |-> IF db = disk \/ CachedAddress(d) # Unset THEN given[d] ELSE Unset]
    /\ flush' = "failed"
    /\ UNCHANGED <<pending, timer, writing, loop, flusher, storeVars, callVars,
                   torn, creates, closeVars>>

\* The end of Flush, after which its caller goes on.
FlushEnd(f) ==
    /\ flusher = f
    /\ \/ flush = "written" /\ UNCHANGED <<pending, timer>>
       \/ /\ flush = "failed"
          /\ \E first \in Picks(writing, Restorable(pending, Recorded(writing))) : restorePendingLocked(first)
    /\ writing' = newPendingWrites
    /\ flusher' = Nobody /\ flush' = "none"

\* loopFlush: the timer fires, or a batch has grown to bufferSize.
LoopWakes ==
    /\ loop = "waiting"
    /\ \/ timer /\ timer' = FALSE
       \/ pending.count > 0 /\ UNCHANGED timer
    /\ loop' = "flush"
    /\ UNCHANGED <<pending, writing, disk, flusher, flush, storeVars, callVars, given, bounds, closeVars>>

LoopFlushes ==
    /\ loop = "flush"
    /\ FlushBegin("loop")
    /\ loop' = IF pending.count = 0 THEN "waiting" ELSE "flushing"
    /\ UNCHANGED <<disk, timer, storeVars, callVars, given, bounds, closeVars>>

LoopGoesOn ==
    /\ loop = "flushing"
    /\ FlushEnd("loop")
    /\ loop' = "waiting"
    /\ UNCHANGED <<disk, storeVars, callVars, given, bounds, closeVars>>

-----------------------------------------------------------------------------
(***************************************************************************)
(* Create.  Its lookups read the batches under pendingAccess and, if those *)
(* say nothing, the database in a second step.                             *)
(***************************************************************************)
Goto(p, l) == pc' = [pc EXCEPT ![p] = l]

Return(p) ==
    /\ Goto(p, "idle")
    /\ dom' = [dom EXCEPT ![p] = NoDomain]
    /\ addr' = [addr EXCEPT ![p] = Unset] /\ old' = [old EXCEPT ![p] = NoDomain]

\* Where a lookup of the batches leads: found, known to be absent, or not known.
AfterCache(p, d, ask, absent) ==
    LET a == CachedAddress(d)
    IN  \/ a \in Addrs /\ Return(p)
        \/ a = Invalid /\ Goto(p, absent) /\ UNCHANGED <<addr, old>>
        \/ a = Unset /\ Goto(p, ask) /\ UNCHANGED <<addr, old>>

\* The first lookup, without the lock.
Create(p, d) ==
    /\ pc[p] = "idle" /\ creates < MaxCreates
    /\ AfterCache(p, d, "disk", "lock")
    /\ dom' = [dom EXCEPT ![p] = IF CachedAddress(d) \in Addrs THEN NoDomain ELSE d]
    /\ UNCHANGED <<pending, disk, timer, flushVars, storeVars, given, bounds, closeVars>>

CreateReadsDisk(p) ==
    /\ pc[p] = "disk"
    /\ IF disk.addr[dom[p]] # Unset THEN Return(p) ELSE Goto(p, "lock") /\ UNCHANGED <<dom, addr, old>>
    /\ UNCHANGED <<pending, disk, timer, flushVars, storeVars, given, bounds, closeVars>>

\* The double check under addressAccess.
CreateLocks(p) ==
    /\ pc[p] = "lock" /\ holder = Nobody
    /\ AfterCache(p, dom[p], "diskagain", "allocate")
    /\ dom' = [dom EXCEPT ![p] = IF CachedAddress(dom[p]) \in Addrs THEN NoDomain ELSE dom[p]]
    /\ holder' = IF CachedAddress(dom[p]) \in Addrs THEN Nobody ELSE p
    /\ sealed' = FALSE
    /\ UNCHANGED <<pending, disk, timer, flushVars, current, reserved, given, bounds, closing, snapshot>>

CreateReadsDiskAgain(p) ==
    /\ pc[p] = "diskagain"
    /\ IF disk.addr[dom[p]] # Unset
       THEN Return(p) /\ holder' = Nobody
       ELSE Goto(p, "allocate") /\ UNCHANGED <<dom, addr, old, holder>>
    /\ UNCHANGED <<pending, disk, timer, flushVars, current, reserved, given, bounds, closeVars>>

\* FakeIPSaveMetadata, when the reserved addresses are used up, begins ...
CreateReserves(p) ==
    /\ pc[p] = "allocate" /\ reserved = 0
    /\ SaveMetadataAsync(ReservedAhead(current))
    /\ Goto(p, "reserve")
    /\ UNCHANGED <<disk, flushVars, storeVars, dom, addr, old, given, bounds, closeVars>>

CreateFlushes(p) ==
    /\ pc[p] = "reserve"
    /\ FlushBegin(p)
    /\ IF pending.count = 0
       THEN Goto(p, "allocate") /\ reserved' = Reserved
       ELSE Goto(p, "reserving") /\ UNCHANGED reserved
    /\ UNCHANGED <<disk, timer, loop, current, holder, dom, addr, old, given, bounds, closeVars>>

\* ... and ends; whether the Flush failed is not reported.
CreateHasReserved(p) ==
    /\ pc[p] = "reserving"
    /\ FlushEnd(p)
    /\ Goto(p, "allocate")
    /\ reserved' = Reserved
    /\ UNCHANGED <<disk, loop, current, holder, dom, addr, old, given, bounds, closeVars>>

\* The next address; FakeIPStoreAsync looks for the domain that had it.
CreateAllocates(p) ==
    /\ pc[p] = "allocate" /\ reserved > 0
    /\ creates < MaxCreates /\ creates' = creates + 1
    /\ reserved' = reserved - 1
    /\ current' = nextAddress(current)
    /\ addr' = [addr EXCEPT ![p] = nextAddress(current)]
    /\ old' = [old EXCEPT ![p] = CachedDomain(nextAddress(current))]
    /\ Goto(p, IF CachedDomain(nextAddress(current)) = NoDomain THEN "olddisk" ELSE "queue")
    /\ UNCHANGED <<pending, disk, timer, flushVars, holder, dom, given,
                   torn, failures, events, closeVars>>

CreateReadsOld(p) ==
    /\ pc[p] = "olddisk"
    /\ old' = [old EXCEPT ![p] = disk.domain[addr[p]]]
    /\ Goto(p, "queue")
    /\ UNCHANGED <<pending, disk, timer, flushVars, storeVars, dom, addr, given, bounds, closeVars>>

\* The record is queued: the previous domain of the address loses it.
CreateQueues(p) ==
    /\ pc[p] = "queue"
    /\ QueueFakeIP(addr[p], dom[p], old[p])
    /\ given' = [d \in Domains |-> IF d = dom[p] THEN addr[p]
                                   ELSE IF given[d] = addr[p] THEN Unset ELSE given[d]]
    /\ Goto(p, "meta")
    /\ UNCHANGED <<disk, flushVars, storeVars, dom, addr, old, bounds, closeVars>>

\* FakeIPSaveMetadataAsync, and Create returns the address.
CreateReturns(p) ==
    /\ pc[p] = "meta"
    /\ SaveMetadataAsync(current)
    /\ Return(p) /\ holder' = Nobody
    /\ UNCHANGED <<disk, flushVars, current, reserved, given, bounds, closeVars>>

-----------------------------------------------------------------------------
(***************************************************************************)
(* Reset, Close and a crash.                                               *)
(***************************************************************************)

\* Mutant: the metadata is counted down whether or not there is any.
FakeIPReset_CountsDown ==
    /\ flusher = Nobody /\ Event
    /\ pending' = [newPendingWrites EXCEPT !.count =
                      pending.count - Cardinality(Recorded(pending)) - 1]
    /\ given' = [d \in Domains |-> Unset]
    /\ flusher' = "reset" /\ flush' = "deleting"
    /\ UNCHANGED <<disk, timer, writing, loop, storeVars, callVars,
                   torn, failures, creates, closeVars>>

\* Where Create has found that its domain has no address and not yet queued one.
PastCheck == {"allocate", "reserve", "reserving", "olddisk", "queue"}

\* FakeIPReset takes flushAccess and empties the batch; it does not wait for a
\* Create that holds addressAccess ...
FakeIPReset ==
    /\ flusher = Nobody /\ Event
    /\ pending' = [newPendingWrites EXCEPT !.count =
                      pending.count - Cardinality(Recorded(pending))
                                    - (IF pending.meta # Unset THEN 1 ELSE 0)]
    /\ given' = [d \in Domains |-> Unset]
    /\ torn' = (torn \/ \E p \in Procs : pc[p] \in PastCheck)
    /\ flusher' = "reset" /\ flush' = "deleting"
    /\ UNCHANGED <<disk, timer, writing, loop, storeVars, callVars,
                   failures, creates, closeVars>>

\* ... and then the database; the deletion may fail.
FakeIPResetDeletes ==
    /\ flush = "deleting"
    /\ \/ disk' = NoRecords /\ UNCHANGED <<torn, failures>>
       \/ failures' = failures + 1 /\ torn' = TRUE /\ UNCHANGED disk
    /\ flusher' = Nobody /\ flush' = "none"
    /\ UNCHANGED <<pending, timer, writing, loop, storeVars, callVars, given, creates, events, closeVars>>

\* Store.Close takes the current address under addressAccess ...
StoreClose ==
    /\ closing = "no" /\ holder = Nobody /\ Event
    /\ closing' = "snapped" /\ snapshot' = current
    /\ UNCHANGED <<pending, disk, timer, flushVars, storeVars, callVars, sealed, given, torn, failures, creates>>

\* ... and saves it after the unlock, whatever Create has done meanwhile.
CloseSaves ==
    /\ closing = "snapped"
    /\ SaveMetadataAsync(snapshot)
    /\ closing' = "save"
    /\ UNCHANGED <<disk, flushVars, storeVars, callVars, snapshot, sealed, given, bounds>>

CloseFlushes ==
    /\ closing = "save"
    /\ FlushBegin("close")
    /\ closing' = IF pending.count = 0 THEN "saved" ELSE "saving"
    /\ UNCHANGED <<disk, timer, loop, storeVars, callVars, snapshot, sealed, given, bounds>>

CloseReturns ==
    /\ closing = "saving"
    /\ FlushEnd("close")
    /\ closing' = "saved"
    /\ UNCHANGED <<disk, loop, storeVars, callVars, snapshot, sealed, given, bounds>>

\* CacheFile.Close, later in Box.Close: the timer is stopped and the last batch
\* is flushed.
CacheFileClose ==
    /\ closing = "saved"
    /\ closing' = "last" /\ timer' = FALSE
    /\ UNCHANGED <<pending, disk, flushVars, storeVars, callVars, snapshot, sealed, given, bounds>>

\* Mutant: the database is closed without a last Flush.
CacheFileFlushes_Skips ==
    /\ closing = "last"
    /\ closing' = "flushed"
    /\ sealed' = (holder = Nobody)
    /\ UNCHANGED <<pending, disk, timer, flushVars, storeVars, callVars, snapshot, given, bounds>>

CacheFileFlushes ==
    /\ closing = "last"
    /\ FlushBegin("close")
    /\ closing' = IF pending.count = 0 THEN "flushed" ELSE "flushing"
    /\ sealed' = (holder = Nobody)
    /\ UNCHANGED <<disk, timer, loop, storeVars, callVars, snapshot, given, bounds>>

CacheFileFlushed ==
    /\ closing = "flushing"
    /\ FlushEnd("close")
    /\ closing' = "flushed"
    /\ UNCHANGED <<disk, loop, storeVars, callVars, snapshot, sealed, given, bounds>>

\* The database is closed: a transaction that has not begun fails.
DatabaseCloses ==
    /\ closing = "flushed"
    /\ closing' = "closed"
    /\ failures' = IF flush \in {"writing", "deleting"} THEN failures + 1 ELSE failures
    /\ torn' = (torn \/ flush = "deleting")
    /\ UNCHANGED <<pending, disk, timer, flushVars, storeVars, callVars, snapshot, sealed, given, creates, events>>

\* The process dies and starts again: Start reads the metadata, or resets.
CrashAndStart ==
    /\ Event
    /\ pending' = newPendingWrites /\ writing' = newPendingWrites
    /\ timer' = FALSE /\ loop' = "waiting" /\ flusher' = Nobody /\ flush' = "none"
    /\ reserved' = 0 /\ holder' = Nobody
    /\ \/ disk.meta # Unset /\ current' = disk.meta /\ UNCHANGED disk
       \/ disk.meta = Unset /\ current' = 0 /\ disk' = NoRecords
    /\ pc' = [p \in Procs |-> "idle"] /\ dom' = [p \in Procs |-> NoDomain]
    /\ addr' = [p \in Procs |-> Unset] /\ old' = [p \in Procs |-> NoDomain]
    /\ closing' = "no" /\ snapshot' = Unset /\ sealed' = FALSE
    /\ given' = [d \in Domains |-> disk'.addr[d]]
    /\ UNCHANGED <<torn, failures, creates>>

CreateStep(p) ==
    \/ CreateReadsDisk(p) \/ CreateLocks(p) \/ CreateReadsDiskAgain(p)
    \/ CreateReserves(p) \/ CreateFlushes(p) \/ CreateHasReserved(p)
    \/ CreateAllocates(p) \/ CreateReadsOld(p) \/ CreateQueues(p) \/ CreateReturns(p)

\* Nothing that runs on after the database is closed reaches the disk.
Running ==
    \/ \E p \in Procs : CreateStep(p) \/ \E d \in Domains : Create(p, d)
    \/ LoopWakes \/ LoopFlushes \/ LoopGoesOn
    \/ FlushCommits \/ \E db \in {disk, NoRecords} : FlushFails(db)
    \/ FakeIPReset \/ FakeIPResetDeletes
    \/ StoreClose \/ CloseSaves \/ CloseFlushes \/ CloseReturns
    \/ CacheFileClose \/ CacheFileFlushes \/ CacheFileFlushed \/ DatabaseCloses

Next == (closing # "closed" /\ Running) \/ CrashAndStart

Spec == Init /\ [][Next]_vars

-----------------------------------------------------------------------------
Batches == [domain : [Addrs -> Domains \cup {NoDomain}],
            addr : [Domains -> Addrs \cup {Unset, Invalid}],
            meta : 0..N \cup {Unset}, count : 0..N + 1]

\* The values of the variables; among them, that a batch counts at most one
\* entry per address and one for the metadata, and never less than none.
TypeOK ==
    /\ pending \in Batches /\ writing \in Batches
    /\ disk \in [domain : [Addrs -> Domains \cup {NoDomain}], addr : [Domains -> Addrs \cup {Unset}],
                 meta : 0..N \cup {Unset}]
    /\ timer \in BOOLEAN /\ loop \in {"waiting", "flush", "flushing"}
    /\ flusher \in Procs \cup {Nobody, "loop", "reset", "close"}
    /\ flush \in {"none", "writing", "written", "failed", "deleting"}
    /\ current \in 0..N /\ reserved \in 0..Reserved /\ holder \in Procs \cup {Nobody}
    /\ pc \in [Procs -> {"idle", "disk", "lock", "diskagain", "allocate", "reserve",
                         "reserving", "olddisk", "queue", "meta"}]
    /\ dom \in [Procs -> Domains \cup {NoDomain}] /\ addr \in [Procs -> Addrs \cup {Unset}]
    /\ old \in [Procs -> Domains \cup {NoDomain}]
    /\ torn \in BOOLEAN /\ sealed \in BOOLEAN /\ snapshot \in 0..N \cup {Unset}
    /\ closing \in {"no", "snapped", "save", "saving", "saved", "last", "flushing", "flushed", "closed"}
    /\ given \in [Domains -> Addrs \cup {Unset}]

\* From CacheFile.Close on.
Closed == {"last", "flushing", "flushed", "closed"}

\* A batch's count, which is all Flush looks at, is the number of its entries,
\* and with a flush_interval no write is forgotten: until CacheFile.Close a batch
\* with something in it has a timer that runs or a loopFlush that was woken.
\* Without an interval, the default, it waits for the next Flush.
PendingIsFlushed ==
    /\ pending.count = Cardinality(Recorded(pending)) + (IF pending.meta # Unset THEN 1 ELSE 0)
    /\ (pending.count > 0 /\ FlushInterval > 0 /\ closing \notin Closed) => timer \/ loop = "flush"

\* What Create allocated stays visible in both directions, in whichever of the
\* two batches or the database it is, until the address is given to another
\* domain, Reset, or the loss of the database; also when a write fails.  Excepted
\* is what follows a Reset whose deletion failed, or that began when a Create had
\* found its domain without an address and not yet given it one.
AllocatedIsVisible ==
    \A d \in Domains : given[d] # Unset /\ ~torn =>
        FakeIPLoadDomain(d) = given[d] /\ FakeIPLoad(given[d]) = d

\* After every transaction, in whichever order writePending went through the
\* batch, and after a crash: a domain on disk has an address that is its own,
\* and, but for a torn Reset, an address on disk has a domain that knows it.
DiskAgrees ==
    \A a \in Addrs, d \in Domains :
        /\ disk.addr[d] = a => disk.domain[a] = d
        /\ disk.domain[a] = d => disk.addr[d] = a \/ torn

\* An address that was given to another domain is not returned for the old one.
OldDomainInvalidated ==
    \A d \in Domains : FakeIPLoadDomain(d) \in Addrs => FakeIPLoad(FakeIPLoadDomain(d)) = d

\* ... as long as no write failed: restorePendingLocked does not bring back the
\* markers of the batch that could not be written; and no Reset was torn.
OldDomainInvalidatedIfWritten == (failures = 0 /\ ~torn) => OldDomainInvalidated

\* What CacheFile.Close leaves behind, whichever Creates and Resets ran beside
\* Store.Close, unless a write failed or a Create had the lock after the last
\* Flush began: nothing is left in the batch; every allocation is on disk, but
\* for a torn Reset; and so is the address the next Start goes on from.  That is
\* the last one allocated, or the one Store.Close took, if a Create allocated
\* and saved its own before Close saved; there is none only after a Reset.
CloseSavesAll ==
    (closing = "closed" /\ failures = 0 /\ sealed) =>
        /\ pending.count = 0
        /\ \A d \in Domains : given[d] # Unset /\ ~torn => disk.addr[d] = given[d]
        /\ \/ disk.meta \in {current, snapshot}
           \/ disk.meta = Unset /\ \A d \in Domains : given[d] = Unset
=============================================================================
