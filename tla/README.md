# Formal models of sing-box-ding

TLA+ models of the concurrent parts of this repository, model-checked with TLC on
small instances. Every safety property of theirs that holds is also proved with
TLAPS for every value of the constants. `PROJECT.json`
is the machine-readable index: which definition stands for which lines, which
run checks which property, which plausible bug (mutant) each property detects.

## 1. Inventory

sing-box-ding is a proxy platform: inbounds accept connections, the router
matches them against rules, outbounds (and groups of them) carry them, and a DNS
subsystem resolves names for all of these. Most of the code is protocol
formats, cryptography, operating system interfaces and configuration; what a
model checker is good at is the shared state in between.

| Part | State | Operations | Behaviour that is hard to test |
|---|---|---|---|
| Connection pool `dns/transport/conn_pool.go` | a state object per generation: shared connection, user and waiter counts, dial in progress | AcquireShared, Release, Invalidate, CloseIdle, Reset, Close, dial goroutine | dials that end after Reset; waiters that leave; counts that decide who closes |
| Query multiplexer `dns/transport/multiplexer.go` | table of pending queries, receive loop per connection, keep-idle switch, reuse probe | Exchange, register, take, four completions, recvLoop, Reset | four goroutines racing to complete a query; retries; connections dying between steps |
| DNS client `dns/client.go` | response cache, lock per key, refresh marks, rejected response cache | Exchange, ExchangeAsync, Lookup, backgroundRefreshDNS, ClearCache | waiting for another's exchange; a network change under a query; refresh against eviction |
| FakeIP store `dns/transport/fakeip/store.go` and cache file `experimental/cachefile` | current address, reservation; pending and writing batch; database | Create, Lookup, Reset, Close, Start; Flush, restore | failed writes, crashes, wrap-around of the range |
| XMUX `transport/v2rayxhttp/xmux.go` | pool of HTTP clients, usage counts, breaker | get, addOpenUsage, roundTrip, release, Close | eviction between choosing and counting; deferred close |
| Sequential exchange `dns/transport/exchange_strategy.go` | one call state per attempt | run, callbacks | a callback before or after the call returns |
| Outbound and endpoint managers `adapter/*/manager.go` | list and map by tag, dependencies, default outbound | Start stages, Create, Remove, Close | a refusal after half of the work is done; Create against Close |
| Groups `protocol/group` | members, selection, ticker, health | Select, onProviderUpdated, Touch, Close | members that are replaced under the selection; idle stop against Touch |
| Providers `adapter/provider`, `provider/remote` | outbounds, endpoints, ETag, saved content | fetch, UpdateOutbounds, UpdateEndpoints, healthcheck, Close | an update of several steps, some failing, while the box closes |
| Connection manager `route/conn.go` | tracked connections, asynchronous close queue | Track, CloseAllAsync, Close | worker that stops while work is added |
| Expiring map `common/expiringmap` | heap and map of entries, wake channel, timer | StoreIf, Load, LoadAndRefresh, Close, expiry loop | lost wake-ups; a clock read before the lock |
| Network manager, capture coordinator, OOM killer | environment, modes, pressure | reactions to the operating system | small state machines |
| Rules, protocols, TLS, VPN stacks, eBPF, daemon, options | configuration, or libraries' state | | not for a model checker (section 7) |

The interactions that matter: the client calls a transport, which is a
multiplexer, which owns a pool; a network change calls Reset on all of them
while queries are under way; the FakeIP store writes through the cache file's
batch, which other writers share; groups, providers and the outbound manager
hold references to the same outbounds.

## 2. Modules

### ConnPool (with MCConnPool, ConnPoolProofs)

`ConnPoolSingle`, the only mode a transport selects. Each section under
`p.access` is one action; what happens between two sections (the dial, the
select, closing a connection, `closeState` after `Reset` has unlocked) is an
action of its own, so every interleaving the mutex allows is there.

- `gen` numbers the state objects; `shared`, `sharedUsers`, `sharedWaiters`,
  `sharedClaimed`, `connecting` and `all` are the fields of the current one.
  `oldAll` holds the connections of replaced states that `closeState` has not
  closed yet, `cancelled` the generations whose context it has cancelled.
- a dial attempt and the connection it makes have the same number; `phase` is
  where `connectSingle` is, `cause` why the connection's context was cancelled.
- `pc`, `waitOn`, `hold` are a caller's position in `acquireShared`, the
  attempt it waits for and the connection it holds. `receivers` is a history
  variable: how often a connection was handed out as `created`.

### Multiplexer (with MCMultiplexer, MultiplexerProofs)

EXTENDS ConnPool and composes with it: every action conjoins one action of the
pool or leaves the pool alone. `mode` is where a query is between `dispatch`
and its callback. A registration under a 16-bit id is the pair of query and
attempt number (an id is fresh while anything refers to its previous use);
`MaxPending` is the number of ids, so "no available query ID" happens.
`writers` are the goroutines still in `write`, since a response can overtake
the return of `write`; `sent` is what is on the wire and can be answered late,
after the query is gone; `recv` is the receive loop of a connection.
The reuse probe only decides whether a first attempt may share a connection;
both are possible here.

### DnsClient (with MCDnsClient, DnsClientProofs)

The client for one question. Of the cache key the network environment is left
(0: unknown) and of the lock's key also the timeout. Responses are abstracted
to how long they live (fresh, stale but within the optimistic window, expired)
and whether they came through the network they are filed under. Every access
to `cacheLock`, `backgroundRefresh` and the cache is a step: `release` is two
(Delete, then close), an expired entry is found and removed in two, and the
network may change between any two.

### FakeIP (with MCFakeIP, FakeIPLemmas, FakeIPProofs)

`Create` with its two lookups, the reservation written ahead and the
asynchronous writes; the batch in `pending`, the batch in `writing` and the
database; `Flush` as three steps under `flushAccess`, any of whose transactions
may fail; `FakeIPReset`, `Close`, and a crash that keeps only the database.
One address family is modelled; the code keeps the same state twice.

`writePending` and `restorePendingLocked` loop over a map, in whatever order Go
visits it. The order matters only if two records of the batch have the same
domain: the one written last, or restored first, counts. So the model states the
result of the loop in closed form (`putRecords`, `restoreRecords`), with a free
choice of one address per domain (`Picks`); that one more iteration of the code's
loop body (`putFakeIP`, `restoreFakeIP`) leads from the closed form to the closed
form is proved in `FakeIPProofs`, as it is of the loop that looks `Reserved`
addresses ahead.

`given` (what was allocated and not taken away since) and `torn` are history
variables. `FakeIPReset` empties the batch and then the database, and does not
take the store's lock: the API handler that calls it runs beside the DNS queries
(`experimental/clashapi/cache.go`). `torn` says that such a Reset could not delete
the database, or began while a `Create` was between its check and its record. In
the second case the next `Create` may find on disk the domain that had its address
before the Reset and mark it as having none, although that domain has just been
given another. The attempt to prove `AllocatedIsVisible` without the exception
showed this sequence; TLC finds it with five allocations.

### Xmux (with MCXmux, XmuxProofs)

The manager's lookup (eviction, limits, choice of a client), the client's
counters under their own lock, the breaker and backoff, `Close`, and streams
that call them in the order `DialContext` does. `http2.Transport` is external:
it dials when a request finds no connection, and `CloseIdleConnections` closes a
connection that carries nothing.

### Managers and ProviderUpdate (with MCProviderUpdate, ProviderUpdateProofs)

`Managers` is the outbound and the endpoint manager of a running box: a list, a
map by tag and the dependents of a tag, changed by `Create`, `Remove` and `Close`
under the manager's lock. An outbound is an object with a tag, its options and the
tags it depends on, and is new, started or closed. `Create` starts the new object
before it locks; `Remove` forgets an outbound before it refuses to close one that
others need; both have panics on an index that is not found, which the model
reaches as states (`panicked`). `dependByTag` keeps slices of tags; here it is the
set of the objects that appended theirs, which tells the same lengths, since every
object is installed once.

`ProviderUpdate` composes them with a provider, a selector and `Box.Close`. An
update is `UpdateOutbounds`, `UpdateEndpoints` and `UpdateGroups` in one step per
critical section: the snapshot, a step for each node in it (removed if the
download does not name it), the nodes of the download one
by one (kept, created, failed), the publication, the selector's
`onProviderUpdated`. `Box.Close` closes the endpoint manager, the provider and the
outbound manager in that order and does not wait for an update (`overlapped`
remembers that the two ran together). Closing a node may fail. The selector has
a default or none, configured members or none, and a selection stored by an
earlier process.

### ExpiringMap and LifetimeMap (with MCExpiringMap, ExpiringMapProofs)

`ExpiringMap` is `expiringmap.Map`: a call reads the clock in one step and has the
lock in a later one; `run` removes what has expired, then sleeps until the first
entry expires or `wake` is signalled; `Close` waits for it. Time is a counter that
may advance between any two steps. `seen` and `stored` are history variables.

`LifetimeMap` is what a user of the map relies on, with no lock, queue, timer or
goroutine: entries vanish at the moment their lifetime ends, and a call answers
with a value its key had while the call ran, or with none if there is none when
it answers. The refinement mapping shows only the entries whose time has not come
(`Live`); that `run` removes an expired entry later, or a call finds it first, is a
stutter.

## 3. Runs

All bounds are constants of the modules.

| Run | Instance | Question |
|---|---|---|
| `pool` | 2 callers, 1 dial, 1 Reset | Are users and waiters counted, does a connection have one receive loop, does nothing leak, are holders of a dead connection told, does CloseIdle spare what is in use, does every waiter leave, is everything closed after Close? |
| `mux_safety` | 2 queries, 2 dials, 1 Reset or other call of the owner | Is a query answered once, is its use of the connection given back, is a pending query's connection read? |
| `mux_liveness` | 2 queries, 2 dials, 1 id | Is every query answered? |
| `dns_client` | 2 callers, 2 calls, 2 timeouts, network known or unknown | Does every waiter have an owner, is a key refreshed once at a time, are responses filed under their network, does every call return without the help of its deadline? |
| `dns_client_rdrc` | 2 callers, 2 calls, 1 timeout | expected violation, section 6 |
| `fakeip_safety` | 2 callers, 3 domains, 2 addresses, 5 allocations, 1 failed write, 1 Reset, 1 crash | Is no write forgotten, does every allocation stay visible in both directions, does the disk agree with itself? |
| `fakeip_failed_write` | the same, smaller | expected violation, section 6 |
| `xmux_safety` | 2 streams, 2 clients, 3 dials, limits 1 and 2 | Are streams counted exactly, do the configured limits hold, is a retired client torn down? |
| `xmux_evicted` | the same | expected violation, section 6 |
| `provider_update` | 2 outbounds, one chained over the other, and an endpoint, in 2 versions each; 2 updates out of 6 downloads; 7 objects | Between updates, are the selector's members the provider's live nodes? Is every started node managed, everything closed at the end, no index invalid? |
| `provider_shutdown` | the same | expected violation, section 6 |
| `expiring_map` | 2 goroutines, 2 keys, 2 values, lifetime 2, 2 calls begun up to time 2 | Does the map behave like LifetimeMap, does the timer fire in time, is everything expired removed, does Close return? |

Why the bounds are enough. The races are between one actor and one other, or
between one actor and the owner's Reset or Close; two callers make "the last
one", "not the last one" and "somebody else's" all happen, and two dials make a
connection that is replaced while it is in use (in `mux_safety`; the pool alone
has one dial in its run, and its invariants hold with two, 2,376,784 states).
One Reset separates old from new generations. Two calls and the refresh they
start let a response be stored, be served stale and be looked up during the
refresh. Three domains over two addresses make the range wrap and an address
change hands; one failure or crash at any point is what the restore code is
written for. Two updates from nothing make every node appear, stay, change, move
and disappear. Two goroutines on two keys make an entry stored late
expire before the one the timer is set to; with three calls (begun up to time 1,
400,342 states) the same properties hold. For the safety properties the proofs
remove the bounds altogether.

Every action and every disjunct of the next-state relations fires in these
runs. Deadlock is not checked where the bounded program may stop (all calls
made, everything closed); the client's surroundings never stop, so there it is.

## 4. Fairness

Only weak fairness, and only of steps the program or its runtime guarantees:
a goroutine that can run does; a dial returns, since its context has a
deadline; a read returns once the pool has closed its connection; the deadline
of a query passes (multiplexer); the transport answers or fails before its
deadline (client, where the caller's own deadline is *not* assumed: a wait must
end because the owner of the lock releases it); time passes, a lock that was
taken is released, and a timer that is due fires (expiring map). Nothing is assumed of callers,
servers, network changes, Reset or Close. `EveryQueryAnswered` follows a query
up to the bound on dials, `AllClosed` starts from Close.

## 5. Proofs

`ConnPoolProofs` proves `TypeOK`, `CountsExact`, `OneReceiver`, `NoLeak`,
`HoldersAreTold` and the action property `CloseIdleSpares` for every finite set of
callers and any number of dials and resets. None of them is inductive. `Inv`
strengthens them by the shape of a state object:

- `WaitShape`, `DialShape`: a waiter waits on an attempt that was started; at most
  one attempt of the current generation is under way, it is `connecting`, and then
  there is no shared connection;
- `SharedShape`, `FreshShape`: `all` is the shared connection or empty; what is
  shared was installed by an attempt of this generation, is open and its context
  lives;
- `ClaimShape`: `sharedClaimed` says whether the connection was handed out, which
  gives `OneReceiver`;
- `OwnerShape`, `ToldShape`: who closes an open connection, and who cancels the
  context of an installed one, which give `NoLeak` and `HoldersAreTold`;
- `UsersCounted`, `WaitersCounted`: the counters as cardinalities, by the lemmas
  on a set that gains or loses one element.

One lemma per action shows that it preserves `Inv`, one step per conjunct it
can disturb.

`MultiplexerProofs` proves that the multiplexer implements the pool
(`MuxImplementsPool`: `MuxSafety => PoolSafety`; the mapping is the identity, as
the pool's variables are part of the state). So the pool's theorems, stated for
callers that may do anything, apply to the exchanges that really call it
(`MuxCloseIdleSpares`). The joint invariant `MuxInv` adds where a query is to what
it holds and how often it was answered (`QueryShape`), that writers belong to
queries (`WriterShape`) and that a receive loop runs until its connection is gone
(`RecvShape`); from it follow `AnsweredOnce`, `NoUserLost` and `PendingIsRead`.
The proof needs the pool's `Inv` at each step (a query in `pending` is a user the
pool has counted), which is why the two are proved together.

Two properties need more than `MuxInv`:

- `IdleIsClosed` follows from `IdleInv`: the dial of the current
  generation has a waiter as long as nobody gave up (`DialAwaited`), and with
  `keepIdle` off somebody holds the shared connection, is in AcquireShared or
  still has a CloseIdle to call (`IdleWatched`). That CloseIdle spares the
  connection only for such a user or waiter is `UsersCounted` and `WaitersCounted`
  of the pool.
- `MuxTypeOK`, in particular that a query is written at
  most four times, follows from `BoundInv`, whose `AttemptShape` says that the attempts
  made are bounded by the dispatches used up and by `firstAttempt`, which each
  writer still in flight carries a copy of.

`DnsClientProofs` proves `WaitersHaveOwner`, `MarkedIsRefreshed`, `FromItsNetwork` and the
types for any callers, networks, timeouts and number of calls. `Inv` adds where
an operation may own its key's lock (`OwnerShape`) and that the number of network
changes a call has seen tells whether the network is the one of its key
(`CallsTrackNetwork`, `RefreshTracksNetwork`).

`XmuxProofs` proves the five invariants of Xmux for any streams, number of clients,
dials and limits. `Inv` adds that a client is in the pool, retiring or closed, one
at a time (`Shape`), that uses left and times handed out add up to the limit
(`UsesAddUp`), that a client handed to one stream not yet counted has room for it
(`RoomForUncounted`), and that such a stream keeps its client from being closed
unless it was `missed` (`ClosedIsCounted`).

`ExpiringMapProofs` proves `TimerInTime` and that the map implements `LifetimeMap`
(`MapIsLifetimeMap`: `Safety => LM!Spec`; one lemma per action shows the step of
LifetimeMap it maps to, or that it maps to a stutter). `Inv` needs that a call has
seen whatever it would find (`SeesWhatItFinds`) and that an entry's end and the timer
are at most a lifetime away from when they were set (`TimeBounds`). LifetimeMap has
no fairness: what must happen in the end is `ExpiredIsRemoved` and `CloseEnds`.

`FakeIPProofs` proves the six invariants of FakeIP for any callers, domains, size of
the range and number of failures, Resets and crashes; `FakeIPLemmas` has the
invariant and one lemma per action. `Shape` says who holds the two locks, what the
locals of `Create` are and where the metadata is during `Close`. `Content` is about
the three layers a record goes through:

- a batch has a record in both directions or in none (`Paired`);
- a batch that knows something of a domain also has a newer owner for the address
  the domain has in the layers below (`WritingCovers`, `PendingCovers`), so that
  writing or restoring a batch never leaves one direction behind;
- the converse, that who loses an address is marked, holds only while no write
  failed (`Marked`; section 6), and gives `OldDomainInvalidatedIfWritten`;
- what was allocated is visible and, while Reset deletes the database, does not
  rest on it (`GivenIsLoaded`, `GivenIsPending`);
- what a `Create` under the lock has found is still so when it acts on it
  (`CallKnows`), which is what a Reset in between takes away (`torn`).

`FakeIPPutNone`, `FakeIPPutOneMore`, `FakeIPRestoreNone`, `FakeIPRestoreOneMore` and
`FakeIPReserveOneMore` are the base and the step of the induction that the closed
forms are what the loops compute. The induction itself is left to the reader: the
provers cannot instantiate an induction theorem.

`ProviderUpdateProofs` proves the five invariants of ProviderUpdate for any tags,
downloads with distinct tags per kind, options of the selector and number of updates
and objects. `Inv` has four parts:

- `Base`: types, what an update has in hand at each of its steps (`UpdateShape`),
  which managers are open when (`BoxShape`), and that nil is not in the lists before
  the provider is closed (`Solid`);
- `Safe`, as long as no update overlaps `Box.Close`: the maps name what the lists of
  an open manager hold, under its own tag, and the two lists share nothing
  (`Placed`); with it `StartedIsManaged` and `OutboundIndexValid` are inductive, and
  `ClosedAtEnd` follows, as a closed manager has an empty list;
- `Current`, while the box runs: what the maps name is started (`Healthy`), outside of
  an update the provider's list is what the manager holds under the provider's tags
  (`Settled`), and within one the nodes before `i` are built or gone, the later ones
  as they were, and what the download does not name is still in the snapshot
  (`Progress`);
- `MembersOpen`, which `UpdateGroups` establishes from `Current`.

The sequences of nodes are walked by the model's own steps, so no induction over
them is needed: `Progress` is the loop invariant.

Every inductive invariant was checked with TLC before it was proved. The only
assumptions are the named ones on the constants (`ConstAssumption`, `MuxAssumption`,
`XmuxAssumption`, `FakeIPAssumption`, `ProviderAssumption`): finite sets of callers or
streams where they are counted, natural numbers as bounds and limits, a key, a
lifetime above zero, an address to give, tags of a download that differ from each
other and from that of "Compatible".

Only model-checked: the liveness properties (`WaitersLeave`, `AllClosed`,
`EveryQueryAnswered`, `EveryCallReturns`, `ExpiredIsRemoved`, `CloseEnds`), since fairness
and ENABLED are out of the prover's reach.

## 6. Findings

- `fakeip_failed_write`: after a failed write `restorePendingLocked`
  (`experimental/cachefile/pending.go:108`) does not restore the markers that say
  a domain has lost its address, so the old domain resolves to an address that
  belongs to another one. `OldDomainInvalidatedIfWritten` holds without failures.
- `xmux_evicted`: a client evicted between `get` and `addOpenUsage(1)`
  (`transport/v2rayxhttp/client.go:231`) is closed at once; the connection the stream
  opens afterwards is never closed. `RetiredIsTornDownIfCounted` holds otherwise.
  The same window lets `max_concurrency` be exceeded (excepted in `ConcurrencyKept`).
- `dns_client_rdrc`: a background refresh answered with a server failure is saved
  as a rejected response (`dns/client.go:808`), although no check rejected it; the
  foreground path does not do that.

- `provider_shutdown`: `Box.Close` closes the endpoint manager before the provider
  (`box.go:701`). The manager forgets its list but keeps its map, so that the
  provider's Close, removing its endpoints, reaches the manager's
  `panic("invalid endpoint index")`. No update need be in progress.
  `OutboundIndexValid` holds, the outbound manager being closed last.

The findings are read from the code through the models' counterexamples; none
was reproduced by running the program.

## 7. Not modelled

`PROJECT.json` lists every part with the reason. In short: wire formats,
cryptography and VPN stacks (libraries), kernel interfaces and generated eBPF
programs, configuration data, logging, command line and bindings (no shared
protocol to check), rule matching (pure, over large data). Within modelled
parts: `ConnPoolOrdered` (unused), the persistent DNS cache, round-robin
rotation and message rewriting of the client, the second address family of
FakeIP, the verdict of the multiplexer's reuse probe (both are possible), the
start stages of the managers and their default outbound, the health check of
providers, a node that fails half-started, update guards and UDP delegation of the
selector, the fetch of a remote provider before its content is parsed, and the
shrinking of the expiring map's memory (`compact`).

Parts with state of their own that have no module: the urltest group's ticker and
selection, the reuse probe, the connection manager's closing worker, the chain of
callbacks in `ExchangeSequential`, the capture coordinator. `PROJECT.json` names
the hazards of the first four.
