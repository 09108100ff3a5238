-------------------------------- MODULE Xmux ---------------------------------
(***************************************************************************)
(* The pool of HTTP connections under XHTTP streams                        *)
(* (transport/v2rayxhttp/xmux.go, and DialContext of client.go).  A stream *)
(* gets a client under the manager's lock, counts itself on it under the   *)
(* client's lock, issues requests from goroutines of their own and         *)
(* releases it, more than once and without waiting for the requests.  A    *)
(* client that may not be used again is evicted by the next lookup and     *)
(* torn down when the last stream has left.                                *)
(***************************************************************************)
EXTENDS Integers, FiniteSets

CONSTANTS
    Streams,
    Slots,          \* the requests a stream runs side by side: download, upload
    MaxClients,     \* bounds: clients opened, dials
    MaxDials,
    ReuseTimes,     \* what c_max_reuse_times and h_max_request_times are
    RequestTimes,   \* rolled to; 0 is unlimited
    MaxOver,        \* bound: requests on a client after its last permitted one
    Concurrencies,  \* what max_concurrency is rolled to, if it is set
    Connections,    \* what max_connections is rolled to, if it is set
    Threshold,      \* xmuxBreakerThreshold
    MaxDelay        \* how often backoffDelay can double before it is capped

ASSUME XmuxAssumption ==
    /\ IsFiniteSet(Streams) /\ MaxClients \in Nat /\ MaxDials \in Nat
    /\ ReuseTimes \in Nat /\ RequestTimes \in Nat /\ MaxOver \in Nat
    /\ Concurrencies \subseteq Nat \ {0} /\ Connections \subseteq Nat \ {0}
    /\ Threshold \in Nat \ {0} /\ MaxDelay \in Nat \ {0}

VARIABLES
    concurrency, connections,   \* rolled once at construction
    clients,        \* m.clients
    opened,         \* the clients made so far are 1..opened
    openUsage, leftUsage, leftRequests, expired, consecFails, failing, closed,
    connClosed,     \* http2XmuxConn.closed
    link,           \* the transport has a connection to the server
    backoff,        \* backoffDelay: 0, or one more than the doublings
    blocked,        \* blockedUntil is in the future
    retiring,       \* clients that Close took and has not closed yet
    pc, hold, dials,
    req,            \* where each request of a stream is
    released,       \* streams whose xmuxRelease.once is done
    handouts,       \* history: how often get returned a client
    missed,         \* history: a client was closed while a stream that had got
                    \* it was not yet counted
    busy,           \* history: a connection was closed with requests on it
    crowded         \* history: a client was handed out while such a stream existed

connVars == <<connClosed, link, busy>>
clientVars == <<openUsage, leftUsage, leftRequests, expired, consecFails, failing, closed,
                connVars>>
managerVars == <<concurrency, connections, clients, opened, backoff, blocked, retiring>>
callVars == <<hold, req, released, dials>>
streamVars == <<pc, callVars>>
history == <<handouts, missed, crowded>>
vars == <<clientVars, managerVars, streamVars, history>>

Clients == 1..MaxClients
NoClient == 0
Unlimited == -1

\* newXmuxManager; one of the two limits at most is set (normalizeXmux).
Init ==
    /\ \/ concurrency \in Concurrencies /\ connections = 0
       \/ concurrency = 0 /\ connections \in Connections \cup {0}
    /\ clients = {} /\ opened = 0 /\ backoff = 0 /\ blocked = FALSE /\ retiring = {}
    /\ openUsage = [c \in Clients |-> 0]
    /\ leftUsage = [c \in Clients |-> IF ReuseTimes > 0 THEN ReuseTimes - 1 ELSE Unlimited]
    /\ leftRequests = [c \in Clients |-> RequestTimes]
    /\ expired = {} /\ failing = {} /\ closed = {} /\ connClosed = {} /\ link = {}
    /\ consecFails = [c \in Clients |-> 0]
    /\ pc = [s \in Streams |-> "idle"] /\ hold = [s \in Streams |-> NoClient] /\ dials = 0
    /\ req = [s \in Streams |-> [k \in Slots |-> "none"]] /\ released = {}
    /\ handouts = [c \in Clients |-> 0] /\ missed = {} /\ crowded = {} /\ busy = {}

-----------------------------------------------------------------------------
\* Streams that got the client and have not called addOpenUsage(1) yet.
Uncounted(c) == {s \in Streams : pc[s] = "got" /\ hold[s] = c}

\* Streams between addOpenUsage(1) and their first release.
Counted(c) == {s \in Streams \ released : pc[s] = "live" /\ hold[s] = c}

\* Streams with a request on the connection, released or not.
InFlight(c) == {s \in Streams : hold[s] = c /\ \E k \in Slots : req[s][k] = "request"}

\* http2XmuxConn.Close of several clients: only the first call has an effect,
\* and CloseIdleConnections spares a connection with requests on it.
ConnClose(cs) ==
    /\ connClosed' = connClosed \cup cs
    /\ link' = link \ {c \in cs \ connClosed : InFlight(c) = {}}
    /\ busy' = busy \cup {c \in cs \ connClosed : InFlight(c) # {}}

\* Mutant: the connection is closed under the streams that use it.
CloseClients_AtOnce(cs) ==
    /\ closed' = closed \cup cs
    /\ ConnClose(cs)
    /\ missed' = missed \cup {c \in cs : Uncounted(c) # {}}

\* xmuxClient.close of several clients.
CloseClients(cs) ==
    /\ closed' = closed \cup cs
    /\ ConnClose({c \in cs : openUsage[c] <= 0})
    /\ missed' = missed \cup {c \in cs : Uncounted(c) # {}}

\* Mutant: a client without uses left is not evicted.
evictCause_ReuseIgnored(c) ==
    c \in connClosed \/ c \in failing \/ (RequestTimes > 0 /\ leftRequests[c] <= 0) \/ c \in expired

evictCause(c) ==
    \/ c \in connClosed \/ c \in failing \/ leftUsage[c] = 0
    \/ RequestTimes > 0 /\ leftRequests[c] <= 0
    \/ c \in expired

\* What get leaves in the pool.
Kept == {c \in clients : ~evictCause(c)}

\* Mutant: one stream more than max_concurrency.
Candidates_OffByOne == {c \in Kept : concurrency > 0 => openUsage[c] <= concurrency}

\* The clients that get may choose from.
Candidates == {c \in Kept : concurrency > 0 => openUsage[c] < concurrency}

\* get opens a client rather than hand out one it has.
Opens ==
    \/ Kept = {} /\ ~(backoff > 0 /\ blocked)
    \/ Kept # {} /\ connections > 0 /\ Cardinality(Kept) < connections
    \/ Kept # {} /\ Candidates = {}

-----------------------------------------------------------------------------
(***************************************************************************)
(* A stream: DialContext, the requests, and the release.                   *)
(***************************************************************************)

\* A stream that is not there yet, or that was released and whose requests have
\* all ended: another may take its place.
Vacant(s) == pc[s] = "idle" \/ (s \in released /\ \A k \in Slots : req[s][k] = "none")

\* DialContext gets a client.
HandOut(s, c) ==
    /\ dials < MaxDials /\ dials' = dials + 1
    /\ pc' = [pc EXCEPT ![s] = "got"]
    /\ hold' = [hold EXCEPT ![s] = c]
    /\ released' = released \ {s}
    /\ handouts' = [handouts EXCEPT ![c] = @ + 1]
    /\ crowded' = IF Uncounted(c) # {} THEN crowded \cup {c} ELSE crowded
    /\ UNCHANGED req

\* get evicts, closes what it evicted and opens a client.
GetNew(s) ==
    /\ Vacant(s) /\ Opens /\ opened < MaxClients
    /\ CloseClients(clients \ Kept)
    /\ opened' = opened + 1
    /\ clients' = Kept \cup {opened + 1}
    /\ HandOut(s, opened + 1)
    /\ UNCHANGED <<concurrency, connections, backoff, blocked, retiring, openUsage, leftUsage,
                   leftRequests, expired, consecFails, failing>>

\* ... or hands out a client of the pool.
GetPooled(s, c) ==
    /\ Vacant(s) /\ ~Opens /\ c \in Candidates
    /\ CloseClients(clients \ Kept)
    /\ clients' = Kept
    /\ leftUsage' = [leftUsage EXCEPT ![c] = IF @ > 0 THEN @ - 1 ELSE @]
    /\ HandOut(s, c)
    /\ UNCHANGED <<concurrency, connections, opened, backoff, blocked, retiring, openUsage,
                   leftRequests, expired, consecFails, failing>>

\* ... or has nothing and may not open: getContext waits and asks again, or gives
\* up when its context is done.
GetWaits ==
    /\ ~Opens /\ Kept = {} /\ clients # {}
    /\ CloseClients(clients)
    /\ clients' = {}
    /\ UNCHANGED <<concurrency, connections, opened, backoff, blocked, retiring, openUsage,
                   leftUsage, leftRequests, expired, consecFails, failing, streamVars,
                   handouts, crowded>>

\* addOpenUsage of one stream.
AddOpenUsage(c, delta) ==
    /\ openUsage' = [openUsage EXCEPT ![c] = @ + delta]
    /\ IF c \in closed /\ openUsage[c] + delta <= 0 THEN ConnClose({c})
                                                    ELSE UNCHANGED connVars

CountIn(s) ==
    /\ pc[s] = "got"
    /\ AddOpenUsage(hold[s], 1)
    /\ pc' = [pc EXCEPT ![s] = "live"]
    /\ UNCHANGED <<leftUsage, leftRequests, expired, consecFails, failing, closed, managerVars,
                   callVars, history>>

Step(s, k, l) == req' = [req EXCEPT ![s][k] = l]

\* roundTrip: the transport dials if it has no connection, unless the context
\* of the request is cancelled, as it is before the release.
RoundTrip(s, k) ==
    /\ pc[s] = "live" /\ req[s][k] = "none"
    /\ RequestTimes > 0 => leftRequests[hold[s]] > -MaxOver
    /\ leftRequests' = [leftRequests EXCEPT ![hold[s]] = IF RequestTimes > 0 THEN @ - 1 ELSE @]
    /\ link' = IF s \in released THEN link ELSE link \cup {hold[s]}
    /\ Step(s, k, "request")
    /\ UNCHANGED <<openUsage, leftUsage, expired, consecFails, failing, closed, connClosed, busy,
                   managerVars, pc, hold, released, dials, history>>

\* noteFailure; the failure that crosses the threshold reports to the manager.
NoteFailure(s, k) ==
    /\ req[s][k] = "request"
    /\ consecFails' = [consecFails EXCEPT ![hold[s]] = @ + 1]
    /\ IF consecFails[hold[s]] + 1 = Threshold
       THEN failing' = failing \cup {hold[s]} /\ Step(s, k, "trip")
       ELSE UNCHANGED failing /\ Step(s, k, "none")
    /\ UNCHANGED <<openUsage, leftUsage, leftRequests, expired, closed, connVars,
                   managerVars, pc, hold, released, dials, history>>

\* Mutant: the delay doubles without a cap.
NoteBreakerTrip_NoCap(s, k) ==
    /\ req[s][k] = "trip"
    /\ backoff' = backoff + 1
    /\ blocked' = TRUE
    /\ Step(s, k, "none")
    /\ UNCHANGED <<clientVars, concurrency, connections, clients, opened, retiring, pc, hold,
                   released, dials, history>>

NoteBreakerTrip(s, k) ==
    /\ req[s][k] = "trip"
    /\ backoff' = IF backoff < MaxDelay THEN backoff + 1 ELSE backoff
    /\ blocked' = TRUE
    /\ Step(s, k, "none")
    /\ UNCHANGED <<clientVars, concurrency, connections, clients, opened, retiring, pc, hold,
                   released, dials, history>>

\* noteSuccess; the stream may go on.
NoteSuccess(s, k) ==
    /\ req[s][k] = "request"
    /\ consecFails' = [consecFails EXCEPT ![hold[s]] = 0]
    /\ Step(s, k, IF backoff > 0 THEN "reset" ELSE "none")
    /\ UNCHANGED <<openUsage, leftUsage, leftRequests, expired, failing, closed, connVars,
                   managerVars, pc, hold, released, dials, history>>

ResetBackoff(s, k) ==
    /\ req[s][k] = "reset"
    /\ backoff' = 0 /\ blocked' = FALSE
    /\ Step(s, k, "none")
    /\ UNCHANGED <<clientVars, concurrency, connections, clients, opened, retiring, pc, hold,
                   released, dials, history>>

\* Mutant: every call releases, not only the first.
Release_Twice(s) ==
    /\ pc[s] = "live"
    /\ AddOpenUsage(hold[s], -1)
    /\ released' = released \cup {s}
    /\ UNCHANGED <<leftUsage, leftRequests, expired, consecFails, failing, closed, managerVars,
                   pc, hold, req, dials, history>>

\* release, by the connection's Close, by the failure of a request, by abortRaise
\* or by a failed dial: after the context was cancelled, not after its requests
\* have ended; the calls after the first do nothing.
Release(s) ==
    /\ pc[s] = "live"
    /\ IF s \in released THEN UNCHANGED <<openUsage, connVars, released>>
       ELSE AddOpenUsage(hold[s], -1) /\ released' = released \cup {s}
    /\ UNCHANGED <<leftUsage, leftRequests, expired, consecFails, failing, closed, managerVars,
                   pc, hold, req, dials, history>>

-----------------------------------------------------------------------------
\* Close takes the pool under the lock and closes its clients one by one.
Close ==
    /\ clients # {}
    /\ retiring' = retiring \cup clients
    /\ clients' = {}
    /\ UNCHANGED <<clientVars, concurrency, connections, opened, backoff, blocked, streamVars,
                   history>>

CloseOne(c) ==
    /\ c \in retiring
    /\ retiring' = retiring \ {c}
    /\ CloseClients({c})
    /\ UNCHANGED <<openUsage, leftUsage, leftRequests, expired, consecFails, failing,
                   concurrency, connections, clients, opened, backoff, blocked, streamVars,
                   handouts, crowded>>

\* Time passes: unreusableAt of a client, or blockedUntil.
Expires(c) ==
    /\ c \in clients \ expired
    /\ expired' = expired \cup {c}
    /\ UNCHANGED <<openUsage, leftUsage, leftRequests, consecFails, failing, closed, connVars,
                   managerVars, streamVars, history>>

WindowEnds ==
    /\ blocked
    /\ blocked' = FALSE
    /\ UNCHANGED <<clientVars, concurrency, connections, clients, opened, backoff, retiring,
                   streamVars, history>>

Next ==
    \/ \E s \in Streams :
        \/ GetNew(s) \/ CountIn(s)
        \/ \E c \in Clients : GetPooled(s, c)
        \/ \E k \in Slots :
            \/ RoundTrip(s, k) \/ NoteFailure(s, k) \/ NoteBreakerTrip(s, k)
            \/ NoteSuccess(s, k) \/ ResetBackoff(s, k)
        \/ Release(s)
    \/ GetWaits \/ Close \/ WindowEnds
    \/ \E c \in Clients : CloseOne(c) \/ Expires(c)

Spec == Init /\ [][Next]_vars

-----------------------------------------------------------------------------
\* The values of the variables; openUsage never goes below zero.
TypeOK ==
    /\ concurrency \in Concurrencies \cup {0} /\ connections \in Connections \cup {0}
    /\ clients \subseteq 1..opened /\ opened \in 0..MaxClients
    /\ openUsage \in [Clients -> 0..Cardinality(Streams)]
    /\ leftUsage \in [Clients -> Int] /\ leftRequests \in [Clients -> Int]
    /\ consecFails \in [Clients -> Nat]
    /\ \A cs \in {expired, failing, closed, connClosed, link, busy, retiring, missed, crowded} :
          cs \subseteq Clients
    /\ backoff \in 0..MaxDelay /\ blocked \in BOOLEAN
    /\ pc \in [Streams -> {"idle", "got", "live"}] /\ released \subseteq Streams
    /\ req \in [Streams -> [Slots -> {"none", "request", "trip", "reset"}]]
    /\ hold \in [Streams -> Clients \cup {NoClient}] /\ dials \in 0..MaxDials
    /\ handouts \in [Clients -> Nat]

\* openUsage of a client is the number of streams between their addOpenUsage(1)
\* and their first release, however often and from wherever each is released: a
\* retired client is kept for exactly as long as it says, and never counted down
\* twice by one stream at the cost of another.
UsageExact == \A c \in Clients : openUsage[c] = Cardinality(Counted(c))

\* Over any mixture of concurrent dials, evictions and Close a client is handed
\* out c_max_reuse_times times at most, and with max_connections the pool never
\* holds more clients than that.
LimitsKept ==
    /\ ReuseTimes > 0 => \A c \in Clients : handouts[c] <= ReuseTimes
    /\ connections > 0 => Cardinality(clients) <= connections

\* With max_concurrency no client carries more streams than that, unless it was
\* handed out twice before the first stream was counted.
ConcurrencyKept ==
    \A c \in Clients \ crowded : concurrency > 0 => openUsage[c] <= concurrency

\* The teardown of a retired client is done: when its last stream has left and
\* its last request has ended, no connection to the server stays behind.
RetiredIsTornDown ==
    \A c \in closed : Counted(c) = {} /\ InFlight(c) = {} => c \notin link

\* ... unless it was closed between get and addOpenUsage(1) of some stream, or a
\* cancelled request was still on it when its last stream released it; and the
\* connection of a client that streams are counted on is closed in the first
\* case only.
RetiredIsTornDownIfCounted ==
    \A c \in closed \ missed : /\ Counted(c) = {} => c \notin link \/ c \in busy
                               /\ Counted(c) # {} => c \notin connClosed
=============================================================================
