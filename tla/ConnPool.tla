------------------------------ MODULE ConnPool ------------------------------
(***************************************************************************)
(* The connection pool of the DNS transports, dns/transport/conn_pool.go,  *)
(* in ConnPoolSingle mode: every caller shares one connection, the first   *)
(* caller that finds none starts a dial in a goroutine of its own, the     *)
(* others wait for it.  The mutex p.access makes every section between     *)
(* Lock and Unlock atomic; the code outside the lock (the dial, closing a  *)
(* connection, cancelling a replaced state) is a step of its own.          *)
(*                                                                         *)
(* A connPoolState object is a generation: Reset replaces it.  The fields  *)
(* all, shared, sharedClaimed, ... are those of the current generation.    *)
(* Connections and dial attempts have the same identity: attempt k         *)
(* produces connection k, if it produces one.                              *)
(***************************************************************************)
EXTENDS Integers, FiniteSets

CONSTANTS
    Procs,      \* the goroutines that call Acquire
    MaxDials,   \* bound on the number of dial attempts
    MaxResets   \* bound on the number of calls of Reset

ASSUME ConstAssumption == /\ MaxDials \in Nat \ {0}
                          /\ MaxResets \in Nat
                          /\ IsFiniteSet(Procs) /\ Procs # {}

NoConn == 0
Conns == 1..MaxDials
Gens == 0..MaxResets

VARIABLES
    closed,         \* p.closed
    gen,            \* which state object p.state is
    cancelled,      \* generations whose ctx is cancelled
    all,            \* state.all of the current generation
    oldAll,         \* connections of replaced generations closeState has yet to close
    shared,         \* state.shared, NoConn when ~hasShared
    sharedClaimed,
    sharedUsers,
    sharedWaiters,
    connecting,     \* state.connecting, NoConn when nil
    dials,          \* dial attempts started so far
    dialGen,        \* the generation an attempt was started in
    dialer,         \* whose ctx the attempt dials with
    phase,          \* progress of the goroutine connectSingle
    failed,         \* connPoolConnect.err # nil
    conn,           \* the connection itself
    dead,           \* connections for which IsAlive is false
    cause,          \* cause of the cancellation of sharedCtx, "none" while it lives
    ctx,            \* the caller's context
    pc,             \* where a caller is in acquireShared
    waitOn,         \* the attempt whose done channel a caller waits on
    startDial,      \* local variable of acquireShared
    hold,           \* the connection a caller was given and has not handed back
    receivers       \* history: how often a connection was handed out as created

stateVars == <<closed, gen, cancelled, all, oldAll, shared, sharedClaimed,
               sharedUsers, sharedWaiters, connecting>>
dialVars == <<dials, dialGen, dialer, phase, failed>>
connVars == <<conn, dead, cause>>
callVars == <<pc, waitOn, startDial, hold, receivers>>
poolVars == <<stateVars, dialVars, connVars, callVars, ctx>>

Phases == {"unused", "dialing", "dialed", "finishing", "done"}
ConnStates == {"none", "open", "closed"}
Causes == {"none", "read", "other"}

StateTypes ==
    /\ closed \in BOOLEAN /\ gen \in Gens /\ cancelled \in SUBSET Gens
    /\ all \in SUBSET Conns /\ oldAll \in SUBSET Conns
    /\ shared \in Conns \cup {NoConn} /\ connecting \in Conns \cup {NoConn}
    /\ sharedClaimed \in BOOLEAN /\ sharedUsers \in Nat /\ sharedWaiters \in Nat

DialTypes ==
    /\ dials \in 0..MaxDials
    /\ dialGen \in [Conns -> Gens] /\ dialer \in [Conns -> Procs]
    /\ phase \in [Conns -> Phases] /\ failed \in [Conns -> BOOLEAN]

ConnTypes ==
    /\ conn \in [Conns -> ConnStates] /\ dead \in SUBSET Conns
    /\ cause \in [Conns -> Causes]

CallTypes ==
    /\ ctx \in [Procs -> {"live", "done"}]
    /\ pc \in [Procs -> {"idle", "acquire", "wait"}]
    /\ waitOn \in [Procs -> Conns \cup {NoConn}]
    /\ startDial \in [Procs -> BOOLEAN]
    /\ hold \in [Procs -> Conns \cup {NoConn}]
    /\ receivers \in [Conns -> Nat]

\* The values of the variables; that sharedUsers and sharedWaiters never go
\* below zero is the part that takes an argument.
TypeOK == StateTypes /\ DialTypes /\ ConnTypes /\ CallTypes

PoolInit ==
    /\ closed = FALSE /\ gen = 0 /\ cancelled = {}
    /\ all = {} /\ oldAll = {}
    /\ shared = NoConn /\ sharedClaimed = FALSE
    /\ sharedUsers = 0 /\ sharedWaiters = 0 /\ connecting = NoConn
    /\ dials = 0
    /\ dialGen = [k \in Conns |-> 0]
    /\ dialer = [k \in Conns |-> CHOOSE p \in Procs : TRUE]
    /\ phase = [k \in Conns |-> "unused"]
    /\ failed = [k \in Conns |-> FALSE]
    /\ conn = [k \in Conns |-> "none"]
    /\ dead = {}
    /\ cause = [k \in Conns |-> "none"]
    /\ ctx = [p \in Procs |-> "live"]
    /\ pc = [p \in Procs |-> "idle"]
    /\ waitOn = [p \in Procs |-> NoConn]
    /\ startDial = [p \in Procs |-> FALSE]
    /\ hold = [p \in Procs |-> NoConn]
    /\ receivers = [k \in Conns |-> 0]

-----------------------------------------------------------------------------
(***************************************************************************)
(* acquireShared, the loop head: one critical section.                     *)
(***************************************************************************)

\* A caller enters Acquire.
Call(p) ==
    /\ pc[p] = "idle" /\ hold[p] = NoConn
    /\ pc' = [pc EXCEPT ![p] = "acquire"]
    /\ UNCHANGED <<stateVars, dialVars, connVars, waitOn, startDial, hold, receivers, ctx>>

AcquireClosed(p) ==
    /\ pc[p] = "acquire" /\ closed
    /\ pc' = [pc EXCEPT ![p] = "idle"]
    /\ UNCHANGED <<stateVars, dialVars, connVars, waitOn, startDial, hold, receivers, ctx>>

\* Mutant: the first claimant does not mark the connection claimed.
Claim_NotMarked(p) ==
    /\ sharedUsers' = sharedUsers + 1
    /\ hold' = [hold EXCEPT ![p] = shared]
    /\ receivers' = IF sharedClaimed THEN receivers
                    ELSE [receivers EXCEPT ![shared] = @ + 1]
    /\ UNCHANGED sharedClaimed

\* p is given the shared connection; it is "created" for the first claimant.
Claim(p) ==
    /\ sharedClaimed' = TRUE
    /\ sharedUsers' = sharedUsers + 1
    /\ hold' = [hold EXCEPT ![p] = shared]
    /\ receivers' = IF sharedClaimed THEN receivers
                    ELSE [receivers EXCEPT ![shared] = @ + 1]

AcquireHit(p) ==
    /\ pc[p] = "acquire" /\ ~closed
    /\ shared # NoConn /\ shared \notin dead
    /\ Claim(p)
    /\ pc' = [pc EXCEPT ![p] = "idle"]
    /\ UNCHANGED <<closed, gen, cancelled, all, oldAll, shared, sharedWaiters, connecting,
                   dialVars, connVars, waitOn, startDial, ctx>>

\* Mutant: sharedCancel is not called.
RemoveConn_NoCancel(k, why) ==
    /\ all' = all \ {k}
    /\ conn' = [conn EXCEPT ![k] = "closed"]
    /\ IF shared = k
       THEN shared' = NoConn /\ sharedClaimed' = FALSE /\ sharedUsers' = 0
       ELSE UNCHANGED <<shared, sharedClaimed, sharedUsers>>
    /\ UNCHANGED cause

\* removeConn and the Close of the connection that follows it everywhere.
RemoveConn(k, why) ==
    /\ all' = all \ {k}
    /\ conn' = [conn EXCEPT ![k] = "closed"]
    /\ IF shared = k
       THEN /\ shared' = NoConn /\ sharedClaimed' = FALSE /\ sharedUsers' = 0
            /\ cause' = [cause EXCEPT ![k] = why]
       ELSE UNCHANGED <<shared, sharedClaimed, sharedUsers, cause>>

AcquireEvict(p) ==
    /\ pc[p] = "acquire" /\ ~closed
    /\ shared # NoConn /\ shared \in dead
    /\ RemoveConn(shared, "other")
    /\ UNCHANGED <<closed, gen, cancelled, oldAll, sharedWaiters, connecting,
                   dialVars, dead, callVars, ctx>>

AcquireJoin(p) ==
    /\ pc[p] = "acquire" /\ ~closed
    /\ shared = NoConn /\ connecting # NoConn
    /\ sharedWaiters' = sharedWaiters + 1
    /\ pc' = [pc EXCEPT ![p] = "wait"]
    /\ waitOn' = [waitOn EXCEPT ![p] = connecting]
    /\ startDial' = [startDial EXCEPT ![p] = FALSE]
    /\ UNCHANGED <<closed, gen, cancelled, all, oldAll, shared, sharedClaimed, sharedUsers,
                   connecting, dialVars, connVars, hold, receivers, ctx>>

AcquireDial(p) ==
    /\ pc[p] = "acquire" /\ ~closed
    /\ shared = NoConn /\ connecting = NoConn
    /\ dials < MaxDials
    /\ LET k == dials + 1 IN
       /\ dials' = k
       /\ connecting' = k
       /\ dialGen' = [dialGen EXCEPT ![k] = gen]
       /\ dialer' = [dialer EXCEPT ![k] = p]
       /\ phase' = [phase EXCEPT ![k] = "dialing"]
       /\ waitOn' = [waitOn EXCEPT ![p] = k]
    /\ sharedWaiters' = sharedWaiters + 1
    /\ pc' = [pc EXCEPT ![p] = "wait"]
    /\ startDial' = [startDial EXCEPT ![p] = TRUE]
    /\ UNCHANGED <<closed, gen, cancelled, all, oldAll, shared, sharedClaimed, sharedUsers,
                   failed, connVars, hold, receivers, ctx>>

-----------------------------------------------------------------------------
(***************************************************************************)
(* The goroutine connectSingle: the dial, the critical section that        *)
(* installs its result, and the wake-up of the waiters.                    *)
(***************************************************************************)

\* The dial succeeds and neither the caller's ctx nor the state's is done.
DialSucceeds(k) ==
    /\ phase[k] = "dialing"
    /\ ctx[dialer[k]] = "live" /\ dialGen[k] \notin cancelled
    /\ phase' = [phase EXCEPT ![k] = "dialed"]
    /\ conn' = [conn EXCEPT ![k] = "open"]
    /\ UNCHANGED <<stateVars, dials, dialGen, dialer, failed, dead, cause, callVars, ctx>>

\* The dial fails, or returns a connection too late, which is closed at once.
DialFails(k) ==
    /\ phase[k] = "dialing"
    /\ phase' = [phase EXCEPT ![k] = "dialed"]
    /\ failed' = [failed EXCEPT ![k] = TRUE]
    /\ UNCHANGED <<stateVars, dials, dialGen, dialer, connVars, callVars, ctx>>

\* current.connecting = nil: a no-op for the pool when current was replaced.
Connected(k) ==
    connecting' = IF dialGen[k] = gen THEN NoConn ELSE connecting

\* Mutant: p.closed is not tested before the connection is installed.
Install_ClosedPool(k) ==
    /\ phase[k] = "dialed"
    /\ phase' = [phase EXCEPT ![k] = "finishing"]
    /\ Connected(k)
    /\ \/ /\ ~failed[k] /\ dialGen[k] = gen
          /\ shared' = k
          /\ all' = all \cup {k}
          /\ UNCHANGED failed
       \/ /\ failed[k] \/ dialGen[k] # gen
          /\ failed' = [failed EXCEPT ![k] = TRUE]
          /\ UNCHANGED <<shared, all>>
    /\ UNCHANGED <<closed, gen, cancelled, oldAll, sharedClaimed, sharedUsers, sharedWaiters,
                   dials, dialGen, dialer, connVars, callVars, ctx>>

Install(k) ==
    /\ phase[k] = "dialed"
    /\ phase' = [phase EXCEPT ![k] = "finishing"]
    /\ Connected(k)
    /\ \/ /\ ~failed[k] /\ ~closed /\ dialGen[k] = gen
          /\ shared' = k
          /\ all' = all \cup {k}
          /\ UNCHANGED failed
       \/ /\ failed[k] \/ closed \/ dialGen[k] # gen
          /\ failed' = [failed EXCEPT ![k] = TRUE]
          /\ UNCHANGED <<shared, all>>
    /\ UNCHANGED <<closed, gen, cancelled, oldAll, sharedClaimed, sharedUsers, sharedWaiters,
                   dials, dialGen, dialer, connVars, callVars, ctx>>

\* Mutant: the connection of an attempt that came too late is not closed.
Finish_KeepsConn(k) ==
    /\ phase[k] = "finishing"
    /\ phase' = [phase EXCEPT ![k] = "done"]
    /\ UNCHANGED <<stateVars, dials, dialGen, dialer, failed, connVars, callVars, ctx>>

\* Mutant: a failed attempt returns before close(state.done).
Finish_NoDone(k) ==
    /\ phase[k] = "finishing"
    /\ phase' = IF failed[k] THEN phase ELSE [phase EXCEPT ![k] = "done"]
    /\ conn' = IF failed[k] /\ conn[k] = "open" THEN [conn EXCEPT ![k] = "closed"] ELSE conn
    /\ UNCHANGED <<stateVars, dials, dialGen, dialer, failed, dead, cause, callVars, ctx>>

\* A connection that was not installed is closed; then close(state.done).
Finish(k) ==
    /\ phase[k] = "finishing"
    /\ phase' = [phase EXCEPT ![k] = "done"]
    /\ conn' = IF failed[k] /\ conn[k] = "open" THEN [conn EXCEPT ![k] = "closed"] ELSE conn
    /\ UNCHANGED <<stateVars, dials, dialGen, dialer, failed, dead, cause, callVars, ctx>>

-----------------------------------------------------------------------------
(***************************************************************************)
(* acquireShared, the select: the attempt is over (collectShared), the     *)
(* caller's ctx is done, or the state was cancelled.                       *)
(***************************************************************************)

\* Mutant: a waiter that leaves is not uncounted.
Unwait_Forgotten(p) == sharedWaiters' = sharedWaiters

\* Mutant: a waiter of a replaced state uncounts itself in the current one.
Unwait_CurrentState(p) == sharedWaiters' = sharedWaiters - 1

\* current.sharedWaiters--: invisible once current was replaced.
Unwait(p) ==
    sharedWaiters' = IF dialGen[waitOn[p]] = gen /\ ~closed
                     THEN sharedWaiters - 1 ELSE sharedWaiters

Woken(p) == pc[p] = "wait" /\ phase[waitOn[p]] = "done"

Leave(p, next) ==
    /\ Unwait(p)
    /\ pc' = [pc EXCEPT ![p] = next]
    /\ waitOn' = [waitOn EXCEPT ![p] = NoConn]
    /\ startDial' = [startDial EXCEPT ![p] = FALSE]

\* collectShared returns an error: the attempt's, to its starter, or ErrClosed.
CollectFails(p) ==
    /\ Woken(p)
    /\ \/ failed[waitOn[p]] /\ startDial[p]
       \/ ~failed[waitOn[p]] /\ (closed \/ dialGen[waitOn[p]] # gen)
    /\ Leave(p, "idle")
    /\ UNCHANGED <<closed, gen, cancelled, all, oldAll, shared, sharedClaimed, sharedUsers,
                   connecting, dialVars, connVars, hold, receivers, ctx>>

\* Usable(p): collectShared looks at the current generation's connection.
Usable(p) == ~failed[waitOn[p]] /\ ~closed /\ dialGen[waitOn[p]] = gen

CollectRetries(p) ==
    /\ Woken(p)
    /\ \/ failed[waitOn[p]] /\ ~startDial[p]
       \/ Usable(p) /\ shared = NoConn
    /\ Leave(p, "acquire")
    /\ UNCHANGED <<closed, gen, cancelled, all, oldAll, shared, sharedClaimed, sharedUsers,
                   connecting, dialVars, connVars, hold, receivers, ctx>>

CollectEvicts(p) ==
    /\ Woken(p) /\ Usable(p)
    /\ shared # NoConn /\ shared \in dead
    /\ RemoveConn(shared, "other")
    /\ Leave(p, "acquire")
    /\ UNCHANGED <<closed, gen, cancelled, oldAll, connecting, dialVars, dead,
                   hold, receivers, ctx>>

CollectShared(p) ==
    /\ Woken(p) /\ Usable(p)
    /\ shared # NoConn /\ shared \notin dead
    /\ Claim(p)
    /\ Leave(p, "idle")
    /\ UNCHANGED <<closed, gen, cancelled, all, oldAll, shared, connecting,
                   dialVars, connVars, ctx>>

WaitCancelled(p) ==
    /\ pc[p] = "wait" /\ ctx[p] = "done"
    /\ Leave(p, "idle")
    /\ UNCHANGED <<closed, gen, cancelled, all, oldAll, shared, sharedClaimed, sharedUsers,
                   connecting, dialVars, connVars, hold, receivers, ctx>>

WaitReset(p) ==
    /\ pc[p] = "wait" /\ dialGen[waitOn[p]] \in cancelled
    /\ Leave(p, IF closed THEN "idle" ELSE "acquire")
    /\ UNCHANGED <<closed, gen, cancelled, all, oldAll, shared, sharedClaimed, sharedUsers,
                   connecting, dialVars, connVars, hold, receivers, ctx>>

-----------------------------------------------------------------------------
(***************************************************************************)
(* Handing a connection back.                                              *)
(***************************************************************************)

CloseConn(k) == conn' = [conn EXCEPT ![k] = "closed"]

\* Release: close a connection the pool does not track, drop one that must not
\* be reused, else one user less.
Release(p, reuse) ==
    LET k == hold[p] IN
    /\ k # NoConn
    /\ hold' = [hold EXCEPT ![p] = NoConn]
    /\ \/ /\ closed \/ k \notin all
          /\ CloseConn(k)
          /\ UNCHANGED <<all, shared, sharedClaimed, sharedUsers, cause>>
       \/ /\ ~closed /\ k \in all /\ (~reuse \/ k \in dead)
          /\ RemoveConn(k, "other")
       \/ /\ ~closed /\ k \in all /\ reuse /\ k \notin dead
          /\ sharedUsers' = IF shared = k /\ sharedUsers > 0
                            THEN sharedUsers - 1 ELSE sharedUsers
          /\ UNCHANGED <<all, shared, sharedClaimed, conn, cause>>
    /\ UNCHANGED <<closed, gen, cancelled, oldAll, sharedWaiters, connecting,
                   dialVars, dead, pc, waitOn, startDial, receivers, ctx>>

\* Invalidate, by anyone the connection was handed to.
Discard(k, why) ==
    \/ closed /\ CloseConn(k) /\ UNCHANGED <<all, shared, sharedClaimed, sharedUsers, cause>>
    \/ ~closed /\ k \notin all
       /\ UNCHANGED <<all, shared, sharedClaimed, sharedUsers, cause, conn>>
    \/ ~closed /\ k \in all /\ RemoveConn(k, why)

Invalidate(k, why) ==
    /\ receivers[k] > 0
    /\ Discard(k, why)
    /\ UNCHANGED <<closed, gen, cancelled, oldAll, sharedWaiters, connecting,
                   dialVars, dead, callVars, ctx>>

\* A holder invalidates its connection and keeps no claim on it.
InvalidateHeld(p, why) ==
    /\ hold[p] # NoConn
    /\ Discard(hold[p], why)
    /\ hold' = [hold EXCEPT ![p] = NoConn]
    /\ UNCHANGED <<closed, gen, cancelled, oldAll, sharedWaiters, connecting,
                   dialVars, dead, pc, waitOn, startDial, receivers, ctx>>

\* A holder learns from connCtx that the pool gave its connection up.
Abandon(p) ==
    /\ hold[p] # NoConn /\ cause[hold[p]] # "none"
    /\ hold' = [hold EXCEPT ![p] = NoConn]
    /\ UNCHANGED <<stateVars, dialVars, connVars, pc, waitOn, startDial, receivers, ctx>>

-----------------------------------------------------------------------------
(***************************************************************************)
(* CloseIdle, Reset and Close.                                             *)
(***************************************************************************)

\* Mutant: callers that wait for the connection do not keep it.
CloseIdle_IgnoresWaiters ==
    /\ ~closed
    /\ shared # NoConn /\ sharedUsers = 0
    /\ RemoveConn(shared, "other")
    /\ UNCHANGED <<closed, gen, cancelled, oldAll, sharedWaiters, connecting,
                   dialVars, dead, callVars, ctx>>

CloseIdle ==
    /\ ~closed
    /\ shared # NoConn /\ sharedUsers = 0 /\ sharedWaiters = 0
    /\ RemoveConn(shared, "other")
    /\ UNCHANGED <<closed, gen, cancelled, oldAll, sharedWaiters, connecting,
                   dialVars, dead, callVars, ctx>>

\* The state object is taken out of the pool; closeState runs after Unlock.
DropState ==
    /\ oldAll' = oldAll \cup all
    /\ all' = {}
    /\ shared' = NoConn /\ sharedClaimed' = FALSE
    /\ sharedUsers' = 0 /\ sharedWaiters' = 0 /\ connecting' = NoConn
    /\ UNCHANGED <<cancelled, dialVars, connVars, callVars, ctx>>

Reset ==
    /\ ~closed /\ gen < MaxResets
    /\ gen' = gen + 1
    /\ DropState
    /\ UNCHANGED closed

Close ==
    /\ ~closed
    /\ closed' = TRUE
    /\ DropState
    /\ UNCHANGED gen

\* Generations that were replaced or closed.
Dropped(g) == g < gen \/ (closed /\ g = gen)

\* closeState, state.cancel: every context derived from state.ctx is done.
CancelState(g) ==
    /\ Dropped(g) /\ g \notin cancelled
    /\ cancelled' = cancelled \cup {g}
    /\ cause' = [k \in Conns |-> IF k \in oldAll /\ dialGen[k] = g THEN "other" ELSE cause[k]]
    /\ UNCHANGED <<closed, gen, all, oldAll, shared, sharedClaimed, sharedUsers, sharedWaiters,
                   connecting, dialVars, conn, dead, callVars, ctx>>

\* closeState, the loop over state.all.
CloseState(g) ==
    LET doomed == {k \in oldAll : dialGen[k] = g} IN
    /\ g \in cancelled /\ doomed # {}
    /\ oldAll' = oldAll \ doomed
    /\ conn' = [k \in Conns |-> IF k \in doomed THEN "closed" ELSE conn[k]]
    /\ UNCHANGED <<closed, gen, cancelled, all, shared, sharedClaimed, sharedUsers, sharedWaiters,
                   connecting, dialVars, dead, cause, callVars, ctx>>

-----------------------------------------------------------------------------
(***************************************************************************)
(* The environment: a caller's ctx ends, a connection dies unnoticed.      *)
(***************************************************************************)
CtxDone(p) ==
    /\ ctx[p] = "live"
    /\ ctx' = [ctx EXCEPT ![p] = "done"]
    /\ UNCHANGED <<stateVars, dialVars, connVars, callVars>>

Dies(k) ==
    /\ conn[k] = "open" /\ k \notin dead
    /\ dead' = dead \cup {k}
    /\ UNCHANGED <<stateVars, dialVars, conn, cause, callVars, ctx>>

-----------------------------------------------------------------------------
AcquireStep(p) ==
    \/ AcquireClosed(p) \/ AcquireHit(p) \/ AcquireEvict(p)
    \/ AcquireJoin(p) \/ AcquireDial(p)

WaitStep(p) ==
    \/ CollectFails(p) \/ CollectRetries(p) \/ CollectEvicts(p) \/ CollectShared(p)
    \/ WaitCancelled(p) \/ WaitReset(p)

DialStep(k) == DialSucceeds(k) \/ DialFails(k) \/ Install(k) \/ Finish(k)

PoolNext ==
    \/ \E p \in Procs : \/ Call(p) \/ AcquireStep(p) \/ WaitStep(p)
                        \/ \E reuse \in BOOLEAN : Release(p, reuse)
                        \/ \E why \in {"read", "other"} : InvalidateHeld(p, why)
                        \/ Abandon(p) \/ CtxDone(p)
    \/ \E k \in Conns : \/ DialStep(k) \/ Dies(k)
                        \/ \E why \in {"read", "other"} : Invalidate(k, why)
    \/ CloseIdle \/ Reset \/ Close
    \/ \E g \in Gens : CancelState(g) \/ CloseState(g)

\* The Go scheduler runs every goroutine that can run; a dial returns, since
\* its context carries a deadline.
PoolFairness ==
    /\ \A p \in Procs : WF_poolVars(AcquireStep(p)) /\ WF_poolVars(WaitStep(p))
    /\ \A k \in Conns : WF_poolVars(DialStep(k))
    /\ \A g \in Gens : WF_poolVars(CancelState(g)) /\ WF_poolVars(CloseState(g))

PoolSafety == PoolInit /\ [][PoolNext]_poolVars
PoolSpec == PoolSafety /\ PoolFairness

-----------------------------------------------------------------------------
Users(k) == {p \in Procs : hold[p] = k}
Waiters == {p \in Procs : pc[p] = "wait" /\ dialGen[waitOn[p]] = gen}

\* sharedUsers and sharedWaiters, which CloseIdle trusts, count exactly the
\* callers that hold the shared connection and those waiting for one.
CountsExact ==
    ~closed => /\ shared # NoConn => sharedUsers = Cardinality(Users(shared))
               /\ shared = NoConn => sharedUsers = 0
               /\ sharedWaiters = Cardinality(Waiters)

\* Acquire's "created" result, on which the caller starts the receive loop, is
\* given exactly once for every connection anybody holds, never twice.
OneReceiver ==
    /\ \A k \in Conns : receivers[k] <= 1
    /\ \A p \in Procs : hold[p] # NoConn => receivers[hold[p]] = 1

\* No connection is lost: one that is open is still owned by the goroutine that
\* dialled it, tracked by the pool, or about to be closed by closeState.
NoLeak ==
    \A k \in Conns : conn[k] = "open" =>
        \/ phase[k] \in {"dialed", "finishing"}
        \/ k \in all \cup oldAll

\* A holder whose connection was closed under it is told: its connCtx is done
\* or closeState is about to cancel it.
HoldersAreTold ==
    \A p \in Procs : (hold[p] # NoConn /\ conn[hold[p]] = "closed") =>
        \/ cause[hold[p]] # "none"
        \/ hold[p] \in oldAll /\ dialGen[hold[p]] \notin cancelled

\* CloseIdle takes no connection away from a caller that holds it or waits.
CloseIdleSpares ==
    [][CloseIdle => Users(shared) = {} /\ Waiters = {}]_poolVars

\* Nobody waits forever for a dial: every waiter leaves the select.
WaitersLeave == \A p \in Procs : pc[p] = "wait" ~> pc[p] # "wait"

\* After Close every connection that is or becomes open is closed in the end.
AllClosed == closed ~> [](\A k \in Conns : conn[k] # "open")
=============================================================================
