-------------------------- MODULE MultiplexerProofs --------------------------
(***************************************************************************)
(* The multiplexer implements the pool, so that everything proved about    *)
(* the pool holds of it, and its own safety properties hold for every set  *)
(* of queries and any number of dials, resets and ids.                     *)
(***************************************************************************)
EXTENDS Multiplexer, ConnPoolProofs

Holding == {"acquired", "pending", "responded", "ctxdone", "writefailed"}

MuxTypes ==
    /\ mode \in [Procs -> Modes] /\ answers \in [Procs -> Nat]
    /\ recv \in [Conns -> {"none", "reading", "respond", "tail", "ended"}]

\* Where a query is says whether it holds a connection, is inside AcquireShared
\* and was answered.
QueryShape ==
    \A q \in Procs : /\ hold[q] # NoConn <=> mode[q] \in Holding
                     /\ answers[q] = IF mode[q] \in {"tail", "done"} THEN 1 ELSE 0
                     /\ mode[q] # "acquiring" => pc[q] = "idle"

\* A goroutine that writes was given a connection; what is on the wire was written.
WriterShape == /\ \A w \in writers : w.q \in Procs /\ w.k \in Conns
               /\ \A s \in sent : s.q \in Procs

\* Gone(k): nobody can be left waiting for a response on k.
Gone(k) == conn[k] # "open" \/ k \in oldAll

\* A connection that was handed out has a receive loop, which ends only after
\* the connection was closed or the pool's state replaced.
RecvShape ==
    \A k \in Conns : /\ recv[k] = "none" <=> receivers[k] = 0
                     /\ recv[k] = "ended" => Gone(k)

MuxInv == Inv /\ MuxTypes /\ QueryShape /\ WriterShape /\ RecvShape

-----------------------------------------------------------------------------
(***************************************************************************)
(* Every step of the multiplexer is a step of the pool.                    *)
(***************************************************************************)

LEMMA CloseIdleConnectionIsPool == CloseIdleConnection => [PoolNext]_poolVars
  BY Zenon DEF CloseIdleConnection, PoolNext

LEMMA AcquireIsPool ==
    ASSUME NEW q \in Procs,
           BeginAcquire(q) \/ AcquireGoesOn(q) \/ AcquireFails(q) \/ Acquired(q)
    PROVE  PoolNext
  BY Zenon DEF BeginAcquire, AcquireGoesOn, AcquireFails, Acquired, PoolNext, AcquireStep, WaitStep

LEMMA QueryStepIsPool ==
    ASSUME NEW q \in Procs, QueryStep(q)
    PROVE  [PoolNext]_poolVars
<1>1. CASE \E what \in {"response", "error"} : ExchangeSingle(q, what)
  BY <1>1, Zenon DEF ExchangeSingle
<1>2. CASE BeginAcquire(q) \/ AcquireGoesOn(q) \/ AcquireFails(q) \/ Acquired(q)
  BY <1>2, AcquireIsPool, Zenon
<1>3. CASE Register(q) \/ TakeContextDone(q)
  BY <1>3, Zenon DEF Register, TakeContextDone
<1>4. CASE RegisterFails(q)
  BY <1>4, Zenon DEF RegisterFails, PoolNext
<1>5. CASE Refuse(q) \/ Tail(q)
  BY <1>5, CloseIdleConnectionIsPool, Zenon DEF Refuse, Tail
<1>6. CASE CompleteConnDone(q)
  BY <1>6, Zenon DEF CompleteConnDone, PoolNext
<1>7. CASE \E deadline \in BOOLEAN : CompleteContextDone(q, deadline)
  <2>1. InvalidateHeld(q, "other") \/ Release(q, TRUE)
    BY <1>7, Zenon DEF CompleteContextDone
  <2> QED
    BY <2>1, Zenon DEF PoolNext
<1> QED
  BY <1>1, <1>2, <1>3, <1>4, <1>5, <1>6, <1>7, Zenon DEF QueryStep

LEMMA WriteStepIsPool ==
    ASSUME WriterShape, NEW w \in writers,
           Write(w) \/ WriteFails(w) \/ WriteFailsLate(w) \/ AfterWriteFails(w)
    PROVE  [PoolNext]_poolVars
<1> w.q \in Procs /\ w.k \in Conns
  BY Zenon DEF WriterShape
<1>1. CASE Write(w) \/ WriteFails(w)
  BY <1>1, Zenon DEF Write, WriteFails
<1>2. CASE WriteFailsLate(w)
  BY <1>2, Zenon DEF WriteFailsLate, PoolNext
<1>3. CASE AfterWriteFails(w)
  BY <1>3, Zenon DEF AfterWriteFails, PoolNext
<1> QED
  BY <1>1, <1>2, <1>3, Zenon

LEMMA RecvStepIsPool ==
    ASSUME NEW k \in Conns, RecvStep(k)
    PROVE  [PoolNext]_poolVars
<1>1. CASE \E s \in sent : RecvMessage(k, s)
  BY <1>1, Zenon DEF RecvMessage
<1>2. CASE \E q \in Procs : Complete(k, q)
  BY <1>2, Zenon DEF Complete, PoolNext
<1>3. CASE RecvTail(k)
  BY <1>3, CloseIdleConnectionIsPool, Zenon DEF RecvTail
<1>4. CASE RecvError(k)
  BY <1>4, Zenon DEF RecvError, PoolNext
<1> QED
  BY <1>1, <1>2, <1>3, <1>4, Zenon DEF RecvStep

LEMMA StepIsPool == WriterShape /\ [MuxNext]_vars => [PoolNext]_poolVars
<1> SUFFICES ASSUME WriterShape, [MuxNext]_vars PROVE [PoolNext]_poolVars
  OBVIOUS
<1>1. ASSUME NEW q \in Procs, Exchange(q) PROVE [PoolNext]_poolVars
  BY <1>1, Zenon DEF Exchange
<1>2. ASSUME NEW q \in Procs, WriteStep(q) PROVE [PoolNext]_poolVars
  BY <1>2, WriteStepIsPool, Zenon DEF WriteStep
<1>3. ASSUME NEW keep \in BOOLEAN, SetKeepIdle(keep) PROVE [PoolNext]_poolVars
  BY <1>3, Zenon DEF SetKeepIdle
<1>4. CASE SetKeepIdleCloses
  BY <1>4, CloseIdleConnectionIsPool, Zenon DEF SetKeepIdleCloses
<1>5. CASE OwnerCallsPool
  BY <1>5, Zenon DEF OwnerCallsPool, PoolNext
<1>6. CASE PoolAlone
  BY <1>6, Zenon DEF PoolAlone, PoolNext
<1>7. CASE UNCHANGED vars
  BY <1>7, Zenon DEF vars
<1> QED
  BY <1>1, <1>2, <1>3, <1>4, <1>5, <1>6, <1>7, QueryStepIsPool, RecvStepIsPool, Zenon DEF MuxNext

-----------------------------------------------------------------------------
(***************************************************************************)
(* No step of the pool brings a connection back.                           *)
(***************************************************************************)
LEMMA RemoveGone ==
    ASSUME ConnTypes, NEW r \in Conns, NEW why, RemoveConn(r, why), oldAll' = oldAll,
           NEW k \in Conns, Gone(k)
    PROVE  Gone(k)'
  BY Zenon DEF RemoveConn, Gone, ConnTypes

LEMMA DiscardGone ==
    ASSUME ConnTypes, NEW r \in Conns, NEW why, Discard(r, why), oldAll' = oldAll,
           NEW k \in Conns, Gone(k)
    PROVE  Gone(k)'
<1>1. CASE ~closed /\ r \in all /\ RemoveConn(r, why)
  BY <1>1, RemoveGone, Zenon
<1>2. CASE closed /\ CloseConn(r)
  BY <1>2, Zenon DEF CloseConn, Gone, ConnTypes
<1> QED
  BY <1>1, <1>2, Zenon DEF Discard, Gone

LEMMA StaysGone ==
    ASSUME Inv, [PoolNext]_poolVars, NEW k \in Conns, Installed(k), Gone(k)
    PROVE  Gone(k)'
<1> ConnTypes /\ StateTypes /\ CallTypes
  BY Zenon DEF Inv, TypeOK
<1>1. ASSUME NEW p \in Procs, Call(p) \/ AcquireClosed(p) \/ AcquireHit(p) \/ AcquireJoin(p)
                              \/ AcquireDial(p) \/ Abandon(p) \/ CtxDone(p)
      PROVE  Gone(k)'
  <2>1. conn' = conn /\ oldAll' = oldAll
    BY <1>1, Zenon DEF Call, AcquireClosed, AcquireHit, AcquireJoin, AcquireDial, Abandon, CtxDone,
                connVars, stateVars
  <2> QED
    BY <2>1, Zenon DEF Gone
<1>2. ASSUME NEW p \in Procs, CollectFails(p) \/ CollectRetries(p) \/ CollectShared(p)
                              \/ WaitCancelled(p) \/ WaitReset(p)
      PROVE  Gone(k)'
  <2>1. conn' = conn /\ oldAll' = oldAll
    BY <1>2, Zenon DEF CollectFails, CollectRetries, CollectShared, WaitCancelled, WaitReset, connVars
  <2> QED
    BY <2>1, Zenon DEF Gone
<1>3. ASSUME shared # NoConn, RemoveConn(shared, "other"), oldAll' = oldAll PROVE Gone(k)'
  BY <1>3, RemoveGone, Zenon DEF StateTypes
<1>4. ASSUME NEW p \in Procs, AcquireEvict(p) \/ CollectEvicts(p) PROVE Gone(k)'
  BY <1>3, <1>4, Zenon DEF AcquireEvict, CollectEvicts
<1>5. ASSUME CloseIdle PROVE Gone(k)'
  BY <1>3, <1>5, Zenon DEF CloseIdle
<1>6. ASSUME NEW p \in Procs, NEW reuse \in BOOLEAN, Release(p, reuse) PROVE Gone(k)'
  <2>1. hold[p] \in Conns /\ oldAll' = oldAll
    BY <1>6, Zenon DEF Release, CallTypes
  <2>2. CASE RemoveConn(hold[p], "other")
    BY <2>1, <2>2, RemoveGone, Zenon
  <2>3. CASE CloseConn(hold[p])
    BY <2>1, <2>3, Zenon DEF CloseConn, Gone, ConnTypes
  <2>4. CASE conn' = conn
    BY <2>1, <2>4, Zenon DEF Gone
  <2> QED
    BY <1>6, <2>2, <2>3, <2>4, Zenon DEF Release
<1>7. ASSUME NEW p \in Procs, NEW why, InvalidateHeld(p, why) PROVE Gone(k)'
  <2>1. hold[p] \in Conns /\ Discard(hold[p], why) /\ oldAll' = oldAll
    BY <1>7, Zenon DEF InvalidateHeld, CallTypes
  <2> QED
    BY <2>1, DiscardGone, Zenon
<1>8. ASSUME NEW r \in Conns, NEW why, Invalidate(r, why) PROVE Gone(k)'
  BY <1>8, DiscardGone, Zenon DEF Invalidate
<1>9. ASSUME NEW r \in Conns, DialStep(r) PROVE Gone(k)'
  <2>1. CASE DialSucceeds(r)
    <3>1. r # k
      BY <2>1, Zenon DEF DialSucceeds, Installed
    <3>2. conn'[k] = conn[k] /\ oldAll' = oldAll
      BY <2>1, <3>1, Zenon DEF DialSucceeds, stateVars, ConnTypes
    <3> QED
      BY <3>2, Zenon DEF Gone
  <2>2. CASE DialFails(r) \/ Install(r)
    <3>1. conn' = conn /\ oldAll' = oldAll
      BY <2>2, Zenon DEF DialFails, Install, connVars, stateVars
    <3> QED
      BY <3>1, Zenon DEF Gone
  <2>3. CASE Finish(r)
    <3>1. oldAll' = oldAll /\ (conn' = conn \/ conn' = [conn EXCEPT ![r] = "closed"])
      BY <2>3, Zenon DEF Finish, stateVars
    <3> QED
      BY <3>1, Zenon DEF Gone, ConnTypes
  <2> QED
    BY <1>9, <2>1, <2>2, <2>3, Zenon DEF DialStep
<1>10. ASSUME NEW r \in Conns, Dies(r) PROVE Gone(k)'
  BY <1>10, Zenon DEF Dies, Gone, stateVars
<1>11. ASSUME Reset \/ Close PROVE Gone(k)'
  BY <1>11, Zenon DEF Reset, Close, DropState, Gone, connVars
<1>12. ASSUME NEW g \in Gens, CancelState(g) PROVE Gone(k)'
  BY <1>12, Zenon DEF CancelState, Gone
<1>13. ASSUME NEW g \in Gens, CloseState(g) PROVE Gone(k)'
  BY <1>13, Zenon DEF CloseState, Gone
<1>14. ASSUME UNCHANGED poolVars PROVE Gone(k)'
  BY <1>14, Zenon DEF Gone, poolVars, connVars, stateVars
<1> QED
  BY <1>1, <1>2, <1>4, <1>5, <1>6, <1>7, <1>8, <1>9, <1>10, <1>11, <1>12, <1>13, <1>14, Zenon
     DEF PoolNext, AcquireStep, WaitStep

-----------------------------------------------------------------------------
(***************************************************************************)
(* The receive loops.                                                      *)
(***************************************************************************)
LEMMA RecvKeeps ==
    ASSUME MuxInv, [PoolNext]_poolVars, recv' = recv, receivers' = receivers
    PROVE  RecvShape'
<1> SUFFICES ASSUME NEW k \in Conns, recv[k] = "ended" PROVE Gone(k)'
  BY Zenon DEF RecvShape, MuxInv
<1>1. Installed(k)
  BY Zenon DEF MuxInv, RecvShape, Inv, ClaimShape
<1> QED
  BY <1>1, StaysGone, Zenon DEF MuxInv, RecvShape

\* A receive loop that runs goes on.
LEMMA RecvGoesOn ==
    ASSUME MuxInv, [PoolNext]_poolVars, receivers' = receivers,
           NEW r \in Conns, recv[r] # "none", NEW m \in {"reading", "respond", "tail"},
           recv' = [recv EXCEPT ![r] = m]
    PROVE  RecvShape'
<1>1. \A k \in Conns : recv'[k] = "none" <=> recv[k] = "none"
  BY Zenon DEF MuxInv, MuxTypes
<1>2. ASSUME NEW k \in Conns, recv'[k] = "ended" PROVE Gone(k)'
  <2>1. recv[k] = "ended"
    BY <1>2, Zenon DEF MuxInv, MuxTypes
  <2>2. Installed(k)
    BY <2>1, Zenon DEF MuxInv, RecvShape, Inv, ClaimShape
  <2> QED
    BY <2>1, <2>2, StaysGone, Zenon DEF MuxInv, RecvShape
<1> QED
  BY <1>1, <1>2, Zenon DEF RecvShape, MuxInv

\* The first query that is given a connection starts its loop.
LEMMA RecvStarts ==
    ASSUME MuxInv, [PoolNext]_poolVars, NEW q \in Procs, shared # NoConn, Claim(q),
           recv' = IF sharedClaimed THEN recv ELSE [recv EXCEPT ![shared] = "reading"]
    PROVE  RecvShape'
<1>1. CASE sharedClaimed
  BY <1>1, RecvKeeps, Zenon DEF Claim
<1>2. CASE ~sharedClaimed
  <2>1. shared \in Conns /\ receivers[shared] = 0
    BY <1>2, Zenon DEF MuxInv, Inv, TypeOK, StateTypes, ClaimShape
  <2>2. receivers' = [receivers EXCEPT ![shared] = 1] /\ receivers \in [Conns -> Nat]
    BY <1>2, <2>1 DEF Claim, MuxInv, Inv, TypeOK, CallTypes
  <2>3. recv' = [recv EXCEPT ![shared] = "reading"] /\ recv \in [Conns -> {"none", "reading", "respond", "tail", "ended"}]
    BY <1>2, Zenon DEF MuxInv, MuxTypes
  <2>4. ASSUME NEW k \in Conns, recv'[k] = "ended" PROVE Gone(k)'
    <3>1. recv[k] = "ended"
      BY <2>3, <2>4, Zenon
    <3>2. Installed(k)
      BY <3>1, Zenon DEF MuxInv, RecvShape, Inv, ClaimShape
    <3> QED
      BY <3>1, <3>2, StaysGone, Zenon DEF MuxInv, RecvShape
  <2>5. ASSUME NEW k \in Conns PROVE recv'[k] = "none" <=> receivers'[k] = 0
    BY <2>1, <2>2, <2>3 DEF MuxInv, RecvShape
  <2> QED
    BY <2>4, <2>5, Zenon DEF RecvShape
<1> QED
  BY <1>1, <1>2, Zenon

\* The loop ends: what it invalidates is closed, or its state was replaced.
LEMMA RecvEnds ==
    ASSUME MuxInv, [PoolNext]_poolVars, NEW r \in Conns, recv[r] = "reading",
           Invalidate(r, "read"), recv' = [recv EXCEPT ![r] = "ended"]
    PROVE  RecvShape'
<1>1. receivers' = receivers /\ oldAll' = oldAll /\ Discard(r, "read")
  BY Zenon DEF Invalidate, callVars
<1>2. Installed(r)
  BY Zenon DEF MuxInv, RecvShape, Inv, ClaimShape
<1>3. conn \in [Conns -> ConnStates]
  BY Zenon DEF MuxInv, Inv, TypeOK, ConnTypes
<1>4. Gone(r)'
  <2>1. CASE closed /\ CloseConn(r)
    BY <1>3, <2>1, Zenon DEF CloseConn, Gone
  <2>2. CASE ~closed /\ r \notin all /\ conn' = conn
    BY <1>1, <1>2, <2>2, Zenon DEF Gone, MuxInv, Inv, OwnerShape, Installed
  <2>3. CASE RemoveConn(r, "read")
    BY <1>3, <2>3, Zenon DEF RemoveConn, Gone
  <2> QED
    BY <1>1, <2>1, <2>2, <2>3, Zenon DEF Discard
<1>5. ASSUME NEW k \in Conns, k # r, recv'[k] = "ended" PROVE Gone(k)'
  <2>1. recv[k] = "ended"
    BY <1>5, Zenon DEF MuxInv, MuxTypes
  <2>2. Installed(k)
    BY <2>1, Zenon DEF MuxInv, RecvShape, Inv, ClaimShape
  <2> QED
    BY <2>1, <2>2, StaysGone, Zenon DEF MuxInv, RecvShape
<1>6. \A k \in Conns : recv'[k] = "none" <=> recv[k] = "none"
  BY Zenon DEF MuxInv, MuxTypes
<1> QED
  BY <1>1, <1>4, <1>5, <1>6, Zenon DEF RecvShape, MuxInv

-----------------------------------------------------------------------------
(***************************************************************************)
(* The queries.                                                            *)
(***************************************************************************)

\* Query q moves to m with h in its hands, c inside the pool and a answers.
LEMMA QueryMoves ==
    ASSUME MuxInv, NEW q \in Procs, NEW m \in Modes, NEW h, NEW c, NEW a \in Nat,
           mode' = [mode EXCEPT ![q] = m], hold' = [hold EXCEPT ![q] = h],
           pc' = [pc EXCEPT ![q] = c], answers' = [answers EXCEPT ![q] = a],
           h # NoConn <=> m \in Holding, m # "acquiring" => c = "idle",
           m \in {"tail", "done"} => a = 1, m \notin {"tail", "done"} => a = 0
    PROVE  mode' \in [Procs -> Modes] /\ answers' \in [Procs -> Nat] /\ QueryShape'
<1> hold \in [Procs -> Conns \cup {NoConn}] /\ pc \in [Procs -> {"idle", "acquire", "wait"}]
  BY Zenon DEF MuxInv, Inv, TypeOK, CallTypes
<1>1. mode' \in [Procs -> Modes] /\ answers' \in [Procs -> Nat]
  BY Zenon DEF MuxInv, MuxTypes
<1>2. ASSUME NEW p \in Procs, p # q
      PROVE  mode'[p] = mode[p] /\ hold'[p] = hold[p] /\ pc'[p] = pc[p] /\ answers'[p] = answers[p]
  BY <1>2, Zenon DEF MuxInv, MuxTypes
<1>3. mode'[q] = m /\ hold'[q] = h /\ pc'[q] = c /\ answers'[q] = a
  BY Zenon DEF MuxInv, MuxTypes
<1> QED
  BY <1>1, <1>2, <1>3, Zenon DEF QueryShape, MuxInv

\* The case where the pool is not involved and nobody is answered.
LEMMA QueryTurns ==
    ASSUME MuxInv, NEW q \in Procs, NEW m \in Modes, mode' = [mode EXCEPT ![q] = m],
           hold' = hold, pc' = pc, answers' = answers,
           mode[q] \in Holding <=> m \in Holding, m # "acquiring", mode[q] # "acquiring",
           mode[q] \notin {"tail", "done"} <=> m \notin {"tail", "done"}
    PROVE  mode' \in [Procs -> Modes] /\ answers' \in [Procs -> Nat] /\ QueryShape'
<1>1. mode' \in [Procs -> Modes] /\ answers' \in [Procs -> Nat]
  BY Zenon DEF MuxInv, MuxTypes
<1>2. \A p \in Procs : mode'[p] = IF p = q THEN m ELSE mode[p]
  BY Zenon DEF MuxInv, MuxTypes
<1>3. pc[q] = "idle"
  BY Zenon DEF MuxInv, QueryShape
<1> QED
  BY <1>1, <1>2, <1>3, Zenon DEF MuxInv, QueryShape

\* The case where a query is answered.
LEMMA QueryAnswered ==
    ASSUME MuxInv, NEW q \in Procs, NEW m \in {"tail", "done"}, mode[q] \notin {"tail", "done"},
           mode' = [mode EXCEPT ![q] = m], NEW what, Callback(q, what),
           hold' = [hold EXCEPT ![q] = NoConn], pc' = [pc EXCEPT ![q] = "idle"]
    PROVE  mode' \in [Procs -> Modes] /\ answers' \in [Procs -> Nat] /\ QueryShape'
<1>1. answers[q] = 0 /\ answers \in [Procs -> Nat]
  BY Zenon DEF MuxInv, QueryShape, MuxTypes
<1>2. answers' = [answers EXCEPT ![q] = 1]
  BY <1>1 DEF Callback
<1>3. m \in Modes /\ m \notin Holding
  BY Zenon DEF Modes, Holding
<1> QED
  BY <1>2, <1>3, QueryMoves, Zenon

\* The case where a query starts again.
LEMMA QueryRestarts ==
    ASSUME MuxInv, NEW q \in Procs, mode[q] \in Holding, mode' = [mode EXCEPT ![q] = "begin"],
           hold' = [hold EXCEPT ![q] = NoConn], pc' = pc, answers' = answers
    PROVE  mode' \in [Procs -> Modes] /\ answers' \in [Procs -> Nat] /\ QueryShape'
<1>1. pc' = [pc EXCEPT ![q] = pc[q]] /\ pc[q] = "idle"
  BY Zenon DEF MuxInv, Inv, TypeOK, CallTypes, QueryShape, Holding
<1>2. answers' = [answers EXCEPT ![q] = 0]
  BY Zenon DEF MuxInv, QueryShape, MuxTypes, Holding
<1>3. "begin" \in Modes /\ "begin" \notin Holding
  BY Zenon DEF Modes, Holding
<1> QED
  BY <1>1, <1>2, <1>3, QueryMoves, Zenon

\* No query moves.
LEMMA QueriesStay ==
    ASSUME MuxInv, mode' = mode, answers' = answers, hold' = hold, pc' = pc
    PROVE  mode' \in [Procs -> Modes] /\ answers' \in [Procs -> Nat] /\ QueryShape'
  BY Zenon DEF MuxInv, MuxTypes, QueryShape

-----------------------------------------------------------------------------
(***************************************************************************)
(* Every action preserves the invariant.                                   *)
(***************************************************************************)

QueryFacts == mode' \in [Procs -> Modes] /\ answers' \in [Procs -> Nat] /\ QueryShape'

\* What is left to show of a step that leaves the receive loops and the writers alone.
LEMMA QuietStep ==
    ASSUME MuxInv, [PoolNext]_poolVars, QueryFacts, writers' = writers, sent' = sent,
           recv' = recv, receivers' = receivers
    PROVE  MuxInv'
<1>1. Inv' /\ RecvShape'
  BY NextInv, RecvKeeps, Zenon DEF MuxInv
<1>2. MuxTypes' /\ WriterShape' /\ QueryShape'
  BY Zenon DEF QueryFacts, MuxInv, MuxTypes, WriterShape
<1> QED
  BY <1>1, <1>2, Zenon DEF MuxInv

LEMMA CloseIdleConnectionKeeps ==
    CloseIdleConnection => hold' = hold /\ pc' = pc /\ receivers' = receivers
  BY Zenon DEF CloseIdleConnection, CloseIdle, poolVars, callVars

LEMMA ReleaseHands ==
    ASSUME NEW q \in Procs, NEW why, Release(q, TRUE) \/ InvalidateHeld(q, why) \/ Abandon(q)
    PROVE  hold' = [hold EXCEPT ![q] = NoConn] /\ pc' = pc /\ receivers' = receivers
  BY Zenon DEF Release, InvalidateHeld, Abandon

\* A query outside AcquireShared stays outside.
LEMMA StaysIdle ==
    ASSUME MuxInv, NEW q \in Procs, mode[q] # "acquiring", pc' = pc
    PROVE  pc' = [pc EXCEPT ![q] = "idle"]
  BY Zenon DEF MuxInv, QueryShape, Inv, TypeOK, CallTypes

LEMMA HoldsNothing ==
    ASSUME MuxInv, NEW q \in Procs, mode[q] \notin Holding, hold' = hold
    PROVE  hold' = [hold EXCEPT ![q] = NoConn]
  BY Zenon DEF MuxInv, QueryShape, Inv, TypeOK, CallTypes

\* exchangeAsync up to the registration.
LEMMA AcquireInv ==
    ASSUME MuxInv, NEW q \in Procs,
           BeginAcquire(q) \/ AcquireGoesOn(q) \/ AcquireFails(q) \/ Acquired(q)
    PROVE  MuxInv'
<1>p. [PoolNext]_poolVars
  BY AcquireIsPool, Zenon
<1>t. /\ hold \in [Procs -> Conns \cup {NoConn}] /\ pc \in [Procs -> {"idle", "acquire", "wait"}]
      /\ mode \in [Procs -> Modes] /\ answers \in [Procs -> Nat]
  BY Zenon DEF MuxInv, MuxTypes, Inv, TypeOK, CallTypes
<1>1. CASE BeginAcquire(q)
  <2>1. /\ mode[q] = "begin" /\ mode' = [mode EXCEPT ![q] = "acquiring"]
        /\ pc' = [pc EXCEPT ![q] = "acquire"] /\ hold' = hold /\ receivers' = receivers
        /\ answers' = answers /\ writers' = writers /\ sent' = sent /\ recv' = recv
    BY <1>1, Zenon DEF BeginAcquire, Goto, Call
  <2>2. answers' = [answers EXCEPT ![q] = 0]
    BY <1>t, <2>1, Zenon DEF MuxInv, QueryShape
  <2>3. hold' = [hold EXCEPT ![q] = NoConn]
    BY <2>1, HoldsNothing, Zenon DEF Holding
  <2>4. "acquiring" \in Modes /\ "acquiring" \notin Holding
    BY Zenon DEF Modes, Holding
  <2>5. QueryFacts
    BY <2>1, <2>2, <2>3, <2>4, QueryMoves, ZenonT(40) DEF QueryFacts
  <2> QED
    BY <1>p, <2>1, <2>5, QuietStep, Zenon
<1>2. CASE AcquireGoesOn(q)
  <2>1. /\ mode[q] = "acquiring" /\ UNCHANGED muxVars
        /\ AcquireJoin(q) \/ AcquireDial(q) \/ CollectRetries(q) \/ (WaitReset(q) /\ ~closed)
    BY <1>2, Zenon DEF AcquireGoesOn
  <2>2. /\ mode' = mode /\ answers' = answers /\ writers' = writers /\ sent' = sent /\ recv' = recv
    BY <2>1, Zenon DEF muxVars, queryVars
  <2>3. /\ hold' = hold /\ receivers' = receivers
        /\ \E c \in {"acquire", "wait"} : pc' = [pc EXCEPT ![q] = c]
    BY <2>1, Zenon DEF AcquireJoin, AcquireDial, CollectRetries, WaitReset, Leave
  <2>4. QueryShape'
    BY <1>t, <2>1, <2>2, <2>3, Zenon DEF MuxInv, QueryShape
  <2>5. QueryFacts
    BY <1>t, <2>2, <2>4, Zenon DEF QueryFacts
  <2> QED
    BY <1>p, <2>2, <2>3, <2>5, QuietStep, Zenon
<1>3. CASE AcquireFails(q)
  <2>1. /\ mode[q] = "acquiring" /\ mode' = [mode EXCEPT ![q] = "done"] /\ Callback(q, "error")
        /\ writers' = writers /\ sent' = sent /\ recv' = recv
        /\ AcquireClosed(q) \/ CollectFails(q) \/ WaitCancelled(q) \/ (WaitReset(q) /\ closed)
    BY <1>3, Zenon DEF AcquireFails, Goto
  <2>2. hold' = hold /\ receivers' = receivers /\ pc' = [pc EXCEPT ![q] = "idle"]
    BY <2>1, Zenon DEF AcquireClosed, CollectFails, WaitCancelled, WaitReset, Leave
  <2>3. hold' = [hold EXCEPT ![q] = NoConn]
    BY <2>1, <2>2, HoldsNothing, Zenon DEF Holding
  <2>4. QueryFacts
    BY <2>1, <2>2, <2>3, QueryAnswered, ZenonT(40) DEF QueryFacts
  <2> QED
    BY <1>p, <2>1, <2>2, <2>4, QuietStep, Zenon
<1>4. CASE Acquired(q)
  <2>1. /\ mode[q] = "acquiring" /\ mode' = [mode EXCEPT ![q] = "acquired"] /\ answers' = answers
        /\ writers' = writers /\ sent' = sent
        /\ recv' = IF sharedClaimed THEN recv ELSE [recv EXCEPT ![shared] = "reading"]
        /\ AcquireHit(q) \/ CollectShared(q)
    BY <1>4, Zenon DEF Acquired, Goto
  <2>2. shared # NoConn /\ Claim(q) /\ pc' = [pc EXCEPT ![q] = "idle"]
    BY <2>1, Zenon DEF AcquireHit, CollectShared, Leave
  <2>3. RecvShape'
    BY <1>p, <2>1, <2>2, RecvStarts, Zenon
  <2>4. recv' \in [Conns -> {"none", "reading", "respond", "tail", "ended"}]
    BY <2>1, ZenonT(40) DEF MuxInv, MuxTypes
  <2>5. answers' = [answers EXCEPT ![q] = 0] /\ hold' = [hold EXCEPT ![q] = shared]
    BY <1>t, <2>1, <2>2, Zenon DEF MuxInv, QueryShape, Claim
  <2>6. "acquired" \in Modes /\ "acquired" \in Holding
    BY Zenon DEF Modes, Holding
  <2>7. QueryFacts
    BY <2>1, <2>2, <2>5, <2>6, QueryMoves, ZenonT(40) DEF QueryFacts
  <2>8. WriterShape' /\ Inv'
    BY <1>p, <2>1, NextInv, Zenon DEF MuxInv, WriterShape
  <2> QED
    BY <2>3, <2>4, <2>7, <2>8, Zenon DEF MuxInv, MuxTypes, QueryFacts
<1> QED
  BY <1>1, <1>2, <1>3, <1>4, Zenon

\* The other steps of a query's own goroutine and of its callbacks.
LEMMA QueryStepInv ==
    ASSUME MuxInv, NEW q \in Procs, QueryStep(q)
    PROVE  MuxInv'
<1>p. [PoolNext]_poolVars
  BY QueryStepIsPool, Zenon
<1>t. mode \in [Procs -> Modes] /\ answers \in [Procs -> Nat]
  BY Zenon DEF MuxInv, MuxTypes
<1>1. ASSUME NEW what, ExchangeSingle(q, what) PROVE MuxInv'
  <2>1. /\ mode[q] = "begin" /\ mode' = [mode EXCEPT ![q] = "done"] /\ Callback(q, what)
        /\ writers' = writers /\ sent' = sent /\ recv' = recv /\ UNCHANGED poolVars
    BY <1>1, Zenon DEF ExchangeSingle, Goto
  <2>2. hold' = hold /\ pc' = pc /\ receivers' = receivers
    BY <2>1, Zenon DEF poolVars, callVars
  <2>3. hold' = [hold EXCEPT ![q] = NoConn] /\ pc' = [pc EXCEPT ![q] = "idle"]
    BY <2>1, <2>2, HoldsNothing, StaysIdle, Zenon DEF Holding
  <2>4. QueryFacts
    BY <2>1, <2>3, QueryAnswered, ZenonT(40) DEF QueryFacts
  <2> QED
    BY <1>p, <2>1, <2>2, <2>4, QuietStep, Zenon
<1>2. CASE Register(q)
  <2>1. /\ mode[q] = "acquired" /\ mode' = [mode EXCEPT ![q] = "pending"] /\ answers' = answers
        /\ writers' = writers \cup {[q |-> q, n |-> att[q] + 1, k |-> hold[q],
                                     created |-> created[q], first |-> first[q]]}
        /\ sent' = sent /\ recv' = recv /\ UNCHANGED poolVars
    BY <1>2, Zenon DEF Register, Goto
  <2>2. hold' = hold /\ pc' = pc /\ receivers' = receivers
    BY <2>1, Zenon DEF poolVars, callVars
  <2>3. "pending" \in Modes /\ "pending" \in Holding /\ "acquired" \in Holding
    BY Zenon DEF Modes, Holding
  <2>4. QueryFacts
    BY <2>1, <2>2, <2>3, QueryTurns, ZenonT(40) DEF QueryFacts
  <2>5. hold[q] \in Conns
    BY <2>1, <2>3, Zenon DEF MuxInv, QueryShape, Inv, TypeOK, CallTypes
  <2>6. WriterShape'
    <3> DEFINE r == [q |-> q, n |-> att[q] + 1, k |-> hold[q],
                     created |-> created[q], first |-> first[q]]
    <3>a. r.q = q /\ r.k = hold[q]
      OBVIOUS
    <3>b. writers' = writers \cup {r}
      BY <2>1, Zenon
    <3> HIDE DEF r
    <3>1. \A w \in writers' : w \in writers \/ (w.q = q /\ w.k = hold[q])
      BY <3>a, <3>b, Zenon
    <3>2. (\A w \in writers : w.q \in Procs /\ w.k \in Conns) /\ \A s \in sent : s.q \in Procs
      BY Zenon DEF MuxInv, WriterShape
    <3> QED
      BY <2>1, <2>5, <3>1, <3>2, ZenonT(40) DEF WriterShape
  <2>7. Inv' /\ RecvShape'
    BY <1>p, <2>1, <2>2, NextInv, RecvKeeps, ZenonT(40) DEF MuxInv
  <2> QED
    BY <2>1, <2>4, <2>6, <2>7, Zenon DEF MuxInv, MuxTypes, QueryFacts
<1>3. CASE RegisterFails(q)
  <2>1. /\ mode[q] = "acquired" /\ mode' = [mode EXCEPT ![q] = "refused"] /\ answers' = answers
        /\ Release(q, TRUE) /\ writers' = writers /\ sent' = sent /\ recv' = recv
    BY <1>3, Zenon DEF RegisterFails, Goto
  <2>2. hold' = [hold EXCEPT ![q] = NoConn] /\ pc' = pc /\ receivers' = receivers
    BY <2>1, ReleaseHands, ZenonT(40)
  <2>3. pc' = [pc EXCEPT ![q] = "idle"]
    BY <2>1, <2>2, StaysIdle, Zenon
  <2>4. answers' = [answers EXCEPT ![q] = 0]
    BY <1>t, <2>1, Zenon DEF MuxInv, QueryShape
  <2>5. "refused" \in Modes /\ "refused" \notin Holding
    BY Zenon DEF Modes, Holding
  <2>6. QueryFacts
    BY <2>1, <2>2, <2>3, <2>4, <2>5, QueryMoves, ZenonT(40) DEF QueryFacts
  <2> QED
    BY <1>p, <2>1, <2>2, <2>6, QuietStep, Zenon
<1>4. CASE Refuse(q)
  <2>1. /\ mode[q] = "refused" /\ mode' = [mode EXCEPT ![q] = "done"] /\ Callback(q, "error")
        /\ CloseIdleConnection /\ writers' = writers /\ sent' = sent /\ recv' = recv
    BY <1>4, Zenon DEF Refuse, Goto
  <2>2. hold' = hold /\ pc' = pc /\ receivers' = receivers
    BY <2>1, CloseIdleConnectionKeeps, Zenon
  <2>3. hold' = [hold EXCEPT ![q] = NoConn] /\ pc' = [pc EXCEPT ![q] = "idle"]
    BY <2>1, <2>2, HoldsNothing, StaysIdle, Zenon DEF Holding
  <2>4. QueryFacts
    BY <2>1, <2>3, QueryAnswered, ZenonT(40) DEF QueryFacts
  <2> QED
    BY <1>p, <2>1, <2>2, <2>4, QuietStep, Zenon
<1>5. CASE TakeContextDone(q)
  <2>1. /\ mode[q] = "pending" /\ mode' = [mode EXCEPT ![q] = "ctxdone"] /\ answers' = answers
        /\ writers' = writers /\ sent' = sent /\ recv' = recv /\ UNCHANGED poolVars
    BY <1>5, Zenon DEF TakeContextDone, Goto
  <2>2. hold' = hold /\ pc' = pc /\ receivers' = receivers
    BY <2>1, Zenon DEF poolVars, callVars
  <2>3. "ctxdone" \in Modes /\ "ctxdone" \in Holding /\ "pending" \in Holding
    BY Zenon DEF Modes, Holding
  <2>4. QueryFacts
    BY <2>1, <2>2, <2>3, QueryTurns, ZenonT(40) DEF QueryFacts
  <2> QED
    BY <1>p, <2>1, <2>2, <2>4, QuietStep, Zenon
<1>6. CASE CompleteConnDone(q)
  <2>1. /\ mode[q] = "pending" /\ Abandon(q)
        /\ writers' = writers /\ sent' = sent /\ recv' = recv
        /\ \/ mode' = [mode EXCEPT ![q] = "begin"] /\ answers' = answers
           \/ mode' = [mode EXCEPT ![q] = "done"] /\ Callback(q, "error")
    BY <1>6, ZenonT(40) DEF CompleteConnDone, Goto
  <2>2. hold' = [hold EXCEPT ![q] = NoConn] /\ pc' = pc /\ receivers' = receivers
    BY <2>1, ReleaseHands, Zenon
  <2>3. pc' = [pc EXCEPT ![q] = "idle"]
    BY <2>1, <2>2, StaysIdle, Zenon
  <2>4. ASSUME mode' = [mode EXCEPT ![q] = "begin"], answers' = answers PROVE QueryFacts
    BY <2>1, <2>2, <2>4, QueryRestarts, Zenon DEF QueryFacts, Holding
  <2>5. ASSUME mode' = [mode EXCEPT ![q] = "done"], Callback(q, "error") PROVE QueryFacts
    BY <2>1, <2>2, <2>3, <2>5, QueryAnswered, ZenonT(40) DEF QueryFacts
  <2>6. QueryFacts
    BY <2>1, <2>4, <2>5, Zenon
  <2> QED
    BY <1>p, <2>1, <2>2, <2>6, QuietStep, Zenon
<1>7. CASE Tail(q)
  <2>1. /\ mode[q] = "tail" /\ mode' = [mode EXCEPT ![q] = "done"] /\ answers' = answers
        /\ CloseIdleConnection /\ writers' = writers /\ sent' = sent /\ recv' = recv
    BY <1>7, Zenon DEF Tail, Goto
  <2>2. hold' = hold /\ pc' = pc /\ receivers' = receivers
    BY <2>1, CloseIdleConnectionKeeps, Zenon
  <2>3. "done" \in Modes /\ "done" \notin Holding /\ "tail" \notin Holding
    BY Zenon DEF Modes, Holding
  <2>4. QueryFacts
    BY <2>1, <2>2, <2>3, QueryTurns, Zenon DEF QueryFacts
  <2> QED
    BY <1>p, <2>1, <2>2, <2>4, QuietStep, Zenon
<1>8. ASSUME NEW deadline, CompleteContextDone(q, deadline) PROVE MuxInv'
  <2>1. /\ mode[q] = "ctxdone" /\ mode' = [mode EXCEPT ![q] = "tail"] /\ Callback(q, "error")
        /\ Release(q, TRUE) \/ InvalidateHeld(q, "other")
        /\ writers' = writers /\ sent' = sent /\ recv' = recv
    BY <1>8, Zenon DEF CompleteContextDone, Goto
  <2>2. hold' = [hold EXCEPT ![q] = NoConn] /\ pc' = pc /\ receivers' = receivers
    BY <2>1, ReleaseHands, Zenon
  <2>3. pc' = [pc EXCEPT ![q] = "idle"]
    BY <2>1, <2>2, StaysIdle, Zenon
  <2>4. QueryFacts
    BY <2>1, <2>2, <2>3, QueryAnswered, Zenon DEF QueryFacts
  <2> QED
    BY <1>p, <2>1, <2>2, <2>4, QuietStep, Zenon
<1> QED
  BY <1>1, <1>2, <1>3, <1>4, <1>5, <1>6, <1>7, <1>8, AcquireInv, Zenon DEF QueryStep

\* The write.
LEMMA WriteStepInv ==
    ASSUME MuxInv, NEW w \in writers,
           Write(w) \/ WriteFails(w) \/ WriteFailsLate(w) \/ AfterWriteFails(w)
    PROVE  MuxInv'
<1>p. [PoolNext]_poolVars
  BY WriteStepIsPool, Zenon DEF MuxInv
<1>w. w.q \in Procs /\ w.k \in Conns
  BY Zenon DEF MuxInv, WriterShape
<1>1. QueryFacts /\ receivers' = receivers
  <2>1. CASE Write(w) \/ WriteFailsLate(w)
    <3>1. mode' = mode /\ answers' = answers /\ hold' = hold /\ pc' = pc /\ receivers' = receivers
      BY <2>1, Zenon DEF Write, WriteFailsLate, Invalidate, queryVars, poolVars, callVars
    <3> QED
      BY <3>1, QueriesStay, Zenon DEF QueryFacts
  <2>2. CASE WriteFails(w)
    <3>1. /\ mode[w.q] = "pending" /\ mode' = [mode EXCEPT ![w.q] = "writefailed"]
          /\ answers' = answers /\ UNCHANGED poolVars
      BY <2>2, Zenon DEF WriteFails, Takes, Goto
    <3>2. hold' = hold /\ pc' = pc /\ receivers' = receivers
      BY <3>1, Zenon DEF poolVars, callVars
    <3>3. "writefailed" \in Modes /\ "writefailed" \in Holding /\ "pending" \in Holding
      BY Zenon DEF Modes, Holding
    <3> QED
      BY <1>w, <3>1, <3>2, <3>3, QueryTurns, Zenon DEF QueryFacts
  <2>3. CASE AfterWriteFails(w)
    <3>1. /\ mode[w.q] = "writefailed" /\ InvalidateHeld(w.q, "other")
          /\ \/ mode' = [mode EXCEPT ![w.q] = "begin"] /\ answers' = answers
             \/ mode' = [mode EXCEPT ![w.q] = "done"] /\ Callback(w.q, "error")
      BY <2>3, ZenonT(40) DEF AfterWriteFails, TookOwn, Goto
    <3>2. hold' = [hold EXCEPT ![w.q] = NoConn] /\ pc' = pc /\ receivers' = receivers
      BY <1>w, <3>1, ReleaseHands, Zenon
    <3>3. pc' = [pc EXCEPT ![w.q] = "idle"]
      BY <1>w, <3>1, <3>2, StaysIdle, Zenon
    <3>4. ASSUME mode' = [mode EXCEPT ![w.q] = "begin"], answers' = answers PROVE QueryFacts
      BY <1>w, <3>1, <3>2, <3>4, QueryRestarts, Zenon DEF QueryFacts, Holding
    <3>5. ASSUME mode' = [mode EXCEPT ![w.q] = "done"], Callback(w.q, "error") PROVE QueryFacts
      BY <1>w, <3>1, <3>2, <3>3, <3>5, QueryAnswered, ZenonT(40) DEF QueryFacts
    <3> QED
      BY <3>1, <3>2, <3>4, <3>5, Zenon
  <2> QED
    BY <2>1, <2>2, <2>3, Zenon
<1>2. recv' = recv
  BY Zenon DEF Write, WriteFails, WriteFailsLate, AfterWriteFails
<1>3. WriterShape'
  <2>1. /\ writers' \subseteq writers
        /\ sent' = sent \/ sent' = sent \cup {[q |-> w.q, n |-> w.n, k |-> w.k]}
    <3>1. CASE Write(w)
      BY <3>1, ZenonT(40) DEF Write
    <3>2. CASE WriteFails(w) \/ WriteFailsLate(w)
      BY <3>2, ZenonT(40) DEF WriteFails, WriteFailsLate
    <3>3. CASE AfterWriteFails(w)
      BY <3>3, ZenonT(40) DEF AfterWriteFails
    <3> QED
      BY <3>1, <3>2, <3>3, Zenon
  <2>2. \A s \in sent' : s \in sent \/ s.q = w.q
    <3> DEFINE r == [q |-> w.q, n |-> w.n, k |-> w.k]
    <3>1. r.q = w.q
      OBVIOUS
    <3>2. sent' = sent \/ sent' = sent \cup {r}
      BY <2>1, Zenon
    <3> HIDE DEF r
    <3> QED
      BY <3>1, <3>2, Zenon
  <2> QED
    BY <1>w, <2>1, <2>2, Zenon DEF MuxInv, WriterShape
<1>4. Inv' /\ RecvShape'
  BY <1>p, <1>1, <1>2, NextInv, RecvKeeps, Zenon DEF MuxInv
<1> QED
  BY <1>1, <1>2, <1>3, <1>4, Zenon DEF MuxInv, MuxTypes, QueryFacts

\* The receive loop.
LEMMA RecvStepInv ==
    ASSUME MuxInv, NEW k \in Conns, RecvStep(k)
    PROVE  MuxInv'
<1>p. [PoolNext]_poolVars
  BY RecvStepIsPool, Zenon
<1>1. ASSUME NEW s \in sent, RecvMessage(k, s) PROVE QueryFacts /\ RecvShape'
  <2>1. /\ answers' = answers /\ UNCHANGED poolVars /\ recv[k] = "reading"
        /\ \/ /\ mode[s.q] = "pending" /\ mode' = [mode EXCEPT ![s.q] = "responded"]
              /\ recv' = [recv EXCEPT ![k] = "respond"]
           \/ mode' = mode /\ recv' = recv
    BY <1>1, ZenonT(40) DEF RecvMessage, Takes, Goto
  <2>2. hold' = hold /\ pc' = pc /\ receivers' = receivers
    BY <2>1, Zenon DEF poolVars, callVars
  <2>3. CASE mode' = mode /\ recv' = recv
    BY <1>p, <2>1, <2>2, <2>3, QueriesStay, RecvKeeps, Zenon DEF QueryFacts
  <2>4. CASE /\ mode[s.q] = "pending" /\ mode' = [mode EXCEPT ![s.q] = "responded"]
             /\ recv' = [recv EXCEPT ![k] = "respond"]
    <3>1. s.q \in Procs
      BY Zenon DEF MuxInv, WriterShape
    <3>2. "responded" \in Modes /\ "responded" \in Holding /\ "pending" \in Holding
      BY Zenon DEF Modes, Holding
    <3>3. QueryFacts
      BY <2>1, <2>2, <2>4, <3>1, <3>2, QueryTurns, Zenon DEF QueryFacts
    <3> QED
      BY <1>p, <2>1, <2>2, <2>4, <3>3, RecvGoesOn, ZenonT(40)
  <2> QED
    BY <2>1, <2>3, <2>4, Zenon
<1>2. ASSUME NEW q \in Procs, Complete(k, q) PROVE QueryFacts /\ RecvShape'
  <2>1. /\ mode[q] = "responded" /\ mode' = [mode EXCEPT ![q] = "done"] /\ Callback(q, "response")
        /\ Release(q, TRUE) /\ recv[k] = "respond" /\ recv' = [recv EXCEPT ![k] = "tail"]
    BY <1>2, Zenon DEF Complete, Goto
  <2>2. hold' = [hold EXCEPT ![q] = NoConn] /\ pc' = pc /\ receivers' = receivers
    BY <2>1, ReleaseHands, ZenonT(40)
  <2>3. pc' = [pc EXCEPT ![q] = "idle"]
    BY <2>1, <2>2, StaysIdle, Zenon
  <2>4. QueryFacts
    BY <2>1, <2>2, <2>3, QueryAnswered, Zenon DEF QueryFacts
  <2> QED
    BY <1>p, <2>1, <2>2, <2>4, RecvGoesOn, Zenon
<1>3. ASSUME RecvTail(k) PROVE QueryFacts /\ RecvShape'
  <2>1. /\ mode' = mode /\ answers' = answers /\ CloseIdleConnection
        /\ recv[k] = "tail" /\ recv' = [recv EXCEPT ![k] = "reading"]
    BY <1>3, Zenon DEF RecvTail, queryVars
  <2>2. hold' = hold /\ pc' = pc /\ receivers' = receivers
    BY <2>1, CloseIdleConnectionKeeps, Zenon
  <2> QED
    BY <1>p, <2>1, <2>2, QueriesStay, RecvGoesOn, Zenon DEF QueryFacts
<1>4. ASSUME RecvError(k) PROVE QueryFacts /\ RecvShape'
  <2>1. /\ mode' = mode /\ answers' = answers /\ Invalidate(k, "read")
        /\ recv[k] = "reading" /\ recv' = [recv EXCEPT ![k] = "ended"]
    BY <1>4, Zenon DEF RecvError, queryVars
  <2>2. hold' = hold /\ pc' = pc
    BY <2>1, Zenon DEF Invalidate, callVars
  <2> QED
    BY <1>p, <2>1, <2>2, QueriesStay, RecvEnds, ZenonT(40) DEF QueryFacts
<1>5. QueryFacts /\ RecvShape'
  BY <1>1, <1>2, <1>3, <1>4, Zenon DEF RecvStep
<1>6. /\ writers' = writers /\ sent' \subseteq sent
      /\ recv' \in [Conns -> {"none", "reading", "respond", "tail", "ended"}]
  BY ZenonT(40) DEF RecvStep, RecvMessage, Complete, RecvTail, RecvError, MuxInv, MuxTypes
<1>7. WriterShape' /\ Inv'
  BY <1>p, <1>6, NextInv, Zenon DEF MuxInv, WriterShape
<1> QED
  BY <1>5, <1>6, <1>7, Zenon DEF MuxInv, MuxTypes, QueryFacts

\* A new query, the owner's calls and the pool's goroutines.
LEMMA OtherStepInv ==
    ASSUME MuxInv,
           \/ \E keep \in BOOLEAN : SetKeepIdle(keep)
           \/ SetKeepIdleCloses \/ OwnerCallsPool \/ PoolAlone \/ UNCHANGED vars
    PROVE  MuxInv'
<1>p. [PoolNext]_poolVars
  BY StepIsPool, Zenon DEF MuxInv, MuxNext
<1>1. /\ mode' = mode /\ answers' = answers
      /\ writers' = writers /\ sent' = sent /\ recv' = recv
  BY Zenon DEF SetKeepIdle, SetKeepIdleCloses, OwnerCallsPool, PoolAlone, vars, muxVars, queryVars
<1>2. hold' = hold /\ pc' = pc /\ receivers' = receivers
  <2>1. CASE (\E keep \in BOOLEAN : SetKeepIdle(keep)) \/ UNCHANGED vars
    BY <2>1, Zenon DEF SetKeepIdle, vars, poolVars, callVars
  <2>2. CASE SetKeepIdleCloses
    BY <2>2, CloseIdleConnectionKeeps, Zenon DEF SetKeepIdleCloses
  <2>3. CASE OwnerCallsPool
    BY <2>3, ZenonT(40) DEF OwnerCallsPool, CloseIdle, Reset, Close, DropState, callVars
  <2>4. CASE PoolAlone
    BY <2>4, Zenon DEF PoolAlone, CtxDone, DialStep, DialSucceeds, DialFails, Install, Finish,
                CancelState, CloseState, callVars
  <2> QED
    BY <2>1, <2>2, <2>3, <2>4, Zenon
<1>3. QueryFacts
  BY <1>1, <1>2, QueriesStay, Zenon DEF QueryFacts
<1> QED
  BY <1>p, <1>1, <1>2, <1>3, QuietStep, Zenon

LEMMA ExchangeInv ==
    ASSUME MuxInv, NEW q \in Procs, Exchange(q)
    PROVE  MuxInv'
<1>1. /\ mode[q] = "new" /\ mode' = [mode EXCEPT ![q] = "begin"] /\ answers' = answers
      /\ writers' = writers /\ sent' = sent /\ recv' = recv /\ UNCHANGED poolVars
  BY Zenon DEF Exchange, Goto
<1>2. hold' = hold /\ pc' = pc /\ receivers' = receivers
  BY <1>1, Zenon DEF poolVars, callVars
<1>3. "begin" \in Modes /\ "begin" \notin Holding /\ "new" \notin Holding
  BY Zenon DEF Modes, Holding
<1>4. QueryFacts
  BY <1>1, <1>2, <1>3, QueryTurns, ZenonT(40) DEF QueryFacts
<1> QED
  BY <1>1, <1>2, <1>4, QuietStep, Zenon

LEMMA MuxInitInv == MuxInit => MuxInv
<1> SUFFICES ASSUME MuxInit PROVE MuxInv
  OBVIOUS
<1>1. Inv
  BY InitInv, Zenon DEF MuxInit
<1>2. MuxTypes /\ WriterShape
  BY Zenon DEF MuxInit, MuxTypes, WriterShape, Modes
<1>3. QueryShape /\ RecvShape
  BY Zenon DEF MuxInit, PoolInit, QueryShape, RecvShape, Holding
<1> QED
  BY <1>1, <1>2, <1>3, Zenon DEF MuxInv

LEMMA MuxNextInv == MuxInv /\ [MuxNext]_vars => MuxInv'
<1> SUFFICES ASSUME MuxInv, [MuxNext]_vars PROVE MuxInv'
  OBVIOUS
<1>1. ASSUME NEW q \in Procs, WriteStep(q) PROVE MuxInv'
  BY <1>1, WriteStepInv, Zenon DEF WriteStep
<1> QED
  BY <1>1, ExchangeInv, QueryStepInv, RecvStepInv, OtherStepInv, Zenon DEF MuxNext

-----------------------------------------------------------------------------
(***************************************************************************)
(* The theorems.                                                           *)
(***************************************************************************)

\* The inductive invariant of the composition of queryMultiplexer and ConnPool.
THEOREM MuxInvariant == MuxSafety => []MuxInv
  BY MuxInitInv, MuxNextInv, PTL DEF MuxSafety

\* queryMultiplexer uses ConnPool only in the ways the pool's model allows: every
\* step is a step of the pool or leaves it alone.  What is proved of the pool
\* holds of the pool inside the multiplexer.
THEOREM MuxImplementsPool == MuxSafety => PoolSafety
<1>1. MuxInit => PoolInit
  BY Zenon DEF MuxInit
<1>2. MuxInv /\ [MuxNext]_vars => [PoolNext]_poolVars
  BY StepIsPool, Zenon DEF MuxInv
<1> QED
  BY <1>1, <1>2, MuxInvariant, PTL DEF MuxSafety, PoolSafety

\* No callback is called twice, and who was answered is out of m.queries and
\* holds no connection, whichever of the receive loop, the two contexts and the
\* failed write comes first.
THEOREM MuxAnsweredOnce == MuxSafety => []AnsweredOnce
<1>1. ASSUME MuxInv, NEW q \in Procs
      PROVE  /\ answers[q] <= 1
             /\ answers[q] = 1 => mode[q] \in {"tail", "done"} /\ hold[q] = NoConn
  <2>1. /\ hold[q] # NoConn <=> mode[q] \in Holding
        /\ answers[q] = IF mode[q] \in {"tail", "done"} THEN 1 ELSE 0
    BY <1>1, Zenon DEF MuxInv, QueryShape
  <2>2. CASE mode[q] \in {"tail", "done"}
    BY <2>1, <2>2 DEF Holding
  <2>3. CASE mode[q] \notin {"tail", "done"}
    BY <2>1, <2>3
  <2> QED
    BY <2>2, <2>3, Zenon
<1>2. MuxInv => AnsweredOnce
  BY <1>1, Zenon DEF AnsweredOnce
<1> QED
  BY <1>2, MuxInvariant, PTL

\* Every query that is given a connection gives it back.
THEOREM MuxNoUserLost == MuxSafety => []NoUserLost
<1>1. MuxInv => NoUserLost
  BY Zenon DEF MuxInv, QueryShape, NoUserLost, Holding
<1> QED
  BY <1>1, MuxInvariant, PTL

\* A query registered on an open connection has a receive loop to wait for,
\* unless closeState is about to cancel the connection.
THEOREM MuxPendingIsRead == MuxSafety => []PendingIsRead
<1>1. ASSUME MuxInv, NEW q \in Procs, mode[q] = "pending", conn[hold[q]] = "open"
      PROVE  recv[hold[q]] \in {"reading", "respond", "tail"} \/ hold[q] \in oldAll
  <2>1. hold[q] # NoConn /\ hold[q] \in Conns
    BY <1>1, ZenonT(40) DEF MuxInv, QueryShape, Holding, Inv, TypeOK, CallTypes
  <2>2. ClaimShape
    BY <1>1, Zenon DEF MuxInv, Inv
  <2>3. \A p \in Procs : hold[p] # NoConn => receivers[hold[p]] = 1
    BY <2>2, Zenon DEF ClaimShape
  <2>4. receivers[hold[q]] # 0
    BY <2>1, <2>3
  <2> QED
    BY <1>1, <2>1, <2>4, Zenon DEF MuxInv, RecvShape, MuxTypes, Gone
<1>2. MuxInv => PendingIsRead
  BY <1>1, Zenon DEF PendingIsRead
<1> QED
  BY <1>2, MuxInvariant, PTL

\* CloseIdle, called by the completion of one query, never closes the connection
\* another query holds or waits for.
THEOREM MuxCloseIdleSpares == MuxSafety => CloseIdleSpares
  BY MuxImplementsPool, PoolCloseIdleSpares, PTL

-----------------------------------------------------------------------------
(***************************************************************************)
(* With keepIdle off, a connection that nobody uses any more is closed.    *)
(***************************************************************************)

\* As long as nobody gave up waiting, the dial of the current generation has a
\* waiter.
DialAwaited ==
    \A k \in Conns : (phase[k] \in {"dialing", "dialed"} /\ dialGen[k] = gen /\ ~closed /\ ~gaveUp)
        => \E q \in Procs : pc[q] = "wait" /\ waitOn[q] = k

\* The modes of a query that will look at the shared connection again.
Looking == {"acquiring", "refused", "tail"}

\* With keepIdle off, somebody uses the shared connection, is about to acquire
\* it or will call CloseIdle.
IdleWatched ==
    (~keepIdle /\ ~setting /\ ~gaveUp /\ shared # NoConn) =>
        \/ \E q \in Procs : hold[q] = shared \/ mode[q] \in Looking
        \/ \E k \in Conns : recv[k] = "tail"

IdleInv == DialAwaited /\ IdleWatched

-----------------------------------------------------------------------------
(***************************************************************************)
(* The dial that somebody waits for.                                       *)
(***************************************************************************)

\* A step that starts no dial and takes no waiter away.
LEMMA StillAwaited ==
    ASSUME DialAwaited, gen' = gen, dialGen' = dialGen, closed => closed',
           gaveUp => gaveUp',
           \A k \in Conns : phase'[k] \in {"dialing", "dialed"} => phase[k] \in {"dialing", "dialed"},
           \A q \in Procs : pc[q] = "wait" => pc'[q] = "wait" /\ waitOn'[q] = waitOn[q]
    PROVE  DialAwaited'
  BY ZenonT(60) DEF DialAwaited

\* A waiter that leaves either gave up or waited for a dial that is over or not
\* of the current generation.
LEMMA LeaverNotAwaited ==
    ASSUME MuxInv, DialAwaited, NEW q \in Procs, pc[q] = "wait", gen' = gen, closed' = closed,
           dialGen' = dialGen, phase' = phase,
           NEW next, pc' = [pc EXCEPT ![q] = next], waitOn' = [waitOn EXCEPT ![q] = NoConn],
           gaveUp => gaveUp',
           \/ gaveUp' \/ closed
           \/ phase[waitOn[q]] = "done" \/ dialGen[waitOn[q]] # gen
    PROVE  DialAwaited'
<1> SUFFICES ASSUME NEW k \in Conns, phase[k] \in {"dialing", "dialed"}, dialGen[k] = gen,
                    ~closed, ~gaveUp'
             PROVE  \E p \in Procs : pc'[p] = "wait" /\ waitOn'[p] = k
  BY Zenon DEF DialAwaited
<1>1. PICK p \in Procs : pc[p] = "wait" /\ waitOn[p] = k
  BY Zenon DEF DialAwaited
<1>2. p # q
  BY <1>1, Zenon
<1> QED
  BY <1>1, <1>2, Zenon DEF MuxInv, Inv, TypeOK, CallTypes

\* The pool's part of a step that neither enters nor leaves AcquireShared.
LEMMA AwaitedOutside ==
    ASSUME MuxInv, DialAwaited, gaveUp' = gaveUp,
           \/ UNCHANGED poolVars \/ CloseIdle
           \/ \E q \in Procs : Release(q, TRUE) \/ InvalidateHeld(q, "other") \/ Abandon(q) \/ CtxDone(q)
           \/ \E k \in Conns, why \in {"read", "other"} : Invalidate(k, why)
           \/ \E g \in Gens : CancelState(g) \/ CloseState(g)
    PROVE  DialAwaited'
<1>1. /\ gen' = gen /\ dialGen' = dialGen /\ closed' = closed /\ phase' = phase
      /\ pc' = pc /\ waitOn' = waitOn
  <2>1. CASE UNCHANGED poolVars
    BY <2>1, Zenon DEF poolVars, stateVars, dialVars, callVars
  <2>2. CASE CloseIdle
    BY <2>2, Zenon DEF CloseIdle, dialVars, callVars
  <2>3. ASSUME NEW q \in Procs, Release(q, TRUE) \/ InvalidateHeld(q, "other") \/ Abandon(q) \/ CtxDone(q)
        PROVE  /\ gen' = gen /\ dialGen' = dialGen /\ closed' = closed /\ phase' = phase
               /\ pc' = pc /\ waitOn' = waitOn
    BY <2>3, Zenon DEF Release, InvalidateHeld, Abandon, CtxDone, stateVars, dialVars, callVars
  <2>4. ASSUME NEW k \in Conns, NEW why, Invalidate(k, why)
        PROVE  /\ gen' = gen /\ dialGen' = dialGen /\ closed' = closed /\ phase' = phase
               /\ pc' = pc /\ waitOn' = waitOn
    BY <2>4, Zenon DEF Invalidate, dialVars, callVars
  <2>5. ASSUME NEW g \in Gens, CancelState(g) \/ CloseState(g)
        PROVE  /\ gen' = gen /\ dialGen' = dialGen /\ closed' = closed /\ phase' = phase
               /\ pc' = pc /\ waitOn' = waitOn
    BY <2>5, Zenon DEF CancelState, CloseState, dialVars, callVars
  <2> QED
    BY <2>1, <2>2, <2>3, <2>4, <2>5, Zenon
<1> QED
  BY <1>1, StillAwaited, Zenon

\* AcquireShared.
LEMMA AwaitedAcquire ==
    ASSUME MuxInv, DialAwaited, NEW q \in Procs,
           BeginAcquire(q) \/ AcquireGoesOn(q) \/ AcquireFails(q) \/ Acquired(q)
    PROVE  DialAwaited'
<1>t. /\ pc \in [Procs -> {"idle", "acquire", "wait"}] /\ waitOn \in [Procs -> Conns \cup {NoConn}]
      /\ phase \in [Conns -> Phases] /\ dialGen \in [Conns -> Gens]
  BY Zenon DEF MuxInv, Inv, TypeOK, CallTypes, DialTypes
<1>g. gaveUp => gaveUp'
  BY Zenon DEF BeginAcquire, AcquireGoesOn, AcquireFails, Acquired, muxVars
<1>1. CASE Call(q) \/ AcquireClosed(q) \/ AcquireHit(q)
  <2>1. /\ gen' = gen /\ dialGen' = dialGen /\ closed' = closed /\ phase' = phase /\ waitOn' = waitOn
        /\ pc[q] # "wait" /\ \E next : pc' = [pc EXCEPT ![q] = next]
    BY <1>1, Zenon DEF Call, AcquireClosed, AcquireHit, stateVars, dialVars
  <2>2. \A p \in Procs : pc[p] = "wait" => pc'[p] = "wait"
    BY <1>t, <2>1, Zenon
  <2> QED
    BY <1>g, <2>1, <2>2, StillAwaited, Zenon
<1>2. CASE AcquireJoin(q)
  <2>1. /\ gen' = gen /\ dialGen' = dialGen /\ closed' = closed /\ phase' = phase
        /\ pc[q] # "wait" /\ pc' = [pc EXCEPT ![q] = "wait"]
        /\ waitOn' = [waitOn EXCEPT ![q] = connecting]
    BY <1>2, Zenon DEF AcquireJoin, dialVars
  <2>2. \A p \in Procs : pc[p] = "wait" => pc'[p] = "wait" /\ waitOn'[p] = waitOn[p]
    BY <1>t, <2>1, Zenon
  <2> QED
    BY <1>g, <2>1, <2>2, StillAwaited, Zenon
<1>3. CASE AcquireDial(q)
  <2>1. PICK d \in Conns :
            /\ gen' = gen /\ dialGen' = [dialGen EXCEPT ![d] = gen] /\ closed' = closed
            /\ phase' = [phase EXCEPT ![d] = "dialing"] /\ pc[q] # "wait"
            /\ pc' = [pc EXCEPT ![q] = "wait"] /\ waitOn' = [waitOn EXCEPT ![q] = d]
    <3>1. dials + 1 \in Conns
      BY <1>3, ConstAssumption DEF AcquireDial, Conns, MuxInv, Inv, TypeOK, DialTypes
    <3> QED
      BY <1>3, <3>1, Zenon DEF AcquireDial
  <2>2. \A k \in Conns : k # d => phase'[k] = phase[k] /\ dialGen'[k] = dialGen[k]
    BY <1>t, <2>1, Zenon
  <2>3. \A p \in Procs : pc[p] = "wait" => pc'[p] = "wait" /\ waitOn'[p] = waitOn[p]
    BY <1>t, <2>1, Zenon
  <2>4. pc'[q] = "wait" /\ waitOn'[q] = d
    BY <1>t, <2>1, Zenon
  <2> QED
    BY <1>g, <2>1, <2>2, <2>3, <2>4, SMTT(30) DEF DialAwaited
<1>4. CASE CollectRetries(q) \/ CollectFails(q) \/ CollectShared(q) \/ WaitCancelled(q) \/ WaitReset(q)
  <2>1. /\ gen' = gen /\ dialGen' = dialGen /\ closed' = closed /\ phase' = phase
        /\ pc[q] = "wait" /\ waitOn' = [waitOn EXCEPT ![q] = NoConn]
        /\ \E next : pc' = [pc EXCEPT ![q] = next]
    BY <1>4, Zenon DEF CollectRetries, CollectFails, CollectShared, WaitCancelled, WaitReset, Woken, Leave,
              dialVars
  <2>2. gaveUp' \/ closed \/ phase[waitOn[q]] = "done" \/ dialGen[waitOn[q]] # gen
    <3>1. CASE AcquireFails(q)
      BY <2>1, <3>1, Zenon DEF AcquireFails
    <3>2. CASE WaitReset(q) /\ ~closed
      <4>1. Dropped(dialGen[waitOn[q]])
        BY <3>2, Zenon DEF WaitReset, MuxInv, Inv, DialShape
      <4> QED
        BY <4>1, <3>2, <1>t, GensAreInts, SMTT(30) DEF Dropped, MuxInv, Inv, TypeOK, StateTypes, WaitShape, WaitReset
    <3>3. CASE CollectRetries(q) \/ CollectShared(q)
      BY <3>3, Zenon DEF CollectRetries, CollectShared, Woken
    <3> QED
      BY <3>1, <3>2, <3>3, <2>1, Zenon DEF BeginAcquire, Call, AcquireGoesOn, AcquireJoin, AcquireDial, Acquired,
               AcquireHit
  <2>3. PICK next : pc' = [pc EXCEPT ![q] = next]
    BY <2>1, Zenon
  <2> QED
    BY <1>g, <2>1, <2>2, <2>3, LeaverNotAwaited, ZenonT(30)
<1> QED
  BY <1>1, <1>2, <1>3, <1>4, Zenon DEF BeginAcquire, AcquireGoesOn, AcquireFails, Acquired

\* The dial's own steps, Reset and Close.
LEMMA AwaitedDial ==
    ASSUME MuxInv, DialAwaited, gaveUp' = gaveUp,
           Reset \/ Close \/ \E k \in Conns : DialStep(k)
    PROVE  DialAwaited'
<1>1. CASE Reset
  <2>1. /\ gen' = gen + 1 /\ dialGen' = dialGen
    BY <1>1, Zenon DEF Reset, DropState, dialVars
  <2>2. \A k \in Conns : dialGen[k] <= gen /\ dialGen[k] \in Int /\ gen \in Int
    BY GensAreInts, Zenon DEF MuxInv, Inv, TypeOK, StateTypes, DialTypes, DialShape
  <2> QED
    BY <2>1, <2>2 DEF DialAwaited
<1>2. CASE Close
  BY <1>2, Zenon DEF Close, DialAwaited
<1>3. ASSUME NEW k \in Conns, DialStep(k) PROVE DialAwaited'
  <2>1. /\ gen' = gen /\ dialGen' = dialGen /\ closed' = closed /\ pc' = pc /\ waitOn' = waitOn
        /\ \/ phase[k] = "dialing" /\ phase' = [phase EXCEPT ![k] = "dialed"]
           \/ \E ph \in {"finishing", "done"} : phase' = [phase EXCEPT ![k] = ph]
    BY <1>3, Zenon DEF DialStep, DialSucceeds, DialFails, Install, Finish, stateVars, callVars
  <2>2. \A j \in Conns : phase'[j] \in {"dialing", "dialed"} => phase[j] \in {"dialing", "dialed"}
    BY <2>1, Zenon DEF MuxInv, Inv, TypeOK, DialTypes
  <2> QED
    BY <2>1, <2>2, StillAwaited, Zenon
<1> QED
  BY <1>1, <1>2, <1>3, Zenon

\* CloseIdle of the pool leaves the waiting of the dials as it was.
LEMMA CloseIdleConnectionAwaited ==
    ASSUME MuxInv, DialAwaited, gaveUp' = gaveUp, CloseIdleConnection
    PROVE  DialAwaited'
  BY AwaitedOutside, Zenon DEF CloseIdleConnection

\* Every step keeps DialAwaited.
LEMMA AwaitedStep ==
    ASSUME MuxInv, DialAwaited, [MuxNext]_vars
    PROVE  DialAwaited'
<1>1. ASSUME NEW q \in Procs, Exchange(q) \/ QueryStep(q) PROVE DialAwaited'
  <2>1. CASE BeginAcquire(q) \/ AcquireGoesOn(q) \/ AcquireFails(q) \/ Acquired(q)
    BY <2>1, AwaitedAcquire, Zenon
  <2>2. CASE Exchange(q) \/ Register(q) \/ TakeContextDone(q)
             \/ \E what \in {"response", "error"} : ExchangeSingle(q, what)
    <3>1. UNCHANGED poolVars /\ gaveUp' = gaveUp
      BY <2>2, Zenon DEF Exchange, Register, TakeContextDone, ExchangeSingle
    <3> QED
      BY <3>1, AwaitedOutside, Zenon
  <2>3. CASE Refuse(q) \/ Tail(q)
    BY <2>3, CloseIdleConnectionAwaited, Zenon DEF Refuse, Tail
  <2>4. CASE RegisterFails(q) \/ CompleteConnDone(q)
             \/ \E deadline \in BOOLEAN : CompleteContextDone(q, deadline)
    <3>1. /\ gaveUp' = gaveUp
          /\ Release(q, TRUE) \/ InvalidateHeld(q, "other") \/ Abandon(q)
      BY <2>4, Zenon DEF RegisterFails, CompleteConnDone, CompleteContextDone
    <3> QED
      BY <3>1, AwaitedOutside, Zenon
  <2> QED
    BY <1>1, <2>1, <2>2, <2>3, <2>4, Zenon DEF QueryStep
<1>2. ASSUME NEW q \in Procs, WriteStep(q) PROVE DialAwaited'
  <2>1. PICK w \in writers : Write(w) \/ WriteFails(w) \/ WriteFailsLate(w) \/ AfterWriteFails(w)
    BY <1>2, Zenon DEF WriteStep
  <2>2. w.q \in Procs /\ w.k \in Conns
    BY Zenon DEF MuxInv, WriterShape
  <2>3. /\ gaveUp' = gaveUp
        /\ UNCHANGED poolVars \/ Invalidate(w.k, "other") \/ InvalidateHeld(w.q, "other")
    BY <2>1, Zenon DEF Write, WriteFails, WriteFailsLate, AfterWriteFails
  <2> QED
    BY <2>2, <2>3, AwaitedOutside, ZenonT(30)
<1>3. ASSUME NEW k \in Conns, RecvStep(k) PROVE DialAwaited'
  <2>1. CASE \E s \in sent : RecvMessage(k, s)
    BY <2>1, AwaitedOutside, Zenon DEF RecvMessage
  <2>2. CASE \E q \in Procs : Complete(k, q)
    <3>1. gaveUp' = gaveUp /\ \E q \in Procs : Release(q, TRUE)
      BY <2>2, Zenon DEF Complete
    <3> QED
      BY <3>1, AwaitedOutside, Zenon
  <2>3. CASE RecvTail(k)
    BY <2>3, CloseIdleConnectionAwaited, Zenon DEF RecvTail
  <2>4. CASE RecvError(k)
    <3>1. gaveUp' = gaveUp /\ Invalidate(k, "read")
      BY <2>4, Zenon DEF RecvError
    <3> QED
      BY <3>1, AwaitedOutside, Zenon
  <2> QED
    BY <1>3, <2>1, <2>2, <2>3, <2>4, Zenon DEF RecvStep
<1>4. ASSUME NEW keep \in BOOLEAN, SetKeepIdle(keep) PROVE DialAwaited'
  BY <1>4, AwaitedOutside, Zenon DEF SetKeepIdle
<1>5. CASE SetKeepIdleCloses
  BY <1>5, CloseIdleConnectionAwaited, Zenon DEF SetKeepIdleCloses
<1>6. CASE OwnerCallsPool
  BY <1>6, AwaitedDial, AwaitedOutside, Zenon DEF OwnerCallsPool
<1>7. CASE PoolAlone
  <2>1. gaveUp' = gaveUp
    BY <1>7, Zenon DEF PoolAlone, muxVars
  <2> QED
    BY <1>7, <2>1, AwaitedDial, AwaitedOutside, Zenon DEF PoolAlone
<1>8. CASE UNCHANGED vars
  <2>1. UNCHANGED poolVars /\ gaveUp' = gaveUp
    BY <1>8, Zenon DEF vars, muxVars
  <2> QED
    BY <2>1, AwaitedOutside, Zenon
<1> QED
  BY <1>1, <1>2, <1>3, <1>4, <1>5, <1>6, <1>7, <1>8, Zenon DEF MuxNext

-----------------------------------------------------------------------------
(***************************************************************************)
(* Who looks after the shared connection.                                  *)
(***************************************************************************)

\* A step after which everybody who looked after it still does.
LEMMA StillWatched ==
    ASSUME IdleWatched, keepIdle' = keepIdle, setting' = setting, gaveUp' = gaveUp,
           shared' \in {shared, NoConn},
           shared' # NoConn => \A q \in Procs : hold[q] = shared => hold'[q] = shared,
           \A q \in Procs : mode[q] \in Looking => mode'[q] = mode[q],
           \A k \in Conns : recv[k] = "tail" => recv'[k] = recv[k]
    PROVE  IdleWatched'
  BY Zenon DEF IdleWatched

\* closeIdleConnection closes the connection, or somebody has or awaits it.
LEMMA ClosedOrInUse ==
    ASSUME MuxInv, CloseIdleConnection, ~keepIdle, shared' # NoConn
    PROVE  /\ shared' = shared /\ hold' = hold
           /\ \E p \in Procs : hold[p] = shared \/ mode[p] = "acquiring"
<1>1. ~PoolIsIdle /\ UNCHANGED poolVars
  BY Zenon DEF CloseIdleConnection, CloseIdle, RemoveConn
<1>2. shared' = shared /\ hold' = hold
  BY <1>1, Zenon DEF poolVars, stateVars, callVars
<1>3. ~closed
  BY <1>2, Zenon DEF MuxInv, Inv, SharedShape
<1>4. Users(shared) # {} \/ Waiters # {}
  BY <1>1, <1>2, <1>3, FS_EmptySet, Zenon DEF PoolIsIdle, MuxInv, Inv, UsersCounted, WaitersCounted
<1> QED
  BY <1>2, <1>4, Zenon DEF Users, Waiters, MuxInv, QueryShape

\* ... so that whoever calls closeIdleConnection may stop looking.
LEMMA CloseIdleConnectionWatched ==
    ASSUME MuxInv, CloseIdleConnection, keepIdle' = keepIdle,
           \A p \in Procs : mode[p] = "acquiring" => mode'[p] = mode[p]
    PROVE  IdleWatched'
<1> SUFFICES ASSUME ~keepIdle, shared' # NoConn
             PROVE  \E q \in Procs : hold'[q] = shared' \/ mode'[q] \in Looking
  BY Zenon DEF IdleWatched
<1> QED
  BY ClosedOrInUse, Zenon DEF Looking

\* Somebody looks after it from now on.
LEMMA NowWatched ==
    ASSUME NEW q \in Procs, hold'[q] = shared' \/ mode'[q] \in Looking
    PROVE  IdleWatched'
  BY Zenon DEF IdleWatched

\* A mode outside AcquireShared changes.
LEMMA ModeMoves ==
    ASSUME MuxInv, NEW q \in Procs, mode[q] \notin Looking, NEW next, Goto(q, next)
    PROVE  \A p \in Procs : mode[p] \in Looking => mode'[p] = mode[p]
  BY Zenon DEF MuxInv, MuxTypes, Goto

\* A query moves on with what it holds.
LEMMA WatchedMoves ==
    ASSUME MuxInv, IdleWatched, NEW q \in Procs,
           \/ Exchange(q) \/ Register(q) \/ TakeContextDone(q)
           \/ \E what \in {"response", "error"} : ExchangeSingle(q, what)
    PROVE  IdleWatched'
<1>1. mode[q] \notin Looking /\ \E next : Goto(q, next)
  BY Zenon DEF Exchange, Register, TakeContextDone, ExchangeSingle, Looking
<1>2. /\ keepIdle' = keepIdle /\ setting' = setting /\ gaveUp' = gaveUp /\ recv' = recv
      /\ shared' = shared /\ hold' = hold
  BY Zenon DEF Exchange, Register, TakeContextDone, ExchangeSingle, poolVars, stateVars, callVars
<1> QED
  BY <1>1, <1>2, ModeMoves, StillWatched, Zenon

\* AcquireShared returns an error.
LEMMA WatchedFails ==
    ASSUME MuxInv, NEW q \in Procs, AcquireFails(q)
    PROVE  IdleWatched'
<1>1. CASE pc[q] = "wait"
  BY <1>1, Zenon DEF AcquireFails, IdleWatched
<1>2. CASE AcquireClosed(q)
  <2>1. closed /\ shared' = shared
    BY <1>2, Zenon DEF AcquireClosed, stateVars
  <2> QED
    BY <2>1, Zenon DEF MuxInv, Inv, SharedShape, IdleWatched
<1> QED
  BY <1>1, <1>2, Zenon DEF AcquireFails, CollectFails, Woken, WaitCancelled, WaitReset

\* The connection the pool gave up is not the shared one.
LEMMA WatchedConnDone ==
    ASSUME MuxInv, IdleWatched, NEW q \in Procs, CompleteConnDone(q)
    PROVE  IdleWatched'
<1>1. mode[q] \notin Looking /\ \E next : Goto(q, next)
  BY Zenon DEF CompleteConnDone, Looking
<1>2. /\ keepIdle' = keepIdle /\ setting' = setting /\ gaveUp' = gaveUp /\ recv' = recv
      /\ shared' = shared
  BY Zenon DEF CompleteConnDone, Abandon, stateVars
<1>3. hold[q] # NoConn /\ cause[hold[q]] # "none" /\ hold' = [hold EXCEPT ![q] = NoConn]
  BY Zenon DEF CompleteConnDone, Abandon
<1>4. shared # NoConn => hold[q] # shared
  BY <1>3, Zenon DEF MuxInv, Inv, SharedShape
<1>5. shared' # NoConn => \A p \in Procs : hold[p] = shared => hold'[p] = shared
  BY <1>2, <1>3, <1>4, Zenon DEF MuxInv, Inv, TypeOK, CallTypes
<1> QED
  BY <1>1, <1>2, <1>5, ModeMoves, StillWatched, Zenon

\* Invalidate: the connection was not the shared one, or there is none now.
LEMMA DiscardShared ==
    ASSUME MuxInv, NEW k \in Conns, NEW why, Discard(k, why)
    PROVE  shared' \in {shared, NoConn} /\ (shared' # NoConn => shared # k)
<1>1. CASE closed
  BY <1>1, NoConnNotConn, Zenon DEF Discard, MuxInv, Inv, SharedShape
<1>2. CASE ~closed /\ k \notin all
  BY <1>2, Zenon DEF Discard, MuxInv, Inv, SharedShape
<1>3. CASE ~closed /\ k \in all
  BY <1>3, Zenon DEF Discard, RemoveConn
<1> QED
  BY <1>1, <1>2, <1>3, Zenon

\* The writer of a query keeps IdleWatched.
LEMMA WatchedWrite ==
    ASSUME MuxInv, IdleWatched, NEW w \in writers,
           Write(w) \/ WriteFails(w) \/ WriteFailsLate(w) \/ AfterWriteFails(w)
    PROVE  IdleWatched'
<1>w. w.q \in Procs /\ w.k \in Conns
  BY Zenon DEF MuxInv, WriterShape
<1>k. keepIdle' = keepIdle /\ setting' = setting /\ gaveUp' = gaveUp /\ recv' = recv
  BY Zenon DEF Write, WriteFails, WriteFailsLate, AfterWriteFails
<1>1. CASE Write(w) \/ WriteFailsLate(w)
  <2>1. mode' = mode /\ hold' = hold
    BY <1>1, Zenon DEF Write, WriteFailsLate, Invalidate, poolVars, queryVars, callVars
  <2>2. shared' \in {shared, NoConn}
    <3>1. CASE Write(w)
      BY <3>1, Zenon DEF Write, poolVars, stateVars
    <3>2. CASE WriteFailsLate(w)
      BY <3>2, <1>w, DiscardShared, Zenon DEF WriteFailsLate, Invalidate
    <3> QED
      BY <1>1, <3>1, <3>2, Zenon
  <2> QED
    BY <1>k, <2>1, <2>2, StillWatched, Zenon
<1>2. CASE WriteFails(w)
  <2>1. mode[w.q] \notin Looking /\ Goto(w.q, "writefailed")
    BY <1>2, Zenon DEF WriteFails, Takes, Looking
  <2>2. shared' = shared /\ hold' = hold
    BY <1>2, Zenon DEF WriteFails, poolVars, stateVars, callVars
  <2> QED
    BY <1>w, <1>k, <2>1, <2>2, ModeMoves, StillWatched, ZenonT(30)
<1>3. CASE AfterWriteFails(w)
  <2>1. mode[w.q] \notin Looking /\ \E next : Goto(w.q, next)
    BY <1>3, Zenon DEF AfterWriteFails, TookOwn, Looking
  <2>2. hold[w.q] # NoConn /\ Discard(hold[w.q], "other") /\ hold' = [hold EXCEPT ![w.q] = NoConn]
    BY <1>3, Zenon DEF AfterWriteFails, InvalidateHeld
  <2>3. hold[w.q] \in Conns
    BY <1>w, <2>2, Zenon DEF MuxInv, Inv, TypeOK, CallTypes
  <2>4. shared' \in {shared, NoConn} /\ (shared' # NoConn => shared # hold[w.q])
    BY <2>2, <2>3, DiscardShared, Zenon
  <2>5. shared' # NoConn => \A p \in Procs : hold[p] = shared => hold'[p] = shared
    BY <2>2, <2>4, Zenon DEF MuxInv, Inv, TypeOK, CallTypes
  <2> QED
    BY <1>w, <1>k, <2>1, <2>4, <2>5, ModeMoves, StillWatched, ZenonT(30)
<1> QED
  BY <1>1, <1>2, <1>3, Zenon

\* The receive loop keeps IdleWatched.
LEMMA WatchedRecv ==
    ASSUME MuxInv, IdleWatched, NEW k \in Conns, RecvStep(k)
    PROVE  IdleWatched'
<1>t. recv \in [Conns -> {"none", "reading", "respond", "tail", "ended"}] /\ mode \in [Procs -> Modes]
  BY Zenon DEF MuxInv, MuxTypes
<1>1. ASSUME NEW s \in sent, RecvMessage(k, s) PROVE IdleWatched'
  <2>1. keepIdle' = keepIdle /\ setting' = setting /\ gaveUp' = gaveUp /\ shared' = shared /\ hold' = hold
    BY <1>1, Zenon DEF RecvMessage, poolVars, stateVars, callVars
  <2>2. /\ \A p \in Procs : mode[p] \in Looking => mode'[p] = mode[p]
        /\ \A j \in Conns : recv[j] = "tail" => recv'[j] = recv[j]
    <3>1. CASE Takes(s.q, s.n)
      <4>1. s.q \in Procs
        BY Zenon DEF MuxInv, WriterShape
      <4>2. mode[s.q] \notin Looking /\ Goto(s.q, "responded")
        BY <1>1, <3>1, ZenonT(30) DEF RecvMessage, Takes, Looking
      <4>3. recv[k] = "reading" /\ recv' = [recv EXCEPT ![k] = "respond"]
        BY <1>1, <3>1, Zenon DEF RecvMessage
      <4> QED
        BY <1>t, <4>1, <4>2, <4>3, ModeMoves, Zenon
    <3>2. CASE ~Takes(s.q, s.n)
      BY <1>1, <3>2, ZenonT(30) DEF RecvMessage
    <3> QED
      BY <3>1, <3>2, Zenon
  <2> QED
    BY <2>1, <2>2, StillWatched, Zenon
<1>2. ASSUME NEW q \in Procs, Complete(k, q) PROVE IdleWatched'
  <2>1. recv' = [recv EXCEPT ![k] = "tail"]
    BY <1>2, Zenon DEF Complete
  <2>2. recv'[k] = "tail"
    BY <1>t, <2>1, Zenon
  <2> QED
    BY <2>2, Zenon DEF IdleWatched
<1>3. CASE RecvTail(k)
  <2>1. CloseIdleConnection /\ keepIdle' = keepIdle /\ mode' = mode
    BY <1>3, Zenon DEF RecvTail, queryVars
  <2> QED
    BY <2>1, CloseIdleConnectionWatched, Zenon
<1>4. CASE RecvError(k)
  <2>1. /\ keepIdle' = keepIdle /\ setting' = setting /\ gaveUp' = gaveUp /\ mode' = mode
        /\ Discard(k, "read") /\ hold' = hold
        /\ recv[k] = "reading" /\ recv' = [recv EXCEPT ![k] = "ended"]
    BY <1>4, Zenon DEF RecvError, Invalidate, queryVars, callVars
  <2>2. \A j \in Conns : recv[j] = "tail" => recv'[j] = recv[j]
    BY <1>t, <2>1, Zenon
  <2>3. shared' \in {shared, NoConn}
    BY <2>1, DiscardShared, Zenon
  <2> QED
    BY <2>1, <2>2, <2>3, StillWatched, Zenon
<1> QED
  BY <1>1, <1>2, <1>3, <1>4, Zenon DEF RecvStep

\* The steps of the pool alone keep IdleWatched.
LEMMA WatchedPool ==
    ASSUME MuxInv, DialAwaited, IdleWatched, PoolAlone
    PROVE  IdleWatched'
<1>k. /\ keepIdle' = keepIdle /\ setting' = setting /\ gaveUp' = gaveUp
      /\ mode' = mode /\ recv' = recv /\ hold' = hold
  BY Zenon DEF PoolAlone, muxVars, queryVars, CtxDone, DialStep, DialSucceeds, DialFails, Install, Finish,
        CancelState, CloseState, callVars
<1>1. ASSUME NEW k \in Conns, Install(k), shared' # shared PROVE IdleWatched'
  <2>1. phase[k] = "dialed" /\ ~closed /\ dialGen[k] = gen
    BY <1>1, Zenon DEF Install
  <2>2. gaveUp \/ \E q \in Procs : pc[q] = "wait"
    BY <2>1, Zenon DEF DialAwaited
  <2>3. gaveUp \/ \E q \in Procs : mode[q] = "acquiring"
    BY <2>2, Zenon DEF MuxInv, QueryShape
  <2> QED
    BY <1>k, <2>3, Zenon DEF IdleWatched, Looking
<1>2. CASE shared' = shared
  BY <1>k, <1>2, StillWatched, Zenon
<1>3. shared' = shared \/ \E k \in Conns : Install(k)
  BY Zenon DEF PoolAlone, CtxDone, DialStep, DialSucceeds, DialFails, Finish,
        CancelState, CloseState, stateVars
<1> QED
  BY <1>1, <1>2, <1>3, Zenon

\* Every step keeps IdleWatched.
LEMMA WatchedStep ==
    ASSUME MuxInv, DialAwaited, IdleWatched, [MuxNext]_vars
    PROVE  IdleWatched'
<1>t. mode \in [Procs -> Modes] /\ hold \in [Procs -> Conns \cup {NoConn}]
  BY Zenon DEF MuxInv, MuxTypes, Inv, TypeOK, CallTypes
<1>1. ASSUME NEW q \in Procs, Exchange(q) \/ QueryStep(q) PROVE IdleWatched'
  <2>1. CASE BeginAcquire(q) \/ RegisterFails(q)
             \/ \E deadline \in BOOLEAN : CompleteContextDone(q, deadline)
    <3>1. \E next \in Looking : mode' = [mode EXCEPT ![q] = next]
      BY <2>1, ZenonT(30) DEF BeginAcquire, RegisterFails, CompleteContextDone, Goto, Looking
    <3> QED
      BY <1>t, <3>1, NowWatched, Zenon
  <2>2. CASE AcquireGoesOn(q)
    <3>1. mode[q] = "acquiring" /\ mode' = mode
      BY <2>2, Zenon DEF AcquireGoesOn, muxVars, queryVars
    <3> QED
      BY <3>1, NowWatched, Zenon DEF Looking
  <2>3. CASE AcquireFails(q)
    BY <2>3, WatchedFails, Zenon
  <2>4. CASE Acquired(q)
    <3>1. hold' = [hold EXCEPT ![q] = shared] /\ shared' = shared
      BY <2>4, Zenon DEF Acquired, AcquireHit, CollectShared, Claim
    <3> QED
      BY <1>t, <3>1, NowWatched, Zenon
  <2>5. CASE \/ Exchange(q) \/ Register(q) \/ TakeContextDone(q)
             \/ \E what \in {"response", "error"} : ExchangeSingle(q, what)
    BY <2>5, WatchedMoves, Zenon
  <2>6. CASE Refuse(q) \/ Tail(q)
    <3>1. /\ CloseIdleConnection /\ keepIdle' = keepIdle
          /\ mode[q] # "acquiring" /\ mode' = [mode EXCEPT ![q] = "done"]
      BY <2>6, Zenon DEF Refuse, Tail, Goto
    <3>2. \A p \in Procs : mode[p] = "acquiring" => mode'[p] = mode[p]
      BY <1>t, <3>1, Zenon
    <3> QED
      BY <3>1, <3>2, CloseIdleConnectionWatched, Zenon
  <2>7. CASE CompleteConnDone(q)
    BY <2>7, WatchedConnDone, Zenon
  <2> QED
    BY <1>1, <2>1, <2>2, <2>3, <2>4, <2>5, <2>6, <2>7, Zenon DEF QueryStep
<1>2. ASSUME NEW q \in Procs, WriteStep(q) PROVE IdleWatched'
  BY <1>2, WatchedWrite, Zenon DEF WriteStep
<1>3. ASSUME NEW keep \in BOOLEAN, SetKeepIdle(keep) PROVE IdleWatched'
  BY <1>3, Zenon DEF SetKeepIdle, IdleWatched
<1>4. CASE SetKeepIdleCloses
  <2>1. CloseIdleConnection /\ keepIdle' = keepIdle /\ mode' = mode
    BY <1>4, Zenon DEF SetKeepIdleCloses, queryVars
  <2> QED
    BY <2>1, CloseIdleConnectionWatched, Zenon
<1>5. CASE OwnerCallsPool
  <2>1. shared' = NoConn
    BY <1>5, Zenon DEF OwnerCallsPool, CloseIdle, RemoveConn, Reset, Close, DropState
  <2> QED
    BY <2>1, Zenon DEF IdleWatched
<1>6. CASE UNCHANGED vars
  <2>1. /\ keepIdle' = keepIdle /\ setting' = setting /\ gaveUp' = gaveUp
        /\ mode' = mode /\ recv' = recv /\ hold' = hold /\ shared' = shared
    BY <1>6, Zenon DEF vars, muxVars, queryVars, poolVars, stateVars, callVars
  <2> QED
    BY <2>1, StillWatched, Zenon
<1> QED
  BY <1>1, <1>2, <1>3, <1>4, <1>5, <1>6, WatchedRecv, WatchedPool, Zenon DEF MuxNext

\* The strengthened invariant holds of every state.
THEOREM MuxIdleInvariant == MuxSafety => []IdleInv
<1>1. MuxInit => IdleInv
  BY DEF MuxInit, PoolInit, IdleInv, DialAwaited, IdleWatched
<1>2. MuxInv /\ IdleInv /\ [MuxNext]_vars => IdleInv'
  BY AwaitedStep, WatchedStep, Zenon DEF IdleInv
<1> QED
  BY <1>1, <1>2, MuxInvariant, PTL DEF MuxSafety

\* With keepIdle off, a connection that nobody uses any more is closed, unless
\* a query gave up waiting in acquireShared: the last to hand the connection
\* back, the receive loop and SetKeepIdleConnections all call CloseIdle after
\* they let go, and whoever keeps CloseIdle from closing looks again.
THEOREM MuxIdleIsClosed == MuxSafety => []IdleIsClosed
<1>1. MuxInv /\ IdleInv => IdleIsClosed
  <2> SUFFICES ASSUME MuxInv, IdleInv,
                      ~keepIdle, ~setting, ~gaveUp, shared # NoConn,
                      \A q \in Procs : mode[q] \in {"new", "done"},
                      \A k \in Conns : recv[k] # "tail"
               PROVE  FALSE
    BY Zenon DEF IdleIsClosed
  <2>1. PICK q \in Procs : hold[q] = shared \/ mode[q] \in Looking
    BY Zenon DEF IdleInv, IdleWatched
  <2>2. hold[q] = NoConn
    BY Zenon DEF MuxInv, QueryShape, Holding
  <2> QED
    BY <2>1, <2>2, Zenon DEF Looking
<1> QED
  BY <1>1, MuxInvariant, MuxIdleInvariant, PTL

-----------------------------------------------------------------------------
(***************************************************************************)
(* The values of the variables, and how often a query is written.          *)
(***************************************************************************)

\* A query is dispatched twice at most, and each dispatch makes two attempts:
\* how many attempts the earlier dispatch may have used up.
Spent(q) == IF mayRetry[q] THEN 0 ELSE 2

\* How many attempts were made, before the next one and after it.
QueryBound(q) ==
    /\ att[q] <= Spent(q) + 2
    /\ mode[q] \in {"new", "begin", "acquiring", "acquired"}
          => att[q] <= Spent(q) + (IF first[q] THEN 0 ELSE 1)
    /\ mode[q] = "pending" => first[q] /\ (retry[q] => mayRetry[q])

\* A goroutine that has still to write for the last attempt knows whether it
\* was the first of its dispatch.
WriterBound(w) ==
    /\ w.n <= att[w.q]
    /\ (mode[w.q] \in {"pending", "writefailed"} /\ w.n = att[w.q] /\ w.first)
          => att[w.q] <= Spent(w.q) + 1

AttemptShape == (\A q \in Procs : QueryBound(q)) /\ (\A w \in writers : WriterBound(w))

\* The flags of the queries and of the transport.
FlagTypes ==
    /\ created \in [Procs -> BOOLEAN] /\ first \in [Procs -> BOOLEAN]
    /\ mayRetry \in [Procs -> BOOLEAN] /\ retry \in [Procs -> BOOLEAN]
    /\ unread \in [Procs -> BOOLEAN]
    /\ keepIdle \in BOOLEAN /\ setting \in BOOLEAN /\ calls \in 0..MaxCalls /\ gaveUp \in BOOLEAN
    /\ result \in [Procs -> {"none", "response", "error"}]

Requests == [q : Procs, n : 1..MaxAttempts, k : Conns]

\* The attempts, and what is being written or on the wire.
WireTypes ==
    /\ att \in [Procs -> 0..MaxAttempts]
    /\ writers \subseteq Writers
    /\ sent \subseteq Requests

BoundInv == FlagTypes /\ WireTypes /\ AttemptShape

\* The flags that most steps leave alone.
queryFlags == <<created, first, mayRetry, retry, unread>>
ownerFlags == <<keepIdle, setting, calls, gaveUp>>

\* A step that leaves the flags alone, one result apart, keeps their types.
LEMMA FlagsStay ==
    ASSUME FlagTypes, UNCHANGED queryFlags, UNCHANGED ownerFlags,
           \/ result' = result
           \/ \E q \in Procs, what \in {"response", "error"} : result' = [result EXCEPT ![q] = what]
    PROVE  FlagTypes'
<1>1. result' \in [Procs -> {"none", "response", "error"}]
  BY Zenon DEF FlagTypes
<1> QED
  BY <1>1, Zenon DEF FlagTypes, queryFlags, ownerFlags

\* The steps of a query keep the types of the flags.
LEMMA QueryFlags ==
    ASSUME MuxInv, FlagTypes, NEW q \in Procs, Exchange(q) \/ QueryStep(q)
    PROVE  FlagTypes'
<1>1. CASE \/ Exchange(q) \/ BeginAcquire(q) \/ AcquireGoesOn(q) \/ RegisterFails(q) \/ Refuse(q)
           \/ TakeContextDone(q) \/ Tail(q)
           \/ \E what \in {"response", "error"} : ExchangeSingle(q, what)
           \/ \E deadline \in BOOLEAN : CompleteContextDone(q, deadline)
  <2>1. /\ UNCHANGED queryFlags /\ UNCHANGED ownerFlags
        /\ \/ result' = result
           \/ \E what \in {"response", "error"} : result' = [result EXCEPT ![q] = what]
    BY <1>1, Zenon DEF Exchange, BeginAcquire, AcquireGoesOn, RegisterFails, Refuse, TakeContextDone,
           Tail, ExchangeSingle, CompleteContextDone, Callback, muxVars, queryVars, queryFlags, ownerFlags
  <2> QED
    BY <2>1, FlagsStay, Zenon
<1>2. CASE AcquireFails(q)
  <2>1. /\ UNCHANGED queryFlags /\ keepIdle' = keepIdle /\ setting' = setting /\ calls' = calls
        /\ result' = [result EXCEPT ![q] = "error"] /\ gaveUp' \in BOOLEAN
    BY <1>2, Zenon DEF AcquireFails, Callback, queryFlags
  <2>2. result' \in [Procs -> {"none", "response", "error"}]
    BY <2>1, Zenon DEF FlagTypes
  <2> QED
    BY <2>1, <2>2, Zenon DEF FlagTypes, queryFlags
<1>3. CASE Acquired(q)
  <2>1. /\ UNCHANGED <<first, mayRetry, retry, unread>> /\ UNCHANGED ownerFlags /\ result' = result
        /\ created' = [created EXCEPT ![q] = ~sharedClaimed]
    BY <1>3, Zenon DEF Acquired, ownerFlags
  <2>2. created' \in [Procs -> BOOLEAN]
    BY <2>1, Zenon DEF FlagTypes
  <2> QED
    BY <2>1, <2>2, Zenon DEF FlagTypes, ownerFlags
<1>4. CASE Register(q)
  <2>1. /\ UNCHANGED mayRetry /\ UNCHANGED ownerFlags /\ result' = result
        /\ created' = [created EXCEPT ![q] = FALSE] /\ first' = [first EXCEPT ![q] = TRUE]
        /\ retry' = [retry EXCEPT ![q] = mayRetry[q] /\ RetryReadError /\ ~created[q]]
        /\ unread' = [unread EXCEPT ![q] = TRUE]
    BY <1>4, Zenon DEF Register, ownerFlags
  <2>2. /\ created' \in [Procs -> BOOLEAN] /\ first' \in [Procs -> BOOLEAN]
        /\ retry' \in [Procs -> BOOLEAN] /\ unread' \in [Procs -> BOOLEAN]
    BY <2>1, Zenon DEF FlagTypes
  <2> QED
    BY <2>1, <2>2, Zenon DEF FlagTypes, ownerFlags
<1>5. CASE CompleteConnDone(q)
  <2>1. /\ UNCHANGED <<created, first, retry, unread>> /\ UNCHANGED ownerFlags
        /\ mayRetry' = mayRetry \/ mayRetry' = [mayRetry EXCEPT ![q] = FALSE]
        /\ result' = result \/ result' = [result EXCEPT ![q] = "error"]
    BY <1>5, Zenon DEF CompleteConnDone, Callback, ownerFlags
  <2>2. mayRetry' \in [Procs -> BOOLEAN] /\ result' \in [Procs -> {"none", "response", "error"}]
    BY <2>1, Zenon DEF FlagTypes
  <2> QED
    BY <2>1, <2>2, Zenon DEF FlagTypes, ownerFlags
<1> QED
  BY <1>1, <1>2, <1>3, <1>4, <1>5, Zenon DEF QueryStep

\* So do all the other steps.
LEMMA OtherFlags ==
    ASSUME MuxInv, FlagTypes, [MuxNext]_vars, \A q \in Procs : ~Exchange(q) /\ ~QueryStep(q)
    PROVE  FlagTypes'
<1>1. ASSUME NEW w \in writers, Write(w) \/ WriteFails(w) \/ WriteFailsLate(w) \/ AfterWriteFails(w)
      PROVE  FlagTypes'
  <2>q. w.q \in Procs
    BY Zenon DEF MuxInv, WriterShape
  <2>1. /\ UNCHANGED <<created, mayRetry, retry, unread>> /\ UNCHANGED ownerFlags
        /\ first' = first \/ first' = [first EXCEPT ![w.q] = FALSE]
        /\ result' = result \/ result' = [result EXCEPT ![w.q] = "error"]
    BY <1>1, Zenon DEF Write, WriteFails, WriteFailsLate, AfterWriteFails, Callback, queryVars, ownerFlags
  <2>2. first' \in [Procs -> BOOLEAN] /\ result' \in [Procs -> {"none", "response", "error"}]
    BY <2>q, <2>1, Zenon DEF FlagTypes
  <2> QED
    BY <2>1, <2>2, Zenon DEF FlagTypes, ownerFlags
<1>2. ASSUME NEW k \in Conns, RecvStep(k) PROVE FlagTypes'
  <2>1. ASSUME NEW s \in sent, RecvMessage(k, s) PROVE FlagTypes'
    <3>1. /\ UNCHANGED <<created, first, mayRetry, retry>> /\ UNCHANGED ownerFlags /\ result' = result
          /\ unread' = [q \in Procs |-> unread[q] /\ hold[q] # k]
      BY <2>1, Zenon DEF RecvMessage, ownerFlags
    <3>2. unread' \in [Procs -> BOOLEAN]
      BY <3>1, Zenon DEF FlagTypes
    <3> QED
      BY <3>1, <3>2, Zenon DEF FlagTypes, ownerFlags
  <2>2. CASE RecvTail(k) \/ RecvError(k) \/ \E q \in Procs : Complete(k, q)
    <3>1. /\ UNCHANGED queryFlags /\ UNCHANGED ownerFlags
          /\ \/ result' = result
             \/ \E q \in Procs, what \in {"response", "error"} : result' = [result EXCEPT ![q] = what]
      BY <2>2, Zenon DEF RecvTail, RecvError, Complete, Callback, queryVars, queryFlags, ownerFlags
    <3> QED
      BY <3>1, FlagsStay, Zenon
  <2> QED
    BY <1>2, <2>1, <2>2, Zenon DEF RecvStep
<1>3. ASSUME NEW keep \in BOOLEAN, SetKeepIdle(keep) PROVE FlagTypes'
  <2>1. /\ UNCHANGED queryFlags /\ result' = result /\ gaveUp' = gaveUp
        /\ keepIdle' \in BOOLEAN /\ setting' \in BOOLEAN /\ OwnerCalls
    BY <1>3, Zenon DEF SetKeepIdle, queryVars, queryFlags
  <2>2. calls' \in 0..MaxCalls
    BY <2>1, MuxAssumption DEF OwnerCalls, FlagTypes
  <2> QED
    BY <2>1, <2>2, Zenon DEF FlagTypes, queryFlags
<1>4. CASE SetKeepIdleCloses
  BY <1>4, Zenon DEF SetKeepIdleCloses, FlagTypes, queryVars
<1>5. CASE OwnerCallsPool
  <2>1. /\ UNCHANGED queryFlags /\ result' = result /\ gaveUp' = gaveUp
        /\ keepIdle' = keepIdle /\ setting' = setting /\ OwnerCalls
    BY <1>5, Zenon DEF OwnerCallsPool, queryVars, queryFlags
  <2>2. calls' \in 0..MaxCalls
    BY <2>1, MuxAssumption DEF OwnerCalls, FlagTypes
  <2> QED
    BY <2>1, <2>2, Zenon DEF FlagTypes, queryFlags
<1>6. CASE PoolAlone \/ UNCHANGED vars
  BY <1>6, Zenon DEF PoolAlone, vars, muxVars, queryVars, FlagTypes
<1> QED
  BY <1>1, <1>2, <1>3, <1>4, <1>5, <1>6, Zenon DEF MuxNext, WriteStep

\* What the retry has spent is nothing or the two attempts of a dispatch.
LEMMA SpentIsNat == ASSUME FlagTypes, NEW q \in Procs PROVE Spent(q) \in {0, 2}
  BY Zenon DEF FlagTypes, Spent

\* A writer and a request are of a query.
LEMMA WriterFields ==
    ASSUME WireTypes, NEW w \in writers
    PROVE  w.q \in Procs /\ w.n \in 1..MaxAttempts /\ w.k \in Conns /\ w.first \in BOOLEAN
  BY Zenon DEF WireTypes, Writers

\* The attempt bounds and the ranges behind them, one query and one writer at a time.
LEMMA Bounds ==
    ASSUME BoundInv
    PROVE  /\ \A q \in Procs : QueryBound(q) /\ att[q] \in 0..MaxAttempts
           /\ \A w \in writers : WriterBound(w) /\ w.q \in Procs /\ w.n \in 1..MaxAttempts
<1>1. \A q \in Procs : att[q] \in 0..MaxAttempts
  BY Zenon DEF BoundInv, WireTypes
<1> QED
  BY <1>1, WriterFields, Zenon DEF BoundInv, AttemptShape

\* What a query's mode may become without an attempt being made or given up.
Ended == {"refused", "responded", "ctxdone", "tail", "done"}
Onward(p) ==
    \/ mode'[p] = mode[p]
    \/ mode'[p] \in {"begin", "acquiring", "acquired"} /\ mode[p] \in {"new", "begin", "acquiring"}
    \/ mode'[p] = "writefailed" /\ mode[p] = "pending"
    \/ mode'[p] \in Ended

\* A step that makes no attempt and only moves queries onward keeps the bounds.
LEMMA AttemptsStay ==
    ASSUME BoundInv, att' = att, mayRetry' = mayRetry, first' = first, retry' = retry,
           writers' \subseteq writers, sent' \subseteq sent, \A p \in Procs : Onward(p)
    PROVE  WireTypes' /\ AttemptShape'
<1>1. WireTypes'
  BY Zenon DEF BoundInv, WireTypes
<1>2. ASSUME NEW q \in Procs
      PROVE  QueryBound(q)'
  <2>1. Spent(q)' = Spent(q)
    BY Zenon DEF Spent
  <2>2. Onward(q) /\ QueryBound(q)
    BY Bounds, Zenon
  <2> QED
    BY <2>1, <2>2, Zenon DEF QueryBound, Onward, Ended
<1>3. ASSUME NEW w \in writers'
      PROVE  WriterBound(w)'
  <2>1. w \in writers /\ w.q \in Procs
    BY WriterFields, Zenon DEF BoundInv
  <2>2. Spent(w.q)' = Spent(w.q)
    BY Zenon DEF Spent
  <2>3. Onward(w.q) /\ WriterBound(w)
    BY <2>1, Bounds, Zenon
  <2> QED
    BY <2>1, <2>2, <2>3, Zenon DEF WriterBound, Onward, Ended
<1> QED
  BY <1>1, <1>2, <1>3, Zenon DEF AttemptShape

\* One query's mode changes.
LEMMA OneOnward ==
    ASSUME MuxInv, NEW q \in Procs, NEW next, mode' = [mode EXCEPT ![q] = next],
           \/ next \in {"begin", "acquiring", "acquired"} /\ mode[q] \in {"new", "begin", "acquiring"}
           \/ next = "writefailed" /\ mode[q] = "pending"
           \/ next \in Ended
    PROVE  \A p \in Procs : Onward(p)
<1>1. \A p \in Procs : p # q => mode'[p] = mode[p]
  BY Zenon DEF MuxInv, MuxTypes
<1>2. mode'[q] = next
  BY Zenon DEF MuxInv, MuxTypes
<1> QED
  BY <1>1, <1>2, Zenon DEF Onward

\* register makes an attempt: the first of the dispatch, or the second.
LEMMA RegisterAttempt ==
    ASSUME MuxInv, BoundInv, NEW q \in Procs, Register(q)
    PROVE  WireTypes' /\ AttemptShape'
<1>1. /\ mode[q] = "acquired" /\ mode' = [mode EXCEPT ![q] = "pending"]
      /\ att' = [att EXCEPT ![q] = @ + 1]
      /\ retry' = [retry EXCEPT ![q] = mayRetry[q] /\ RetryReadError /\ ~created[q]]
      /\ first' = [first EXCEPT ![q] = TRUE]
      /\ mayRetry' = mayRetry /\ sent' = sent
  BY Zenon DEF Register, Goto
<1>2. PICK new : /\ writers' = writers \cup {new}
                 /\ new = [q |-> q, n |-> att[q] + 1, k |-> hold[q],
                            created |-> created[q], first |-> first[q]]
  BY ZenonT(30) DEF Register
<1>3. att[q] <= Spent(q) + (IF first[q] THEN 0 ELSE 1) /\ att[q] \in Nat
  <2>1. QueryBound(q) /\ mode[q] = "acquired" /\ att[q] \in 0..MaxAttempts
    BY <1>1, Bounds, Zenon
  <2>2. mode[q] \in {"new", "begin", "acquiring", "acquired"}
    BY <2>1, Zenon
  <2>3. att[q] <= Spent(q) + (IF first[q] THEN 0 ELSE 1)
    BY <2>1, <2>2, Zenon DEF QueryBound
  <2>4. att[q] \in Nat
    BY <2>1 DEF MaxAttempts
  <2> QED
    BY <2>3, <2>4, Zenon
<1>4. Spent(q) \in {0, 2}
  BY SpentIsNat, Zenon DEF BoundInv
<1>5. /\ att'[q] = att[q] + 1 /\ mode'[q] = "pending" /\ first'[q] = TRUE
      /\ retry'[q] => mayRetry[q]
      /\ \A p \in Procs : p # q => /\ att'[p] = att[p] /\ mode'[p] = mode[p]
                                   /\ first'[p] = first[p] /\ retry'[p] = retry[p]
  BY <1>1, Zenon DEF BoundInv, FlagTypes, WireTypes, MuxInv, MuxTypes
<1>6. (\A p : Spent(p)' = Spent(p)) /\ mayRetry' = mayRetry
  BY <1>1, Zenon DEF Spent
<1>7. WireTypes'
  <2>1. att' \in [Procs -> 0..MaxAttempts]
    <3>1. att[q] + 1 \in 0..MaxAttempts
      BY <1>3, <1>4 DEF MaxAttempts
    <3> QED
      BY <1>1, <3>1, ZenonT(30) DEF BoundInv, WireTypes
  <2>2. new \in Writers
    <3>1. hold[q] \in Conns
      BY <1>1, Zenon DEF MuxInv, QueryShape, Holding, Inv, TypeOK, CallTypes
    <3>2. att[q] + 1 \in 1..MaxAttempts
      BY <1>3, <1>4 DEF MaxAttempts
    <3>3. created[q] \in BOOLEAN /\ first[q] \in BOOLEAN
      BY Zenon DEF BoundInv, FlagTypes
    <3> QED
      BY <1>2, <3>1, <3>2, <3>3, Zenon DEF Writers
  <2> QED
    BY <1>1, <1>2, <2>1, <2>2, ZenonT(30) DEF BoundInv, WireTypes
<1>8. ASSUME NEW p \in Procs
      PROVE  QueryBound(p)'
  <2>1. CASE p = q
    <3>1. Spent(q)' = Spent(q) /\ (IF first[q] THEN 0 ELSE 1) \in {0, 1}
      BY <1>6, Zenon
    <3>2. att'[q] <= Spent(q)' + 2
      BY <1>3, <1>4, <1>5, <3>1, SMTT(30)
    <3>3. mode'[q] = "pending" /\ first'[q] /\ (retry'[q] => mayRetry'[q])
      BY <1>5, <1>6, Zenon
    <3> QED
      BY <2>1, <3>2, <3>3, ZenonT(30) DEF QueryBound
  <2>2. CASE p # q
    <3>1. QueryBound(p)
      BY Bounds, Zenon
    <3> QED
      BY <1>5, <1>6, <2>2, <3>1, ZenonT(30) DEF QueryBound
  <2> QED
    BY <2>1, <2>2, Zenon
<1>9. ASSUME NEW w \in writers'
      PROVE  WriterBound(w)'
  <2>1. CASE w \in writers /\ w.q = q
    <3>1. WriterBound(w) /\ w.n \in 1..MaxAttempts
      BY <2>1, Bounds, Zenon
    <3>2. w.n <= att[q] /\ w.n \in Int
      BY <2>1, <3>1 DEF WriterBound, MaxAttempts
    <3> QED
      BY <1>3, <1>5, <2>1, <3>2, SMTT(30) DEF WriterBound
  <2>2. CASE w \in writers /\ w.q # q
    <3>1. WriterBound(w) /\ w.q \in Procs
      BY <2>2, Bounds, Zenon
    <3> QED
      BY <1>5, <1>6, <2>2, <3>1, Zenon DEF WriterBound
  <2>3. CASE w = new
    <3>1. w.q = q /\ w.n = att[q] + 1 /\ w.first = first[q]
      BY <1>2, <2>3, ZenonT(30)
    <3> QED
      BY <1>3, <1>4, <1>5, <1>6, <3>1, SMTT(30) DEF WriterBound
  <2> QED
    BY <1>2, <2>1, <2>2, <2>3, ZenonT(30)
<1> QED
  BY <1>7, <1>8, <1>9, Zenon DEF AttemptShape

\* A read error starts the second dispatch, which the first one's attempts do
\* not count against; a failed write starts the second attempt of a dispatch.
LEMMA AnotherAttempt ==
    ASSUME MuxInv, BoundInv, NEW q \in Procs, mode' = [mode EXCEPT ![q] = "begin"],
           att' = att, retry' = retry, writers' \subseteq writers, sent' = sent,
           \/ /\ mode[q] = "pending" /\ retry[q]
              /\ mayRetry' = [mayRetry EXCEPT ![q] = FALSE] /\ first' = first
           \/ /\ att[q] <= Spent(q) + 1
              /\ first' = [first EXCEPT ![q] = FALSE] /\ mayRetry' = mayRetry
    PROVE  WireTypes' /\ AttemptShape'
<1>1. WireTypes'
  BY Zenon DEF BoundInv, WireTypes
<1>2. /\ mode'[q] = "begin"
      /\ \A p \in Procs : p # q => mode'[p] = mode[p] /\ first'[p] = first[p] /\ mayRetry'[p] = mayRetry[p]
  BY Zenon DEF MuxInv, MuxTypes, BoundInv, FlagTypes
<1>3. \A p \in Procs : p # q => Spent(p)' = Spent(p)
  BY <1>2, Zenon DEF Spent
<1>4. att[q] <= Spent(q)' + 2 /\ att[q] <= Spent(q)' + (IF first'[q] THEN 0 ELSE 1)
  <2>1. CASE mode[q] = "pending" /\ retry[q] /\ mayRetry' = [mayRetry EXCEPT ![q] = FALSE] /\ first' = first
    <3>0. QueryBound(q)
      BY Bounds, Zenon
    <3>1. Spent(q) = 0 /\ first[q] /\ att[q] <= 2
      BY <2>1, <3>0 DEF QueryBound, Spent
    <3>2. ~mayRetry'[q]
      BY <2>1, Zenon DEF BoundInv, FlagTypes
    <3>3. Spent(q)' = 2
      BY <3>2, Zenon DEF Spent
    <3>4. att[q] \in 0..MaxAttempts
      BY Bounds, Zenon
    <3> QED
      BY <2>1, <3>1, <3>3, <3>4, SMTT(30) DEF MaxAttempts
  <2>2. CASE att[q] <= Spent(q) + 1 /\ first' = [first EXCEPT ![q] = FALSE] /\ mayRetry' = mayRetry
    <3>1. Spent(q)' = Spent(q)
      BY <2>2, Zenon DEF Spent
    <3>2. ~first'[q]
      BY <2>2, Zenon DEF BoundInv, FlagTypes
    <3>3. Spent(q) \in {0, 2} /\ att[q] \in Nat
      BY SpentIsNat, Bounds DEF BoundInv, MaxAttempts
    <3> QED
      BY <2>2, <3>1, <3>2, <3>3, SMTT(30)
  <2> QED
    BY <2>1, <2>2, Zenon
<1>5. ASSUME NEW p \in Procs
      PROVE  QueryBound(p)'
  <2>1. CASE p = q
    BY <1>2, <1>4, <2>1, Zenon DEF QueryBound
  <2>2. CASE p # q
    <3>1. QueryBound(p)
      BY Bounds, ZenonT(30)
    <3> QED
      BY <1>2, <1>3, <2>2, <3>1, ZenonT(30) DEF QueryBound
  <2> QED
    BY <2>1, <2>2, Zenon
<1>6. ASSUME NEW w \in writers'
      PROVE  WriterBound(w)'
  <2>1. w.q \in Procs /\ WriterBound(w)
    BY Bounds, Zenon
  <2>2. CASE w.q = q
    BY <1>2, <2>1, <2>2, Zenon DEF WriterBound
  <2>3. CASE w.q # q
    BY <1>2, <1>3, <2>1, <2>3, Zenon DEF WriterBound
  <2> QED
    BY <2>2, <2>3, Zenon
<1> QED
  BY <1>1, <1>5, <1>6, ZenonT(30) DEF AttemptShape

\* The steps of a query keep the bounds on its attempts.
LEMMA QueryAttempts ==
    ASSUME MuxInv, BoundInv, NEW q \in Procs, Exchange(q) \/ QueryStep(q)
    PROVE  WireTypes' /\ AttemptShape'
<1>1. CASE Register(q)
  BY <1>1, RegisterAttempt, Zenon
<1>2. CASE AcquireGoesOn(q)
  <2>1. /\ att' = att /\ mayRetry' = mayRetry /\ first' = first /\ retry' = retry
        /\ writers' = writers /\ sent' = sent /\ mode' = mode
    BY <1>2, Zenon DEF AcquireGoesOn, muxVars, queryVars
  <2> QED
    BY <2>1, AttemptsStay, Zenon DEF Onward
<1>3. CASE CompleteConnDone(q) /\ retry[q] /\ cause[hold[q]] = "read"
  BY <1>3, AnotherAttempt, ZenonT(30) DEF CompleteConnDone, Goto
<1>4. CASE CompleteConnDone(q) /\ ~(retry[q] /\ cause[hold[q]] = "read")
  BY <1>4, OneOnward, AttemptsStay, ZenonT(30) DEF CompleteConnDone, Goto, Ended
<1>5. CASE Exchange(q) \/ BeginAcquire(q) \/ Acquired(q)
  <2>1. /\ att' = att /\ mayRetry' = mayRetry /\ first' = first /\ retry' = retry
        /\ writers' = writers /\ sent' = sent
    BY <1>5, Zenon DEF Exchange, BeginAcquire, Acquired
  <2>2. \A p \in Procs : Onward(p)
    BY <1>5, OneOnward, Zenon DEF Exchange, BeginAcquire, Acquired, Goto
  <2> QED
    BY <2>1, <2>2, AttemptsStay, Zenon
<1>6. CASE \/ AcquireFails(q) \/ RegisterFails(q) \/ Refuse(q) \/ TakeContextDone(q) \/ Tail(q)
           \/ \E what \in {"response", "error"} : ExchangeSingle(q, what)
           \/ \E deadline \in BOOLEAN : CompleteContextDone(q, deadline)
  <2>1. /\ att' = att /\ mayRetry' = mayRetry /\ first' = first /\ retry' = retry
        /\ writers' = writers /\ sent' = sent
    BY <1>6, Zenon DEF AcquireFails, RegisterFails, Refuse, TakeContextDone, Tail, ExchangeSingle,
           CompleteContextDone
  <2>2. \E next \in Ended : mode' = [mode EXCEPT ![q] = next]
    BY <1>6, Zenon DEF AcquireFails, RegisterFails, Refuse, TakeContextDone, Tail, ExchangeSingle,
           CompleteContextDone, Goto, Ended
  <2> QED
    BY <2>1, <2>2, OneOnward, AttemptsStay, Zenon
<1> QED
  BY <1>1, <1>2, <1>3, <1>4, <1>5, <1>6, Zenon DEF QueryStep

\* The steps of a writer keep the bounds.
LEMMA WriteAttempts ==
    ASSUME MuxInv, BoundInv, NEW w \in writers,
           Write(w) \/ WriteFails(w) \/ WriteFailsLate(w) \/ AfterWriteFails(w)
    PROVE  WireTypes' /\ AttemptShape'
<1>w. w.q \in Procs /\ w.n \in 1..MaxAttempts /\ w.k \in Conns
  BY WriterFields, Zenon DEF BoundInv
<1>1. CASE Write(w)
  <2>1. /\ att' = att /\ mayRetry' = mayRetry /\ first' = first /\ retry' = retry /\ mode' = mode
        /\ writers' = writers \ {w} /\ sent' = sent \cup {[q |-> w.q, n |-> w.n, k |-> w.k]}
    BY <1>1, Zenon DEF Write, queryVars
  <2>2. WireTypes'
    <3>1. [q |-> w.q, n |-> w.n, k |-> w.k] \in Requests
      BY <1>w, ZenonT(30) DEF Requests
    <3>2. att \in [Procs -> 0..MaxAttempts] /\ writers \subseteq Writers /\ sent \subseteq Requests
      BY Zenon DEF BoundInv, WireTypes
    <3> QED
      BY <2>1, <3>1, <3>2, Zenon DEF WireTypes
  <2>3. AttemptShape'
    <3>1. \A p : QueryBound(p)' <=> QueryBound(p)
      BY <2>1, Zenon DEF QueryBound, Spent
    <3>2. \A v : WriterBound(v)' <=> WriterBound(v)
      BY <2>1, Zenon DEF WriterBound, Spent
    <3> QED
      BY <2>1, <3>1, <3>2, Bounds, Zenon DEF AttemptShape
  <2> QED
    BY <2>2, <2>3, Zenon
<1>2. CASE WriteFailsLate(w)
  <2>1. /\ att' = att /\ mayRetry' = mayRetry /\ first' = first /\ retry' = retry /\ mode' = mode
        /\ writers' = writers \ {w} /\ sent' = sent
    BY <1>2, Zenon DEF WriteFailsLate, queryVars
  <2> QED
    BY <2>1, AttemptsStay, Zenon DEF Onward
<1>3. CASE WriteFails(w)
  <2>1. /\ att' = att /\ mayRetry' = mayRetry /\ first' = first /\ retry' = retry
        /\ writers' = writers /\ sent' = sent
        /\ mode[w.q] = "pending" /\ mode' = [mode EXCEPT ![w.q] = "writefailed"]
    BY <1>3, Zenon DEF WriteFails, Takes, Goto
  <2> QED
    BY <1>w, <2>1, OneOnward, AttemptsStay, ZenonT(30)
<1>4. CASE AfterWriteFails(w)
  <2>1. /\ att' = att /\ mayRetry' = mayRetry /\ retry' = retry
        /\ writers' = writers \ {w} /\ sent' = sent
        /\ mode[w.q] = "writefailed" /\ att[w.q] = w.n
        /\ \/ /\ w.first /\ mode' = [mode EXCEPT ![w.q] = "begin"]
              /\ first' = [first EXCEPT ![w.q] = FALSE]
           \/ mode' = [mode EXCEPT ![w.q] = "done"] /\ first' = first
    BY <1>4, Zenon DEF AfterWriteFails, TookOwn, Goto
  <2>2. w.first => att[w.q] <= Spent(w.q) + 1
    BY <2>1, Bounds, ZenonT(30) DEF WriterBound
  <2>3. CASE w.first /\ mode' = [mode EXCEPT ![w.q] = "begin"] /\ first' = [first EXCEPT ![w.q] = FALSE]
    BY <1>w, <2>1, <2>2, <2>3, AnotherAttempt, ZenonT(30)
  <2>4. CASE mode' = [mode EXCEPT ![w.q] = "done"] /\ first' = first
    BY <1>w, <2>1, <2>4, OneOnward, AttemptsStay, ZenonT(30) DEF Ended
  <2> QED
    BY <2>1, <2>3, <2>4, Zenon
<1> QED
  BY <1>1, <1>2, <1>3, <1>4, Zenon

\* Every step keeps BoundInv.
LEMMA BoundStep ==
    ASSUME MuxInv, BoundInv, [MuxNext]_vars
    PROVE  BoundInv'
<1>f. FlagTypes'
  BY QueryFlags, OtherFlags, Zenon DEF BoundInv
<1>1. ASSUME NEW q \in Procs, Exchange(q) \/ QueryStep(q) PROVE WireTypes' /\ AttemptShape'
  BY <1>1, QueryAttempts, Zenon
<1>2. ASSUME NEW q \in Procs, WriteStep(q) PROVE WireTypes' /\ AttemptShape'
  BY <1>2, WriteAttempts, Zenon DEF WriteStep
<1>3. ASSUME NEW k \in Conns, NEW s \in sent, RecvMessage(k, s) PROVE WireTypes' /\ AttemptShape'
  <2>1. /\ att' = att /\ mayRetry' = mayRetry /\ first' = first /\ retry' = retry
        /\ writers' = writers /\ sent' \subseteq sent
    BY <1>3, Zenon DEF RecvMessage
  <2>2. \A p \in Procs : Onward(p)
    <3>1. CASE Takes(s.q, s.n)
      <4>1. s.q \in Procs
        BY Zenon DEF MuxInv, WriterShape
      <4> QED
        BY <1>3, <3>1, <4>1, OneOnward, Zenon DEF RecvMessage, Goto, Ended
    <3>2. CASE ~Takes(s.q, s.n)
      BY <1>3, <3>2, ZenonT(30) DEF RecvMessage, Onward
    <3> QED
      BY <3>1, <3>2, Zenon
  <2> QED
    BY <2>1, <2>2, AttemptsStay, Zenon
<1>4. ASSUME NEW k \in Conns, NEW q \in Procs, Complete(k, q) PROVE WireTypes' /\ AttemptShape'
  <2>1. /\ att' = att /\ mayRetry' = mayRetry /\ first' = first /\ retry' = retry
        /\ writers' = writers /\ sent' = sent /\ mode' = [mode EXCEPT ![q] = "done"]
    BY <1>4, Zenon DEF Complete, Goto
  <2> QED
    BY <2>1, OneOnward, AttemptsStay, Zenon DEF Ended
<1>5. CASE \/ \E k \in Conns : RecvTail(k) \/ RecvError(k)
           \/ \E keep \in BOOLEAN : SetKeepIdle(keep)
           \/ SetKeepIdleCloses \/ OwnerCallsPool \/ PoolAlone \/ UNCHANGED vars
  <2>1. /\ att' = att /\ mayRetry' = mayRetry /\ first' = first /\ retry' = retry
        /\ writers' = writers /\ sent' = sent /\ mode' = mode
    BY <1>5, Zenon DEF RecvTail, RecvError, SetKeepIdle, SetKeepIdleCloses, OwnerCallsPool, PoolAlone,
           vars, muxVars, queryVars
  <2>2. \A p \in Procs : Onward(p)
    BY <2>1, Zenon DEF Onward
  <2> QED
    BY <1>f, <2>1, <2>2, AttemptsStay, Zenon DEF BoundInv
<1> QED
  BY <1>f, <1>1, <1>2, <1>3, <1>4, <1>5, Zenon DEF BoundInv, MuxNext, RecvStep

\* The variables keep to their values, in particular att: exchangeAsync writes
\* a query at most four times, however reads, writes and dials fail, since
\* firstAttempt and retryReadError are each given up once per dispatch.
THEOREM MuxTypeCorrect == MuxSafety => []MuxTypeOK
<1>1. MuxInit => BoundInv
  <2> SUFFICES ASSUME MuxInit PROVE BoundInv
    OBVIOUS
  <2>1. FlagTypes
    <3>1. calls \in 0..MaxCalls
      BY MuxAssumption DEF MuxInit
    <3>2. keepIdle \in BOOLEAN /\ setting \in BOOLEAN /\ gaveUp \in BOOLEAN
      BY Zenon DEF MuxInit
    <3> QED
      BY <3>1, <3>2, Zenon DEF MuxInit, FlagTypes
  <2>2. WireTypes
    BY DEF MuxInit, WireTypes, MaxAttempts
  <2>3. AttemptShape
    BY DEF MuxInit, AttemptShape, QueryBound, WriterBound, Spent
  <2> QED
    BY <2>1, <2>2, <2>3, Zenon DEF BoundInv
<1>2. MuxInv /\ BoundInv /\ [MuxNext]_vars => BoundInv'
  BY BoundStep, Zenon
<1>3. MuxInv /\ BoundInv => MuxTypeOK
  BY Zenon DEF MuxInv, Inv, MuxTypes, BoundInv, FlagTypes, WireTypes, Requests, MuxTypeOK
<1> QED
  BY <1>1, <1>2, <1>3, MuxInvariant, PTL DEF MuxSafety
=============================================================================
