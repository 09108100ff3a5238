---------------------------- MODULE Multiplexer -----------------------------
(***************************************************************************)
(* queryMultiplexer (dns/transport/multiplexer.go): DNS queries that share *)
(* one connection of a ConnPool.  A query acquires the connection,         *)
(* registers under a fresh id, writes, and is completed by whoever takes   *)
(* it out of m.queries first: the receive loop (complete), its own context *)
(* (completeContextDone), the connection's context (completeConnDone) or   *)
(* its own failed write.  It is registered again, under another id, after  *)
(* a failed write or a read error on a reused connection.                  *)
(*                                                                         *)
(* Every action either is an action of the pool or leaves the pool alone.  *)
(* IsAlive is always true here, so connections do not die silently (Dies). *)
(*                                                                         *)
(* The id of a registration is the pair of the query and a number: an id   *)
(* is not used again while anything still refers to its previous use,      *)
(* which 65536 ids make the normal case.  MaxPending is the number of ids. *)
(***************************************************************************)
EXTENDS ConnPool

CONSTANTS
    MaxCalls,       \* bound on the calls of the transport's owner
    MaxPending,     \* how many queries can be registered at once
    RetryReadError, \* options.retryReadError
    ProbeReuse      \* options.probeReuse

ASSUME MuxAssumption == /\ MaxCalls \in Nat /\ MaxPending \in Nat
                        /\ RetryReadError \in BOOLEAN /\ ProbeReuse \in BOOLEAN

VARIABLES
    mode,       \* where a query is
    att,        \* how often a query was registered: the current or last id
    created,    \* AcquireShared told this query to start the receive loop
    first,      \* firstAttempt
    mayRetry,   \* the argument retryReadError
    retry,      \* pending.retryCtx # nil
    unread,     \* pending.readEpoch = conn.readEpoch: nothing read since
    writers,    \* exchangeAsync goroutines that have registered and not yet returned
    sent,       \* requests on the wire
    recv,       \* the receive loop of a connection
    keepIdle,
    setting,    \* SetKeepIdleConnections has stored and not yet closed
    calls,      \* the owner's calls so far
    gaveUp,     \* history: a query stopped waiting for a connection with an error
    answers,    \* history: how often the callback was called
    result      \* history: what it was called with

queryVars == <<mode, att, created, first, mayRetry, retry, unread>>
muxVars == <<queryVars, writers, sent, recv, keepIdle, setting, calls, gaveUp, answers, result>>
vars == <<poolVars, muxVars>>

MaxAttempts == 4
Modes == {"new", "begin", "acquiring", "acquired", "refused", "pending",
          "responded", "ctxdone", "writefailed", "tail", "done"}
Writers == [q : Procs, n : 1..MaxAttempts, k : Conns, created : BOOLEAN, first : BOOLEAN]

MuxInit ==
    /\ PoolInit
    /\ mode = [q \in Procs |-> "new"]
    /\ att = [q \in Procs |-> 0]
    /\ created = [q \in Procs |-> FALSE]
    /\ first = [q \in Procs |-> TRUE]
    /\ mayRetry = [q \in Procs |-> TRUE]
    /\ retry = [q \in Procs |-> FALSE]
    /\ unread = [q \in Procs |-> FALSE]
    /\ writers = {} /\ sent = {}
    /\ recv = [k \in Conns |-> "none"]
    /\ keepIdle = TRUE /\ setting = FALSE /\ calls = 0 /\ gaveUp = FALSE
    /\ answers = [q \in Procs |-> 0]
    /\ result = [q \in Procs |-> "none"]

-----------------------------------------------------------------------------
(***************************************************************************)
(* Small pieces.                                                           *)
(***************************************************************************)

Goto(q, m) == mode' = [mode EXCEPT ![q] = m]

\* pending.callback(response, err)
Callback(q, what) ==
    /\ answers' = [answers EXCEPT ![q] = @ + 1]
    /\ result' = [result EXCEPT ![q] = what]

\* Whether CloseIdle would close the connection.
PoolIsIdle == ~closed /\ shared # NoConn /\ sharedUsers = 0 /\ sharedWaiters = 0

CloseIdleConnection ==
    \/ ~keepIdle /\ CloseIdle
    \/ (keepIdle \/ ~PoolIsIdle) /\ UNCHANGED poolVars

Pending == {q \in Procs : mode[q] = "pending"}

-----------------------------------------------------------------------------
(***************************************************************************)
(* dispatch and exchangeAsync.                                             *)
(***************************************************************************)

\* ExchangeAsync is called.
Exchange(q) ==
    /\ mode[q] = "new"
    /\ Goto(q, "begin")
    /\ UNCHANGED <<poolVars, att, created, first, mayRetry, retry, unread, writers, sent, recv,
                   keepIdle, setting, calls, gaveUp, answers, result>>

\* dispatch, when reuse is not known to be supported: a connection of its own.
ExchangeSingle(q, what) ==
    /\ ProbeReuse /\ mode[q] = "begin" /\ first[q]
    /\ Goto(q, "done")
    /\ Callback(q, what)
    /\ UNCHANGED <<poolVars, att, created, first, mayRetry, retry, unread, writers, sent, recv,
                   keepIdle, setting, calls, gaveUp>>

\* The head of exchangeAsync's loop.
BeginAcquire(q) ==
    /\ mode[q] = "begin"
    /\ Goto(q, "acquiring")
    /\ Call(q)
    /\ UNCHANGED <<att, created, first, mayRetry, retry, unread, writers, sent, recv,
                   keepIdle, setting, calls, gaveUp, answers, result>>

\* AcquireShared goes on inside the pool.
AcquireGoesOn(q) ==
    /\ mode[q] = "acquiring"
    /\ \/ AcquireJoin(q) \/ AcquireDial(q) \/ CollectRetries(q)
       \/ WaitReset(q) /\ ~closed
    /\ UNCHANGED muxVars

\* AcquireShared returns an error, at once or after waiting.
AcquireFails(q) ==
    /\ mode[q] = "acquiring"
    /\ \/ AcquireClosed(q) \/ CollectFails(q) \/ WaitCancelled(q)
       \/ WaitReset(q) /\ closed
    /\ gaveUp' = (gaveUp \/ pc[q] = "wait")
    /\ Goto(q, "done")
    /\ Callback(q, "error")
    /\ UNCHANGED <<att, created, first, mayRetry, retry, unread, writers, sent, recv,
                   keepIdle, setting, calls>>

\* Mutant: the goroutine that gets a new connection does not start its recvLoop.
Acquired_NoLoop(q) ==
    /\ mode[q] = "acquiring"
    /\ AcquireHit(q) \/ CollectShared(q)
    /\ Goto(q, "acquired")
    /\ created' = [created EXCEPT ![q] = ~sharedClaimed]
    /\ UNCHANGED <<att, first, mayRetry, retry, unread, writers, sent, recv,
                   keepIdle, setting, calls, gaveUp, answers, result>>

\* AcquireShared returns a connection; the first to get it starts its recvLoop.
Acquired(q) ==
    /\ mode[q] = "acquiring"
    /\ AcquireHit(q) \/ CollectShared(q)
    /\ Goto(q, "acquired")
    /\ created' = [created EXCEPT ![q] = ~sharedClaimed]
    /\ recv' = IF sharedClaimed THEN recv ELSE [recv EXCEPT ![shared] = "reading"]
    /\ UNCHANGED <<att, first, mayRetry, retry, unread, writers, sent,
                   keepIdle, setting, calls, gaveUp, answers, result>>

\* register, and the goroutine, to which created and firstAttempt are local,
\* goes on to write.
Register(q) ==
    /\ mode[q] = "acquired"
    /\ Cardinality(Pending) < MaxPending
    /\ Goto(q, "pending")
    /\ att' = [att EXCEPT ![q] = @ + 1]
    /\ retry' = [retry EXCEPT ![q] = mayRetry[q] /\ RetryReadError /\ ~created[q]]
    /\ unread' = [unread EXCEPT ![q] = TRUE]
    /\ writers' = writers \cup {[q |-> q, n |-> att[q] + 1, k |-> hold[q],
                                 created |-> created[q], first |-> first[q]]}
    /\ created' = [created EXCEPT ![q] = FALSE] /\ first' = [first EXCEPT ![q] = TRUE]
    /\ UNCHANGED <<poolVars, mayRetry, sent, recv, keepIdle, setting, calls, gaveUp,
                   answers, result>>

\* register finds no id; Release.
RegisterFails(q) ==
    /\ mode[q] = "acquired"
    /\ Cardinality(Pending) >= MaxPending
    /\ Release(q, TRUE)
    /\ Goto(q, "refused")
    /\ UNCHANGED <<att, created, first, mayRetry, retry, unread, writers, sent, recv,
                   keepIdle, setting, calls, gaveUp, answers, result>>

\* ... then closeIdleConnection and the callback.
Refuse(q) ==
    /\ mode[q] = "refused"
    /\ CloseIdleConnection
    /\ Goto(q, "done")
    /\ Callback(q, "error")
    /\ UNCHANGED <<att, created, first, mayRetry, retry, unread, writers, sent, recv,
                   keepIdle, setting, calls, gaveUp>>

-----------------------------------------------------------------------------
(***************************************************************************)
(* The write.  take(queryId) finds the query only if it is still           *)
(* registered under the id this goroutine was given.                       *)
(***************************************************************************)
Takes(q, n) == mode[q] = "pending" /\ att[q] = n

\* The goroutine's own write failed and it took its query.
TookOwn(w) == mode[w.q] = "writefailed" /\ att[w.q] = w.n

Write(w) ==
    /\ w \in writers /\ ~TookOwn(w) /\ conn[w.k] = "open"
    /\ writers' = writers \ {w}
    /\ sent' = sent \cup {[q |-> w.q, n |-> w.n, k |-> w.k]}
    /\ UNCHANGED <<poolVars, queryVars, recv, keepIdle, setting, calls, gaveUp, answers, result>>

\* Mutant: the result of take is not looked at before the callback.
WriteFailsLate_Answers(w) ==
    /\ w \in writers /\ ~TookOwn(w) /\ ~Takes(w.q, w.n)
    /\ Invalidate(w.k, "other")
    /\ writers' = writers \ {w}
    /\ Callback(w.q, "error")
    /\ UNCHANGED <<queryVars, sent, recv, keepIdle, setting, calls, gaveUp>>

\* The write fails after somebody else completed the query: only Invalidate.
WriteFailsLate(w) ==
    /\ w \in writers /\ ~TookOwn(w) /\ ~Takes(w.q, w.n)
    /\ Invalidate(w.k, "other")
    /\ writers' = writers \ {w}
    /\ UNCHANGED <<queryVars, sent, recv, keepIdle, setting, calls, gaveUp, answers, result>>

WriteFails(w) ==
    /\ w \in writers /\ Takes(w.q, w.n)
    /\ Goto(w.q, "writefailed")
    /\ UNCHANGED <<poolVars, att, created, first, mayRetry, retry, unread, writers, sent, recv,
                   keepIdle, setting, calls, gaveUp, answers, result>>

\* Invalidate, then another attempt or the callback.
AfterWriteFails(w) ==
    /\ w \in writers /\ TookOwn(w)
    /\ InvalidateHeld(w.q, "other")
    /\ writers' = writers \ {w}
    /\ \/ /\ ~w.created /\ w.first
          /\ Goto(w.q, "begin")
          /\ first' = [first EXCEPT ![w.q] = FALSE]
          /\ UNCHANGED <<answers, result>>
       \/ /\ w.created \/ ~w.first
          /\ Goto(w.q, "done")
          /\ Callback(w.q, "error")
          /\ UNCHANGED first
    /\ UNCHANGED <<att, created, mayRetry, retry, unread, sent, recv, keepIdle, setting, calls, gaveUp>>

-----------------------------------------------------------------------------
(***************************************************************************)
(* The three other ways a query is completed.                              *)
(***************************************************************************)

\* Mutant: a query that may not be retried after a read error is dropped.
CompleteConnDone_Drops(q) ==
    /\ mode[q] = "pending"
    /\ Abandon(q)
    /\ \/ /\ retry[q] /\ cause[hold[q]] = "read"
          /\ Goto(q, "begin")
          /\ mayRetry' = [mayRetry EXCEPT ![q] = FALSE]
       \/ /\ ~(retry[q] /\ cause[hold[q]] = "read")
          /\ Goto(q, "done")
          /\ UNCHANGED mayRetry
    /\ UNCHANGED <<att, created, first, retry, unread, writers, sent, recv,
                   keepIdle, setting, calls, gaveUp, answers, result>>

\* completeConnDone: the pool gave the connection up.
CompleteConnDone(q) ==
    /\ mode[q] = "pending"
    /\ Abandon(q)
    /\ \/ /\ retry[q] /\ cause[hold[q]] = "read"
          /\ Goto(q, "begin")
          /\ mayRetry' = [mayRetry EXCEPT ![q] = FALSE]
          /\ UNCHANGED <<answers, result>>
       \/ /\ ~(retry[q] /\ cause[hold[q]] = "read")
          /\ Goto(q, "done")
          /\ Callback(q, "error")
          /\ UNCHANGED mayRetry
    /\ UNCHANGED <<att, created, first, retry, unread, writers, sent, recv, keepIdle, setting, calls, gaveUp>>

\* completeContextDone: take,
TakeContextDone(q) ==
    /\ mode[q] = "pending" /\ ctx[q] = "done"
    /\ Goto(q, "ctxdone")
    /\ UNCHANGED <<poolVars, att, created, first, mayRetry, retry, unread, writers, sent, recv,
                   keepIdle, setting, calls, gaveUp, answers, result>>

\* then Invalidate (a deadline passed and nothing was read) or Release, and
\* the callback.
CompleteContextDone(q, deadline) ==
    /\ mode[q] = "ctxdone"
    /\ IF deadline /\ unread[q] THEN InvalidateHeld(q, "other") ELSE Release(q, TRUE)
    /\ Goto(q, "tail")
    /\ Callback(q, "error")
    /\ UNCHANGED <<att, created, first, mayRetry, retry, unread, writers, sent, recv,
                   keepIdle, setting, calls, gaveUp>>

Tail(q) ==
    /\ mode[q] = "tail"
    /\ CloseIdleConnection
    /\ Goto(q, "done")
    /\ UNCHANGED <<att, created, first, mayRetry, retry, unread, writers, sent, recv,
                   keepIdle, setting, calls, gaveUp, answers, result>>

\* recvLoop reads a response: readEpoch moves, and take.
RecvMessage(k, s) ==
    /\ recv[k] = "reading" /\ conn[k] = "open"
    /\ s \in sent /\ s.k = k
    /\ sent' = sent \ {s}
    /\ unread' = [q \in Procs |-> unread[q] /\ hold[q] # k]
    /\ IF Takes(s.q, s.n)
       THEN Goto(s.q, "responded") /\ recv' = [recv EXCEPT ![k] = "respond"]
       ELSE UNCHANGED <<mode, recv>>
    /\ UNCHANGED <<poolVars, att, created, first, mayRetry, retry, writers,
                   keepIdle, setting, calls, gaveUp, answers, result>>

\* Mutant: the connection of an answered query is not released.
Complete_KeepsConn(k, q) ==
    /\ recv[k] = "respond" /\ mode[q] = "responded" /\ hold[q] = k
    /\ Goto(q, "done")
    /\ Callback(q, "response")
    /\ recv' = [recv EXCEPT ![k] = "tail"]
    /\ UNCHANGED <<poolVars, att, created, first, mayRetry, retry, unread, writers, sent,
                   keepIdle, setting, calls, gaveUp>>

\* complete: Release and the callback,
Complete(k, q) ==
    /\ recv[k] = "respond" /\ mode[q] = "responded" /\ hold[q] = k
    /\ Release(q, TRUE)
    /\ Goto(q, "done")
    /\ Callback(q, "response")
    /\ recv' = [recv EXCEPT ![k] = "tail"]
    /\ UNCHANGED <<att, created, first, mayRetry, retry, unread, writers, sent,
                   keepIdle, setting, calls, gaveUp>>

\* Mutant: complete does not call closeIdleConnection.
RecvTail_NoClose(k) ==
    /\ recv[k] = "tail"
    /\ recv' = [recv EXCEPT ![k] = "reading"]
    /\ UNCHANGED <<poolVars, queryVars, writers, sent, keepIdle, setting, calls, gaveUp,
                   answers, result>>

\* then closeIdleConnection, and the loop goes on.
RecvTail(k) ==
    /\ recv[k] = "tail"
    /\ CloseIdleConnection
    /\ recv' = [recv EXCEPT ![k] = "reading"]
    /\ UNCHANGED <<queryVars, writers, sent, keepIdle, setting, calls, gaveUp, answers, result>>

\* readNext fails: the peer closed the connection, or the pool did.
RecvError(k) ==
    /\ recv[k] = "reading"
    /\ Invalidate(k, "read")
    /\ recv' = [recv EXCEPT ![k] = "ended"]
    /\ UNCHANGED <<queryVars, writers, sent, keepIdle, setting, calls, gaveUp, answers, result>>

-----------------------------------------------------------------------------
(***************************************************************************)
(* The owner of the transport.                                             *)
(***************************************************************************)

OwnerCalls == calls < MaxCalls /\ calls' = calls + 1

\* SetKeepIdleConnections stores, then closes.
SetKeepIdle(keep) ==
    /\ OwnerCalls
    /\ ~setting /\ keepIdle # keep
    /\ keepIdle' = keep /\ setting' = TRUE
    /\ UNCHANGED <<poolVars, queryVars, writers, sent, recv, gaveUp, answers, result>>

SetKeepIdleCloses ==
    /\ setting
    /\ CloseIdleConnection
    /\ setting' = FALSE
    /\ UNCHANGED <<queryVars, writers, sent, recv, keepIdle, calls, gaveUp, answers, result>>

\* CloseIdleConnections, Reset and Close go straight to the pool.
OwnerCallsPool ==
    /\ OwnerCalls
    /\ CloseIdle \/ Reset \/ Close
    /\ UNCHANGED <<queryVars, writers, sent, recv, keepIdle, setting, gaveUp, answers, result>>

\* The pool's goroutines and the callers' contexts.
PoolAlone ==
    /\ \/ \E q \in Procs : CtxDone(q)
       \/ \E k \in Conns : DialStep(k)
       \/ \E g \in Gens : CancelState(g) \/ CloseState(g)
    /\ UNCHANGED muxVars

-----------------------------------------------------------------------------
QueryStep(q) ==
    \/ \E what \in {"response", "error"} : ExchangeSingle(q, what)
    \/ BeginAcquire(q) \/ AcquireGoesOn(q) \/ AcquireFails(q) \/ Acquired(q)
    \/ Register(q) \/ RegisterFails(q) \/ Refuse(q)
    \/ TakeContextDone(q) \/ CompleteConnDone(q) \/ Tail(q)
    \/ \E deadline \in BOOLEAN : CompleteContextDone(q, deadline)

WriteStep(q) ==
    \E w \in writers : w.q = q /\ (Write(w) \/ WriteFails(w) \/ WriteFailsLate(w) \/ AfterWriteFails(w))

RecvStep(k) ==
    \/ \E s \in sent : RecvMessage(k, s)
    \/ \E q \in Procs : Complete(k, q)
    \/ RecvTail(k) \/ RecvError(k)

MuxNext ==
    \/ \E q \in Procs : Exchange(q) \/ QueryStep(q) \/ WriteStep(q)
    \/ \E k \in Conns : RecvStep(k)
    \/ \E keep \in BOOLEAN : SetKeepIdle(keep)
    \/ SetKeepIdleCloses \/ OwnerCallsPool
    \/ PoolAlone

\* Goroutines that can run do; every query's context has a deadline; a read on
\* a connection the pool closed returns.
MuxFairness ==
    /\ \A q \in Procs : /\ WF_vars(QueryStep(q)) /\ WF_vars(WriteStep(q))
                        /\ WF_vars(CtxDone(q) /\ UNCHANGED muxVars)
    /\ \A k \in Conns : /\ WF_vars(DialStep(k) /\ UNCHANGED muxVars)
                        /\ WF_vars(\E q \in Procs : Complete(k, q))
    /\ \A g \in Gens : WF_vars(CancelState(g) /\ UNCHANGED muxVars)

MuxSafety == MuxInit /\ [][MuxNext]_vars
MuxSpec == MuxSafety /\ MuxFairness

-----------------------------------------------------------------------------
\* The values of the variables; that att stays below MaxAttempts says that a
\* query is written at most four times, in two dispatches of two attempts.
MuxTypeOK ==
    /\ TypeOK
    /\ mode \in [Procs -> Modes] /\ att \in [Procs -> 0..MaxAttempts]
    /\ created \in [Procs -> BOOLEAN] /\ first \in [Procs -> BOOLEAN]
    /\ mayRetry \in [Procs -> BOOLEAN] /\ retry \in [Procs -> BOOLEAN]
    /\ unread \in [Procs -> BOOLEAN]
    /\ writers \subseteq Writers
    /\ sent \subseteq [q : Procs, n : 1..MaxAttempts, k : Conns]
    /\ recv \in [Conns -> {"none", "reading", "respond", "tail", "ended"}]
    /\ keepIdle \in BOOLEAN /\ setting \in BOOLEAN /\ calls \in 0..MaxCalls /\ gaveUp \in BOOLEAN
    /\ answers \in [Procs -> Nat]
    /\ result \in [Procs -> {"none", "response", "error"}]

\* The callback of a query is never called twice, and a query it was called for
\* is not registered, holds no connection and is not being completed by anybody
\* else; Exchange would close its channel twice.
AnsweredOnce ==
    \A q \in Procs :
        /\ answers[q] <= 1
        /\ answers[q] = 1 => mode[q] \in {"tail", "done"} /\ hold[q] = NoConn

\* Nobody waits on a connection nobody reads: while a query is registered on an
\* open connection, that connection's receive loop runs, or closeState is about
\* to cancel the connection's context.
PendingIsRead ==
    \A q \in Procs : (mode[q] = "pending" /\ conn[hold[q]] = "open")
        => recv[hold[q]] \in {"reading", "respond", "tail"} \/ hold[q] \in oldAll

\* A query that was handed a connection hands it back: unless a completion is
\* under way, only registered queries hold one.
NoUserLost ==
    \A q \in Procs : hold[q] # NoConn =>
        mode[q] \in {"acquired", "pending", "responded", "ctxdone", "writefailed"}

\* With keepIdle off, a connection that nobody uses any more is closed, unless
\* a query left the select in acquireShared with an error (its context was done,
\* or its own dial failed and another one succeeded): it was a waiter when the
\* last user called CloseIdle, and closes nothing when it leaves.
IdleIsClosed ==
    (/\ ~keepIdle /\ ~setting /\ ~gaveUp
     /\ \A q \in Procs : mode[q] \in {"new", "done"}
     /\ \A k \in Conns : recv[k] # "tail" /\ phase[k] \in {"unused", "done"})
    => shared = NoConn

\* Every query is answered; a query that needs one more dial than the bound
\* MaxDials allows is not followed further.
EveryQueryAnswered ==
    \A q \in Procs : mode[q] = "begin" ~>
        answers[q] = 1 \/ (dials = MaxDials /\ pc[q] = "acquire")
=============================================================================
