------------------------------ MODULE DnsClient ------------------------------
(***************************************************************************)
(* Client (dns/client.go): the DNS cache in front of a transport, for one  *)
(* question.  Of the cache key only the network environment is left, 0     *)
(* while it is not known.  An exchange that finds nothing in the cache     *)
(* takes the lock of its key (cacheLock) or waits for who has it; an       *)
(* expired response is served while backgroundRefreshDNS fetches another.  *)
(* Every access to cacheLock, backgroundRefresh and the cache is a step.   *)
(*                                                                         *)
(* Responses are abstracted to how long they live and the network they     *)
(* came through; rejected responses (RDRC) to whether there is one.        *)
(***************************************************************************)
EXTENDS Integers, FiniteSets

CONSTANTS
    Callers,        \* goroutines that call Exchange, ExchangeAsync or Lookup
    NoCaller,
    Networks,       \* network environments that are known
    Timeouts,       \* values of options.Timeout
    Checkers,       \* whether queries have a responseChecker: a set of Booleans
    Optimistic,     \* c.optimisticTimeout > 0
    MaxCalls        \* bound on the calls

ASSUME ConstAssumption == /\ NoCaller \notin Callers
                          /\ Networks \subseteq Nat \ {0} /\ Timeouts # {}
                          /\ Checkers \subseteq BOOLEAN /\ Optimistic \in BOOLEAN
                          /\ MaxCalls \in Nat

VARIABLES
    env,            \* environmentHash(transport)
    cache,          \* c.cache
    lock,           \* c.cacheLock: whose channel is stored
    marked,         \* c.backgroundRefresh
    rdrc,           \* the response was rejected, and RDRC remembers it
    calls,
    pc,             \* where a caller is
    op,             \* the caller's exchangeOperation and local variables
    refresh,        \* the goroutine of backgroundRefreshDNS for a key
    checked         \* history: a responseChecker rejected a response

cacheVars == <<cache, lock, marked, rdrc, checked>>
callVars == <<calls, pc, op>>
vars == <<env, cacheVars, callVars, refresh>>

Envs == Networks \cup {0}
Keys == Envs \X Timeouts
NoEntry == [life |-> "none", foreign |-> FALSE]
NoRefresh == [at |-> "none", via |-> 0, moves |-> 0, checker |-> FALSE]
NoOp == [kind |-> "none", timeout |-> CHOOSE t \in Timeouts : TRUE, checker |-> FALSE,
         noStale |-> FALSE, key |-> 0, moves |-> 0, own |-> FALSE, cond |-> NoCaller,
         woken |-> FALSE, via |-> 0]

Init ==
    /\ env \in Envs
    /\ cache = [e \in Envs |-> NoEntry]
    /\ lock = [k \in Keys |-> NoCaller]
    /\ marked = {} /\ rdrc = FALSE /\ checked = FALSE /\ calls = 0
    /\ pc = [c \in Callers |-> "idle"]
    /\ op = [c \in Callers |-> NoOp]
    /\ refresh = [e \in Envs |-> NoRefresh]

-----------------------------------------------------------------------------
(***************************************************************************)
(* Small pieces.                                                           *)
(***************************************************************************)

Goto(c, at) == pc' = [pc EXCEPT ![c] = at]

\* The call is over.
Idle(c) ==
    /\ Goto(c, "idle")
    /\ op' = [op EXCEPT ![c] = NoOp]

\* operation.release() and return; of the operation only its lock is left.
Return(c) ==
    \/ /\ op[c].own
       /\ Goto(c, "release")
       /\ op' = [op EXCEPT ![c] = [NoOp EXCEPT !.own = TRUE, !.key = op[c].key,
                                              !.timeout = op[c].timeout]]
    \/ ~op[c].own /\ Idle(c)

\* newCacheKey: the key is that of the network the process is in now.
WithKey(o) == [o EXCEPT !.key = env, !.moves = 0]

\* Mutant: the environment is not compared with that at the start.
finishCacheKey_Unchecked(key) == {env}

\* finishCacheKey: the key to store under, if the network is still the same or
\* was not known.
finishCacheKey(key) == IF env = key \/ key = 0 THEN {env} ELSE {}

\* storeCache.  foreign is a history: the response came through another network
\* than the one it is stored for, although that was known all the time and was
\* not left and entered again meanwhile.
storeCache(keys, key, via, moves) ==
    cache' = [e \in Envs |->
        IF e \in keys THEN [life |-> "fresh", foreign |-> key # 0 /\ moves < 2 /\ via # e]
        ELSE cache[e]]

-----------------------------------------------------------------------------
(***************************************************************************)
(* The calls.                                                              *)
(***************************************************************************)

\* Exchange, ExchangeAsync, or Lookup, which asks the cache first.
Start(c, o) ==
    /\ pc[c] = "idle" /\ calls < MaxCalls
    /\ calls' = calls + 1
    /\ op' = [op EXCEPT ![c] = IF o.kind = "lookup" THEN WithKey(o) ELSE o]
    /\ Goto(c, IF o.kind = "lookup" THEN "load" ELSE "begin")
    /\ UNCHANGED <<env, cacheVars, refresh>>

\* The context is done when beginExchange starts, or while it waits.
CtxDone(c) ==
    /\ pc[c] \in {"begin", "wait"}
    /\ Idle(c)
    /\ UNCHANGED <<env, cacheVars, calls, refresh>>

\* Mutant: the key of the lock does not hold the timeout.
LockKey_NoTimeout(o) == <<env, CHOOSE t \in Timeouts : TRUE>>

\* exchangeKey
LockKey(o) == <<env, o.timeout>>

\* c.cacheLock.LoadOrStore
BeginExchange(c) ==
    /\ pc[c] = "begin"
    /\ LET k == LockKey(op[c])
           free == lock[k] = NoCaller
       IN  /\ lock' = IF free THEN [lock EXCEPT ![k] = c] ELSE lock
           /\ op' = [op EXCEPT ![c] = [WithKey(op[c]) EXCEPT !.own = free, !.cond = lock[k]]]
    /\ Goto(c, "load")
    /\ UNCHANGED <<env, cache, marked, rdrc, checked, calls, refresh>>

\* Mutant: ExchangeAsync has no case for exchangeWait, and goes on with the nil
\* operation.
Miss_NoWaitCase(c) ==
    \/ /\ op[c].kind = "lookup"
       /\ Goto(c, "begin")
       /\ op' = [op EXCEPT ![c].kind = "exchange"]
    \/ /\ op[c].kind # "lookup" /\ op[c].cond = NoCaller
       /\ Goto(c, "ready")
       /\ op' = [op EXCEPT ![c].kind = "exchange", ![c].noStale = FALSE]
    \/ /\ op[c].kind = "exchange" /\ op[c].cond # NoCaller
       /\ Goto(c, "wait")
       /\ UNCHANGED op
    \/ /\ op[c].kind = "async" /\ op[c].cond # NoCaller
       /\ Goto(c, "ready")
       /\ op' = [op EXCEPT ![c] = NoCaller]

\* Nothing usable in the cache: Lookup goes on to Exchange, who has the lock or
\* has waited asks the transport, the others wait; ExchangeAsync starts a
\* goroutine that calls Exchange.
Miss(c) ==
    \/ /\ op[c].kind = "lookup"
       /\ Goto(c, "begin")
       /\ op' = [op EXCEPT ![c].kind = "exchange"]
    \/ /\ op[c].kind # "lookup" /\ op[c].cond = NoCaller
       /\ Goto(c, "ready")
       /\ op' = [op EXCEPT ![c].kind = "exchange", ![c].noStale = FALSE]
    \/ /\ op[c].kind = "exchange" /\ op[c].cond # NoCaller
       /\ Goto(c, "wait")
       /\ UNCHANGED op
    \/ /\ op[c].kind = "async" /\ op[c].cond # NoCaller
       /\ Goto(c, "begin")
       /\ op' = [op EXCEPT ![c].kind = "exchange", ![c].cond = NoCaller, ![c].woken = FALSE]

\* loadResponse finds a response, or an expired one and starts its refresh.
LoadFresh(c) ==
    /\ pc[c] = "load" /\ cache[op[c].key].life = "fresh"
    /\ Return(c)
    /\ UNCHANGED <<env, cacheVars, calls, refresh>>

LoadStale(c) ==
    LET key == op[c].key IN
    /\ pc[c] = "load" /\ cache[key].life = "stale" /\ ~op[c].noStale
    /\ marked' = marked \cup {key}
    /\ refresh' = IF key \in marked THEN refresh
                  ELSE [refresh EXCEPT ![key] = [at |-> "started", via |-> 0,
                                                 moves |-> op[c].moves, checker |-> op[c].checker]]
    /\ Return(c)
    /\ UNCHANGED <<env, cache, lock, rdrc, checked, calls>>

LoadMiss(c) ==
    LET life == cache[op[c].key].life IN
    /\ pc[c] = "load" /\ (life = "none" \/ (life = "stale" /\ op[c].noStale))
    /\ Miss(c)
    /\ UNCHANGED <<env, cacheVars, calls, refresh>>

LoadExpired(c) ==
    /\ pc[c] = "load" /\ cache[op[c].key].life = "expired"
    /\ Goto(c, "remove")
    /\ UNCHANGED <<env, cacheVars, calls, op, refresh>>

\* c.cache.Remove(key), whatever is there by now.
RemoveExpired(c) ==
    /\ pc[c] = "remove"
    /\ cache' = [cache EXCEPT ![op[c].key] = NoEntry]
    /\ Miss(c)
    /\ UNCHANGED <<env, lock, marked, rdrc, checked, calls, refresh>>

\* Mutant: who has waited goes back to waiting when the cache has nothing for it.
WaitEnds_WaitsAgain(c) ==
    /\ pc[c] = "wait" /\ op[c].woken
    /\ op' = [op EXCEPT ![c] = WithKey(op[c])]
    /\ Goto(c, "load")
    /\ UNCHANGED <<env, cacheVars, calls, refresh>>

\* The select: cond was closed.
WaitEnds(c) ==
    /\ pc[c] = "wait" /\ op[c].woken
    /\ op' = [op EXCEPT ![c] = [WithKey(op[c]) EXCEPT !.cond = NoCaller, !.woken = FALSE]]
    /\ Goto(c, "load")
    /\ UNCHANGED <<env, cacheVars, calls, refresh>>

\* The end of beginExchange: a query of the transport itself, or one that RDRC
\* knows to be rejected.
Refused(c, loopback) == loopback \/ (op[c].checker /\ rdrc)

Refuse(c, loopback) ==
    /\ pc[c] = "ready" /\ Refused(c, loopback)
    /\ Return(c)
    /\ UNCHANGED <<env, cacheVars, calls, refresh>>

\* The transport sends the query over the network of the moment.
Send(c) ==
    /\ pc[c] = "ready" /\ ~Refused(c, FALSE)
    /\ op' = [op EXCEPT ![c].via = env]
    /\ Goto(c, "asked")
    /\ UNCHANGED <<env, cacheVars, calls, refresh>>

-----------------------------------------------------------------------------
(***************************************************************************)
(* The response.  answer is "error", "bad" (neither success nor NXDOMAIN)  *)
(* or "good"; accepted is what the responseChecker says.                   *)
(***************************************************************************)
Answers == {"error", "bad", "good"}

\* exchangeToTransport returns and finishExchange runs.
Finish(c, answer, accepted, ttl) ==
    LET o == op[c]
        rejected == answer = "good" /\ o.checker /\ ~accepted
        store == answer = "good" /\ ~rejected /\ ttl
    IN  /\ pc[c] = "asked"
        /\ rdrc' = (rdrc \/ rejected) /\ checked' = (checked \/ rejected)
        /\ storeCache(IF store THEN finishCacheKey(o.key) ELSE {}, o.key, o.via, o.moves)
        /\ Return(c)
        /\ UNCHANGED <<env, lock, marked, calls, refresh>>

\* release: c.cacheLock.Delete, then close(cond).
Release(c) ==
    /\ pc[c] = "release"
    /\ lock' = [lock EXCEPT ![<<op[c].key, op[c].timeout>>] = NoCaller]
    /\ Goto(c, "close")
    /\ UNCHANGED <<env, cache, marked, rdrc, checked, calls, op, refresh>>

CloseCond(c) ==
    /\ pc[c] = "close"
    /\ Goto(c, "idle")
    /\ op' = [d \in Callers |-> IF d = c THEN NoOp
                                ELSE [op[d] EXCEPT !.woken = @ \/ op[d].cond = c]]
    /\ UNCHANGED <<env, cacheVars, calls, refresh>>

-----------------------------------------------------------------------------
(***************************************************************************)
(* The goroutine of backgroundRefreshDNS.                                  *)
(***************************************************************************)
\* Mutant: the mark is removed before the goroutine has stored its response.
RefreshSend_Unmarks(e) ==
    /\ refresh[e].at = "started"
    /\ refresh' = [refresh EXCEPT ![e].at = "asked", ![e].via = env]
    /\ marked' = marked \ {e}
    /\ UNCHANGED <<env, cache, lock, rdrc, checked, callVars>>

RefreshSend(e) ==
    /\ refresh[e].at = "started"
    /\ refresh' = [refresh EXCEPT ![e].at = "asked", ![e].via = env]
    /\ UNCHANGED <<env, cacheVars, callVars>>

\* A failure of the server counts as rejected here.
RefreshFinish(e, answer, accepted, ttl) ==
    LET r == refresh[e]
        rejected == r.checker /\ (answer = "bad" \/ (answer = "good" /\ ~accepted))
        store == answer = "good" /\ ~rejected /\ ttl
    IN  /\ r.at = "asked"
        /\ rdrc' = (rdrc \/ rejected)
        /\ checked' = (checked \/ (rejected /\ answer = "good"))
        /\ storeCache(IF store THEN finishCacheKey(e) ELSE {}, e, r.via, r.moves)
        /\ refresh' = [refresh EXCEPT ![e] = [NoRefresh EXCEPT !.at = "returning"]]
        /\ UNCHANGED <<env, lock, marked, callVars>>

\* The deferred Delete.
RefreshReturns(e) ==
    /\ refresh[e].at = "returning"
    /\ refresh' = [refresh EXCEPT ![e] = NoRefresh]
    /\ marked' = marked \ {e}
    /\ UNCHANGED <<env, cache, lock, rdrc, checked, callVars>>

-----------------------------------------------------------------------------
(***************************************************************************)
(* The surroundings.                                                       *)
(***************************************************************************)
ClearCache ==
    /\ cache' = [e \in Envs |-> NoEntry]
    /\ UNCHANGED <<env, lock, marked, rdrc, checked, callVars, refresh>>

\* Other questions push the response out of the cache.
Evicted(e) ==
    /\ cache[e] # NoEntry
    /\ cache' = [cache EXCEPT ![e] = NoEntry]
    /\ UNCHANGED <<env, lock, marked, rdrc, checked, callVars, refresh>>

\* expireAt passes, and the window of c.optimisticTimeout after it.
Expires(e) ==
    /\ cache[e].life \in {"fresh", "stale"}
    /\ cache' = [cache EXCEPT ![e].life = IF @ = "fresh" /\ Optimistic THEN "stale" ELSE "expired"]
    /\ UNCHANGED <<env, lock, marked, rdrc, checked, callVars, refresh>>

RdrcExpires ==
    /\ rdrc /\ rdrc' = FALSE
    /\ checked' = FALSE
    /\ UNCHANGED <<env, cache, lock, marked, callVars, refresh>>

\* moves counts, up to two, how often that happened under an operation whose
\* network was known.
NetworkChanges(e) ==
    /\ e # env
    /\ env' = e
    /\ op' = [c \in Callers |-> IF op[c].key # 0 /\ op[c].kind # "none" /\ op[c].moves < 2
                                THEN [op[c] EXCEPT !.moves = @ + 1] ELSE op[c]]
    /\ refresh' = [f \in Envs |-> IF f # 0 /\ refresh[f].at \in {"started", "asked"} /\ refresh[f].moves < 2
                                  THEN [refresh[f] EXCEPT !.moves = @ + 1] ELSE refresh[f]]
    /\ UNCHANGED <<cacheVars, calls, pc>>

-----------------------------------------------------------------------------
Ops == {[NoOp EXCEPT !.kind = x.kind, !.timeout = x.timeout, !.checker = x.checker,
                     !.noStale = x.noStale] :
            x \in [kind : {"exchange", "async", "lookup"}, timeout : Timeouts,
                   checker : Checkers, noStale : BOOLEAN]}

CallStep(c) ==
    \/ BeginExchange(c)
    \/ LoadFresh(c) \/ LoadStale(c) \/ LoadMiss(c) \/ LoadExpired(c) \/ RemoveExpired(c)
    \/ WaitEnds(c) \/ Send(c)
    \/ \E loopback \in BOOLEAN : Refuse(c, loopback)
    \/ \E answer \in Answers, accepted, ttl \in BOOLEAN : Finish(c, answer, accepted, ttl)
    \/ Release(c) \/ CloseCond(c)

RefreshStep(e) ==
    \/ RefreshSend(e) \/ RefreshReturns(e)
    \/ \E answer \in Answers, accepted, ttl \in BOOLEAN : RefreshFinish(e, answer, accepted, ttl)

Next ==
    \/ \E c \in Callers : (\E o \in Ops : Start(c, o)) \/ CallStep(c) \/ CtxDone(c)
    \/ \E e \in Envs : RefreshStep(e) \/ Evicted(e) \/ Expires(e) \/ NetworkChanges(e)
    \/ ClearCache \/ RdrcExpires

\* Goroutines that can run do, and the transport returns in the end: the context
\* it is given has a deadline.
Fairness == /\ \A c \in Callers : WF_vars(CallStep(c))
            /\ \A e \in Envs : WF_vars(RefreshStep(e))

Safety == Init /\ [][Next]_vars

Spec == Safety /\ Fairness

-----------------------------------------------------------------------------
\* The values of the variables.
TypeOK ==
    /\ env \in Envs /\ calls \in 0..MaxCalls
    /\ cache \in [Envs -> [life : {"none", "fresh", "stale", "expired"}, foreign : BOOLEAN]]
    /\ lock \in [Keys -> Callers \cup {NoCaller}]
    /\ marked \subseteq Envs /\ rdrc \in BOOLEAN /\ checked \in BOOLEAN
    /\ pc \in [Callers -> {"idle", "begin", "load", "remove", "wait", "ready", "asked",
                           "release", "close"}]
    /\ op \in [Callers -> [kind : {"none", "exchange", "async", "lookup"}, timeout : Timeouts,
                           checker : BOOLEAN, noStale : BOOLEAN, key : Envs,
                           moves : 0..2, own : BOOLEAN, cond : Callers \cup {NoCaller},
                           woken : BOOLEAN, via : Envs]]
    /\ refresh \in [Envs -> [at : {"none", "started", "asked", "returning"}, via : Envs,
                             moves : 0..2, checker : BOOLEAN]]

\* Whoever waits for another exchange waits for one that is under way, with the
\* same key and the same timeout, and that will close the channel; and a lock is
\* held by an exchange that will release it.
WaitersHaveOwner ==
    /\ \A c \in Callers : (op[c].cond # NoCaller /\ ~op[c].woken) =>
           LET o == op[op[c].cond] IN o.own /\ o.key = op[c].key /\ o.timeout = op[c].timeout
    /\ \A k \in Keys : lock[k] # NoCaller =>
           /\ op[lock[k]].own /\ <<op[lock[k]].key, op[lock[k]].timeout>> = k
           /\ pc[lock[k]] \in {"load", "remove", "ready", "asked", "release"}

\* A key is marked in backgroundRefresh exactly while a goroutine refreshes it.
MarkedIsRefreshed == \A e \in Envs : e \in marked <=> refresh[e].at # "none"

\* A response that came through one network is not served in another: unless
\* the network was unknown at first, or left and entered again meanwhile, what
\* is cached for a network came through it.
FromItsNetwork == \A e \in Envs : ~cache[e].foreign

\* The check results of the address filter fields are what RDRC remembers.
RdrcIsCheckResult == rdrc => checked

\* Every call returns once the transport does; nobody waits for a lock that was
\* released or forgotten.
EveryCallReturns == \A c \in Callers : pc[c] # "idle" ~> pc[c] = "idle"
=============================================================================
