--------------------------- MODULE DnsClientProofs ---------------------------
(***************************************************************************)
(* The safety invariants of DnsClient, for any callers, networks, timeouts *)
(* and number of calls.                                                    *)
(***************************************************************************)
EXTENDS DnsClient, TLAPS

\* Where an operation may own the lock of its key, and may wait for another.
OwnerShape ==
    \A c \in Callers :
        /\ op[c].own => /\ pc[c] \in {"load", "remove", "ready", "asked", "release", "close"}
                        /\ op[c].kind # "lookup"
        /\ pc[c] \in {"release", "close"} => op[c].own
        /\ op[c].cond # NoCaller => ~op[c].own
        /\ pc[c] \notin {"idle", "release", "close"} => op[c].kind # "none"
        /\ op[c].kind = "lookup" => pc[c] \in {"load", "remove"}

\* moves tells whether the network is still the one of the key.
CallsTrackNetwork ==
    \A c \in Callers : (op[c].kind # "none" /\ op[c].key # 0) =>
        /\ op[c].moves = 0 => env = op[c].key
        /\ op[c].moves = 1 => env # op[c].key
        /\ (pc[c] = "asked" /\ op[c].moves = 0) => op[c].via = op[c].key

RefreshTracksNetwork ==
    \A e \in Envs : (refresh[e].at \in {"started", "asked"} /\ e # 0) =>
        /\ refresh[e].moves = 0 => env = e
        /\ refresh[e].moves = 1 => env # e
        /\ (refresh[e].at = "asked" /\ refresh[e].moves = 0) => refresh[e].via = e

\* The inductive invariant.
Inv == /\ TypeOK /\ OwnerShape /\ WaitersHaveOwner /\ MarkedIsRefreshed
       /\ CallsTrackNetwork /\ RefreshTracksNetwork /\ FromItsNetwork

-----------------------------------------------------------------------------
(* Types                                                                   *)

OpType == [kind : {"none", "exchange", "async", "lookup"}, timeout : Timeouts,
           checker : BOOLEAN, noStale : BOOLEAN, key : Envs,
           moves : 0..2, own : BOOLEAN, cond : Callers \cup {NoCaller},
           woken : BOOLEAN, via : Envs]
Places == {"idle", "begin", "load", "remove", "wait", "ready", "asked", "release", "close"}
RefreshType == [at : {"none", "started", "asked", "returning"}, via : Envs,
                moves : 0..2, checker : BOOLEAN]
EntryType == [life : {"none", "fresh", "stale", "expired"}, foreign : BOOLEAN]

\* TypeOK in terms of these sets.
LEMMA Types ==
    TypeOK <=> /\ env \in Envs /\ calls \in 0..MaxCalls
               /\ cache \in [Envs -> EntryType]
               /\ lock \in [Keys -> Callers \cup {NoCaller}]
               /\ marked \subseteq Envs /\ rdrc \in BOOLEAN /\ checked \in BOOLEAN
               /\ pc \in [Callers -> Places] /\ op \in [Callers -> OpType]
               /\ refresh \in [Envs -> RefreshType]
  BY Zenon DEF TypeOK, OpType, Places, RefreshType, EntryType

\* The operation of a caller that makes no call.
LEMMA NoOpFacts == /\ NoOp \in OpType /\ ~NoOp.own /\ NoOp.kind = "none"
                   /\ NoOp.cond = NoCaller /\ ~NoOp.woken /\ NoOp.key = 0
  BY ConstAssumption DEF NoOp, OpType, Envs

\* An empty place of the cache, and no refresh.
LEMMA EmptyFacts == /\ NoEntry \in EntryType /\ ~NoEntry.foreign
                    /\ NoRefresh \in RefreshType /\ NoRefresh.at = "none"
  BY DEF NoEntry, EntryType, NoRefresh, RefreshType, Envs

\* The invariant holds initially.
LEMMA InitInv == Init => Inv
<1> SUFFICES ASSUME Init PROVE Inv
  OBVIOUS
<1>1. TypeOK
  <2>1. op \in [Callers -> OpType] /\ refresh \in [Envs -> RefreshType] /\ cache \in [Envs -> EntryType]
    BY NoOpFacts, EmptyFacts, Zenon DEF Init
  <2>2. pc \in [Callers -> Places] /\ lock \in [Keys -> Callers \cup {NoCaller}] /\ calls \in 0..MaxCalls
    BY ConstAssumption DEF Init, Places
  <2> QED
    BY <2>1, <2>2, Types, Zenon DEF Init
<1>2. OwnerShape /\ CallsTrackNetwork /\ WaitersHaveOwner
  BY NoOpFacts, Zenon DEF Init, OwnerShape, CallsTrackNetwork, WaitersHaveOwner
<1>3. MarkedIsRefreshed /\ RefreshTracksNetwork /\ FromItsNetwork
  BY EmptyFacts, Zenon DEF Init, MarkedIsRefreshed, RefreshTracksNetwork, FromItsNetwork
<1> QED
  BY <1>1, <1>2, <1>3, Zenon DEF Inv

-----------------------------------------------------------------------------
(* A step of one caller that touches no lock                               *)

\* Caller c gets operation o and goes to at: o has the shape of an operation at
\* that place, a lock that was owned still is, and whoever c waits for is the
\* one it waited for before.
CallerStep(c, o, at) ==
    /\ o \in OpType /\ at \in Places
    /\ op' = [op EXCEPT ![c] = o] /\ pc' = [pc EXCEPT ![c] = at]
    /\ o.own => /\ at \in {"load", "remove", "ready", "asked", "release", "close"}
                /\ o.kind # "lookup"
    /\ at \in {"release", "close"} => o.own
    /\ o.cond # NoCaller => ~o.own
    /\ at \notin {"idle", "release", "close"} => o.kind # "none"
    /\ o.kind = "lookup" => at \in {"load", "remove"}
    /\ op[c].own => /\ o.own /\ o.key = op[c].key /\ o.timeout = op[c].timeout
                    /\ at \in {"load", "remove", "ready", "asked", "release"}
    /\ (o.cond # NoCaller /\ ~o.woken) =>
           /\ o.cond = op[c].cond /\ ~op[c].woken
           /\ o.key = op[c].key /\ o.timeout = op[c].timeout
    /\ (o.kind # "none" /\ o.key # 0) =>
           /\ o.moves = 0 => env = o.key
           /\ o.moves = 1 => env # o.key
           /\ (at = "asked" /\ o.moves = 0) => o.via = o.key

\* Such a step keeps what the invariant says of the callers.
LEMMA CallerStepInv ==
    ASSUME Inv, NEW c \in Callers, NEW o, NEW at, CallerStep(c, o, at), UNCHANGED <<env, lock>>
    PROVE  /\ op' \in [Callers -> OpType] /\ pc' \in [Callers -> Places]
           /\ OwnerShape' /\ WaitersHaveOwner' /\ CallsTrackNetwork'
<1>0. op \in [Callers -> OpType] /\ pc \in [Callers -> Places] /\ lock \in [Keys -> Callers \cup {NoCaller}]
  BY Types, Zenon DEF Inv
<1>1. /\ op'[c] = o /\ pc'[c] = at
      /\ \A d \in Callers \ {c} : op'[d] = op[d] /\ pc'[d] = pc[d]
  BY <1>0, Zenon DEF CallerStep
<1>2. op' \in [Callers -> OpType] /\ pc' \in [Callers -> Places]
  BY <1>0, Zenon DEF CallerStep
<1>3. OwnerShape'
  BY <1>1 DEF Inv, OwnerShape, CallerStep
<1>4. CallsTrackNetwork'
  BY <1>1 DEF Inv, CallsTrackNetwork, CallerStep
<1>5. ASSUME NEW d \in Callers, op'[d].cond # NoCaller, ~op'[d].woken
      PROVE  /\ op'[op'[d].cond].own /\ op'[op'[d].cond].key = op'[d].key
             /\ op'[op'[d].cond].timeout = op'[d].timeout
  <2>1. /\ op[d].cond = op'[d].cond /\ ~op[d].woken
        /\ op[d].key = op'[d].key /\ op[d].timeout = op'[d].timeout
    BY <1>1, <1>5, Zenon DEF CallerStep
  <2>2. op[d].cond \in Callers
    BY <1>0, <1>5, <2>1, Zenon DEF OpType
  <2>3. LET w == op[op[d].cond] IN w.own /\ w.key = op[d].key /\ w.timeout = op[d].timeout
    BY <1>5, <2>1, Zenon DEF Inv, WaitersHaveOwner
  <2> QED
    BY <1>1, <2>1, <2>2, <2>3 DEF CallerStep
<1>6. ASSUME NEW k \in Keys, lock[k] # NoCaller
      PROVE  /\ op'[lock[k]].own /\ <<op'[lock[k]].key, op'[lock[k]].timeout>> = k
             /\ pc'[lock[k]] \in {"load", "remove", "ready", "asked", "release"}
  <2>1. lock[k] \in Callers
    BY <1>0, <1>6, Zenon
  <2>2. /\ op[lock[k]].own /\ <<op[lock[k]].key, op[lock[k]].timeout>> = k
        /\ pc[lock[k]] \in {"load", "remove", "ready", "asked", "release"}
    BY <1>6, Zenon DEF Inv, WaitersHaveOwner
  <2> QED
    BY <1>1, <2>1, <2>2 DEF CallerStep
<1>7. WaitersHaveOwner'
  BY <1>5, <1>6, Zenon DEF WaitersHaveOwner
<1> QED
  BY <1>2, <1>3, <1>4, <1>7, Zenon

\* The call ends, at a place where it owns no lock.
LEMMA IdleStep ==
    ASSUME Inv, NEW c \in Callers, Idle(c), ~op[c].own
    PROVE  CallerStep(c, NoOp, "idle")
  BY NoOpFacts, Zenon DEF Idle, Goto, CallerStep, Places

\* What is left of the operation of a caller that owns its lock and returns.
ReleaseOp(o) == [NoOp EXCEPT !.own = TRUE, !.key = o.key, !.timeout = o.timeout]

\* Return is such a step, wherever an operation may own a lock.
LEMMA ReturnStep ==
    ASSUME Inv, NEW c \in Callers, Return(c), pc[c] \in {"load", "ready", "asked"}
    PROVE  \E o, at : CallerStep(c, o, at)
<1>0. op[c] \in OpType
  BY Types, Zenon DEF Inv
<1>1. CASE ~op[c].own /\ Idle(c)
  BY <1>1, IdleStep, Zenon
<1>2. CASE op[c].own /\ Goto(c, "release") /\ op' = [op EXCEPT ![c] = ReleaseOp(op[c])]
  <2>1. /\ ReleaseOp(op[c]) \in OpType /\ ReleaseOp(op[c]).own /\ ReleaseOp(op[c]).kind = "none"
        /\ ReleaseOp(op[c]).cond = NoCaller
        /\ ReleaseOp(op[c]).key = op[c].key /\ ReleaseOp(op[c]).timeout = op[c].timeout
    BY <1>0, NoOpFacts, Zenon DEF ReleaseOp, OpType, NoOp
  <2>2. CallerStep(c, ReleaseOp(op[c]), "release")
    BY <1>2, <2>1, Zenon DEF CallerStep, Goto, Places
  <2> QED
    BY <2>2, Zenon
<1> QED
  BY <1>1, <1>2, Zenon DEF Return, ReleaseOp

\* Miss is such a step.
LEMMA MissStep ==
    ASSUME Inv, NEW c \in Callers, Miss(c), pc[c] \in {"load", "remove"}
    PROVE  \E o, at : CallerStep(c, o, at)
<1>0. op \in [Callers -> OpType] /\ op[c] \in OpType
  BY Types, Zenon DEF Inv
<1> USE DEF CallerStep, Goto, Places, OpType, Inv, OwnerShape, CallsTrackNetwork
<1>1. CASE op[c].kind = "lookup" /\ Goto(c, "begin") /\ op' = [op EXCEPT ![c].kind = "exchange"]
  <2>1. CallerStep(c, [op[c] EXCEPT !.kind = "exchange"], "begin")
    BY <1>0, <1>1, Zenon
  <2> QED
    BY <2>1, Zenon
<1>2. CASE /\ op[c].kind # "lookup" /\ op[c].cond = NoCaller /\ Goto(c, "ready")
           /\ op' = [op EXCEPT ![c].kind = "exchange", ![c].noStale = FALSE]
  <2>1. CallerStep(c, [op[c] EXCEPT !.kind = "exchange", !.noStale = FALSE], "ready")
    BY <1>0, <1>2, Zenon
  <2> QED
    BY <2>1, Zenon
<1>3. CASE op[c].kind = "exchange" /\ op[c].cond # NoCaller /\ Goto(c, "wait") /\ UNCHANGED op
  <2>1. CallerStep(c, op[c], "wait")
    BY <1>0, <1>3
  <2> QED
    BY <2>1, Zenon
<1>4. CASE /\ op[c].kind = "async" /\ op[c].cond # NoCaller /\ Goto(c, "begin")
           /\ op' = [op EXCEPT ![c].kind = "exchange", ![c].cond = NoCaller, ![c].woken = FALSE]
  <2>1. CallerStep(c, [op[c] EXCEPT !.kind = "exchange", !.cond = NoCaller, !.woken = FALSE], "begin")
    BY <1>0, <1>4
  <2> QED
    BY <2>1, Zenon
<1> QED
  BY <1>1, <1>2, <1>3, <1>4, Zenon DEF Miss

\* newCacheKey gives the operation the key of the network of the moment.
LEMMA WithKeyFacts ==
    ASSUME NEW q \in OpType, env \in Envs
    PROVE  /\ WithKey(q) \in OpType /\ WithKey(q).key = env /\ WithKey(q).moves = 0
           /\ WithKey(q).kind = q.kind /\ WithKey(q).timeout = q.timeout
           /\ WithKey(q).own = q.own /\ WithKey(q).cond = q.cond /\ WithKey(q).woken = q.woken
<1>1. WithKey(q) \in OpType /\ WithKey(q).key = env /\ WithKey(q).moves = 0
  <2>1. 0 \in 0..2
    OBVIOUS
  <2> QED
    BY <2>1, Zenon DEF WithKey, OpType
<1>2. WithKey(q).kind = q.kind /\ WithKey(q).timeout = q.timeout /\ WithKey(q).cond = q.cond
  BY Zenon DEF WithKey, OpType
<1>3. (WithKey(q).own <=> q.own) /\ (WithKey(q).woken <=> q.woken)
  BY Zenon DEF WithKey, OpType
<1>4. q.own \in BOOLEAN /\ q.woken \in BOOLEAN /\ WithKey(q).own \in BOOLEAN /\ WithKey(q).woken \in BOOLEAN
  BY <1>1, Zenon DEF OpType
<1>5. WithKey(q).own = q.own /\ WithKey(q).woken = q.woken
  BY <1>3, <1>4, Zenon
<1> QED
  BY <1>1, <1>2, <1>5, Zenon

\* What a call starts with.
LEMMA OpsFacts ==
    ASSUME NEW q \in Ops
    PROVE  /\ q \in OpType /\ q.kind \in {"exchange", "async", "lookup"}
           /\ ~q.own /\ q.cond = NoCaller /\ q.key = 0
<1>1. PICK x \in [kind : {"exchange", "async", "lookup"}, timeout : Timeouts,
                  checker : Checkers, noStale : BOOLEAN] :
        q = [NoOp EXCEPT !.kind = x.kind, !.timeout = x.timeout, !.checker = x.checker,
                         !.noStale = x.noStale]
  BY Zenon DEF Ops
<1>2. /\ x.kind \in {"exchange", "async", "lookup"} /\ x.timeout \in Timeouts
      /\ x.checker \in BOOLEAN /\ x.noStale \in BOOLEAN
  BY ConstAssumption, Zenon
<1> QED
  BY <1>1, <1>2, NoOpFacts, Zenon DEF OpType

-----------------------------------------------------------------------------
(* Every action preserves the invariant                                    *)

\* A call whose context is done.
LEMMA CtxDoneInv ==
    ASSUME Inv, NEW c \in Callers, CtxDone(c)
    PROVE  Inv'
<1>1. PICK o, at : CallerStep(c, o, at)
  <2>1. ~op[c].own
    BY Types, Zenon DEF Inv, OwnerShape, CtxDone, OpType
  <2> QED
    BY <2>1, IdleStep, Zenon DEF CtxDone
<1>2. UNCHANGED <<env, lock>>
  BY Zenon DEF CtxDone, cacheVars
<1>3. /\ op' \in [Callers -> OpType] /\ pc' \in [Callers -> Places]
      /\ OwnerShape' /\ WaitersHaveOwner' /\ CallsTrackNetwork'
  BY <1>1, <1>2, CallerStepInv, Zenon
<1>4. TypeOK'
  BY <1>3, Zenon DEF Inv, TypeOK, OpType, Places, EntryType, RefreshType, CtxDone, cacheVars
<1>5. MarkedIsRefreshed' /\ RefreshTracksNetwork' /\ FromItsNetwork'
  BY Zenon DEF Inv, MarkedIsRefreshed, RefreshTracksNetwork, FromItsNetwork, CtxDone, cacheVars
<1> QED
  BY <1>3, <1>4, <1>5, Zenon DEF Inv

\* A response is served from the cache.
LEMMA LoadFreshInv ==
    ASSUME Inv, NEW c \in Callers, LoadFresh(c)
    PROVE  Inv'
<1>1. PICK o, at : CallerStep(c, o, at)
  BY ReturnStep, Zenon DEF LoadFresh
<1>2. UNCHANGED <<env, lock>>
  BY Zenon DEF LoadFresh, cacheVars
<1>3. /\ op' \in [Callers -> OpType] /\ pc' \in [Callers -> Places]
      /\ OwnerShape' /\ WaitersHaveOwner' /\ CallsTrackNetwork'
  BY <1>1, <1>2, CallerStepInv, Zenon
<1>4. TypeOK'
  BY <1>3, Zenon DEF Inv, TypeOK, OpType, Places, EntryType, RefreshType, LoadFresh, cacheVars
<1>5. MarkedIsRefreshed' /\ RefreshTracksNetwork' /\ FromItsNetwork'
  BY Zenon DEF Inv, MarkedIsRefreshed, RefreshTracksNetwork, FromItsNetwork, LoadFresh, cacheVars
<1> QED
  BY <1>3, <1>4, <1>5, Zenon DEF Inv

\* Nothing usable is in the cache.
LEMMA LoadMissInv ==
    ASSUME Inv, NEW c \in Callers, LoadMiss(c)
    PROVE  Inv'
<1>1. PICK o, at : CallerStep(c, o, at)
  BY MissStep, Zenon DEF LoadMiss
<1>2. UNCHANGED <<env, lock>>
  BY Zenon DEF LoadMiss, cacheVars
<1>3. /\ op' \in [Callers -> OpType] /\ pc' \in [Callers -> Places]
      /\ OwnerShape' /\ WaitersHaveOwner' /\ CallsTrackNetwork'
  BY <1>1, <1>2, CallerStepInv, Zenon
<1>4. TypeOK'
  BY <1>3, Zenon DEF Inv, TypeOK, OpType, Places, EntryType, RefreshType, LoadMiss, cacheVars
<1>5. MarkedIsRefreshed' /\ RefreshTracksNetwork' /\ FromItsNetwork'
  BY Zenon DEF Inv, MarkedIsRefreshed, RefreshTracksNetwork, FromItsNetwork, LoadMiss, cacheVars
<1> QED
  BY <1>3, <1>4, <1>5, Zenon DEF Inv

\* An expired response is found.
LEMMA LoadExpiredInv ==
    ASSUME Inv, NEW c \in Callers, LoadExpired(c)
    PROVE  Inv'
<1>1. PICK o, at : CallerStep(c, o, at)
  <2>1. op \in [Callers -> OpType] /\ op[c] \in OpType /\ env \in Envs
    BY Types, Zenon DEF Inv
  <2>2. CallerStep(c, op[c], "remove")
    BY <2>1, Zenon DEF Inv, OwnerShape, CallsTrackNetwork, CallerStep, Places, OpType, Goto, LoadExpired
  <2> QED
    BY <2>2, Zenon
<1>2. UNCHANGED <<env, lock>>
  BY Zenon DEF LoadExpired, cacheVars
<1>3. /\ op' \in [Callers -> OpType] /\ pc' \in [Callers -> Places]
      /\ OwnerShape' /\ WaitersHaveOwner' /\ CallsTrackNetwork'
  BY <1>1, <1>2, CallerStepInv, Zenon
<1>4. TypeOK'
  BY <1>3, Zenon DEF Inv, TypeOK, OpType, Places, EntryType, RefreshType, LoadExpired, cacheVars
<1>5. MarkedIsRefreshed' /\ RefreshTracksNetwork' /\ FromItsNetwork'
  BY Zenon DEF Inv, MarkedIsRefreshed, RefreshTracksNetwork, FromItsNetwork, LoadExpired, cacheVars
<1> QED
  BY <1>3, <1>4, <1>5, Zenon DEF Inv

\* It is removed.
LEMMA RemoveExpiredInv ==
    ASSUME Inv, NEW c \in Callers, RemoveExpired(c)
    PROVE  Inv'
<1>1. PICK o, at : CallerStep(c, o, at)
  BY MissStep, Zenon DEF RemoveExpired
<1>2. UNCHANGED <<env, lock>>
  BY Zenon DEF RemoveExpired, cacheVars
<1>3. /\ op' \in [Callers -> OpType] /\ pc' \in [Callers -> Places]
      /\ OwnerShape' /\ WaitersHaveOwner' /\ CallsTrackNetwork'
  BY <1>1, <1>2, CallerStepInv, Zenon
<1>4. TypeOK'
  <2>1. cache' \in [Envs -> EntryType]
    BY Types, EmptyFacts, Zenon DEF Inv, RemoveExpired
  <2> QED
    BY <1>3, <2>1, Zenon DEF Inv, TypeOK, OpType, Places, EntryType, RefreshType, RemoveExpired
<1>5. MarkedIsRefreshed' /\ RefreshTracksNetwork' /\ FromItsNetwork'
  <2>1. \A e \in Envs : ~cache'[e].foreign
    BY Types, EmptyFacts, Zenon DEF Inv, RemoveExpired, FromItsNetwork
  <2> QED
    BY <2>1, Zenon DEF Inv, MarkedIsRefreshed, RefreshTracksNetwork, FromItsNetwork, RemoveExpired
<1> QED
  BY <1>3, <1>4, <1>5, Zenon DEF Inv

\* A waiter is woken and looks into the cache again.
LEMMA WaitEndsInv ==
    ASSUME Inv, NEW c \in Callers, WaitEnds(c)
    PROVE  Inv'
<1>1. PICK o, at : CallerStep(c, o, at)
  <2>1. op \in [Callers -> OpType] /\ op[c] \in OpType /\ env \in Envs
    BY Types, Zenon DEF Inv
  <2> DEFINE w == WithKey(op[c])
             q == [w EXCEPT !.cond = NoCaller, !.woken = FALSE]
  <2>2. /\ w \in OpType /\ w.key = env /\ w.moves = 0 /\ w.kind = op[c].kind /\ w.own = op[c].own
        /\ op' = [op EXCEPT ![c] = q] /\ pc' = [pc EXCEPT ![c] = "load"]
    BY <2>1, WithKeyFacts, Zenon DEF WaitEnds, Goto
  <2>3. ~op[c].own /\ op[c].kind # "none"
    BY Zenon DEF Inv, OwnerShape, WaitEnds
  <2> HIDE DEF w
  <2>4. /\ q \in OpType /\ q.key = env /\ q.moves = 0 /\ q.kind = w.kind /\ q.own = w.own
        /\ q.cond = NoCaller
    BY <2>2, Zenon DEF OpType
  <2> HIDE DEF q
  <2>5. CallerStep(c, q, "load")
    BY <2>1, <2>2, <2>3, <2>4 DEF CallerStep, Places
  <2> QED
    BY <2>5, Zenon
<1>2. UNCHANGED <<env, lock>>
  BY Zenon DEF WaitEnds, cacheVars
<1>3. /\ op' \in [Callers -> OpType] /\ pc' \in [Callers -> Places]
      /\ OwnerShape' /\ WaitersHaveOwner' /\ CallsTrackNetwork'
  BY <1>1, <1>2, CallerStepInv, Zenon
<1>4. TypeOK'
  BY <1>3, Zenon DEF Inv, TypeOK, OpType, Places, EntryType, RefreshType, WaitEnds, cacheVars
<1>5. MarkedIsRefreshed' /\ RefreshTracksNetwork' /\ FromItsNetwork'
  BY Zenon DEF Inv, MarkedIsRefreshed, RefreshTracksNetwork, FromItsNetwork, WaitEnds, cacheVars
<1> QED
  BY <1>3, <1>4, <1>5, Zenon DEF Inv

\* The query is sent.
LEMMA SendInv ==
    ASSUME Inv, NEW c \in Callers, Send(c)
    PROVE  Inv'
<1>1. PICK o, at : CallerStep(c, o, at)
  <2>1. op \in [Callers -> OpType] /\ op[c] \in OpType /\ env \in Envs
    BY Types, Zenon DEF Inv
  <2>2. CallerStep(c, [op[c] EXCEPT !.via = env], "asked")
    BY <2>1, Zenon DEF Inv, OwnerShape, CallsTrackNetwork, CallerStep, Places, OpType, Goto, Send
  <2> QED
    BY <2>2, Zenon
<1>2. UNCHANGED <<env, lock>>
  BY Zenon DEF Send, cacheVars
<1>3. /\ op' \in [Callers -> OpType] /\ pc' \in [Callers -> Places]
      /\ OwnerShape' /\ WaitersHaveOwner' /\ CallsTrackNetwork'
  BY <1>1, <1>2, CallerStepInv, Zenon
<1>4. TypeOK'
  BY <1>3, Zenon DEF Inv, TypeOK, OpType, Places, EntryType, RefreshType, Send, cacheVars
<1>5. MarkedIsRefreshed' /\ RefreshTracksNetwork' /\ FromItsNetwork'
  BY Zenon DEF Inv, MarkedIsRefreshed, RefreshTracksNetwork, FromItsNetwork, Send, cacheVars
<1> QED
  BY <1>3, <1>4, <1>5, Zenon DEF Inv

\* The query is refused.
LEMMA RefuseInv ==
    ASSUME Inv, NEW c \in Callers, NEW loopback \in BOOLEAN, Refuse(c, loopback)
    PROVE  Inv'
<1>1. PICK o, at : CallerStep(c, o, at)
  BY ReturnStep, Zenon DEF Refuse
<1>2. UNCHANGED <<env, lock>>
  BY Zenon DEF Refuse, cacheVars
<1>3. /\ op' \in [Callers -> OpType] /\ pc' \in [Callers -> Places]
      /\ OwnerShape' /\ WaitersHaveOwner' /\ CallsTrackNetwork'
  BY <1>1, <1>2, CallerStepInv, Zenon
<1>4. TypeOK'
  BY <1>3, Zenon DEF Inv, TypeOK, OpType, Places, EntryType, RefreshType, Refuse, cacheVars
<1>5. MarkedIsRefreshed' /\ RefreshTracksNetwork' /\ FromItsNetwork'
  BY Zenon DEF Inv, MarkedIsRefreshed, RefreshTracksNetwork, FromItsNetwork, Refuse, cacheVars
<1> QED
  BY <1>3, <1>4, <1>5, Zenon DEF Inv

\* A call begins.
LEMMA StartInv ==
    ASSUME Inv, NEW c \in Callers, NEW q \in Ops, Start(c, q)
    PROVE  Inv'
<1>1. PICK o, at : CallerStep(c, o, at)
  <2>1. op \in [Callers -> OpType] /\ env \in Envs /\ ~op[c].own
    BY Types, Zenon DEF Inv, OwnerShape, Start
  <2>2. /\ q \in OpType /\ ~q.own /\ q.cond = NoCaller /\ q.key = 0
        /\ q.kind \in {"exchange", "async", "lookup"}
    BY OpsFacts, Zenon
  <2>3. CASE q.kind = "lookup"
    <3>1. CallerStep(c, WithKey(q), "load")
      BY <2>1, <2>2, <2>3, WithKeyFacts DEF CallerStep, Places, Start, Goto
    <3> QED
      BY <3>1, Zenon
  <2>4. CASE q.kind # "lookup"
    <3>1. CallerStep(c, q, "begin")
      BY <2>1, <2>2, <2>4, Zenon DEF CallerStep, Places, Start, Goto
    <3> QED
      BY <3>1, Zenon
  <2> QED
    BY <2>3, <2>4, Zenon
<1>2. UNCHANGED <<env, lock>>
  BY Zenon DEF Start, cacheVars
<1>3. /\ op' \in [Callers -> OpType] /\ pc' \in [Callers -> Places]
      /\ OwnerShape' /\ WaitersHaveOwner' /\ CallsTrackNetwork'
  BY <1>1, <1>2, CallerStepInv, Zenon
<1>4. TypeOK'
  <2>1. calls' \in 0..MaxCalls
    BY ConstAssumption DEF Inv, TypeOK, Start
  <2> QED
    BY <1>3, <2>1, Zenon DEF Inv, TypeOK, OpType, Places, EntryType, RefreshType, Start, cacheVars
<1>5. MarkedIsRefreshed' /\ RefreshTracksNetwork' /\ FromItsNetwork'
  BY Zenon DEF Inv, MarkedIsRefreshed, RefreshTracksNetwork, FromItsNetwork, Start, cacheVars
<1> QED
  BY <1>3, <1>4, <1>5, Zenon DEF Inv

\* A stale response is served, and its refresh started if it has none.
LEMMA LoadStaleInv ==
    ASSUME Inv, NEW c \in Callers, LoadStale(c)
    PROVE  Inv'
<1>1. PICK o, at : CallerStep(c, o, at)
  BY ReturnStep, Zenon DEF LoadStale
<1>2. UNCHANGED <<env, lock>>
  BY Zenon DEF LoadStale, cacheVars
<1>3. /\ op' \in [Callers -> OpType] /\ pc' \in [Callers -> Places]
      /\ OwnerShape' /\ WaitersHaveOwner' /\ CallsTrackNetwork'
  BY <1>1, <1>2, CallerStepInv, Zenon
<1>4. TypeOK'
  <2>1. op[c] \in OpType /\ refresh \in [Envs -> RefreshType]
    BY Types, Zenon DEF Inv
  <2>2. refresh' \in [Envs -> RefreshType] /\ marked' \subseteq Envs
    BY <2>1, ConstAssumption, Zenon DEF Inv, TypeOK, LoadStale, OpType, RefreshType, Envs
  <2> QED
    BY <1>3, <2>2, Zenon DEF Inv, TypeOK, OpType, Places, EntryType, RefreshType, LoadStale
<1>5. MarkedIsRefreshed' /\ RefreshTracksNetwork' /\ FromItsNetwork'
  <2>1. op[c] \in OpType /\ refresh \in [Envs -> RefreshType] /\ op[c].kind # "none"
    BY Types, Zenon DEF Inv, OwnerShape, LoadStale
  <2>2. MarkedIsRefreshed'
    BY <2>1, Zenon DEF Inv, MarkedIsRefreshed, LoadStale, OpType
  <2>3. RefreshTracksNetwork'
    BY <1>2, <2>1 DEF Inv, RefreshTracksNetwork, CallsTrackNetwork, LoadStale, OpType
  <2> QED
    BY <2>2, <2>3, Zenon DEF Inv, FromItsNetwork, LoadStale
<1> QED
  BY <1>3, <1>4, <1>5, Zenon DEF Inv

\* What is stored for a network came through it, if the one who stores it knew
\* its network and the network has not changed twice.
LEMMA StoreFacts ==
    ASSUME Inv, NEW keys, NEW key \in Envs, NEW via \in Envs, NEW moves \in 0..2,
           keys \subseteq finishCacheKey(key), storeCache(keys, key, via, moves),
           (key # 0 /\ moves = 0) => via = key,
           (key # 0 /\ moves = 1) => env # key
    PROVE  cache' \in [Envs -> EntryType] /\ FromItsNetwork'
<1>0. cache \in [Envs -> EntryType] /\ env \in Envs
  BY Types, Zenon DEF Inv
<1>1. ASSUME NEW e \in Envs PROVE cache'[e] \in EntryType /\ ~cache'[e].foreign
  <2>1. CASE e \notin keys
    BY <1>0, <2>1, Zenon DEF storeCache, Inv, FromItsNetwork
  <2>2. CASE e \in keys
    <3>1. e = env /\ (env = key \/ key = 0)
      BY <2>2, Zenon DEF finishCacheKey
    <3>2. cache'[e] = [life |-> "fresh", foreign |-> key # 0 /\ moves < 2 /\ via # e]
      BY <2>2, Zenon DEF storeCache
    <3>3. (key # 0 /\ moves < 2 /\ via # e) = FALSE
      BY <3>1
    <3>4. cache'[e] = [life |-> "fresh", foreign |-> FALSE]
      BY <3>2, <3>3, Zenon
    <3> QED
      BY <3>4 DEF EntryType
  <2> QED
    BY <2>1, <2>2, Zenon
<1> QED
  BY <1>1, Zenon DEF storeCache, FromItsNetwork

\* The transport has answered and finishExchange runs.
LEMMA FinishInv ==
    ASSUME Inv, NEW c \in Callers, NEW answer \in Answers, NEW accepted \in BOOLEAN, NEW ttl \in BOOLEAN,
           Finish(c, answer, accepted, ttl)
    PROVE  Inv'
<1>1. PICK o, at : CallerStep(c, o, at)
  BY ReturnStep, Zenon DEF Finish
<1>2. UNCHANGED <<env, lock>>
  BY Zenon DEF Finish, cacheVars
<1>3. /\ op' \in [Callers -> OpType] /\ pc' \in [Callers -> Places]
      /\ OwnerShape' /\ WaitersHaveOwner' /\ CallsTrackNetwork'
  BY <1>1, <1>2, CallerStepInv, Zenon
<1>a. cache' \in [Envs -> EntryType] /\ FromItsNetwork'
  <2> DEFINE q == op[c]
             store == answer = "good" /\ ~(answer = "good" /\ q.checker /\ ~accepted) /\ ttl
             keys == IF store THEN finishCacheKey(q.key) ELSE {}
  <2>1. q \in OpType /\ q.key \in Envs /\ q.via \in Envs /\ q.moves \in 0..2
    BY Types, Zenon DEF Inv, OpType
  <2>2. (q.key # 0 /\ q.moves = 0 => q.via = q.key) /\ (q.key # 0 /\ q.moves = 1 => env # q.key)
    BY Zenon DEF Inv, OwnerShape, CallsTrackNetwork, Finish
  <2>3. keys \subseteq finishCacheKey(q.key) /\ storeCache(keys, q.key, q.via, q.moves)
    BY Zenon DEF Finish
  <2> HIDE DEF q, keys
  <2> QED
    BY <2>1, <2>2, <2>3, StoreFacts, Zenon
<1>4. TypeOK'
  <2>1. rdrc' \in BOOLEAN /\ checked' \in BOOLEAN
    BY Zenon DEF Finish
  <2> QED
    BY <1>3, <1>a, <2>1, Zenon DEF Inv, TypeOK, OpType, Places, EntryType, RefreshType, Finish
<1>5. MarkedIsRefreshed' /\ RefreshTracksNetwork' /\ FromItsNetwork'
  BY <1>a, Zenon DEF Inv, MarkedIsRefreshed, RefreshTracksNetwork, Finish
<1> QED
  BY <1>3, <1>4, <1>5, Zenon DEF Inv

\* release deletes the lock.
LEMMA ReleaseInv ==
    ASSUME Inv, NEW c \in Callers, Release(c)
    PROVE  Inv'
<1>1. TypeOK'
  BY Zenon DEF Inv, TypeOK, Release, Goto
<1>2. OwnerShape' /\ CallsTrackNetwork'
  BY DEF Inv, TypeOK, OwnerShape, CallsTrackNetwork, Release, Goto
<1>3. WaitersHaveOwner'
  BY DEF Inv, TypeOK, OwnerShape, WaitersHaveOwner, Release, Goto, Keys
<1>4. MarkedIsRefreshed' /\ RefreshTracksNetwork' /\ FromItsNetwork'
  BY Zenon DEF Inv, MarkedIsRefreshed, RefreshTracksNetwork, FromItsNetwork, Release
<1> QED
  BY <1>1, <1>2, <1>3, <1>4, Zenon DEF Inv

\* The caller takes the lock of its key or finds who has it.
LEMMA BeginExchangeInv ==
    ASSUME Inv, NEW c \in Callers, BeginExchange(c)
    PROVE  Inv'
<1> DEFINE k == LockKey(op[c])
           free == lock[k] = NoCaller
           w == WithKey(op[c])
           q == [w EXCEPT !.own = free, !.cond = lock[k]]
<1>0. /\ op \in [Callers -> OpType] /\ pc \in [Callers -> Places] /\ env \in Envs
      /\ lock \in [Keys -> Callers \cup {NoCaller}] /\ k \in Keys /\ k = <<env, op[c].timeout>>
  <2>1. TypeOK
    BY Zenon DEF Inv
  <2> QED
    BY <2>1, Types, Zenon DEF LockKey, Keys, OpType
<1>1. /\ w \in OpType /\ w.key = env /\ w.moves = 0 /\ w.kind = op[c].kind /\ w.timeout = op[c].timeout
  BY <1>0, WithKeyFacts, Zenon
<1>2. /\ op' = [op EXCEPT ![c] = q] /\ pc' = [pc EXCEPT ![c] = "load"] /\ env' = env
      /\ lock' = IF free THEN [lock EXCEPT ![k] = c] ELSE lock
      /\ UNCHANGED <<cache, marked, rdrc, checked, calls, refresh>>
  BY Zenon DEF BeginExchange, Goto
<1>3. ~op[c].own /\ op[c].kind \notin {"none", "lookup"}
  <2>1. pc[c] = "begin"
    BY Zenon DEF BeginExchange
  <2> QED
    BY <2>1, Zenon DEF Inv, OwnerShape
<1>4. free \in BOOLEAN /\ (free => lock[k] = NoCaller) /\ (~free => lock[k] \in Callers)
  BY <1>0, Zenon
<1> HIDE DEF free, w, k
<1>5. /\ q \in OpType /\ q.key = env /\ q.moves = 0 /\ q.kind = op[c].kind /\ q.timeout = op[c].timeout
      /\ (q.own <=> free) /\ q.cond = lock[k]
  BY <1>0, <1>1, <1>4, Zenon DEF OpType
<1> HIDE DEF q
<1>6. /\ op'[c] = q /\ pc'[c] = "load"
      /\ \A d \in Callers \ {c} : op'[d] = op[d] /\ pc'[d] = pc[d]
  BY <1>0, <1>2, Zenon
<1>7. TypeOK'
  <2>1. op' \in [Callers -> OpType] /\ pc' \in [Callers -> Places] /\ lock' \in [Keys -> Callers \cup {NoCaller}]
    BY <1>0, <1>2, <1>5, Zenon DEF Places
  <2> QED
    BY <1>2, <2>1, Zenon DEF Inv, TypeOK, OpType, Places
<1>8. OwnerShape'
  BY <1>3, <1>4, <1>5, <1>6 DEF Inv, OwnerShape
<1>9. CallsTrackNetwork'
  BY <1>2, <1>5, <1>6 DEF Inv, CallsTrackNetwork
<1>10. \A j \in Keys : lock[j] # c
  BY <1>3, ConstAssumption, Zenon DEF Inv, WaitersHaveOwner
<1>11. ASSUME NEW d \in Callers, op'[d].cond # NoCaller, ~op'[d].woken
       PROVE  /\ op'[op'[d].cond].own /\ op'[op'[d].cond].key = op'[d].key
              /\ op'[op'[d].cond].timeout = op'[d].timeout
  <2>1. CASE d = c
    <3>1. op'[d].cond = lock[k] /\ lock[k] \in Callers \ {c}
      BY <1>0, <1>4, <1>5, <1>6, <1>10, <1>11, <2>1, Zenon
    <3>2. op[lock[k]].own /\ <<op[lock[k]].key, op[lock[k]].timeout>> = k
      BY <1>0, <3>1, <1>11, Zenon DEF Inv, WaitersHaveOwner
    <3> QED
      BY <1>0, <1>5, <1>6, <2>1, <3>1, <3>2
  <2>2. CASE d # c
    <3>1. op'[d] = op[d] /\ op[d].cond \in Callers
      BY <1>0, <1>6, <1>11, <2>2 DEF OpType
    <3>2. LET v == op[op[d].cond] IN v.own /\ v.key = op[d].key /\ v.timeout = op[d].timeout
      BY <1>11, <3>1, Zenon DEF Inv, WaitersHaveOwner
    <3>3. op[d].cond # c
      BY <1>3, <3>2, Zenon
    <3> QED
      BY <1>6, <3>1, <3>2, <3>3
  <2> QED
    BY <2>1, <2>2, Zenon
<1>12. ASSUME NEW j \in Keys, lock'[j] # NoCaller
       PROVE  /\ op'[lock'[j]].own /\ <<op'[lock'[j]].key, op'[lock'[j]].timeout>> = j
              /\ pc'[lock'[j]] \in {"load", "remove", "ready", "asked", "release"}
  <2>1. CASE free /\ j = k
    <3>1. lock'[j] = c
      BY <1>0, <1>2, <2>1, Zenon
    <3> QED
      BY <1>0, <1>5, <1>6, <2>1, <3>1, Zenon
  <2>2. CASE ~(free /\ j = k)
    <3>1. lock'[j] = lock[j] /\ lock[j] \in Callers \ {c}
      BY <1>0, <1>2, <1>10, <1>12, <2>2, Zenon
    <3> QED
      BY <1>6, <1>12, <3>1 DEF Inv, WaitersHaveOwner
  <2> QED
    BY <2>1, <2>2, Zenon
<1>13. WaitersHaveOwner'
  BY <1>11, <1>12, Zenon DEF WaitersHaveOwner
<1>14. MarkedIsRefreshed' /\ RefreshTracksNetwork' /\ FromItsNetwork'
  BY <1>2, Zenon DEF Inv, MarkedIsRefreshed, RefreshTracksNetwork, FromItsNetwork
<1> QED
  BY <1>7, <1>8, <1>9, <1>13, <1>14, Zenon DEF Inv

\* The channel is closed: whoever waits for the caller is woken.
LEMMA CloseCondInv ==
    ASSUME Inv, NEW c \in Callers, CloseCond(c)
    PROVE  Inv'
<1>0. /\ op \in [Callers -> OpType] /\ pc \in [Callers -> Places]
      /\ lock \in [Keys -> Callers \cup {NoCaller}]
  BY Types, Zenon DEF Inv
<1>1. /\ pc' = [pc EXCEPT ![c] = "idle"] /\ UNCHANGED <<env, cache, lock, marked, rdrc, checked, calls, refresh>>
      /\ op'[c] = NoOp /\ DOMAIN op' = Callers
      /\ \A d \in Callers \ {c} : op'[d] = [op[d] EXCEPT !.woken = op[d].woken \/ op[d].cond = c]
  BY Zenon DEF CloseCond, Goto, cacheVars
<1>2. ASSUME NEW d \in Callers \ {c}
      PROVE  /\ op'[d] \in OpType /\ (op'[d].woken <=> (op[d].woken \/ op[d].cond = c))
             /\ op'[d].kind = op[d].kind /\ op'[d].key = op[d].key /\ op'[d].timeout = op[d].timeout
             /\ op'[d].moves = op[d].moves /\ (op'[d].own <=> op[d].own) /\ op'[d].cond = op[d].cond
             /\ op'[d].via = op[d].via
  <2> DEFINE b == op[d].woken \/ op[d].cond = c
  <2>1. op[d] \in OpType /\ b \in BOOLEAN /\ op'[d] = [op[d] EXCEPT !.woken = b]
    BY <1>0, <1>1, Zenon
  <2> HIDE DEF b
  <2>2. /\ op'[d] \in OpType /\ (op'[d].woken <=> b)
        /\ op'[d].kind = op[d].kind /\ op'[d].key = op[d].key /\ op'[d].timeout = op[d].timeout
        /\ op'[d].moves = op[d].moves /\ (op'[d].own <=> op[d].own) /\ op'[d].cond = op[d].cond
        /\ op'[d].via = op[d].via
    BY <2>1, Zenon DEF OpType
  <2> QED
    BY <2>2, Zenon DEF b
<1>3. pc'[c] = "idle" /\ \A d \in Callers \ {c} : pc'[d] = pc[d]
  BY <1>0, <1>1, Zenon
<1>4. TypeOK'
  <2>1. op' \in [Callers -> OpType]
    <3>1. \A d \in Callers : op'[d] \in OpType
      BY <1>1, <1>2, NoOpFacts, Zenon
    <3>2. op' = [d \in Callers |-> op'[d]]
      BY Zenon DEF CloseCond
    <3> QED
      BY <3>1, <3>2, Zenon
  <2>2. pc' \in [Callers -> Places]
    BY <1>0, <1>1, Zenon DEF Places
  <2> QED
    BY <1>1, <2>1, <2>2, Zenon DEF Inv, TypeOK, OpType, Places
<1>5. OwnerShape'
  BY <1>1, <1>2, <1>3, NoOpFacts DEF Inv, OwnerShape
<1>6. CallsTrackNetwork'
  BY <1>1, <1>2, <1>3, NoOpFacts DEF Inv, CallsTrackNetwork
<1>7. WaitersHaveOwner'
  <2>1. ASSUME NEW d \in Callers, op'[d].cond # NoCaller, ~op'[d].woken
        PROVE  /\ op'[op'[d].cond].own /\ op'[op'[d].cond].key = op'[d].key
               /\ op'[op'[d].cond].timeout = op'[d].timeout
    <3>1. d # c
      BY <1>1, <2>1, NoOpFacts, Zenon
    <3>2. op[d].cond \in Callers \ {c} /\ op'[d].cond = op[d].cond /\ ~op[d].woken
      BY <1>0, <1>2, <2>1, <3>1, Zenon DEF OpType
    <3>3. LET v == op[op[d].cond] IN v.own /\ v.key = op[d].key /\ v.timeout = op[d].timeout
      BY <3>2, <2>1, Zenon DEF Inv, WaitersHaveOwner
    <3> QED
      BY <1>2, <3>1, <3>2, <3>3
  <2>2. ASSUME NEW j \in Keys, lock[j] # NoCaller
        PROVE  /\ op'[lock[j]].own /\ <<op'[lock[j]].key, op'[lock[j]].timeout>> = j
               /\ pc'[lock[j]] \in {"load", "remove", "ready", "asked", "release"}
    <3>1. /\ lock[j] \in Callers /\ op[lock[j]].own /\ <<op[lock[j]].key, op[lock[j]].timeout>> = j
          /\ pc[lock[j]] \in {"load", "remove", "ready", "asked", "release"}
      BY <1>0, <2>2, Zenon DEF Inv, WaitersHaveOwner
    <3>2. lock[j] # c
      BY <3>1, Zenon DEF CloseCond
    <3> QED
      BY <1>2, <1>3, <3>1, <3>2, Zenon
  <2> QED
    BY <1>1, <2>1, <2>2, Zenon DEF WaitersHaveOwner
<1>8. MarkedIsRefreshed' /\ RefreshTracksNetwork' /\ FromItsNetwork'
  BY <1>1, Zenon DEF Inv, MarkedIsRefreshed, RefreshTracksNetwork, FromItsNetwork
<1> QED
  BY <1>4, <1>5, <1>6, <1>7, <1>8, Zenon DEF Inv

\* A step that leaves the callers, the locks and the network alone keeps what
\* the invariant says of the callers.
LEMMA CallersUntouched ==
    ASSUME Inv, UNCHANGED <<env, lock, callVars>>
    PROVE  /\ OwnerShape' /\ WaitersHaveOwner' /\ CallsTrackNetwork'
           /\ env' \in Envs /\ calls' \in 0..MaxCalls /\ lock' \in [Keys -> Callers \cup {NoCaller}]
           /\ pc' \in [Callers -> Places] /\ op' \in [Callers -> OpType]
  BY Types, Zenon DEF Inv, OwnerShape, WaitersHaveOwner, CallsTrackNetwork, callVars

\* The refreshing goroutine asks.
LEMMA RefreshSendInv ==
    ASSUME Inv, NEW e \in Envs, RefreshSend(e)
    PROVE  Inv'
<1>0. /\ OwnerShape' /\ WaitersHaveOwner' /\ CallsTrackNetwork'
      /\ env' \in Envs /\ calls' \in 0..MaxCalls /\ lock' \in [Keys -> Callers \cup {NoCaller}]
      /\ pc' \in [Callers -> Places] /\ op' \in [Callers -> OpType]
  BY CallersUntouched, Zenon DEF RefreshSend, cacheVars
<1>1. refresh \in [Envs -> RefreshType] /\ cache \in [Envs -> EntryType]
  BY Types, Zenon DEF Inv
<1>2. refresh' \in [Envs -> RefreshType]
  <2>1. refresh[e] \in RefreshType /\ env \in Envs
    BY <1>1, Types, Zenon DEF Inv
  <2>2. [refresh[e] EXCEPT !.at = "asked", !.via = env] \in RefreshType
    <3>1. ASSUME NEW r \in RefreshType PROVE [r EXCEPT !.at = "asked"] \in RefreshType
      BY Zenon DEF RefreshType
    <3>2. ASSUME NEW r \in RefreshType PROVE [r EXCEPT !.via = env] \in RefreshType
      BY <2>1, Zenon DEF RefreshType
    <3> QED BY <2>1, <3>1, <3>2, Zenon
  <2>3. refresh' = [refresh EXCEPT ![e] = [refresh[e] EXCEPT !.at = "asked", !.via = env]]
    BY <1>1, Zenon DEF RefreshSend
  <2> QED BY <1>1, <2>2, <2>3, Zenon
<1>7. TypeOK'
  BY <1>0, <1>2, Zenon DEF Inv, TypeOK, OpType, Places, EntryType, RefreshType, RefreshSend, cacheVars
<1>8. MarkedIsRefreshed' /\ RefreshTracksNetwork' /\ FromItsNetwork'
  BY <1>1 DEF Inv, MarkedIsRefreshed, RefreshTracksNetwork, FromItsNetwork, RefreshSend, cacheVars, RefreshType
<1> QED
  BY <1>0, <1>7, <1>8, Zenon DEF Inv

\* The refreshing goroutine ends.
LEMMA RefreshReturnsInv ==
    ASSUME Inv, NEW e \in Envs, RefreshReturns(e)
    PROVE  Inv'
<1>0. /\ OwnerShape' /\ WaitersHaveOwner' /\ CallsTrackNetwork'
      /\ env' \in Envs /\ calls' \in 0..MaxCalls /\ lock' \in [Keys -> Callers \cup {NoCaller}]
      /\ pc' \in [Callers -> Places] /\ op' \in [Callers -> OpType]
  BY CallersUntouched, Zenon DEF RefreshReturns, cacheVars
<1>1. refresh \in [Envs -> RefreshType] /\ cache \in [Envs -> EntryType]
  BY Types, Zenon DEF Inv
<1>2. refresh' \in [Envs -> RefreshType] /\ marked' \subseteq Envs
  BY <1>1, EmptyFacts, Types, Zenon DEF Inv, RefreshReturns
<1>7. TypeOK'
  BY <1>0, <1>2, Zenon DEF Inv, TypeOK, OpType, Places, EntryType, RefreshType, RefreshReturns
<1>8. MarkedIsRefreshed' /\ RefreshTracksNetwork' /\ FromItsNetwork'
  BY <1>1, EmptyFacts, Zenon DEF Inv, MarkedIsRefreshed, RefreshTracksNetwork, FromItsNetwork, RefreshReturns
<1> QED
  BY <1>0, <1>7, <1>8, Zenon DEF Inv

\* The refreshing goroutine has its answer.
LEMMA RefreshFinishInv ==
    ASSUME Inv, NEW e \in Envs, NEW answer \in Answers, NEW accepted \in BOOLEAN, NEW ttl \in BOOLEAN,
           RefreshFinish(e, answer, accepted, ttl)
    PROVE  Inv'
<1>0. /\ OwnerShape' /\ WaitersHaveOwner' /\ CallsTrackNetwork'
      /\ env' \in Envs /\ calls' \in 0..MaxCalls /\ lock' \in [Keys -> Callers \cup {NoCaller}]
      /\ pc' \in [Callers -> Places] /\ op' \in [Callers -> OpType]
  BY CallersUntouched, Zenon DEF RefreshFinish, cacheVars
<1>1. refresh \in [Envs -> RefreshType] /\ cache \in [Envs -> EntryType]
  BY Types, Zenon DEF Inv
<1>2. cache' \in [Envs -> EntryType] /\ FromItsNetwork'
  <2> DEFINE r == refresh[e]
             rejected == r.checker /\ (answer = "bad" \/ (answer = "good" /\ ~accepted))
             keys == IF answer = "good" /\ ~rejected /\ ttl THEN finishCacheKey(e) ELSE {}
  <2>1. r.via \in Envs /\ r.moves \in 0..2
    BY <1>1, Zenon DEF RefreshType
  <2>2. (e # 0 /\ r.moves = 0 => r.via = e) /\ (e # 0 /\ r.moves = 1 => env # e)
    BY Zenon DEF Inv, RefreshTracksNetwork, RefreshFinish
  <2>3. keys \subseteq finishCacheKey(e) /\ storeCache(keys, e, r.via, r.moves)
    BY Zenon DEF RefreshFinish
  <2> HIDE DEF r, keys
  <2> QED
    BY <2>1, <2>2, <2>3, StoreFacts, Zenon
<1>3. refresh' = [refresh EXCEPT ![e] = [NoRefresh EXCEPT !.at = "returning"]] /\ UNCHANGED <<env, marked>>
  BY Zenon DEF RefreshFinish
<1>4. [NoRefresh EXCEPT !.at = "returning"] \in RefreshType /\ [NoRefresh EXCEPT !.at = "returning"].at = "returning"
  BY EmptyFacts, Zenon DEF RefreshType
<1>5. refresh' \in [Envs -> RefreshType]
  BY <1>1, <1>3, <1>4, Zenon
<1>6. rdrc' \in BOOLEAN /\ checked' \in BOOLEAN
  BY Zenon DEF RefreshFinish
<1>7. TypeOK'
  BY <1>0, <1>2, <1>3, <1>5, <1>6, Zenon DEF Inv, TypeOK, OpType, Places, EntryType, RefreshType
<1>8. MarkedIsRefreshed' /\ RefreshTracksNetwork' /\ FromItsNetwork'
  BY <1>1, <1>2, <1>3, <1>4, Zenon DEF Inv, MarkedIsRefreshed, RefreshTracksNetwork, RefreshFinish
<1> QED
  BY <1>0, <1>7, <1>8, Zenon DEF Inv

\* The cache is purged.
LEMMA ClearCacheInv ==
    ASSUME Inv, ClearCache
    PROVE  Inv'
<1>0. /\ OwnerShape' /\ WaitersHaveOwner' /\ CallsTrackNetwork'
      /\ env' \in Envs /\ calls' \in 0..MaxCalls /\ lock' \in [Keys -> Callers \cup {NoCaller}]
      /\ pc' \in [Callers -> Places] /\ op' \in [Callers -> OpType]
  BY CallersUntouched, Zenon DEF ClearCache, cacheVars
<1>1. refresh \in [Envs -> RefreshType] /\ cache \in [Envs -> EntryType]
  BY Types, Zenon DEF Inv
<1>2. cache' \in [Envs -> EntryType] /\ \A f \in Envs : ~cache'[f].foreign
  BY <1>1, EmptyFacts, Zenon DEF Inv, FromItsNetwork, ClearCache, EntryType
<1>7. TypeOK'
  BY <1>0, <1>2, Zenon DEF Inv, TypeOK, OpType, Places, EntryType, RefreshType, ClearCache
<1>8. MarkedIsRefreshed' /\ RefreshTracksNetwork' /\ FromItsNetwork'
  BY <1>2, Zenon DEF Inv, MarkedIsRefreshed, RefreshTracksNetwork, FromItsNetwork, ClearCache
<1> QED
  BY <1>0, <1>7, <1>8, Zenon DEF Inv

\* The response is pushed out.
LEMMA EvictedInv ==
    ASSUME Inv, NEW e \in Envs, Evicted(e)
    PROVE  Inv'
<1>0. /\ OwnerShape' /\ WaitersHaveOwner' /\ CallsTrackNetwork'
      /\ env' \in Envs /\ calls' \in 0..MaxCalls /\ lock' \in [Keys -> Callers \cup {NoCaller}]
      /\ pc' \in [Callers -> Places] /\ op' \in [Callers -> OpType]
  BY CallersUntouched, Zenon DEF Evicted, cacheVars
<1>1. refresh \in [Envs -> RefreshType] /\ cache \in [Envs -> EntryType]
  BY Types, Zenon DEF Inv
<1>2. cache' \in [Envs -> EntryType] /\ \A f \in Envs : ~cache'[f].foreign
  BY <1>1, EmptyFacts, Zenon DEF Inv, FromItsNetwork, Evicted, EntryType
<1>7. TypeOK'
  BY <1>0, <1>2, Zenon DEF Inv, TypeOK, OpType, Places, EntryType, RefreshType, Evicted
<1>8. MarkedIsRefreshed' /\ RefreshTracksNetwork' /\ FromItsNetwork'
  BY <1>2, Zenon DEF Inv, MarkedIsRefreshed, RefreshTracksNetwork, FromItsNetwork, Evicted
<1> QED
  BY <1>0, <1>7, <1>8, Zenon DEF Inv

\* The response gets older.
LEMMA ExpiresInv ==
    ASSUME Inv, NEW e \in Envs, Expires(e)
    PROVE  Inv'
<1>0. /\ OwnerShape' /\ WaitersHaveOwner' /\ CallsTrackNetwork'
      /\ env' \in Envs /\ calls' \in 0..MaxCalls /\ lock' \in [Keys -> Callers \cup {NoCaller}]
      /\ pc' \in [Callers -> Places] /\ op' \in [Callers -> OpType]
  BY CallersUntouched, Zenon DEF Expires, cacheVars
<1>1. refresh \in [Envs -> RefreshType] /\ cache \in [Envs -> EntryType]
  BY Types, Zenon DEF Inv
<1>2. cache' \in [Envs -> EntryType] /\ \A f \in Envs : ~cache'[f].foreign
  BY <1>1, EmptyFacts, Zenon DEF Inv, FromItsNetwork, Expires, EntryType
<1>7. TypeOK'
  BY <1>0, <1>2, Zenon DEF Inv, TypeOK, OpType, Places, EntryType, RefreshType, Expires
<1>8. MarkedIsRefreshed' /\ RefreshTracksNetwork' /\ FromItsNetwork'
  BY <1>2, Zenon DEF Inv, MarkedIsRefreshed, RefreshTracksNetwork, FromItsNetwork, Expires
<1> QED
  BY <1>0, <1>7, <1>8, Zenon DEF Inv

\* A rejection is forgotten.
LEMMA RdrcExpiresInv ==
    ASSUME Inv, RdrcExpires
    PROVE  Inv'
<1>0. /\ OwnerShape' /\ WaitersHaveOwner' /\ CallsTrackNetwork'
      /\ env' \in Envs /\ calls' \in 0..MaxCalls /\ lock' \in [Keys -> Callers \cup {NoCaller}]
      /\ pc' \in [Callers -> Places] /\ op' \in [Callers -> OpType]
  BY CallersUntouched, Zenon DEF RdrcExpires, cacheVars
<1>1. refresh \in [Envs -> RefreshType] /\ cache \in [Envs -> EntryType]
  BY Types, Zenon DEF Inv
<1>7. TypeOK'
  BY <1>0, Zenon DEF Inv, TypeOK, OpType, Places, EntryType, RefreshType, RdrcExpires
<1>8. MarkedIsRefreshed' /\ RefreshTracksNetwork' /\ FromItsNetwork'
  BY Zenon DEF Inv, MarkedIsRefreshed, RefreshTracksNetwork, FromItsNetwork, RdrcExpires
<1> QED
  BY <1>0, <1>7, <1>8, Zenon DEF Inv

\* The network changes: moves is counted where the network was known.
LEMMA NetworkChangesInv ==
    ASSUME Inv, NEW e \in Envs, NetworkChanges(e)
    PROVE  Inv'
<1>0. /\ op \in [Callers -> OpType] /\ pc \in [Callers -> Places] /\ refresh \in [Envs -> RefreshType]
      /\ lock \in [Keys -> Callers \cup {NoCaller}] /\ env \in Envs
  BY Types, Zenon DEF Inv
<1>1. /\ env' = e /\ e # env /\ UNCHANGED <<cache, lock, marked, rdrc, checked, calls, pc>>
  BY Zenon DEF NetworkChanges, cacheVars
<1>2. ASSUME NEW c \in Callers
      PROVE  /\ op'[c] \in OpType /\ (op'[c].own <=> op[c].own) /\ (op'[c].woken <=> op[c].woken)
             /\ op'[c].kind = op[c].kind /\ op'[c].key = op[c].key /\ op'[c].timeout = op[c].timeout
             /\ op'[c].cond = op[c].cond /\ op'[c].via = op[c].via
             /\ op'[c].moves = IF op[c].key # 0 /\ op[c].kind # "none" /\ op[c].moves < 2
                               THEN op[c].moves + 1 ELSE op[c].moves
  <2>1. op[c] \in OpType
    BY <1>0, Zenon
  <2>2. op'[c] = IF op[c].key # 0 /\ op[c].kind # "none" /\ op[c].moves < 2
                 THEN [op[c] EXCEPT !.moves = op[c].moves + 1] ELSE op[c]
    BY Zenon DEF NetworkChanges
  <2> QED
    BY <2>1, <2>2 DEF OpType
<1>3. ASSUME NEW f \in Envs
      PROVE  /\ refresh'[f] \in RefreshType
             /\ refresh'[f].at = refresh[f].at /\ refresh'[f].via = refresh[f].via
             /\ refresh'[f].moves = IF f # 0 /\ refresh[f].at \in {"started", "asked"} /\ refresh[f].moves < 2
                                    THEN refresh[f].moves + 1 ELSE refresh[f].moves
  <2>1. refresh[f] \in RefreshType
    BY <1>0, Zenon
  <2>2. refresh'[f] = IF f # 0 /\ refresh[f].at \in {"started", "asked"} /\ refresh[f].moves < 2
                      THEN [refresh[f] EXCEPT !.moves = refresh[f].moves + 1] ELSE refresh[f]
    BY Zenon DEF NetworkChanges
  <2> QED
    BY <2>1, <2>2 DEF RefreshType
<1>4. TypeOK'
  <2>1. op' \in [Callers -> OpType]
    <3>1. op' = [c \in Callers |-> op'[c]]
      BY Zenon DEF NetworkChanges
    <3> QED
      BY <1>2, <3>1, Zenon
  <2>2. refresh' \in [Envs -> RefreshType]
    <3>1. refresh' = [f \in Envs |-> refresh'[f]]
      BY Zenon DEF NetworkChanges
    <3> QED
      BY <1>3, <3>1, Zenon
  <2> QED
    BY <1>1, <2>1, <2>2, Zenon DEF Inv, TypeOK, OpType, RefreshType
<1>5. OwnerShape'
  BY <1>1, <1>2 DEF Inv, OwnerShape
<1>6. WaitersHaveOwner'
  <2>1. ASSUME NEW c \in Callers, op'[c].cond # NoCaller, ~op'[c].woken
        PROVE  /\ op'[op'[c].cond].own /\ op'[op'[c].cond].key = op'[c].key
               /\ op'[op'[c].cond].timeout = op'[c].timeout
    <3>1. op[c].cond \in Callers /\ op'[c].cond = op[c].cond /\ ~op[c].woken
      BY <1>0, <1>2, <2>1, Zenon DEF OpType
    <3> QED
      BY <1>2, <2>1, <3>1 DEF Inv, WaitersHaveOwner
  <2>2. ASSUME NEW k \in Keys, lock[k] # NoCaller
        PROVE  /\ op'[lock[k]].own /\ <<op'[lock[k]].key, op'[lock[k]].timeout>> = k
               /\ pc[lock[k]] \in {"load", "remove", "ready", "asked", "release"}
    <3>1. lock[k] \in Callers
      BY <1>0, <2>2, Zenon
    <3> QED
      BY <1>2, <2>2, <3>1, Zenon DEF Inv, WaitersHaveOwner
  <2> QED
    BY <1>1, <2>1, <2>2, Zenon DEF WaitersHaveOwner
<1>7. CallsTrackNetwork'
  <2> SUFFICES ASSUME NEW c \in Callers, op'[c].kind # "none", op'[c].key # 0
               PROVE  /\ op'[c].moves = 0 => e = op'[c].key
                      /\ op'[c].moves = 1 => e # op'[c].key
                      /\ (pc[c] = "asked" /\ op'[c].moves = 0) => op'[c].via = op'[c].key
    BY <1>1, Zenon DEF CallsTrackNetwork
  <2>1. op[c].moves \in 0..2
    BY <1>0, Zenon DEF OpType
  <2> QED
    BY <1>1, <1>2, <2>1, SMTT(30) DEF Inv, CallsTrackNetwork
<1>8. RefreshTracksNetwork'
  <2> SUFFICES ASSUME NEW f \in Envs, refresh'[f].at \in {"started", "asked"}, f # 0
               PROVE  /\ refresh'[f].moves = 0 => e = f
                      /\ refresh'[f].moves = 1 => e # f
                      /\ (refresh'[f].at = "asked" /\ refresh'[f].moves = 0) => refresh'[f].via = f
    BY <1>1, Zenon DEF RefreshTracksNetwork
  <2>1. refresh[f].moves \in 0..2
    BY <1>0, Zenon DEF RefreshType
  <2> QED
    BY <1>1, <1>3, <2>1 DEF Inv, RefreshTracksNetwork
<1>9. MarkedIsRefreshed' /\ FromItsNetwork'
  BY <1>1, <1>3, Zenon DEF Inv, MarkedIsRefreshed, FromItsNetwork
<1> QED
  BY <1>4, <1>5, <1>6, <1>7, <1>8, <1>9, Zenon DEF Inv

\* A step of Next, or none, preserves the invariant.
LEMMA NextInv == Inv /\ [Next]_vars => Inv'
<1> SUFFICES ASSUME Inv, [Next]_vars PROVE Inv'
  OBVIOUS
<1>1. ASSUME NEW c \in Callers, CallStep(c) PROVE Inv'
  BY <1>1, BeginExchangeInv, LoadFreshInv, LoadStaleInv, LoadMissInv, LoadExpiredInv, RemoveExpiredInv,
     WaitEndsInv, SendInv, RefuseInv, FinishInv, ReleaseInv, CloseCondInv, Zenon DEF CallStep
<1>2. ASSUME NEW e \in Envs, RefreshStep(e) PROVE Inv'
  BY <1>2, RefreshSendInv, RefreshReturnsInv, RefreshFinishInv, Zenon DEF RefreshStep
<1>3. CASE UNCHANGED vars
  BY <1>3 DEF Inv, TypeOK, OwnerShape, WaitersHaveOwner, MarkedIsRefreshed, CallsTrackNetwork,
              RefreshTracksNetwork, FromItsNetwork, vars, cacheVars, callVars
<1> QED
  BY <1>1, <1>2, <1>3, StartInv, CtxDoneInv, EvictedInv, ExpiresInv, NetworkChangesInv, ClearCacheInv,
     RdrcExpiresInv, Zenon DEF Next

-----------------------------------------------------------------------------
\* The inductive invariant holds always.
THEOREM DnsInv == Safety => []Inv
  BY InitInv, NextInv, PTL DEF Safety

\* The variables of the client keep their types.
THEOREM DnsTypeCorrect == Safety => []TypeOK
<1>1. Inv => TypeOK
  BY Zenon DEF Inv
<1> QED
  BY <1>1, DnsInv, PTL

\* Whoever waits in beginExchange waits for an exchange under way with its key
\* and timeout, and every lock in cacheLock has an owner that will release it.
THEOREM DnsWaitersHaveOwner == Safety => []WaitersHaveOwner
<1>1. Inv => WaitersHaveOwner
  BY Zenon DEF Inv
<1> QED
  BY <1>1, DnsInv, PTL

\* backgroundRefresh marks a key exactly while backgroundRefreshDNS runs for it.
THEOREM DnsMarkedIsRefreshed == Safety => []MarkedIsRefreshed
<1>1. Inv => MarkedIsRefreshed
  BY Zenon DEF Inv
<1> QED
  BY <1>1, DnsInv, PTL

\* storeCache files no response under a known network it did not come through.
THEOREM DnsFromItsNetwork == Safety => []FromItsNetwork
<1>1. Inv => FromItsNetwork
  BY Zenon DEF Inv
<1> QED
  BY <1>1, DnsInv, PTL
=============================================================================
