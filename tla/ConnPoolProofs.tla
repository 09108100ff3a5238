--------------------------- MODULE ConnPoolProofs ---------------------------
(***************************************************************************)
(* The safety properties of ConnPool, proved for every set of callers and  *)
(* any number of dials and resets.                                         *)
(*                                                                         *)
(* None of them is inductive.  Inv adds what ties the fields of a state    *)
(* object together: which dial attempt `connecting' stands for, which      *)
(* connection `all' may hold, and which of the two owns a connection that  *)
(* is open.                                                                *)
(***************************************************************************)
EXTENDS ConnPool, FiniteSetTheorems, TLAPS

\* A waiter waits on an attempt that was started; who acquires holds nothing.
WaitShape ==
    \A p \in Procs : /\ pc[p] = "wait" => waitOn[p] \in Conns /\ waitOn[p] <= dials
                     /\ pc[p] # "idle" => hold[p] = NoConn

\* The attempts: at most one of the current generation is under way, it is
\* `connecting', and while it is there is no shared connection.
DialShape ==
    /\ \A k \in Conns : k > dials <=> phase[k] = "unused"
    /\ \A k \in Conns : dialGen[k] <= gen
    /\ \A k \in Conns : (phase[k] \in {"dialing", "dialed"} /\ dialGen[k] = gen /\ ~closed)
                            => connecting = k
    /\ connecting # NoConn => /\ ~closed /\ shared = NoConn
                              /\ phase[connecting] \in {"dialing", "dialed"}
                              /\ dialGen[connecting] = gen
    /\ \A g \in cancelled : Dropped(g)

\* Installed(k): the attempt put its connection into the pool.
Installed(k) == phase[k] \in {"finishing", "done"} /\ ~failed[k]

\* The current generation tracks the shared connection and nothing else.
SharedShape ==
    /\ all = IF shared = NoConn THEN {} ELSE {shared}
    /\ shared # NoConn => /\ ~closed /\ Installed(shared)
                          /\ dialGen[shared] = gen
                          /\ conn[shared] = "open" /\ cause[shared] = "none"
    /\ shared = NoConn => ~sharedClaimed /\ sharedUsers = 0
    /\ \A k \in oldAll : Dropped(dialGen[k]) /\ Installed(k)

\* Until it is installed a connection's context lives; a dial that succeeded
\* has an open connection.
FreshShape ==
    \A k \in Conns :
        /\ phase[k] \in {"unused", "dialing", "dialed"} => cause[k] = "none"
        /\ phase[k] = "dialed" /\ ~failed[k] => conn[k] = "open"

\* A connection was handed out as created iff somebody claimed it.
ClaimShape ==
    /\ \A k \in Conns : receivers[k] <= 1
    /\ \A k \in Conns : ~Installed(k) => receivers[k] = 0
    /\ shared # NoConn => receivers[shared] = IF sharedClaimed THEN 1 ELSE 0
    /\ \A p \in Procs : hold[p] # NoConn => receivers[hold[p]] = 1

\* Who closes an open connection: the attempt that failed, or the pool.
OwnerShape ==
    \A k \in Conns : conn[k] = "open" =>
        \/ phase[k] = "dialed"
        \/ phase[k] = "finishing" /\ failed[k]
        \/ k \in all \cup oldAll

\* An installed connection is tracked, or its context is or will be cancelled.
ToldShape ==
    \A k \in Conns : Installed(k) =>
        \/ k \in all
        \/ cause[k] # "none"
        \/ k \in oldAll /\ dialGen[k] \notin cancelled

\* The two counters of CountsExact.
UsersCounted == shared # NoConn => sharedUsers = Cardinality(Users(shared))
WaitersCounted == ~closed => sharedWaiters = Cardinality(Waiters)

Inv ==
    /\ TypeOK /\ WaitShape /\ DialShape /\ SharedShape /\ FreshShape
    /\ ClaimShape /\ OwnerShape /\ ToldShape /\ UsersCounted /\ WaitersCounted

-----------------------------------------------------------------------------
(***************************************************************************)
(* Facts about the constants and the two counted sets.                     *)
(***************************************************************************)
LEMMA NoConnNotConn == NoConn \notin Conns
  BY ConstAssumption DEF NoConn, Conns

LEMMA ConnsAreInts == Conns \subseteq Int
  BY DEF Conns

LEMMA GensAreInts == Gens \subseteq Int
  BY DEF Gens

LEMMA UsersFinite == \A k : IsFiniteSet(Users(k))
<1> TAKE k
<1>1. Users(k) \subseteq Procs
  BY Zenon DEF Users
<1> QED
  BY <1>1, ConstAssumption, FS_Subset, Zenon

LEMMA WaitersFinite == IsFiniteSet(Waiters)
<1>1. Waiters \subseteq Procs
  BY Zenon DEF Waiters
<1> QED
  BY <1>1, ConstAssumption, FS_Subset, Zenon

\* A caller that starts to wait on an attempt of the current generation is one
\* waiter more.
LEMMA WaiterEnters ==
  ASSUME Inv, NEW p \in Procs, NEW k \in Conns, pc[p] = "acquire", ~closed,
         closed' = closed, gen' = gen, sharedWaiters' = sharedWaiters + 1,
         pc' = [pc EXCEPT ![p] = "wait"], waitOn' = [waitOn EXCEPT ![p] = k],
         dialGen'[k] = gen,
         \A q \in Procs : pc[q] = "wait" => dialGen'[waitOn[q]] = dialGen[waitOn[q]]
  PROVE  WaitersCounted'
<1>1. Waiters' = Waiters \cup {p}
  BY Zenon DEF Inv, TypeOK, CallTypes, Waiters
<1>2. p \notin Waiters
  BY Zenon DEF Waiters
<1>3. Cardinality(Waiters') = Cardinality(Waiters) + 1
  BY <1>1, <1>2, WaitersFinite, FS_AddElement, Zenon
<1> QED
  BY <1>3, Zenon DEF Inv, WaitersCounted

\* A waiter that leaves is one less, unless its state object was replaced; the
\* counter does not go below zero.
LEMMA WaiterLeaves ==
  ASSUME Inv, NEW p \in Procs, NEW next \in {"idle", "acquire"}, pc[p] = "wait",
         Leave(p, next), closed' = closed, gen' = gen, dialGen' = dialGen
  PROVE  WaitersCounted' /\ sharedWaiters' \in Nat
<1>1. Waiters' = Waiters \ {p}
  BY Zenon DEF Inv, TypeOK, CallTypes, Waiters, Leave
<1>2. CASE closed
  BY <1>2, Zenon DEF Inv, TypeOK, StateTypes, Leave, Unwait, WaitersCounted
<1>3. CASE ~closed /\ dialGen[waitOn[p]] # gen
  <2>1. Waiters' = Waiters
    BY <1>1, <1>3, Zenon DEF Waiters
  <2> QED
    BY <1>3, <2>1, Zenon DEF Inv, TypeOK, StateTypes, Leave, Unwait, WaitersCounted
<1>4. CASE ~closed /\ dialGen[waitOn[p]] = gen
  <2>1. p \in Waiters
    BY <1>4, Zenon DEF Waiters
  <2>2. Cardinality(Waiters') = Cardinality(Waiters) - 1
    BY <1>1, <2>1, WaitersFinite, FS_RemoveElement, Zenon
  <2>3. Cardinality(Waiters) \in Nat /\ Cardinality(Waiters) # 0
    BY <2>1, WaitersFinite, FS_CardinalityType, FS_EmptySet, Zenon
  <2> QED
    BY <1>4, <2>2, <2>3 DEF Inv, Leave, Unwait, WaitersCounted
<1> QED
  BY <1>2, <1>3, <1>4, Zenon

\* A caller that claims the shared connection is one user more of it.
LEMMA UserClaims ==
  ASSUME Inv, NEW p \in Procs, pc[p] # "idle", shared # NoConn, Claim(p),
         shared' = shared
  PROVE  UsersCounted'
<1>1. Users(shared)' = Users(shared) \cup {p}
  BY Zenon DEF Inv, TypeOK, CallTypes, Users, Claim
<1>2. p \notin Users(shared)
  BY Zenon DEF Inv, WaitShape, Users
<1>3. Cardinality(Users(shared)') = Cardinality(Users(shared)) + 1
  BY <1>1, <1>2, UsersFinite, FS_AddElement, Zenon
<1> QED
  BY <1>3, Zenon DEF Inv, UsersCounted, Claim

\* Claiming keeps the books on who was told that the connection is new.
LEMMA ClaimKeeps ==
  ASSUME Inv, NEW p \in Procs, shared # NoConn, Claim(p), UNCHANGED <<shared, phase, failed>>
  PROVE  ClaimShape'
<1>1. shared \in Conns /\ Installed(shared) /\ (sharedClaimed => receivers[shared] = 1)
  BY Zenon DEF Inv, TypeOK, StateTypes, SharedShape, ClaimShape
<1>2. receivers' \in [Conns -> Nat] /\ receivers'[shared] = 1
  BY <1>1 DEF Inv, TypeOK, StateTypes, CallTypes, ClaimShape, Claim
<1>3. \A k \in Conns : k # shared => receivers'[k] = receivers[k]
  BY <1>1, Zenon DEF Inv, TypeOK, CallTypes, Claim
<1> QED
  BY <1>1, <1>2, <1>3 DEF Inv, TypeOK, CallTypes, ClaimShape, Installed, Claim

-----------------------------------------------------------------------------
(***************************************************************************)
(* The actions preserve Inv.  First acquireShared up to the select.        *)
(***************************************************************************)
LEMMA CallInv ==
  ASSUME Inv, NEW p \in Procs, Call(p)
  PROVE  Inv'
<1>1. CallTypes'
  BY NoConnNotConn, Zenon DEF Inv, TypeOK, StateTypes, CallTypes, Call, stateVars, dialVars,
      connVars
<1>2. WaitShape'
  BY NoConnNotConn, Zenon DEF Inv, TypeOK, CallTypes, WaitShape, Call, stateVars, dialVars,
      connVars
<1>3. WaitersCounted'
  BY NoConnNotConn, Zenon DEF Inv, TypeOK, StateTypes, CallTypes, WaitersCounted, Call, stateVars,
      dialVars, connVars, Waiters
<1>4. StateTypes' /\ DialTypes' /\ ConnTypes'
  BY Zenon DEF Inv, TypeOK, StateTypes, DialTypes, ConnTypes, Call, stateVars, dialVars, connVars
<1>5. DialShape' /\ SharedShape' /\ FreshShape' /\ ClaimShape' /\ OwnerShape' /\ ToldShape'
  BY Zenon DEF Inv, DialShape, SharedShape, FreshShape, ClaimShape, OwnerShape, ToldShape,
      Installed, Dropped, Call, stateVars, dialVars, connVars
<1>6. UsersCounted'
  BY Zenon DEF Inv, UsersCounted, Users, Waiters, Call, stateVars, dialVars, connVars
<1> QED
  BY <1>1, <1>2, <1>3, <1>4, <1>5, <1>6, Zenon DEF Inv, TypeOK

LEMMA AcquireClosedInv ==
  ASSUME Inv, NEW p \in Procs, AcquireClosed(p)
  PROVE  Inv'
<1>1. CallTypes'
  BY NoConnNotConn, Zenon DEF Inv, TypeOK, StateTypes, CallTypes, AcquireClosed, stateVars,
      dialVars, connVars
<1>2. WaitShape'
  BY NoConnNotConn, Zenon DEF Inv, TypeOK, CallTypes, WaitShape, AcquireClosed, stateVars,
      dialVars, connVars
<1>3. WaitersCounted'
  BY NoConnNotConn, Zenon DEF Inv, TypeOK, StateTypes, CallTypes, WaitersCounted, AcquireClosed,
      stateVars, dialVars, connVars, Waiters
<1>4. StateTypes' /\ DialTypes' /\ ConnTypes'
  BY Zenon DEF Inv, TypeOK, StateTypes, DialTypes, ConnTypes, AcquireClosed, stateVars, dialVars,
      connVars
<1>5. DialShape' /\ SharedShape' /\ FreshShape' /\ ClaimShape' /\ OwnerShape' /\ ToldShape'
  BY Zenon DEF Inv, DialShape, SharedShape, FreshShape, ClaimShape, OwnerShape, ToldShape,
      Installed, Dropped, AcquireClosed, stateVars, dialVars, connVars
<1>6. UsersCounted'
  BY Zenon DEF Inv, UsersCounted, Users, Waiters, AcquireClosed, stateVars, dialVars, connVars
<1> QED
  BY <1>1, <1>2, <1>3, <1>4, <1>5, <1>6, Zenon DEF Inv, TypeOK

LEMMA AcquireHitInv ==
  ASSUME Inv, NEW p \in Procs, AcquireHit(p)
  PROVE  Inv'
<1>1. StateTypes'
  BY NoConnNotConn DEF Inv, TypeOK, StateTypes, AcquireHit, Claim, dialVars, connVars
<1>2. CallTypes'
  BY NoConnNotConn DEF Inv, TypeOK, StateTypes, CallTypes, AcquireHit, Claim, dialVars,
      connVars
<1>3. WaitShape'
  BY NoConnNotConn, Zenon DEF Inv, TypeOK, CallTypes, WaitShape, AcquireHit, Claim, dialVars,
      connVars
<1>4. SharedShape'
  BY NoConnNotConn, Zenon DEF Inv, TypeOK, StateTypes, DialTypes, ConnTypes, SharedShape,
      DialShape, FreshShape, Installed, Dropped, AcquireHit, Claim, dialVars, connVars
<1>5. ClaimShape'
  BY ClaimKeeps, Zenon DEF AcquireHit, dialVars
<1>6. UsersCounted'
  BY UserClaims, Zenon DEF AcquireHit
<1>7. WaitersCounted'
  BY NoConnNotConn, Zenon DEF Inv, TypeOK, StateTypes, CallTypes, WaitersCounted, AcquireHit,
      Claim, dialVars, connVars, Waiters
<1>8. DialTypes' /\ ConnTypes'
  BY Zenon DEF Inv, TypeOK, DialTypes, ConnTypes, AcquireHit, Claim, dialVars, connVars
<1>9. DialShape' /\ FreshShape' /\ OwnerShape' /\ ToldShape'
  BY Zenon DEF Inv, DialShape, FreshShape, OwnerShape, ToldShape, Installed, Dropped, AcquireHit,
      Claim, dialVars, connVars
<1> QED
  BY <1>1, <1>2, <1>3, <1>4, <1>5, <1>6, <1>7, <1>8, <1>9, Zenon DEF Inv, TypeOK

LEMMA AcquireJoinInv ==
  ASSUME Inv, NEW p \in Procs, AcquireJoin(p)
  PROVE  Inv'
<1>1. StateTypes'
  BY NoConnNotConn DEF Inv, TypeOK, StateTypes, AcquireJoin, dialVars, connVars
<1>2. CallTypes'
  BY NoConnNotConn, Zenon DEF Inv, TypeOK, StateTypes, CallTypes, AcquireJoin, dialVars, connVars
<1>3. WaitShape'
  BY ConnsAreInts, NoConnNotConn DEF Inv, TypeOK, CallTypes, WaitShape, AcquireJoin,
      dialVars, connVars, DialShape, StateTypes, DialTypes
<1>4. WaitersCounted'
  BY WaiterEnters, NoConnNotConn, Zenon
     DEF Inv, TypeOK, StateTypes, DialShape, AcquireJoin, dialVars
<1>5. DialTypes' /\ ConnTypes'
  BY Zenon DEF Inv, TypeOK, DialTypes, ConnTypes, AcquireJoin, dialVars, connVars
<1>6. DialShape' /\ SharedShape' /\ FreshShape' /\ ClaimShape' /\ OwnerShape' /\ ToldShape'
  BY Zenon DEF Inv, DialShape, SharedShape, FreshShape, ClaimShape, OwnerShape, ToldShape,
      Installed, Dropped, AcquireJoin, dialVars, connVars
<1>7. UsersCounted'
  BY Zenon DEF Inv, UsersCounted, Users, Waiters, AcquireJoin, dialVars, connVars
<1> QED
  BY <1>1, <1>2, <1>3, <1>4, <1>5, <1>6, <1>7, Zenon DEF Inv, TypeOK

LEMMA AcquireDialInv ==
  ASSUME Inv, NEW p \in Procs, AcquireDial(p)
  PROVE  Inv'
<1>1. /\ dials + 1 \in Conns /\ dials \in Int /\ dials' \in 0..MaxDials
     /\ phase[dials + 1] = "unused" /\ dialGen'[dials + 1] = gen
  BY ConstAssumption DEF Inv, TypeOK, DialTypes, DialShape, AcquireDial, Conns
<1>2. StateTypes'
  BY <1>1, NoConnNotConn DEF Inv, TypeOK, StateTypes, AcquireDial, connVars
<1>3. DialTypes'
  BY <1>1, NoConnNotConn, Zenon DEF Inv, TypeOK, DialTypes, AcquireDial, connVars, Phases,
      ConnStates, Causes, StateTypes
<1>4. CallTypes'
  BY <1>1, NoConnNotConn, Zenon DEF Inv, TypeOK, StateTypes, CallTypes, AcquireDial, connVars
<1>5. WaitShape'
  <2>1. \A q \in Procs : pc[q] = "wait" => waitOn[q] \in Conns /\ waitOn[q] <= dials + 1
    BY <1>1, ConstAssumption DEF Inv, WaitShape, Conns
  <2> QED
    BY <1>1, <2>1 DEF Inv, TypeOK, CallTypes, WaitShape, AcquireDial
<1>6. DialShape'
  BY ConstAssumption, NoConnNotConn DEF Inv, TypeOK, StateTypes, DialTypes, DialShape,
      SharedShape, Installed, Dropped, AcquireDial, connVars, Conns, Gens, NoConn
<1>7. SharedShape'
  BY <1>1, NoConnNotConn, Zenon DEF Inv, TypeOK, StateTypes, DialTypes, ConnTypes, SharedShape,
      DialShape, FreshShape, Installed, Dropped, AcquireDial, connVars
<1>8. FreshShape'
  BY <1>1, NoConnNotConn, Zenon DEF Inv, TypeOK, StateTypes, DialTypes, ConnTypes, FreshShape,
      SharedShape, DialShape, ClaimShape, Installed, Dropped, AcquireDial, connVars
<1>9. ClaimShape'
  BY <1>1, NoConnNotConn, Zenon DEF Inv, TypeOK, StateTypes, DialTypes, CallTypes, ClaimShape,
      WaitShape, SharedShape, DialShape, Installed, Dropped, AcquireDial, connVars
<1>10. OwnerShape'
  BY <1>1, NoConnNotConn, Zenon DEF Inv, TypeOK, StateTypes, DialTypes, ConnTypes, OwnerShape,
      SharedShape, DialShape, Installed, Dropped, AcquireDial, connVars
<1>11. ToldShape'
  BY <1>1, NoConnNotConn, Zenon DEF Inv, TypeOK, StateTypes, DialTypes, ConnTypes, ToldShape,
      SharedShape, DialShape, Installed, Dropped, AcquireDial, connVars
<1>12. WaitersCounted'
  <2>1. \A q \in Procs : pc[q] = "wait" => dialGen'[waitOn[q]] = dialGen[waitOn[q]]
    BY <1>1, ConnsAreInts DEF Inv, TypeOK, DialTypes, WaitShape, AcquireDial
  <2> QED
    BY <1>1, <2>1, WaiterEnters, Zenon DEF AcquireDial
<1>13. ConnTypes'
  BY Zenon DEF Inv, TypeOK, ConnTypes, AcquireDial, connVars
<1>14. UsersCounted'
  BY Zenon DEF Inv, UsersCounted, Users, Waiters, AcquireDial, connVars
<1> QED
  BY <1>2, <1>3, <1>4, <1>5, <1>6, <1>7, <1>8, <1>9, <1>10, <1>11, <1>12, <1>13, <1>14, Zenon DEF
      Inv, TypeOK

-----------------------------------------------------------------------------
(***************************************************************************)
(* The goroutine connectSingle.                                            *)
(***************************************************************************)
LEMMA DialSucceedsInv ==
  ASSUME Inv, NEW k \in Conns, DialSucceeds(k)
  PROVE  Inv'
<1>1. ConnTypes'
  BY NoConnNotConn, Zenon DEF Inv, TypeOK, StateTypes, ConnTypes, DialSucceeds, stateVars,
      callVars, Phases, ConnStates, Causes
<1>2. DialTypes'
  BY NoConnNotConn, Zenon DEF Inv, TypeOK, DialTypes, DialSucceeds, stateVars, callVars, Phases,
      ConnStates, Causes
<1>3. DialShape'
  BY NoConnNotConn, Zenon DEF Inv, TypeOK, StateTypes, DialTypes, DialShape, SharedShape,
      Installed, Dropped, DialSucceeds, stateVars, callVars
<1>4. SharedShape'
  BY NoConnNotConn, Zenon DEF Inv, TypeOK, StateTypes, DialTypes, ConnTypes, SharedShape,
      DialShape, FreshShape, Installed, Dropped, DialSucceeds, stateVars, callVars
<1>5. FreshShape'
  BY NoConnNotConn DEF Inv, TypeOK, StateTypes, DialTypes, ConnTypes, FreshShape,
      SharedShape, DialShape, ClaimShape, Installed, Dropped, DialSucceeds, stateVars,
      callVars
<1>6. ClaimShape'
  BY NoConnNotConn, ZenonT(60) DEF Inv, TypeOK, StateTypes, DialTypes, CallTypes, ClaimShape, WaitShape,
      SharedShape, DialShape, Installed, Dropped, DialSucceeds, stateVars, callVars
<1>7. OwnerShape'
  BY NoConnNotConn, Zenon DEF Inv, TypeOK, StateTypes, DialTypes, ConnTypes, OwnerShape,
      SharedShape, DialShape, Installed, Dropped, DialSucceeds, stateVars, callVars
<1>8. ToldShape'
  BY NoConnNotConn, Zenon DEF Inv, TypeOK, StateTypes, DialTypes, ConnTypes, ToldShape,
      SharedShape, DialShape, Installed, Dropped, DialSucceeds, stateVars, callVars
<1>9. StateTypes' /\ CallTypes'
  BY Zenon DEF Inv, TypeOK, StateTypes, CallTypes, DialSucceeds, stateVars, callVars
<1>10. WaitShape'
  BY Zenon DEF Inv, WaitShape, Installed, Dropped, DialSucceeds, stateVars, callVars
<1>11. UsersCounted' /\ WaitersCounted'
  BY Zenon DEF Inv, UsersCounted, WaitersCounted, Users, Waiters, DialSucceeds, stateVars,
      callVars
<1> QED
  BY <1>1, <1>2, <1>3, <1>4, <1>5, <1>6, <1>7, <1>8, <1>9, <1>10, <1>11, Zenon DEF Inv, TypeOK

LEMMA DialFailsInv ==
  ASSUME Inv, NEW k \in Conns, DialFails(k)
  PROVE  Inv'
<1>1. DialTypes'
  BY NoConnNotConn, Zenon DEF Inv, TypeOK, DialTypes, DialFails, stateVars, connVars, callVars,
      Phases, ConnStates, Causes
<1>2. DialShape'
  BY NoConnNotConn, Zenon DEF Inv, TypeOK, StateTypes, DialTypes, DialShape, SharedShape,
      Installed, Dropped, DialFails, stateVars, connVars, callVars
<1>3. SharedShape'
  BY NoConnNotConn DEF Inv, TypeOK, StateTypes, DialTypes, ConnTypes, SharedShape,
      DialShape, FreshShape, Installed, Dropped, DialFails, stateVars, connVars, callVars
<1>4. FreshShape'
  BY NoConnNotConn, Zenon DEF Inv, TypeOK, StateTypes, DialTypes, ConnTypes, FreshShape,
      SharedShape, DialShape, ClaimShape, Installed, Dropped, DialFails, stateVars,
      connVars, callVars
<1>5. ClaimShape'
  BY NoConnNotConn DEF Inv, TypeOK, StateTypes, DialTypes, CallTypes, ClaimShape, WaitShape,
      SharedShape, DialShape, Installed, Dropped, DialFails, stateVars, connVars, callVars
<1>6. OwnerShape'
  BY NoConnNotConn, ZenonT(40) DEF Inv, TypeOK, StateTypes, DialTypes, ConnTypes, OwnerShape,
      SharedShape, DialShape, Installed, Dropped, DialFails, stateVars, connVars, callVars
<1>7. ToldShape'
  BY NoConnNotConn, Zenon DEF Inv, TypeOK, StateTypes, DialTypes, ConnTypes, ToldShape,
      SharedShape, DialShape, Installed, Dropped, DialFails, stateVars, connVars, callVars
<1>8. StateTypes' /\ ConnTypes' /\ CallTypes'
  BY Zenon DEF Inv, TypeOK, StateTypes, ConnTypes, CallTypes, DialFails, stateVars, connVars,
      callVars
<1>9. WaitShape'
  BY ZenonT(40) DEF Inv, WaitShape, Installed, Dropped, DialFails, stateVars, connVars, callVars
<1>10. UsersCounted' /\ WaitersCounted'
  BY Zenon DEF Inv, UsersCounted, WaitersCounted, Users, Waiters, DialFails, stateVars, connVars,
      callVars
<1> QED
  BY <1>1, <1>2, <1>3, <1>4, <1>5, <1>6, <1>7, <1>8, <1>9, <1>10, Zenon DEF Inv, TypeOK

LEMMA InstallInv ==
  ASSUME Inv, NEW k \in Conns, Install(k)
  PROVE  Inv'
<1>1. StateTypes'
  BY NoConnNotConn, Zenon DEF Inv, TypeOK, StateTypes, Install, Connected, connVars, callVars
<1>2. DialTypes'
  BY NoConnNotConn, ZenonT(40) DEF Inv, TypeOK, DialTypes, Install, Connected, connVars, callVars,
      Phases, ConnStates, Causes
<1>3. DialShape'
  BY NoConnNotConn, Zenon DEF Inv, TypeOK, StateTypes, DialTypes, DialShape, SharedShape,
      Installed, Dropped, Install, Connected, connVars, callVars
<1>4. SharedShape'
  <2>1. CASE failed[k] \/ closed \/ dialGen[k] # gen
    BY <2>1, ZenonT(40) DEF Inv, TypeOK, StateTypes, DialTypes, SharedShape, FreshShape, Installed, Dropped, Install, connVars, callVars
  <2>2. CASE ~failed[k] /\ ~closed /\ dialGen[k] = gen
    BY <2>2, NoConnNotConn, ZenonT(40) DEF Inv, TypeOK, StateTypes, DialTypes, SharedShape, FreshShape, Installed, Dropped, DialShape,
       Install, connVars, callVars
  <2> QED
    BY <2>1, <2>2, Zenon
<1>5. FreshShape'
  BY NoConnNotConn, ZenonT(60) DEF Inv, TypeOK, StateTypes, DialTypes, ConnTypes, FreshShape,
      SharedShape, DialShape, ClaimShape, Installed, Dropped, Install, Connected, connVars,
      callVars
<1>6. ClaimShape'
  <2>1. CASE failed[k] \/ closed \/ dialGen[k] # gen
    BY <2>1, ZenonT(40) DEF Inv, TypeOK, DialTypes, ClaimShape, SharedShape, Installed, Install, connVars, callVars
  <2>2. CASE ~failed[k] /\ ~closed /\ dialGen[k] = gen
    BY <2>2, NoConnNotConn, Zenon DEF Inv, TypeOK, DialTypes, ClaimShape, SharedShape, Installed, DialShape,
       Install, connVars, callVars
  <2> QED
    BY <2>1, <2>2, Zenon
<1>7. OwnerShape'
  BY NoConnNotConn, Zenon DEF Inv, TypeOK, StateTypes, DialTypes, ConnTypes, OwnerShape,
      SharedShape, DialShape, Installed, Dropped, Install, Connected, connVars, callVars
<1>8. ToldShape'
  BY NoConnNotConn DEF Inv, TypeOK, StateTypes, DialTypes, ConnTypes, ToldShape,
      SharedShape, DialShape, Installed, Dropped, Install, Connected, connVars, callVars
<1>9. UsersCounted'
  <2>1. CASE shared' = shared
    BY <2>1, Zenon DEF Inv, UsersCounted, Users, Install, callVars
  <2>2. CASE shared' = k /\ ~failed[k] /\ ~closed /\ dialGen[k] = gen
    <3>1. Users(k)' = {}
      BY <2>2, NoConnNotConn DEF Inv, ClaimShape, Installed, Users, Install, callVars
    <3>2. sharedUsers' = 0
      BY <2>2, NoConnNotConn, Zenon DEF Inv, DialShape, SharedShape, Install
    <3> QED
      BY <2>2, <3>1, <3>2, FS_EmptySet, Zenon DEF UsersCounted, Users
  <2> QED
    BY <2>1, <2>2, Zenon DEF Install
<1>10. ConnTypes' /\ CallTypes'
  BY Zenon DEF Inv, TypeOK, ConnTypes, CallTypes, Install, Connected, connVars, callVars
<1>11. WaitShape'
  BY Zenon DEF Inv, WaitShape, Installed, Dropped, Install, Connected, connVars, callVars
<1>12. WaitersCounted'
  BY Zenon DEF Inv, WaitersCounted, Users, Waiters, Install, Connected, connVars, callVars
<1> QED
  BY <1>1, <1>2, <1>3, <1>4, <1>5, <1>6, <1>7, <1>8, <1>9, <1>10, <1>11, <1>12, Zenon DEF Inv,
      TypeOK

LEMMA FinishInv ==
  ASSUME Inv, NEW k \in Conns, Finish(k)
  PROVE  Inv'
<1>1. ConnTypes'
  BY NoConnNotConn, Zenon DEF Inv, TypeOK, StateTypes, ConnTypes, Finish, stateVars, callVars,
      Phases, ConnStates, Causes
<1>2. DialTypes'
  BY NoConnNotConn, Zenon DEF Inv, TypeOK, DialTypes, Finish, stateVars, callVars, Phases,
      ConnStates, Causes
<1>3. DialShape'
  BY NoConnNotConn, Zenon DEF Inv, TypeOK, StateTypes, DialTypes, DialShape, SharedShape,
      Installed, Dropped, Finish, stateVars, callVars
<1>4. SharedShape'
  BY NoConnNotConn, Zenon DEF Inv, TypeOK, StateTypes, DialTypes, ConnTypes, SharedShape,
      DialShape, FreshShape, Installed, Dropped, Finish, stateVars, callVars
<1>5. FreshShape'
  BY NoConnNotConn, Zenon DEF Inv, TypeOK, StateTypes, DialTypes, ConnTypes, FreshShape,
      SharedShape, DialShape, ClaimShape, Installed, Dropped, Finish, stateVars, callVars
<1>6. ClaimShape'
  BY NoConnNotConn, Zenon DEF Inv, TypeOK, StateTypes, DialTypes, CallTypes, ClaimShape, WaitShape,
      SharedShape, DialShape, Installed, Dropped, Finish, stateVars, callVars
<1>7. OwnerShape'
  BY NoConnNotConn, ZenonT(40) DEF Inv, TypeOK, StateTypes, DialTypes, ConnTypes, OwnerShape,
      SharedShape, DialShape, Installed, Dropped, Finish, stateVars, callVars
<1>8. ToldShape'
  BY NoConnNotConn, Zenon DEF Inv, TypeOK, StateTypes, DialTypes, ConnTypes, ToldShape,
      SharedShape, DialShape, Installed, Dropped, Finish, stateVars, callVars
<1>9. StateTypes' /\ CallTypes'
  BY Zenon DEF Inv, TypeOK, StateTypes, CallTypes, Finish, stateVars, callVars
<1>10. WaitShape'
  BY Zenon DEF Inv, WaitShape, Installed, Dropped, Finish, stateVars, callVars
<1>11. UsersCounted' /\ WaitersCounted'
  BY Zenon DEF Inv, UsersCounted, WaitersCounted, Users, Waiters, Finish, stateVars, callVars
<1> QED
  BY <1>1, <1>2, <1>3, <1>4, <1>5, <1>6, <1>7, <1>8, <1>9, <1>10, <1>11, Zenon DEF Inv, TypeOK

-----------------------------------------------------------------------------
(***************************************************************************)
(* The select and collectShared.                                           *)
(***************************************************************************)

\* A waiter leaves and nothing else happens.
LEMMA LeaveInv ==
  ASSUME Inv, NEW p \in Procs, NEW next \in {"idle", "acquire"}, pc[p] = "wait", Leave(p, next),
         UNCHANGED <<closed, gen, cancelled, all, oldAll, shared, sharedClaimed, sharedUsers,
                     connecting, dialVars, connVars, hold, receivers, ctx>>
  PROVE  Inv'
<1>1. WaitersCounted' /\ sharedWaiters' \in Nat
  BY WaiterLeaves, Zenon DEF dialVars
<1>2. StateTypes' /\ DialTypes' /\ ConnTypes'
  BY <1>1, Zenon DEF Inv, TypeOK, StateTypes, DialTypes, ConnTypes, dialVars, connVars
<1>3. CallTypes' /\ WaitShape'
  BY Zenon DEF Inv, TypeOK, CallTypes, WaitShape, Leave, dialVars
<1>4. DialShape' /\ SharedShape' /\ FreshShape' /\ ClaimShape' /\ OwnerShape' /\ ToldShape'
  BY ZenonT(40) DEF Inv, DialShape, SharedShape, FreshShape, ClaimShape, OwnerShape, ToldShape,
         Installed, Dropped, dialVars, connVars
<1>5. UsersCounted'
  BY Zenon DEF Inv, UsersCounted, Users
<1> QED
  BY <1>1, <1>2, <1>3, <1>4, <1>5, Zenon DEF Inv, TypeOK

LEMMA SelectInv ==
  ASSUME Inv, NEW p \in Procs,
         CollectFails(p) \/ CollectRetries(p) \/ WaitCancelled(p) \/ WaitReset(p)
  PROVE  Inv'
<1>1. CASE CollectFails(p)
  BY <1>1, LeaveInv, ZenonT(40) DEF CollectFails, Woken
<1>2. CASE CollectRetries(p)
  BY <1>2, LeaveInv, ZenonT(40) DEF CollectRetries, Woken
<1>3. CASE WaitCancelled(p)
  BY <1>3, LeaveInv, Zenon DEF WaitCancelled
<1>4. CASE WaitReset(p)
  BY <1>4, LeaveInv, Zenon DEF WaitReset
<1> QED
  BY <1>1, <1>2, <1>3, <1>4, Zenon

LEMMA CollectSharedInv ==
  ASSUME Inv, NEW p \in Procs, CollectShared(p)
  PROVE  Inv'
<1>1. WaitersCounted' /\ sharedWaiters' \in Nat
  BY WaiterLeaves, Zenon DEF CollectShared, Woken, dialVars
<1>2. StateTypes'
  BY <1>1 DEF Inv, TypeOK, StateTypes, CollectShared, Claim
<1>3. CallTypes'
  <2>1. hold' \in [Procs -> Conns \cup {NoConn}] /\ receivers' \in [Conns -> Nat]
    BY DEF Inv, TypeOK, StateTypes, CallTypes, CollectShared, Claim
  <2> QED
    BY <2>1, ZenonT(40) DEF Inv, TypeOK, CallTypes, CollectShared, Leave
<1>4. WaitShape'
  BY NoConnNotConn, Zenon DEF Inv, TypeOK, CallTypes, WaitShape, CollectShared, Woken, Claim,
      Leave, dialVars, connVars
<1>5. SharedShape'
  BY NoConnNotConn, Zenon DEF Inv, TypeOK, StateTypes, DialTypes, ConnTypes, SharedShape,
      DialShape, FreshShape, Installed, Dropped, CollectShared, Woken, Claim, Leave,
      dialVars, connVars
<1>6. ClaimShape'
  BY ClaimKeeps, Zenon DEF CollectShared, dialVars
<1>7. UsersCounted'
  BY UserClaims, Zenon DEF CollectShared, Woken
<1>8. WaitersCounted'
  BY <1>1, Zenon
<1>9. DialTypes' /\ ConnTypes'
  BY Zenon DEF Inv, TypeOK, DialTypes, ConnTypes, CollectShared, Woken, Claim, Leave, dialVars,
      connVars
<1>10. DialShape' /\ FreshShape' /\ OwnerShape' /\ ToldShape'
  BY Zenon DEF Inv, DialShape, FreshShape, OwnerShape, ToldShape, Installed, Dropped,
      CollectShared, Woken, Claim, Leave, dialVars, connVars
<1> QED
  BY <1>2, <1>3, <1>4, <1>5, <1>6, <1>7, <1>8, <1>9, <1>10, Zenon DEF Inv, TypeOK

-----------------------------------------------------------------------------
(***************************************************************************)
(* Handing connections back.  What removeConn does to a tracked one:       *)
(***************************************************************************)
LEMMA RemoveTracked ==
  ASSUME Inv, NEW k \in all, NEW why, RemoveConn(k, why)
  PROVE  /\ k = shared /\ k \in Conns /\ Installed(k) /\ ~closed
         /\ all' = {} /\ shared' = NoConn /\ sharedClaimed' = FALSE /\ sharedUsers' = 0
         /\ conn' = [conn EXCEPT ![k] = "closed"] /\ cause' = [cause EXCEPT ![k] = why]
  BY Zenon DEF Inv, TypeOK, StateTypes, SharedShape, RemoveConn

\* Dropping one's claim: hold changes, if at all, from k to nothing.
DropsClaim(k) ==
    \/ hold' = hold
    \/ \E p \in Procs : hold[p] = k /\ hold' = [hold EXCEPT ![p] = NoConn]

\* A tracked connection is removed, by whoever.
LEMMA RemoveInv ==
  ASSUME Inv, NEW k \in all, NEW why \in {"read", "other"}, RemoveConn(k, why), DropsClaim(k),
         UNCHANGED <<closed, gen, cancelled, oldAll, connecting, dialVars, dead, receivers, ctx>>,
         sharedWaiters' \in Nat, CallTypes', WaitShape', WaitersCounted'
  PROVE  Inv'
<1>0. /\ k = shared /\ k \in Conns /\ Installed(k) /\ ~closed
      /\ all' = {} /\ shared' = NoConn /\ sharedClaimed' = FALSE /\ sharedUsers' = 0
      /\ conn' = [conn EXCEPT ![k] = "closed"] /\ cause' = [cause EXCEPT ![k] = why]
  BY RemoveTracked, Zenon
<1> USE <1>0, NoConnNotConn
<1>1. StateTypes' /\ DialTypes'
  BY ZenonT(40) DEF Inv, TypeOK, StateTypes, DialTypes, dialVars
<1>2. ConnTypes'
  BY Zenon DEF Inv, TypeOK, ConnTypes, ConnStates, Causes
<1>3. DialShape'
  BY Zenon DEF Inv, DialShape, Dropped, dialVars
<1>4. SharedShape' /\ UsersCounted'
  BY Zenon DEF Inv, SharedShape, UsersCounted, Installed, Dropped, dialVars
<1>5. FreshShape'
  BY ZenonT(40) DEF Inv, TypeOK, ConnTypes, FreshShape, Installed, dialVars
<1>6. ClaimShape'
  BY Zenon DEF Inv, TypeOK, CallTypes, ClaimShape, Installed, dialVars, DropsClaim
<1>7. OwnerShape'
  BY ZenonT(40) DEF Inv, TypeOK, ConnTypes, SharedShape, OwnerShape, dialVars
<1>8. ToldShape'
  BY Zenon DEF Inv, TypeOK, ConnTypes, SharedShape, ToldShape, Installed, dialVars
<1> QED
  BY <1>1, <1>2, <1>3, <1>4, <1>5, <1>6, <1>7, <1>8, Zenon DEF Inv, TypeOK

\* A connection the current state does not track is handed back, closed or not.
LEMMA UntrackedInv ==
  ASSUME Inv, NEW k \in Conns, closed \/ k \notin all, receivers[k] > 0, DropsClaim(k),
         conn' = conn \/ CloseConn(k),
         UNCHANGED <<stateVars, dialVars, dead, cause, pc, waitOn, startDial, receivers, ctx>>
  PROVE  Inv'
<1> USE NoConnNotConn
<1>1. k # shared
  BY Zenon DEF Inv, SharedShape
<1>0. Installed(k)
  BY DEF Inv, TypeOK, CallTypes, ClaimShape
<1>2. StateTypes' /\ DialTypes'
  BY Zenon DEF Inv, TypeOK, StateTypes, DialTypes, stateVars, dialVars
<1>3. ConnTypes' /\ CallTypes'
  BY Zenon DEF Inv, TypeOK, ConnTypes, CallTypes, ConnStates, CloseConn, DropsClaim
<1>4. WaitShape' /\ ClaimShape'
  BY ZenonT(40) DEF Inv, TypeOK, CallTypes, WaitShape, ClaimShape, Installed, DropsClaim, stateVars, dialVars
<1>5. DialShape' /\ ToldShape'
  BY Zenon DEF Inv, DialShape, ToldShape, Installed, Dropped, stateVars, dialVars
<1>6. SharedShape' /\ FreshShape' /\ OwnerShape'
  BY <1>0, <1>1, Zenon DEF Inv, TypeOK, StateTypes, ConnTypes, SharedShape, FreshShape, OwnerShape,
              Installed, Dropped, CloseConn, stateVars, dialVars
<1>7. UsersCounted'
  <2>1. shared # NoConn => Users(shared)' = Users(shared)
    BY <1>1, Zenon DEF Inv, TypeOK, StateTypes, CallTypes, Users, DropsClaim, stateVars
  <2> QED
    BY <2>1, ZenonT(40) DEF Inv, UsersCounted, Users, stateVars
<1>8. WaitersCounted'
  BY Zenon DEF Inv, WaitersCounted, Waiters, stateVars, dialVars
<1> QED
  BY <1>2, <1>3, <1>4, <1>5, <1>6, <1>7, <1>8, Zenon DEF Inv, TypeOK

\* RemoveInv where no caller moves.
LEMMA RemoveStillInv ==
  ASSUME Inv, NEW k \in all, NEW why \in {"read", "other"}, RemoveConn(k, why), DropsClaim(k),
         UNCHANGED <<closed, gen, cancelled, oldAll, sharedWaiters, connecting, dialVars, dead,
                     pc, waitOn, startDial, receivers, ctx>>
  PROVE  Inv'
<1>1. CallTypes' /\ WaitShape'
  BY Zenon DEF Inv, TypeOK, CallTypes, WaitShape, DropsClaim, dialVars
<1>2. WaitersCounted' /\ sharedWaiters' \in Nat
  BY Zenon DEF Inv, TypeOK, StateTypes, WaitersCounted, Waiters, dialVars
<1> QED
  BY <1>1, <1>2, RemoveInv, Zenon

LEMMA AcquireEvictInv ==
  ASSUME Inv, NEW p \in Procs, AcquireEvict(p)
  PROVE  Inv'
<1>1. shared \in all
  BY Zenon DEF Inv, SharedShape, AcquireEvict
<1> QED
  BY <1>1, RemoveStillInv, Zenon DEF AcquireEvict, DropsClaim, callVars

LEMMA CollectEvictsInv ==
  ASSUME Inv, NEW p \in Procs, CollectEvicts(p)
  PROVE  Inv'
<1>1. shared \in all
  BY Zenon DEF Inv, SharedShape, CollectEvicts
<1>2. WaitersCounted' /\ sharedWaiters' \in Nat
  BY WaiterLeaves, Zenon DEF CollectEvicts, Woken, dialVars
<1>3. CallTypes' /\ WaitShape'
  BY Zenon DEF Inv, TypeOK, CallTypes, WaitShape, CollectEvicts, Woken, Leave, dialVars
<1> QED
  BY <1>1, <1>2, <1>3, RemoveInv, Zenon DEF CollectEvicts, DropsClaim

LEMMA CloseIdleInv ==
  ASSUME Inv, CloseIdle
  PROVE  Inv'
<1>1. shared \in all
  BY Zenon DEF Inv, SharedShape, CloseIdle
<1> QED
  BY <1>1, RemoveStillInv, Zenon DEF CloseIdle, DropsClaim, callVars

LEMMA DiscardInv ==
  ASSUME Inv, NEW k \in Conns, NEW why \in {"read", "other"}, receivers[k] > 0,
         Discard(k, why), DropsClaim(k),
         UNCHANGED <<closed, gen, cancelled, oldAll, sharedWaiters, connecting, dialVars, dead,
                     pc, waitOn, startDial, receivers, ctx>>
  PROVE  Inv'
<1>1. CASE closed \/ k \notin all
  <2>1. k \notin all
    BY <1>1, NoConnNotConn, Zenon DEF Inv, TypeOK, StateTypes, SharedShape
  <2>2. /\ conn' = conn \/ CloseConn(k)
        /\ UNCHANGED <<all, shared, sharedClaimed, sharedUsers, cause>>
    BY <1>1, <2>1, Zenon DEF Discard
  <2> QED
    BY <1>1, <2>2, UntrackedInv, Zenon DEF stateVars
<1>2. CASE ~closed /\ k \in all
  BY <1>2, RemoveStillInv, Zenon DEF Discard
<1> QED
  BY <1>1, <1>2, Zenon

LEMMA InvalidateInv ==
  ASSUME Inv, NEW k \in Conns, NEW why \in {"read", "other"}, Invalidate(k, why)
  PROVE  Inv'
  BY DiscardInv, Zenon DEF Invalidate, DropsClaim, callVars

\* What a caller holds was handed out as created to somebody.
LEMMA HeldIsClaimed ==
  ASSUME Inv, NEW p \in Procs, hold[p] # NoConn
  PROVE  hold[p] \in Conns /\ receivers[hold[p]] > 0
  BY DEF Inv, TypeOK, CallTypes, ClaimShape

LEMMA InvalidateHeldInv ==
  ASSUME Inv, NEW p \in Procs, NEW why \in {"read", "other"}, InvalidateHeld(p, why)
  PROVE  Inv'
  BY DiscardInv, HeldIsClaimed, Zenon DEF InvalidateHeld, DropsClaim

LEMMA ReleaseInv ==
  ASSUME Inv, NEW p \in Procs, NEW reuse \in BOOLEAN, Release(p, reuse)
  PROVE  Inv'
<1> DEFINE k == hold[p]
<1>1. k \in Conns /\ receivers[k] > 0 /\ DropsClaim(k)
  BY HeldIsClaimed, ZenonT(40) DEF Release, DropsClaim
<1>2. CASE closed \/ k \notin all
  <2>1. k \notin all
    BY <1>2, NoConnNotConn, ZenonT(40) DEF Inv, TypeOK, StateTypes, SharedShape
  <2>2. CloseConn(k) /\ UNCHANGED <<all, shared, sharedClaimed, sharedUsers, cause>>
    BY <1>2, <2>1, Zenon DEF Release
  <2> QED
    BY <1>1, <1>2, <2>2, UntrackedInv, Zenon DEF Release, stateVars
<1>3. CASE ~closed /\ k \in all /\ (~reuse \/ k \in dead)
  BY <1>1, <1>3, RemoveStillInv, ZenonT(40) DEF Release
<1>4. CASE ~closed /\ k \in all /\ reuse /\ k \notin dead
  <2>1. k = shared /\ shared # NoConn /\ p \in Users(shared)
    BY <1>1, <1>4, NoConnNotConn, ZenonT(40) DEF Inv, SharedShape, Users
  <2>0. /\ hold' = [hold EXCEPT ![p] = NoConn]
        /\ sharedUsers' = IF shared = k /\ sharedUsers > 0 THEN sharedUsers - 1 ELSE sharedUsers
        /\ UNCHANGED <<all, shared, sharedClaimed, conn, cause, receivers>>
    BY <1>4, Zenon DEF Release
  <2>2. Users(shared)' = Users(shared) \ {p}
    BY <1>4, <2>1, Zenon DEF Inv, TypeOK, CallTypes, Users, Release
  <2>3. Cardinality(Users(shared)') = Cardinality(Users(shared)) - 1
    BY <2>1, <2>2, UsersFinite, FS_RemoveElement, ZenonT(40)
  <2>4. Cardinality(Users(shared)) \in Nat /\ Cardinality(Users(shared)) # 0
    BY <2>1, UsersFinite, FS_CardinalityType, FS_EmptySet, Zenon
  <2>5. sharedUsers' = sharedUsers - 1 /\ sharedUsers' \in Nat
    BY <2>0, <2>1, <2>4 DEF Inv, UsersCounted
  <2>6. UsersCounted'
    BY <1>4, <2>1, <2>3, <2>5, Zenon DEF Inv, UsersCounted, Users, Release
  <2>7. TypeOK' /\ WaitShape'
    BY <1>4, <2>5, ZenonT(40) DEF Inv, TypeOK, StateTypes, DialTypes, ConnTypes, CallTypes, WaitShape, Release, dialVars
  <2>8. DialShape' /\ SharedShape' /\ FreshShape'
    BY <2>0, <2>1, ZenonT(40) DEF Inv, DialShape, SharedShape, FreshShape, Installed, Dropped, Release, dialVars
  <2>11. OwnerShape' /\ ToldShape'
    BY <2>0, ZenonT(40) DEF Inv, OwnerShape, ToldShape, Installed, Release, dialVars
  <2>9. ClaimShape'
    BY <2>0, ZenonT(40) DEF Inv, TypeOK, CallTypes, ClaimShape, Installed, Release, dialVars
  <2>10. WaitersCounted'
    BY Zenon DEF Inv, WaitersCounted, Waiters, Release, dialVars
  <2> QED
    BY <2>6, <2>7, <2>8, <2>9, <2>10, <2>11, Zenon DEF Inv
<1> QED
  BY <1>2, <1>3, <1>4, Zenon

LEMMA AbandonInv ==
  ASSUME Inv, NEW p \in Procs, Abandon(p)
  PROVE  Inv'
<1>1. CallTypes'
  BY NoConnNotConn, Zenon DEF Inv, TypeOK, StateTypes, CallTypes, Abandon, stateVars, dialVars,
      connVars
<1>2. WaitShape'
  BY NoConnNotConn, Zenon DEF Inv, TypeOK, CallTypes, WaitShape, Abandon, stateVars, dialVars,
      connVars
<1>3. ClaimShape'
  BY NoConnNotConn, ZenonT(40) DEF Inv, TypeOK, StateTypes, DialTypes, CallTypes, ClaimShape, WaitShape,
      SharedShape, DialShape, Installed, Dropped, Abandon, stateVars, dialVars, connVars
<1>4. UsersCounted'
  <2>1. shared # NoConn => Users(shared)' = Users(shared)
    BY NoConnNotConn, Zenon DEF Inv, TypeOK, StateTypes, CallTypes, SharedShape, Users, Abandon, stateVars
  <2> QED
    BY <2>1, ZenonT(40) DEF Inv, UsersCounted, Users, Abandon, stateVars
<1>5. StateTypes' /\ DialTypes' /\ ConnTypes'
  BY Zenon DEF Inv, TypeOK, StateTypes, DialTypes, ConnTypes, Abandon, stateVars, dialVars,
      connVars
<1>6. DialShape' /\ SharedShape' /\ FreshShape' /\ OwnerShape' /\ ToldShape'
  BY ZenonT(40) DEF Inv, DialShape, SharedShape, FreshShape, OwnerShape, ToldShape, Installed, Dropped,
      Abandon, stateVars, dialVars, connVars
<1>7. WaitersCounted'
  BY Zenon DEF Inv, WaitersCounted, Users, Waiters, Abandon, stateVars, dialVars, connVars
<1> QED
  BY <1>1, <1>2, <1>3, <1>4, <1>5, <1>6, <1>7, Zenon DEF Inv, TypeOK

-----------------------------------------------------------------------------
(***************************************************************************)
(* Reset, Close, closeState and the environment.                           *)
(***************************************************************************)
LEMMA ResetInv ==
  ASSUME Inv, Reset
  PROVE  Inv'
<1>1. gen \in Int /\ gen' = gen + 1 /\ gen' \in Gens
  BY ConstAssumption DEF Inv, TypeOK, StateTypes, Reset, Gens
<1>2. \A k \in Conns : dialGen[k] <= gen' /\ dialGen[k] < gen' /\ dialGen[k] # gen'
  BY <1>1, ConstAssumption DEF Inv, TypeOK, DialTypes, DialShape, Gens
<1>3. \A g : Dropped(g) /\ g \in Int => Dropped(g)'
  BY <1>1 DEF Dropped, Reset
<1>4. \A g \in cancelled : Dropped(g)'
  BY <1>3, ConstAssumption DEF Inv, TypeOK, StateTypes, DialShape, Gens
<1>5. StateTypes'
  BY <1>1, NoConnNotConn, Zenon DEF Inv, TypeOK, StateTypes, Reset, DropState, dialVars, connVars,
      callVars
<1>6. DialShape'
  BY <1>1, <1>2, <1>4, Zenon DEF Inv, DialShape, Reset, DropState, dialVars
<1>7. SharedShape'
  BY <1>1, <1>2, <1>3, NoConnNotConn, ZenonT(40) DEF Inv, TypeOK, StateTypes, DialTypes, ConnTypes,
      SharedShape, DialShape, FreshShape, Installed, Dropped, Reset, DropState, dialVars,
      connVars, callVars
<1>8. ClaimShape'
  BY NoConnNotConn, ZenonT(40) DEF Inv, TypeOK, StateTypes, DialTypes, CallTypes, ClaimShape, WaitShape,
      SharedShape, DialShape, Installed, Dropped, Reset, DropState, dialVars, connVars,
      callVars
<1>9. OwnerShape'
  BY NoConnNotConn, ZenonT(40) DEF Inv, TypeOK, StateTypes, DialTypes, ConnTypes, OwnerShape,
      SharedShape, DialShape, Installed, Dropped, Reset, DropState, dialVars, connVars,
      callVars
<1>10. ToldShape'
  <2>1. gen \notin cancelled
    BY GensAreInts DEF Inv, TypeOK, StateTypes, DialShape, Dropped, Reset
  <2> QED
    BY <2>1, ZenonT(40) DEF Inv, ToldShape, SharedShape, Installed, Reset, DropState, dialVars, connVars
<1>11. UsersCounted'
  BY NoConnNotConn, Zenon DEF Inv, TypeOK, StateTypes, CallTypes, UsersCounted, Reset, DropState,
      dialVars, connVars, callVars
<1>12. WaitersCounted'
  <2>1. Waiters' = {}
    BY <1>1, <1>2, Zenon DEF Inv, WaitShape, Waiters, Reset, DropState, dialVars, callVars
  <2> QED
    BY <2>1, FS_EmptySet, Zenon DEF Reset, DropState, WaitersCounted
<1>13. DialTypes' /\ ConnTypes' /\ CallTypes'
  BY Zenon DEF Inv, TypeOK, DialTypes, ConnTypes, CallTypes, Reset, DropState, dialVars, connVars,
      callVars
<1>14. WaitShape' /\ FreshShape'
  BY Zenon DEF Inv, WaitShape, FreshShape, Installed, Dropped, Reset, DropState, dialVars,
      connVars, callVars
<1> QED
  BY <1>5, <1>6, <1>7, <1>8, <1>9, <1>10, <1>11, <1>12, <1>13, <1>14, Zenon DEF Inv, TypeOK

LEMMA CloseInv ==
  ASSUME Inv, Close
  PROVE  Inv'
<1>1. StateTypes'
  BY NoConnNotConn, ZenonT(40) DEF Inv, TypeOK, StateTypes, Close, DropState, dialVars, connVars,
      callVars
<1>2. DialShape'
  BY NoConnNotConn, Zenon DEF Inv, TypeOK, StateTypes, DialTypes, DialShape, SharedShape,
      Installed, Dropped, Close, DropState, dialVars, connVars, callVars
<1>3. SharedShape'
  BY NoConnNotConn, ZenonT(40) DEF Inv, TypeOK, StateTypes, DialTypes, ConnTypes, SharedShape,
      DialShape, FreshShape, Installed, Dropped, Close, DropState, dialVars, connVars,
      callVars
<1>4. ClaimShape'
  BY NoConnNotConn, ZenonT(40) DEF Inv, TypeOK, StateTypes, DialTypes, CallTypes, ClaimShape, WaitShape,
      SharedShape, DialShape, Installed, Dropped, Close, DropState, dialVars, connVars,
      callVars
<1>5. OwnerShape'
  BY NoConnNotConn, ZenonT(40) DEF Inv, TypeOK, StateTypes, DialTypes, ConnTypes, OwnerShape,
      SharedShape, DialShape, Installed, Dropped, Close, DropState, dialVars, connVars,
      callVars
<1>6. ToldShape'
  <2>1. gen \notin cancelled
    BY GensAreInts DEF Inv, TypeOK, StateTypes, DialShape, Dropped, Close
  <2> QED
    BY <2>1, ZenonT(40) DEF Inv, ToldShape, SharedShape, Installed, Close, DropState, dialVars, connVars
<1>7. UsersCounted'
  BY NoConnNotConn, Zenon DEF Inv, TypeOK, StateTypes, CallTypes, UsersCounted, Close, DropState,
      dialVars, connVars, callVars
<1>8. WaitersCounted'
  BY NoConnNotConn, Zenon DEF Inv, TypeOK, StateTypes, CallTypes, WaitersCounted, Close, DropState,
      dialVars, connVars, callVars
<1>9. DialTypes' /\ ConnTypes' /\ CallTypes'
  BY Zenon DEF Inv, TypeOK, DialTypes, ConnTypes, CallTypes, Close, DropState, dialVars, connVars,
      callVars
<1>10. WaitShape' /\ FreshShape'
  BY Zenon DEF Inv, WaitShape, FreshShape, Installed, Dropped, Close, DropState, dialVars,
      connVars, callVars
<1> QED
  BY <1>1, <1>2, <1>3, <1>4, <1>5, <1>6, <1>7, <1>8, <1>9, <1>10, Zenon DEF Inv, TypeOK

LEMMA CancelStateInv ==
  ASSUME Inv, NEW g \in Gens, CancelState(g)
  PROVE  Inv'
<1>1. shared \notin oldAll
  BY GensAreInts, NoConnNotConn DEF Inv, TypeOK, StateTypes, SharedShape, Dropped
<1>2. StateTypes'
  BY NoConnNotConn, Zenon DEF Inv, TypeOK, StateTypes, CancelState, dialVars, callVars
<1>3. ConnTypes'
  BY NoConnNotConn, Zenon DEF Inv, TypeOK, StateTypes, ConnTypes, CancelState, dialVars, callVars,
      Phases, ConnStates, Causes
<1>4. DialShape'
  BY NoConnNotConn, ZenonT(40) DEF Inv, TypeOK, StateTypes, DialTypes, DialShape, SharedShape,
      Installed, Dropped, CancelState, dialVars, callVars
<1>5. SharedShape'
  BY <1>1, NoConnNotConn, ZenonT(40) DEF Inv, TypeOK, StateTypes, DialTypes, ConnTypes, SharedShape,
      DialShape, FreshShape, Installed, Dropped, CancelState, dialVars, callVars
<1>6. FreshShape'
  BY NoConnNotConn, ZenonT(40) DEF Inv, TypeOK, StateTypes, DialTypes, ConnTypes, FreshShape,
      SharedShape, DialShape, ClaimShape, Installed, Dropped, CancelState, dialVars,
      callVars
<1>7. ToldShape'
  BY NoConnNotConn, ZenonT(40) DEF Inv, TypeOK, StateTypes, DialTypes, ConnTypes, ToldShape,
      SharedShape, DialShape, Installed, Dropped, CancelState, dialVars, callVars
<1>8. DialTypes' /\ CallTypes'
  BY Zenon DEF Inv, TypeOK, DialTypes, CallTypes, CancelState, dialVars, callVars
<1>9. WaitShape' /\ ClaimShape' /\ OwnerShape'
  BY ZenonT(40) DEF Inv, WaitShape, ClaimShape, OwnerShape, Installed, Dropped, CancelState, dialVars,
      callVars
<1>10. UsersCounted' /\ WaitersCounted'
  BY ZenonT(40) DEF Inv, UsersCounted, WaitersCounted, Users, Waiters, CancelState, dialVars, callVars
<1> QED
  BY <1>2, <1>3, <1>4, <1>5, <1>6, <1>7, <1>8, <1>9, <1>10, Zenon DEF Inv, TypeOK

LEMMA CloseStateInv ==
  ASSUME Inv, NEW g \in Gens, CloseState(g)
  PROVE  Inv'
<1>1. shared \notin oldAll
  BY GensAreInts, NoConnNotConn DEF Inv, TypeOK, StateTypes, SharedShape, Dropped
<1>2. StateTypes'
  BY NoConnNotConn, Zenon DEF Inv, TypeOK, StateTypes, CloseState, dialVars, callVars
<1>3. ConnTypes'
  BY NoConnNotConn, Zenon DEF Inv, TypeOK, StateTypes, ConnTypes, CloseState, dialVars, callVars,
      Phases, ConnStates, Causes
<1>4. SharedShape'
  BY <1>1, NoConnNotConn, ZenonT(40) DEF Inv, TypeOK, StateTypes, DialTypes, ConnTypes, SharedShape,
      DialShape, FreshShape, Installed, Dropped, CloseState, dialVars, callVars
<1>5. FreshShape'
  BY NoConnNotConn, ZenonT(40) DEF Inv, TypeOK, StateTypes, DialTypes, ConnTypes, FreshShape,
      SharedShape, DialShape, ClaimShape, Installed, Dropped, CloseState, dialVars, callVars
<1>6. OwnerShape'
  BY NoConnNotConn, ZenonT(40) DEF Inv, TypeOK, StateTypes, DialTypes, ConnTypes, OwnerShape,
      SharedShape, DialShape, Installed, Dropped, CloseState, dialVars, callVars
<1>7. ToldShape'
  BY ZenonT(40) DEF Inv, ToldShape, Installed, CloseState, dialVars
<1>8. DialTypes' /\ CallTypes'
  BY Zenon DEF Inv, TypeOK, DialTypes, CallTypes, CloseState, dialVars, callVars
<1>9. WaitShape' /\ DialShape' /\ ClaimShape'
  BY ZenonT(40) DEF Inv, WaitShape, DialShape, ClaimShape, Installed, Dropped, CloseState, dialVars,
      callVars
<1>10. UsersCounted' /\ WaitersCounted'
  BY ZenonT(40) DEF Inv, UsersCounted, WaitersCounted, Users, Waiters, CloseState, dialVars, callVars
<1> QED
  BY <1>2, <1>3, <1>4, <1>5, <1>6, <1>7, <1>8, <1>9, <1>10, Zenon DEF Inv, TypeOK

LEMMA CtxDoneInv ==
  ASSUME Inv, NEW p \in Procs, CtxDone(p)
  PROVE  Inv'
<1>1. CallTypes'
  BY NoConnNotConn, Zenon DEF Inv, TypeOK, StateTypes, CallTypes, CtxDone, stateVars, dialVars,
      connVars, callVars
<1>2. StateTypes' /\ DialTypes' /\ ConnTypes'
  BY Zenon DEF Inv, TypeOK, StateTypes, DialTypes, ConnTypes, CtxDone, stateVars, dialVars,
      connVars, callVars
<1>3. WaitShape' /\ DialShape' /\ SharedShape' /\ FreshShape' /\ ClaimShape' /\ OwnerShape' /\ ToldShape'
  BY ZenonT(40) DEF Inv, WaitShape, DialShape, SharedShape, FreshShape, ClaimShape, OwnerShape,
      ToldShape, Installed, Dropped, CtxDone, stateVars, dialVars, connVars, callVars
<1>4. UsersCounted' /\ WaitersCounted'
  BY ZenonT(40) DEF Inv, UsersCounted, WaitersCounted, Users, Waiters, CtxDone, stateVars, dialVars,
      connVars, callVars
<1> QED
  BY <1>1, <1>2, <1>3, <1>4, Zenon DEF Inv, TypeOK

LEMMA DiesInv ==
  ASSUME Inv, NEW k \in Conns, Dies(k)
  PROVE  Inv'
<1>1. ConnTypes'
  BY NoConnNotConn, Zenon DEF Inv, TypeOK, StateTypes, ConnTypes, Dies, stateVars, dialVars,
      callVars, Phases, ConnStates, Causes
<1>2. StateTypes' /\ DialTypes' /\ CallTypes'
  BY ZenonT(40) DEF Inv, TypeOK, StateTypes, DialTypes, CallTypes, Dies, stateVars, dialVars, callVars
<1>3. WaitShape' /\ DialShape' /\ SharedShape' /\ FreshShape' /\ ClaimShape' /\ OwnerShape' /\ ToldShape'
  BY ZenonT(40) DEF Inv, WaitShape, DialShape, SharedShape, FreshShape, ClaimShape, OwnerShape,
      ToldShape, Installed, Dropped, Dies, stateVars, dialVars, callVars
<1>4. UsersCounted' /\ WaitersCounted'
  BY ZenonT(40) DEF Inv, UsersCounted, WaitersCounted, Users, Waiters, Dies, stateVars, dialVars,
      callVars
<1> QED
  BY <1>1, <1>2, <1>3, <1>4, Zenon DEF Inv, TypeOK

-----------------------------------------------------------------------------
(***************************************************************************)
(* The theorems.                                                           *)
(***************************************************************************)
LEMMA InitInv == PoolInit => Inv
<1> SUFFICES ASSUME PoolInit PROVE Inv
  OBVIOUS
<1> USE NoConnNotConn DEF PoolInit
<1>1. (CHOOSE p \in Procs : TRUE) \in Procs
  BY ConstAssumption, Zenon
<1>0. 0 \in Gens /\ 0 \in 0..MaxDials
  BY ConstAssumption DEF Gens
<1>2. StateTypes
  BY <1>0, ZenonT(40) DEF StateTypes
<1>3. DialTypes
  BY <1>0, <1>1, Zenon DEF DialTypes, Phases
<1>4. ConnTypes /\ CallTypes
  BY Zenon DEF ConnTypes, CallTypes, ConnStates, Causes
<1>5. WaitShape /\ SharedShape /\ FreshShape
  BY Zenon DEF WaitShape, SharedShape, FreshShape
<1>9. ClaimShape /\ OwnerShape /\ ToldShape
  BY DEF ClaimShape, OwnerShape, ToldShape, Installed
<1>6. DialShape
  BY ConstAssumption DEF DialShape, Conns
<1>7. Waiters = {}
  BY Zenon DEF Waiters
<1>8. UsersCounted /\ WaitersCounted
  BY <1>7, FS_EmptySet, Zenon DEF UsersCounted, WaitersCounted
<1> QED
  BY <1>2, <1>3, <1>4, <1>5, <1>6, <1>8, <1>9, Zenon DEF Inv, TypeOK

LEMMA NextInv == Inv /\ [PoolNext]_poolVars => Inv'
<1> SUFFICES ASSUME Inv, [PoolNext]_poolVars PROVE Inv'
  OBVIOUS
<1>1. ASSUME NEW p \in Procs, AcquireStep(p) PROVE Inv'
  BY <1>1, AcquireClosedInv, AcquireHitInv, AcquireEvictInv, AcquireJoinInv, AcquireDialInv, Zenon
     DEF AcquireStep
<1>2. ASSUME NEW p \in Procs, WaitStep(p) PROVE Inv'
  BY <1>2, SelectInv, CollectEvictsInv, CollectSharedInv, Zenon DEF WaitStep
<1>3. ASSUME NEW p \in Procs, Call(p) \/ Abandon(p) \/ CtxDone(p) PROVE Inv'
  BY <1>3, CallInv, AbandonInv, CtxDoneInv, Zenon
<1>4. ASSUME NEW p \in Procs, NEW reuse \in BOOLEAN, Release(p, reuse) PROVE Inv'
  BY <1>4, ReleaseInv, Zenon
<1>5. ASSUME NEW p \in Procs, NEW why \in {"read", "other"}, InvalidateHeld(p, why) PROVE Inv'
  BY <1>5, InvalidateHeldInv, Zenon
<1>6. ASSUME NEW k \in Conns, DialStep(k) \/ Dies(k) PROVE Inv'
  BY <1>6, DialSucceedsInv, DialFailsInv, InstallInv, FinishInv, DiesInv, Zenon DEF DialStep
<1>7. ASSUME NEW k \in Conns, NEW why \in {"read", "other"}, Invalidate(k, why) PROVE Inv'
  BY <1>7, InvalidateInv, Zenon
<1>8. ASSUME CloseIdle \/ Reset \/ Close PROVE Inv'
  BY <1>8, CloseIdleInv, ResetInv, CloseInv, Zenon
<1>9. ASSUME NEW g \in Gens, CancelState(g) \/ CloseState(g) PROVE Inv'
  BY <1>9, CancelStateInv, CloseStateInv, Zenon
<1>10. CASE UNCHANGED poolVars
  <2> USE <1>10 DEF poolVars, stateVars, dialVars, connVars, callVars
  <2>1. TypeOK'
    BY ZenonT(40) DEF Inv, TypeOK, StateTypes, DialTypes, ConnTypes, CallTypes
  <2>2. WaitShape' /\ DialShape' /\ SharedShape' /\ FreshShape'
    BY ZenonT(40) DEF Inv, WaitShape, DialShape, SharedShape, FreshShape, Installed, Dropped
  <2>3. ClaimShape' /\ OwnerShape' /\ ToldShape'
    BY ZenonT(40) DEF Inv, ClaimShape, OwnerShape, ToldShape, Installed
  <2>4. UsersCounted' /\ WaitersCounted'
    BY Zenon DEF Inv, UsersCounted, WaitersCounted, Users, Waiters
  <2> QED
    BY <2>1, <2>2, <2>3, <2>4, Zenon DEF Inv
<1> QED
  BY <1>1, <1>2, <1>3, <1>4, <1>5, <1>6, <1>7, <1>8, <1>9, <1>10, Zenon DEF PoolNext

\* Inv holds in every reachable state of the pool.
THEOREM PoolInv == PoolSafety => []Inv
  BY InitInv, NextInv, PTL DEF PoolSafety

\* The variables keep their types; in particular no counter of a state object
\* is decremented below zero, whatever the order in which waiters and holders
\* leave and states are replaced.
THEOREM PoolTypeCorrect == PoolSafety => []TypeOK
<1>1. Inv => TypeOK
  BY Zenon DEF Inv
<1> QED
  BY <1>1, PoolInv, PTL

\* sharedUsers and sharedWaiters count exactly the holders of the shared
\* connection and the callers that wait for one.
THEOREM PoolCountsExact == PoolSafety => []CountsExact
<1>1. Inv => CountsExact
  BY ZenonT(40) DEF Inv, SharedShape, UsersCounted, WaitersCounted, CountsExact
<1> QED
  BY <1>1, PoolInv, PTL

\* A connection that is handed out is announced as created exactly once.
THEOREM PoolOneReceiver == PoolSafety => []OneReceiver
<1>1. Inv => OneReceiver
  BY Zenon DEF Inv, ClaimShape, OneReceiver
<1> QED
  BY <1>1, PoolInv, PTL

\* An open connection belongs to the goroutine that dials it, to the pool, or
\* to closeState.
THEOREM PoolNoLeak == PoolSafety => []NoLeak
<1>1. Inv => NoLeak
  BY Zenon DEF Inv, OwnerShape, NoLeak
<1> QED
  BY <1>1, PoolInv, PTL

\* Who holds a connection that was closed is told so by connCtx, or will be by
\* closeState.
THEOREM PoolHoldersAreTold == PoolSafety => []HoldersAreTold
<1>1. ASSUME Inv PROVE HoldersAreTold
  <2> SUFFICES ASSUME NEW p \in Procs, hold[p] # NoConn, conn[hold[p]] = "closed"
               PROVE  \/ cause[hold[p]] # "none"
                      \/ hold[p] \in oldAll /\ dialGen[hold[p]] \notin cancelled
    BY Zenon DEF HoldersAreTold
  <2>1. hold[p] \in Conns /\ Installed(hold[p])
    BY <1>1 DEF Inv, TypeOK, CallTypes, ClaimShape
  <2>2. hold[p] \notin all
    BY <1>1, Zenon DEF Inv, SharedShape
  <2> QED
    BY <1>1, <2>1, <2>2, Zenon DEF Inv, ToldShape
<1>2. Inv => HoldersAreTold
  BY <1>1, Zenon
<1> QED
  BY <1>2, PoolInv, PTL

\* CloseIdle closes no connection somebody holds or waits for.
THEOREM PoolCloseIdleSpares == PoolSafety => CloseIdleSpares
<1>1. ASSUME Inv, CloseIdle PROVE Users(shared) = {} /\ Waiters = {}
  <2>1. Cardinality(Users(shared)) = 0 /\ Cardinality(Waiters) = 0
    BY <1>1, Zenon DEF Inv, UsersCounted, WaitersCounted, CloseIdle
  <2> QED
    BY <2>1, UsersFinite, WaitersFinite, FS_EmptySet, Zenon
<1>2. Inv => [CloseIdle => Users(shared) = {} /\ Waiters = {}]_poolVars
  BY <1>1, Zenon
<1> QED
  BY <1>2, PoolInv, PTL DEF CloseIdleSpares
=============================================================================
