------------------------------ MODULE XmuxProofs ------------------------------
(***************************************************************************)
(* The safety invariants of Xmux, for any number of streams, clients and   *)
(* dials and any limits.                                                   *)
(***************************************************************************)
EXTENDS Xmux, FiniteSetTheorems, TLAPS

\* A client is in the pool, taken by Close or closed, one of the three at a
\* time; its connection is closed only after it; and at most one of the two
\* limits is set.
PoolShape ==
    /\ concurrency = 0 \/ connections = 0
    /\ retiring \subseteq 1..opened /\ closed \subseteq 1..opened
    /\ clients \cap retiring = {} /\ clients \cap closed = {} /\ retiring \cap closed = {}
    /\ connClosed \subseteq closed

\* Streams hold clients that exist, and only streams that are counted, or were,
\* are released or have requests.
StreamShape ==
    \A s \in Streams : /\ pc[s] # "idle" => hold[s] \in 1..opened
                       /\ s \in released => pc[s] = "live"
                       /\ \A k \in Slots : req[s][k] # "none" => pc[s] = "live"

Shape == PoolShape /\ StreamShape

\* With c_max_reuse_times the uses a client has left and the times it was handed
\* out add up.
UsesAddUp ==
    ReuseTimes > 0 => \A c \in Clients :
        /\ leftUsage[c] >= 0
        /\ c <= opened => handouts[c] + leftUsage[c] = ReuseTimes
        /\ c > opened => handouts[c] = 0 /\ leftUsage[c] = ReuseTimes - 1

\* A client that was never handed out to two uncounted streams has at most one,
\* and room for it under max_concurrency.
RoomForUncounted ==
    \A c \in Clients \ crowded :
        /\ \A s, t \in Uncounted(c) : s = t
        /\ (concurrency > 0 /\ Uncounted(c) # {}) => openUsage[c] < concurrency

\* No uncounted stream holds a closed client, unless it was missed.
ClosedIsCounted == \A c \in closed \ missed : Uncounted(c) = {}

\* The inductive invariant.
Inv == /\ TypeOK /\ UsageExact /\ Shape /\ UsesAddUp /\ LimitsKept
       /\ RoomForUncounted /\ ConcurrencyKept /\ ClosedIsCounted /\ RetiredIsTornDownIfCounted
-----------------------------------------------------------------------------
(* Types                                                                   *)

NumTypes ==
    /\ concurrency \in Concurrencies \cup {0} /\ connections \in Connections \cup {0}
    /\ opened \in 0..MaxClients /\ backoff \in 0..MaxDelay /\ dials \in 0..MaxDials

FunTypes ==
    /\ openUsage \in [Clients -> Int]
    /\ leftUsage \in [Clients -> Int] /\ leftRequests \in [Clients -> Int]
    /\ consecFails \in [Clients -> Nat] /\ handouts \in [Clients -> Nat]

SetTypes ==
    /\ clients \subseteq 1..opened
    /\ expired \subseteq Clients /\ failing \subseteq Clients /\ closed \subseteq Clients
    /\ connClosed \subseteq Clients /\ link \subseteq Clients /\ busy \subseteq Clients
    /\ retiring \subseteq Clients
    /\ missed \subseteq Clients /\ crowded \subseteq Clients

StreamTypes ==
    /\ pc \in [Streams -> {"idle", "got", "live"}] /\ released \subseteq Streams
    /\ req \in [Streams -> [Slots -> {"none", "request", "trip", "reset"}]]
    /\ hold \in [Streams -> Clients \cup {NoClient}]

\* TypeOK with a looser bound on openUsage.
Types == NumTypes /\ FunTypes /\ SetTypes /\ StreamTypes /\ blocked \in BOOLEAN

\* The streams counted on a client are finitely many.
LEMMA CountedFinite ==
    ASSUME NEW c
    PROVE  /\ IsFiniteSet(Counted(c)) /\ Cardinality(Counted(c)) \in Nat
           /\ Cardinality(Counted(c)) <= Cardinality(Streams)
           /\ Cardinality(Streams) \in Nat
           /\ Cardinality(Counted(c)) = 0 <=> Counted(c) = {}
<1>1. Counted(c) \subseteq Streams
  BY Zenon DEF Counted
<1> HIDE DEF Counted
<1>2. IsFiniteSet(Streams)
  BY XmuxAssumption, Zenon
<1> QED
  BY <1>1, <1>2, FS_Subset, FS_CardinalityType, FS_EmptySet, Zenon

\* With exact counts the two forms of the type invariant agree.
LEMMA TypesExact == UsageExact => (Types <=> TypeOK)
<1> SUFFICES ASSUME UsageExact PROVE Types <=> TypeOK
  OBVIOUS
<1>1. \A c \in Clients : openUsage[c] \in 0..Cardinality(Streams) /\ openUsage[c] \in Int
  BY CountedFinite DEF UsageExact
<1>2. openUsage \in [Clients -> Int] <=> openUsage \in [Clients -> 0..Cardinality(Streams)]
  BY <1>1, Zenon
<1> QED
  BY <1>2, Zenon DEF Types, NumTypes, FunTypes, SetTypes, StreamTypes, TypeOK

\* What a lookup leaves in the pool is part of it.
LEMMA KeptSubset == Kept \subseteq clients /\ Candidates \subseteq Kept
  BY Zenon DEF Kept, Candidates

\* The client a stream holds exists.
LEMMA HoldsClient ==
    ASSUME Types, Shape, NEW s \in Streams, pc[s] # "idle"
    PROVE  hold[s] \in 1..opened /\ hold[s] \in Clients
  BY XmuxAssumption DEF Types, NumTypes, Shape, PoolShape, StreamShape, Clients

\* ... and so does that of a request.
LEMMA RequestHoldsClient ==
    ASSUME Types, Shape, NEW s \in Streams, NEW k \in Slots, req[s][k] # "none"
    PROVE  pc[s] = "live" /\ hold[s] \in Clients
  BY HoldsClient, Zenon DEF Shape, PoolShape, StreamShape

\* A vacant stream has not got a client that it is not counted on, is not counted
\* on any and has no requests.
LEMMA VacantIsNew ==
    ASSUME Shape, NEW s \in Streams, Vacant(s)
    PROVE  /\ pc[s] # "got" /\ (pc[s] = "live" => s \in released)
           /\ \A k \in Slots : req[s][k] = "none"
  BY Zenon DEF Shape, PoolShape, StreamShape, Vacant

\* Clients that exist, and the next one while there is one, are clients.
LEMMA OpenedAreClients ==
    ASSUME Types
    PROVE  /\ 1..opened \subseteq Clients
           /\ opened \in Nat
           /\ opened < MaxClients => opened + 1 \in Clients
  BY XmuxAssumption DEF Types, NumTypes, Clients

\* Every step preserves the types of the counters.
LEMMA NumTypesStep == ASSUME Types, Shape, Next PROVE NumTypes'
<1> USE DEF Types
<1>1. ASSUME NEW s \in Streams, GetNew(s) PROVE NumTypes'
  BY <1>1, XmuxAssumption DEF NumTypes, GetNew, CloseClients, ConnClose, HandOut
<1>2. ASSUME GetWaits PROVE NumTypes'
  BY <1>2, XmuxAssumption, Zenon
  DEF NumTypes, GetWaits, CloseClients, ConnClose, streamVars, callVars
<1>3. ASSUME NEW s \in Streams, CountIn(s) PROVE NumTypes'
  BY <1>3, XmuxAssumption, Zenon
  DEF NumTypes, CountIn, AddOpenUsage, ConnClose, managerVars, history, connVars, callVars
<1>4. ASSUME NEW s \in Streams, NEW k \in Slots, RoundTrip(s, k) PROVE NumTypes'
  BY <1>4, XmuxAssumption, Zenon DEF NumTypes, RoundTrip, managerVars, history, Step, connVars
<1>5. ASSUME NEW s \in Streams, NEW k \in Slots, NoteFailure(s, k) PROVE NumTypes'
  BY <1>5, XmuxAssumption, Zenon DEF NumTypes, NoteFailure, managerVars, history, Step, connVars
<1>6. ASSUME NEW s \in Streams, NEW k \in Slots, NoteBreakerTrip(s, k) PROVE NumTypes'
  BY <1>6, XmuxAssumption DEF NumTypes, NoteBreakerTrip, clientVars, history, Step, connVars
<1>7. ASSUME NEW s \in Streams, NEW k \in Slots, NoteSuccess(s, k) PROVE NumTypes'
  BY <1>7, XmuxAssumption, Zenon DEF NumTypes, NoteSuccess, managerVars, history, Step, connVars
<1>8. ASSUME NEW s \in Streams, NEW k \in Slots, ResetBackoff(s, k) PROVE NumTypes'
  BY <1>8, XmuxAssumption DEF NumTypes, ResetBackoff, clientVars, history, Step, connVars
<1>9. ASSUME NEW s \in Streams, Release(s) PROVE NumTypes'
  BY <1>9, XmuxAssumption, Zenon
  DEF NumTypes, Release, AddOpenUsage, ConnClose, managerVars, history, connVars
<1>10. ASSUME NEW s \in Streams, NEW c \in Clients, GetPooled(s, c) PROVE NumTypes'
  BY <1>10, XmuxAssumption DEF NumTypes, GetPooled, HandOut
<1>11. ASSUME Close PROVE NumTypes'
  BY <1>11, XmuxAssumption, Zenon
  DEF NumTypes, Close, clientVars, streamVars, history, connVars, callVars
<1>12. ASSUME WindowEnds PROVE NumTypes'
  BY <1>12, XmuxAssumption, Zenon
  DEF NumTypes, WindowEnds, clientVars, streamVars, history, connVars, callVars
<1>13. ASSUME NEW c \in Clients, CloseOne(c) PROVE NumTypes'
  BY <1>13, XmuxAssumption, Zenon
  DEF NumTypes, CloseOne, CloseClients, ConnClose, streamVars, callVars
<1>14. ASSUME NEW c \in Clients, Expires(c) PROVE NumTypes'
  BY <1>14, XmuxAssumption, Zenon
  DEF NumTypes, Expires, managerVars, streamVars, history, callVars
<1> QED
  BY <1>1, <1>2, <1>3, <1>4, <1>5, <1>6, <1>7, <1>8, <1>9, <1>10, <1>11, <1>12, <1>13, <1>14,
     Zenon
  DEF Next

\* Every step preserves the types of the clients' counters.
LEMMA FunTypesStep == ASSUME Types, Shape, Next PROVE FunTypes'
<1> USE DEF Types
<1>1. ASSUME NEW s \in Streams, GetNew(s) PROVE FunTypes'
  BY <1>1, XmuxAssumption, HoldsClient, RequestHoldsClient, OpenedAreClients
  DEF FunTypes, GetNew, CloseClients, ConnClose, HandOut
<1>2. ASSUME GetWaits PROVE FunTypes'
  BY <1>2, XmuxAssumption, HoldsClient, RequestHoldsClient, OpenedAreClients, Zenon
  DEF FunTypes, GetWaits, CloseClients, ConnClose, streamVars, callVars
<1>3. ASSUME NEW s \in Streams, CountIn(s) PROVE FunTypes'
  BY <1>3, XmuxAssumption, HoldsClient, RequestHoldsClient, OpenedAreClients
  DEF FunTypes, CountIn, AddOpenUsage, ConnClose, managerVars, history, connVars, callVars
<1>4. ASSUME NEW s \in Streams, NEW k \in Slots, RoundTrip(s, k) PROVE FunTypes'
  BY <1>4, XmuxAssumption, HoldsClient, RequestHoldsClient, OpenedAreClients
  DEF FunTypes, RoundTrip, managerVars, history, Step, connVars
<1>5. ASSUME NEW s \in Streams, NEW k \in Slots, NoteFailure(s, k) PROVE FunTypes'
  BY <1>5, XmuxAssumption, HoldsClient, RequestHoldsClient, OpenedAreClients
  DEF FunTypes, NoteFailure, managerVars, history, Step, connVars
<1>6. ASSUME NEW s \in Streams, NEW k \in Slots, NoteBreakerTrip(s, k) PROVE FunTypes'
  BY <1>6, XmuxAssumption, HoldsClient, RequestHoldsClient, OpenedAreClients, Zenon
  DEF FunTypes, NoteBreakerTrip, clientVars, history, Step, connVars
<1>7. ASSUME NEW s \in Streams, NEW k \in Slots, NoteSuccess(s, k) PROVE FunTypes'
  BY <1>7, XmuxAssumption, HoldsClient, RequestHoldsClient, OpenedAreClients, Zenon
  DEF FunTypes, NoteSuccess, managerVars, history, Step, connVars
<1>8. ASSUME NEW s \in Streams, NEW k \in Slots, ResetBackoff(s, k) PROVE FunTypes'
  BY <1>8, XmuxAssumption, HoldsClient, RequestHoldsClient, OpenedAreClients, Zenon
  DEF FunTypes, ResetBackoff, clientVars, history, Step, connVars
<1>9. ASSUME NEW s \in Streams, Release(s) PROVE FunTypes'
  BY <1>9, XmuxAssumption, HoldsClient, RequestHoldsClient, OpenedAreClients
  DEF FunTypes, Release, AddOpenUsage, ConnClose, managerVars, history, connVars
<1>10. ASSUME NEW s \in Streams, NEW c \in Clients, GetPooled(s, c) PROVE FunTypes'
  BY <1>10, XmuxAssumption, HoldsClient, RequestHoldsClient, OpenedAreClients
  DEF FunTypes, GetPooled, CloseClients, ConnClose, HandOut
<1>11. ASSUME Close PROVE FunTypes'
  BY <1>11, XmuxAssumption, HoldsClient, RequestHoldsClient, OpenedAreClients, Zenon
  DEF FunTypes, Close, clientVars, streamVars, history, connVars, callVars
<1>12. ASSUME WindowEnds PROVE FunTypes'
  BY <1>12, XmuxAssumption, HoldsClient, RequestHoldsClient, OpenedAreClients, Zenon
  DEF FunTypes, WindowEnds, clientVars, streamVars, history, connVars, callVars
<1>13. ASSUME NEW c \in Clients, CloseOne(c) PROVE FunTypes'
  BY <1>13, XmuxAssumption, HoldsClient, RequestHoldsClient, OpenedAreClients, Zenon
  DEF FunTypes, CloseOne, CloseClients, ConnClose, streamVars, callVars
<1>14. ASSUME NEW c \in Clients, Expires(c) PROVE FunTypes'
  BY <1>14, XmuxAssumption, HoldsClient, RequestHoldsClient, OpenedAreClients, Zenon
  DEF FunTypes, Expires, managerVars, streamVars, history, callVars
<1> QED
  BY <1>1, <1>2, <1>3, <1>4, <1>5, <1>6, <1>7, <1>8, <1>9, <1>10, <1>11, <1>12, <1>13, <1>14,
     Zenon
  DEF Next

\* Every step preserves the types of the sets of clients.
LEMMA SetTypesStep == ASSUME Types, Shape, Next PROVE SetTypes'
<1> USE DEF Types
<1>1. ASSUME NEW s \in Streams, GetNew(s) PROVE SetTypes'
  <2>1. Kept \cup {opened + 1} \subseteq 1..(opened + 1)
    <3>1. opened \in Nat
      BY OpenedAreClients, Zenon
    <3>2. Kept \subseteq 1..opened
      BY KeptSubset, Zenon DEF SetTypes
    <3> QED
      BY <3>1, <3>2
  <2>2. opened + 1 \in Clients
    BY <1>1, OpenedAreClients, Zenon DEF GetNew
  <2>3. clients' \subseteq 1..opened'
    BY <1>1, <2>1, Zenon DEF GetNew
  <2> HIDE DEF Clients
  <2> QED
    BY <1>1, <2>2, <2>3, KeptSubset, OpenedAreClients, Zenon
    DEF SetTypes, GetNew, CloseClients, ConnClose, HandOut
<1>2. ASSUME GetWaits PROVE SetTypes'
  BY <1>2, KeptSubset, HoldsClient, RequestHoldsClient, OpenedAreClients, Zenon
  DEF SetTypes, GetWaits, CloseClients, ConnClose, streamVars, callVars
<1>3. ASSUME NEW s \in Streams, CountIn(s) PROVE SetTypes'
  BY <1>3, KeptSubset, HoldsClient, RequestHoldsClient, OpenedAreClients
  DEF SetTypes, CountIn, AddOpenUsage, ConnClose, managerVars, history, connVars, callVars
<1>4. ASSUME NEW s \in Streams, NEW k \in Slots, RoundTrip(s, k) PROVE SetTypes'
  BY <1>4, KeptSubset, HoldsClient, RequestHoldsClient, OpenedAreClients, Zenon
  DEF SetTypes, RoundTrip, managerVars, history, Step, connVars
<1>5. ASSUME NEW s \in Streams, NEW k \in Slots, NoteFailure(s, k) PROVE SetTypes'
  BY <1>5, KeptSubset, HoldsClient, RequestHoldsClient, OpenedAreClients, Zenon
  DEF SetTypes, NoteFailure, managerVars, history, Step, connVars
<1>6. ASSUME NEW s \in Streams, NEW k \in Slots, NoteBreakerTrip(s, k) PROVE SetTypes'
  BY <1>6, KeptSubset, HoldsClient, RequestHoldsClient, OpenedAreClients, Zenon
  DEF SetTypes, NoteBreakerTrip, clientVars, history, Step, connVars
<1>7. ASSUME NEW s \in Streams, NEW k \in Slots, NoteSuccess(s, k) PROVE SetTypes'
  BY <1>7, KeptSubset, HoldsClient, RequestHoldsClient, OpenedAreClients, Zenon
  DEF SetTypes, NoteSuccess, managerVars, history, Step, connVars
<1>8. ASSUME NEW s \in Streams, NEW k \in Slots, ResetBackoff(s, k) PROVE SetTypes'
  BY <1>8, KeptSubset, HoldsClient, RequestHoldsClient, OpenedAreClients, Zenon
  DEF SetTypes, ResetBackoff, clientVars, history, Step, connVars
<1>9. ASSUME NEW s \in Streams, Release(s) PROVE SetTypes'
  BY <1>9, KeptSubset, HoldsClient, RequestHoldsClient, OpenedAreClients
  DEF SetTypes, Release, AddOpenUsage, ConnClose, managerVars, history, connVars
<1>10. ASSUME NEW s \in Streams, NEW c \in Clients, GetPooled(s, c) PROVE SetTypes'
  BY <1>10, KeptSubset, HoldsClient, RequestHoldsClient, OpenedAreClients, Zenon
  DEF SetTypes, GetPooled, CloseClients, ConnClose, HandOut
<1>11. ASSUME Close PROVE SetTypes'
  BY <1>11, KeptSubset, HoldsClient, RequestHoldsClient, OpenedAreClients, Zenon
  DEF SetTypes, Close, clientVars, streamVars, history, connVars, callVars
<1>12. ASSUME WindowEnds PROVE SetTypes'
  BY <1>12, KeptSubset, HoldsClient, RequestHoldsClient, OpenedAreClients, Zenon
  DEF SetTypes, WindowEnds, clientVars, streamVars, history, connVars, callVars
<1>13. ASSUME NEW c \in Clients, CloseOne(c) PROVE SetTypes'
  BY <1>13, KeptSubset, HoldsClient, RequestHoldsClient, OpenedAreClients, Zenon
  DEF SetTypes, CloseOne, CloseClients, ConnClose, streamVars, callVars
<1>14. ASSUME NEW c \in Clients, Expires(c) PROVE SetTypes'
  BY <1>14, KeptSubset, HoldsClient, RequestHoldsClient, OpenedAreClients, Zenon
  DEF SetTypes, Expires, connVars, managerVars, streamVars, history, callVars
<1> QED
  BY <1>1, <1>2, <1>3, <1>4, <1>5, <1>6, <1>7, <1>8, <1>9, <1>10, <1>11, <1>12, <1>13, <1>14,
     Zenon
  DEF Next

\* Every step preserves the types of the streams' state.
LEMMA StreamTypesStep == ASSUME Types, Shape, Next PROVE StreamTypes'
<1> USE DEF Types
<1>1. ASSUME NEW s \in Streams, GetNew(s) PROVE StreamTypes'
  BY <1>1, XmuxAssumption
  DEF StreamTypes, NumTypes, Clients, NoClient, GetNew, CloseClients, ConnClose, HandOut
<1>2. ASSUME GetWaits PROVE StreamTypes'
  BY <1>2, XmuxAssumption, Zenon
  DEF StreamTypes, NumTypes, Clients, NoClient, GetWaits, CloseClients, ConnClose, streamVars,
      callVars
<1>3. ASSUME NEW s \in Streams, CountIn(s) PROVE StreamTypes'
  BY <1>3, XmuxAssumption, Zenon
  DEF StreamTypes, NumTypes, Clients, NoClient, CountIn, AddOpenUsage, ConnClose, managerVars,
      history, connVars, callVars
<1>4. ASSUME NEW s \in Streams, NEW k \in Slots, RoundTrip(s, k) PROVE StreamTypes'
  BY <1>4, XmuxAssumption, Zenon
  DEF StreamTypes, NumTypes, Clients, NoClient, RoundTrip, managerVars, history, Step, connVars
<1>5. ASSUME NEW s \in Streams, NEW k \in Slots, NoteFailure(s, k) PROVE StreamTypes'
  <2>1. Step(s, k, "trip") \/ Step(s, k, "none")
    BY <1>5, Zenon DEF NoteFailure
  <2>2. UNCHANGED <<pc, hold, released>>
    BY <1>5, Zenon DEF NoteFailure
  <2> QED
    <3>1. CASE Step(s, k, "trip")
      BY <2>2, <3>1, Zenon DEF StreamTypes, Step
    <3>2. CASE Step(s, k, "none")
      BY <2>2, <3>2, Zenon DEF StreamTypes, Step
    <3> QED
      BY <2>1, <3>1, <3>2, Zenon
<1>6. ASSUME NEW s \in Streams, NEW k \in Slots, NoteBreakerTrip(s, k) PROVE StreamTypes'
  BY <1>6, XmuxAssumption, Zenon
  DEF StreamTypes, NumTypes, Clients, NoClient, NoteBreakerTrip, clientVars, history, Step,
      connVars
<1>7. ASSUME NEW s \in Streams, NEW k \in Slots, NoteSuccess(s, k) PROVE StreamTypes'
  BY <1>7, XmuxAssumption, Zenon
  DEF StreamTypes, NumTypes, Clients, NoClient, NoteSuccess, managerVars, history, Step,
      connVars
<1>8. ASSUME NEW s \in Streams, NEW k \in Slots, ResetBackoff(s, k) PROVE StreamTypes'
  BY <1>8, XmuxAssumption, Zenon
  DEF StreamTypes, NumTypes, Clients, NoClient, ResetBackoff, clientVars, history, Step,
      connVars
<1>9. ASSUME NEW s \in Streams, Release(s) PROVE StreamTypes'
  BY <1>9, XmuxAssumption, Zenon
  DEF StreamTypes, NumTypes, Clients, NoClient, Release, AddOpenUsage, ConnClose, managerVars,
      history, connVars
<1>10. ASSUME NEW s \in Streams, NEW c \in Clients, GetPooled(s, c) PROVE StreamTypes'
  BY <1>10, XmuxAssumption, Zenon
  DEF StreamTypes, NumTypes, Clients, NoClient, GetPooled, CloseClients, ConnClose, HandOut
<1>11. ASSUME Close PROVE StreamTypes'
  BY <1>11, XmuxAssumption, Zenon
  DEF StreamTypes, NumTypes, Clients, NoClient, Close, clientVars, streamVars, history,
      connVars, callVars
<1>12. ASSUME WindowEnds PROVE StreamTypes'
  BY <1>12, XmuxAssumption, Zenon
  DEF StreamTypes, NumTypes, Clients, NoClient, WindowEnds, clientVars, streamVars, history,
      connVars, callVars
<1>13. ASSUME NEW c \in Clients, CloseOne(c) PROVE StreamTypes'
  BY <1>13, XmuxAssumption, Zenon
  DEF StreamTypes, NumTypes, Clients, NoClient, CloseOne, CloseClients, ConnClose, streamVars,
      callVars
<1>14. ASSUME NEW c \in Clients, Expires(c) PROVE StreamTypes'
  BY <1>14, XmuxAssumption, Zenon
  DEF StreamTypes, NumTypes, Clients, NoClient, Expires, managerVars, streamVars, history,
      callVars
<1> QED
  BY <1>1, <1>2, <1>3, <1>4, <1>5, <1>6, <1>7, <1>8, <1>9, <1>10, <1>11, <1>12, <1>13, <1>14,
     Zenon
  DEF Next

\* Every step preserves the type of blocked.
LEMMA BlockedStep == ASSUME Types, Next PROVE (blocked \in BOOLEAN)'
<1>0. blocked \in BOOLEAN
  BY Zenon DEF Types
<1>1. ASSUME NEW s \in Streams, GetNew(s) PROVE (blocked \in BOOLEAN)'
  BY <1>1, <1>0, Zenon
  DEF clientVars, managerVars, history, GetNew, CloseClients, ConnClose, HandOut, connVars
<1>2. ASSUME GetWaits PROVE (blocked \in BOOLEAN)'
  BY <1>2, <1>0, Zenon
  DEF clientVars, managerVars, history, GetWaits, CloseClients, ConnClose, streamVars, connVars,
      callVars
<1>3. ASSUME NEW s \in Streams, CountIn(s) PROVE (blocked \in BOOLEAN)'
  BY <1>3, <1>0, Zenon
  DEF clientVars, managerVars, history, CountIn, AddOpenUsage, ConnClose, connVars, callVars
<1>4. ASSUME NEW s \in Streams, NEW k \in Slots, RoundTrip(s, k) PROVE (blocked \in BOOLEAN)'
  BY <1>4, <1>0, Zenon
  DEF clientVars, managerVars, history, RoundTrip, Step, connVars
<1>5. ASSUME NEW s \in Streams, NEW k \in Slots, NoteFailure(s, k) PROVE (blocked \in BOOLEAN)'
  BY <1>5, <1>0, Zenon
  DEF clientVars, managerVars, history, NoteFailure, Step, connVars
<1>6. ASSUME NEW s \in Streams, NEW k \in Slots, NoteBreakerTrip(s, k)
      PROVE  (blocked \in BOOLEAN)'
  BY <1>6, <1>0, Zenon
  DEF clientVars, managerVars, history, NoteBreakerTrip, Step, connVars
<1>7. ASSUME NEW s \in Streams, NEW k \in Slots, NoteSuccess(s, k) PROVE (blocked \in BOOLEAN)'
  BY <1>7, <1>0, Zenon
  DEF clientVars, managerVars, history, NoteSuccess, Step, connVars
<1>8. ASSUME NEW s \in Streams, NEW k \in Slots, ResetBackoff(s, k) PROVE (blocked \in BOOLEAN)'
  BY <1>8, <1>0, Zenon
  DEF clientVars, managerVars, history, ResetBackoff, Step, connVars
<1>9. ASSUME NEW s \in Streams, Release(s) PROVE (blocked \in BOOLEAN)'
  BY <1>9, <1>0, Zenon
  DEF clientVars, managerVars, history, Release, AddOpenUsage, ConnClose, connVars
<1>10. ASSUME NEW s \in Streams, NEW c \in Clients, GetPooled(s, c) PROVE (blocked \in BOOLEAN)'
  BY <1>10, <1>0, Zenon
  DEF clientVars, managerVars, history, GetPooled, CloseClients, ConnClose, HandOut, connVars
<1>11. ASSUME Close PROVE (blocked \in BOOLEAN)'
  BY <1>11, <1>0, Zenon
  DEF clientVars, managerVars, history, Close, streamVars, connVars, callVars
<1>12. ASSUME WindowEnds PROVE (blocked \in BOOLEAN)'
  BY <1>12, <1>0, Zenon
  DEF clientVars, managerVars, history, WindowEnds, streamVars, connVars, callVars
<1>13. ASSUME NEW c \in Clients, CloseOne(c) PROVE (blocked \in BOOLEAN)'
  BY <1>13, <1>0, Zenon
  DEF clientVars, managerVars, history, CloseOne, CloseClients, ConnClose, streamVars, connVars,
      callVars
<1>14. ASSUME NEW c \in Clients, Expires(c) PROVE (blocked \in BOOLEAN)'
  BY <1>14, <1>0, Zenon
  DEF clientVars, managerVars, history, Expires, streamVars, connVars, callVars
<1> QED
  BY <1>1, <1>2, <1>3, <1>4, <1>5, <1>6, <1>7, <1>8, <1>9, <1>10, <1>11, <1>12, <1>13, <1>14,
     Zenon
  DEF Next

\* Every step preserves the types.
LEMMA TypesStep == ASSUME Types, Shape, Next PROVE Types'
  BY NumTypesStep, FunTypesStep, SetTypesStep, StreamTypesStep, BlockedStep, Zenon DEF Types

-----------------------------------------------------------------------------
(* The streams of a client, before and after a step                        *)

\* A stream that gets a client was not counted and is not counted yet.
LEMMA CountedByHandOut ==
    ASSUME Types, Shape, NEW s \in Streams, NEW c, Vacant(s), HandOut(s, c), NEW d
    PROVE  Counted(d)' = Counted(d)
  BY VacantIsNew, Zenon DEF Types, StreamTypes, HandOut, Counted

\* Streams are counted and leave in CountIn and Release only.
LEMMA CountedSame ==
    ASSUME Types, Shape, Next, \A s \in Streams : ~CountIn(s) /\ ~Release(s)
    PROVE  openUsage' = openUsage /\ \A d : Counted(d)' = Counted(d)
<1> USE DEF Types
<1>1. ASSUME NEW s \in Streams, GetNew(s)
      PROVE  openUsage' = openUsage /\ \A d : Counted(d)' = Counted(d)
  BY <1>1, CountedByHandOut, Zenon DEF GetNew
<1>2. ASSUME GetWaits PROVE openUsage' = openUsage /\ \A d : Counted(d)' = Counted(d)
  BY <1>2, Zenon
  DEF StreamTypes, Counted, GetWaits, CloseClients, ConnClose, streamVars, callVars
<1>3. ASSUME NEW s \in Streams, CountIn(s)
      PROVE  openUsage' = openUsage /\ \A d : Counted(d)' = Counted(d)
  BY <1>3, Zenon
<1>4. ASSUME NEW s \in Streams, NEW k \in Slots, RoundTrip(s, k)
      PROVE  openUsage' = openUsage /\ \A d : Counted(d)' = Counted(d)
  BY <1>4, Zenon DEF StreamTypes, Counted, RoundTrip, managerVars, history, Step, connVars
<1>5. ASSUME NEW s \in Streams, NEW k \in Slots, NoteFailure(s, k)
      PROVE  openUsage' = openUsage /\ \A d : Counted(d)' = Counted(d)
  BY <1>5, Zenon DEF StreamTypes, Counted, NoteFailure, managerVars, history, Step, connVars
<1>6. ASSUME NEW s \in Streams, NEW k \in Slots, NoteBreakerTrip(s, k)
      PROVE  openUsage' = openUsage /\ \A d : Counted(d)' = Counted(d)
  BY <1>6, Zenon DEF StreamTypes, Counted, NoteBreakerTrip, clientVars, history, Step, connVars
<1>7. ASSUME NEW s \in Streams, NEW k \in Slots, NoteSuccess(s, k)
      PROVE  openUsage' = openUsage /\ \A d : Counted(d)' = Counted(d)
  BY <1>7, Zenon DEF StreamTypes, Counted, NoteSuccess, managerVars, history, Step, connVars
<1>8. ASSUME NEW s \in Streams, NEW k \in Slots, ResetBackoff(s, k)
      PROVE  openUsage' = openUsage /\ \A d : Counted(d)' = Counted(d)
  BY <1>8, Zenon DEF StreamTypes, Counted, ResetBackoff, clientVars, history, Step, connVars
<1>9. ASSUME NEW s \in Streams, Release(s)
      PROVE  openUsage' = openUsage /\ \A d : Counted(d)' = Counted(d)
  BY <1>9, Zenon
<1>10. ASSUME NEW s \in Streams, NEW c \in Clients, GetPooled(s, c)
      PROVE  openUsage' = openUsage /\ \A d : Counted(d)' = Counted(d)
  BY <1>10, CountedByHandOut, Zenon DEF GetPooled
<1>11. ASSUME Close PROVE openUsage' = openUsage /\ \A d : Counted(d)' = Counted(d)
  BY <1>11, Zenon
  DEF StreamTypes, Counted, Close, clientVars, streamVars, history, connVars, callVars
<1>12. ASSUME WindowEnds PROVE openUsage' = openUsage /\ \A d : Counted(d)' = Counted(d)
  BY <1>12, Zenon
  DEF StreamTypes, Counted, WindowEnds, clientVars, streamVars, history, connVars, callVars
<1>13. ASSUME NEW c \in Clients, CloseOne(c)
       PROVE  openUsage' = openUsage /\ \A d : Counted(d)' = Counted(d)
  BY <1>13, Zenon
  DEF StreamTypes, Counted, CloseOne, CloseClients, ConnClose, streamVars, callVars
<1>14. ASSUME NEW c \in Clients, Expires(c)
       PROVE  openUsage' = openUsage /\ \A d : Counted(d)' = Counted(d)
  BY <1>14, Zenon DEF StreamTypes, Counted, Expires, managerVars, streamVars, history, callVars
<1> QED
  BY <1>1, <1>2, <1>3, <1>4, <1>5, <1>6, <1>7, <1>8, <1>9, <1>10, <1>11, <1>12, <1>13, <1>14,
     Zenon
  DEF Next

\* CountIn counts its stream on its client.
LEMMA CountedByCountIn ==
    ASSUME Types, Shape, NEW s \in Streams, CountIn(s), NEW d
    PROVE  Counted(d)' = IF d = hold[s] THEN Counted(d) \cup {s} ELSE Counted(d)
<1>1. s \notin released /\ pc[s] = "got"
  BY Zenon DEF CountIn, Shape, StreamShape
<1>2. pc' = [pc EXCEPT ![s] = "live"] /\ UNCHANGED <<hold, released>>
  BY Zenon DEF CountIn, callVars
<1> QED
  BY <1>1, <1>2, Zenon DEF Types, StreamTypes, Counted

\* Release takes its stream away from its client.
LEMMA CountedByRelease ==
    ASSUME Types, NEW s \in Streams, Release(s), NEW d
    PROVE  Counted(d)' = IF d = hold[s] THEN Counted(d) \ {s} ELSE Counted(d)
  BY Zenon DEF Types, StreamTypes, Release, Counted

\* A stream that got its client is not counted; one that first releases it is.
LEMMA CountedNow ==
    ASSUME NEW s \in Streams
    PROVE  /\ CountIn(s) => s \notin Counted(hold[s])
           /\ Release(s) /\ s \notin released => s \in Counted(hold[s])
  BY Zenon DEF CountIn, Release, Counted

\* A later release does nothing to the counts or the connections.
LEMMA ReleaseAgain ==
    ASSUME NEW s \in Streams, s \in released, Release(s)
    PROVE  /\ openUsage' = openUsage /\ UNCHANGED connVars /\ \A d : Counted(d)' = Counted(d)
           /\ closed' = closed /\ missed' = missed
  BY Zenon DEF Release, Counted, history

\* Every step keeps the counts exact.
LEMMA UsageExactStep == ASSUME Types, Shape, UsageExact, Next PROVE UsageExact'
<1>1. ASSUME NEW s \in Streams, CountIn(s) PROVE UsageExact'
  <2> SUFFICES ASSUME NEW d \in Clients PROVE openUsage'[d] = Cardinality(Counted(d)')
    BY Zenon DEF UsageExact
  <2>1. openUsage' = [openUsage EXCEPT ![hold[s]] = @ + 1]
    BY <1>1, Zenon DEF CountIn, AddOpenUsage
  <2>2. openUsage[d] = Cardinality(Counted(d)) /\ IsFiniteSet(Counted(d))
    BY CountedFinite, Zenon DEF UsageExact
  <2>3. CASE d = hold[s]
    <3>1. Counted(d)' = Counted(d) \cup {s} /\ s \notin Counted(d)
      BY <1>1, <2>3, CountedByCountIn, CountedNow, Zenon
    <3>2. Cardinality(Counted(d) \cup {s}) = Cardinality(Counted(d)) + 1
      BY <2>2, <3>1, FS_AddElement, Zenon
    <3> QED
      BY <2>1, <2>2, <2>3, <3>1, <3>2, Zenon DEF Types, FunTypes
  <2>4. CASE d # hold[s]
    BY <1>1, <2>1, <2>2, <2>4, CountedByCountIn, Zenon DEF Types, FunTypes
  <2> QED
    BY <2>3, <2>4, Zenon
<1>2. ASSUME NEW s \in Streams, Release(s), s \notin released PROVE UsageExact'
  <2> SUFFICES ASSUME NEW d \in Clients PROVE openUsage'[d] = Cardinality(Counted(d)')
    BY Zenon DEF UsageExact
  <2>1. openUsage' = [openUsage EXCEPT ![hold[s]] = @ + -1]
    BY <1>2, Zenon DEF Release, AddOpenUsage
  <2>2. openUsage[d] = Cardinality(Counted(d)) /\ IsFiniteSet(Counted(d))
    BY CountedFinite, Zenon DEF UsageExact
  <2>3. CASE d = hold[s]
    <3>1. Counted(d)' = Counted(d) \ {s} /\ s \in Counted(d)
      BY <1>2, <2>3, CountedByRelease, CountedNow, Zenon
    <3>2. Cardinality(Counted(d) \ {s}) = Cardinality(Counted(d)) - 1
      BY <2>2, <3>1, FS_RemoveElement, Zenon
    <3> QED
      BY <2>1, <2>2, <2>3, <3>1, <3>2, Zenon DEF Types, FunTypes
  <2>4. CASE d # hold[s]
    BY <1>2, <2>1, <2>2, <2>4, CountedByRelease, Zenon DEF Types, FunTypes
  <2> QED
    BY <2>3, <2>4, Zenon
<1>3. CASE \A s \in Streams : ~CountIn(s) /\ ~Release(s)
  BY <1>3, CountedSame, Zenon DEF UsageExact
<1>4. ASSUME NEW s \in Streams, Release(s), s \in released PROVE UsageExact'
  BY <1>4, ReleaseAgain, Zenon DEF UsageExact
<1> QED
  BY <1>1, <1>2, <1>3, <1>4, Zenon

\* Streams get a client in GetNew and GetPooled only, and are counted in CountIn.
LEMMA UncountedSame ==
    ASSUME Types, Next,
           \A s \in Streams : ~CountIn(s) /\ ~GetNew(s) /\ \A c \in Clients : ~GetPooled(s, c)
    PROVE  \A d : Uncounted(d)' = Uncounted(d)
<1> USE DEF Types
<1>1. ASSUME NEW s \in Streams, GetNew(s) PROVE \A d : Uncounted(d)' = Uncounted(d)
  BY <1>1, Zenon
<1>2. ASSUME GetWaits PROVE \A d : Uncounted(d)' = Uncounted(d)
  BY <1>2, Zenon
  DEF StreamTypes, Uncounted, GetWaits, CloseClients, ConnClose, streamVars, callVars
<1>3. ASSUME NEW s \in Streams, CountIn(s) PROVE \A d : Uncounted(d)' = Uncounted(d)
  BY <1>3, Zenon
<1>4. ASSUME NEW s \in Streams, NEW k \in Slots, RoundTrip(s, k)
      PROVE  \A d : Uncounted(d)' = Uncounted(d)
  BY <1>4, Zenon DEF StreamTypes, Uncounted, RoundTrip, managerVars, history, Step, connVars
<1>5. ASSUME NEW s \in Streams, NEW k \in Slots, NoteFailure(s, k)
      PROVE  \A d : Uncounted(d)' = Uncounted(d)
  BY <1>5, Zenon DEF StreamTypes, Uncounted, NoteFailure, managerVars, history, Step, connVars
<1>6. ASSUME NEW s \in Streams, NEW k \in Slots, NoteBreakerTrip(s, k)
      PROVE  \A d : Uncounted(d)' = Uncounted(d)
  BY <1>6, Zenon
  DEF StreamTypes, Uncounted, NoteBreakerTrip, clientVars, history, Step, connVars
<1>7. ASSUME NEW s \in Streams, NEW k \in Slots, NoteSuccess(s, k)
      PROVE  \A d : Uncounted(d)' = Uncounted(d)
  BY <1>7, Zenon DEF StreamTypes, Uncounted, NoteSuccess, managerVars, history, Step, connVars
<1>8. ASSUME NEW s \in Streams, NEW k \in Slots, ResetBackoff(s, k)
      PROVE  \A d : Uncounted(d)' = Uncounted(d)
  BY <1>8, Zenon DEF StreamTypes, Uncounted, ResetBackoff, clientVars, history, Step, connVars
<1>9. ASSUME NEW s \in Streams, Release(s) PROVE \A d : Uncounted(d)' = Uncounted(d)
  BY <1>9, Zenon
  DEF StreamTypes, Uncounted, Release, AddOpenUsage, ConnClose, managerVars, history, connVars
<1>10. ASSUME NEW s \in Streams, NEW c \in Clients, GetPooled(s, c)
      PROVE  \A d : Uncounted(d)' = Uncounted(d)
  BY <1>10, Zenon
<1>11. ASSUME Close PROVE \A d : Uncounted(d)' = Uncounted(d)
  BY <1>11, Zenon
  DEF StreamTypes, Uncounted, Close, clientVars, streamVars, history, connVars, callVars
<1>12. ASSUME WindowEnds PROVE \A d : Uncounted(d)' = Uncounted(d)
  BY <1>12, Zenon
  DEF StreamTypes, Uncounted, WindowEnds, clientVars, streamVars, history, connVars, callVars
<1>13. ASSUME NEW c \in Clients, CloseOne(c) PROVE \A d : Uncounted(d)' = Uncounted(d)
  BY <1>13, Zenon
  DEF StreamTypes, Uncounted, CloseOne, CloseClients, ConnClose, streamVars, callVars
<1>14. ASSUME NEW c \in Clients, Expires(c) PROVE \A d : Uncounted(d)' = Uncounted(d)
  BY <1>14, Zenon
  DEF StreamTypes, Uncounted, Expires, managerVars, streamVars, history, callVars
<1> QED
  BY <1>1, <1>2, <1>3, <1>4, <1>5, <1>6, <1>7, <1>8, <1>9, <1>10, <1>11, <1>12, <1>13, <1>14,
     Zenon
  DEF Next

-----------------------------------------------------------------------------
(* The conjuncts of the inductive invariant                                *)

\* Every step preserves PoolShape.
LEMMA PoolShapeStep == ASSUME Types, Shape, Next PROVE PoolShape'
<1>0. clients \subseteq 1..opened /\ opened \in Nat /\ PoolShape
  BY OpenedAreClients, Zenon DEF Types, SetTypes, Shape
<1>1. ASSUME NEW s \in Streams, GetNew(s) PROVE PoolShape'
  <2>1. opened' = opened + 1 /\ clients' = Kept \cup {opened + 1} /\ retiring' = retiring
    BY <1>1, Zenon DEF GetNew
  <2>2. /\ closed' = closed \cup (clients \ Kept)
        /\ connClosed' \subseteq connClosed \cup (clients \ Kept)
    BY <1>1, Zenon DEF GetNew, CloseClients, ConnClose
  <2>3. /\ clients' \cap retiring' = {} /\ clients' \cap closed' = {}
        /\ retiring' \cap closed' = {} /\ connClosed' \subseteq closed'
    BY <1>0, <2>1, <2>2, KeptSubset DEF PoolShape
  <2>4. retiring' \subseteq 1..opened' /\ closed' \subseteq 1..opened'
    <3>1. 1..opened \subseteq 1..opened'
      BY <1>0, <2>1
    <3> QED
      BY <1>0, <2>1, <2>2, <3>1, Zenon DEF PoolShape
  <2>5. (concurrency = 0 \/ connections = 0)'
    BY <1>0, <1>1, Zenon DEF PoolShape, GetNew
  <2> QED
    BY <2>3, <2>4, <2>5, Zenon DEF PoolShape
<1>2. ASSUME GetWaits PROVE PoolShape'
  BY <1>2, <1>0, KeptSubset, Zenon
  DEF PoolShape, clientVars, managerVars, GetWaits, CloseClients, ConnClose, streamVars, connVars,
      callVars
<1>3. ASSUME NEW s \in Streams, CountIn(s) PROVE PoolShape'
  BY <1>3, <1>0, KeptSubset, Zenon
  DEF PoolShape, clientVars, managerVars, CountIn, AddOpenUsage, ConnClose, history, connVars,
      callVars
<1>4. ASSUME NEW s \in Streams, NEW k \in Slots, RoundTrip(s, k) PROVE PoolShape'
  BY <1>4, <1>0, KeptSubset, Zenon
  DEF PoolShape, clientVars, managerVars, RoundTrip, history, Step, connVars
<1>5. ASSUME NEW s \in Streams, NEW k \in Slots, NoteFailure(s, k) PROVE PoolShape'
  BY <1>5, <1>0, KeptSubset, Zenon
  DEF PoolShape, clientVars, managerVars, NoteFailure, history, Step, connVars
<1>6. ASSUME NEW s \in Streams, NEW k \in Slots, NoteBreakerTrip(s, k) PROVE PoolShape'
  BY <1>6, <1>0, KeptSubset, Zenon
  DEF PoolShape, clientVars, managerVars, NoteBreakerTrip, history, Step, connVars
<1>7. ASSUME NEW s \in Streams, NEW k \in Slots, NoteSuccess(s, k) PROVE PoolShape'
  BY <1>7, <1>0, KeptSubset, Zenon
  DEF PoolShape, clientVars, managerVars, NoteSuccess, history, Step, connVars
<1>8. ASSUME NEW s \in Streams, NEW k \in Slots, ResetBackoff(s, k) PROVE PoolShape'
  BY <1>8, <1>0, KeptSubset, Zenon
  DEF PoolShape, clientVars, managerVars, ResetBackoff, history, Step, connVars
<1>9. ASSUME NEW s \in Streams, Release(s) PROVE PoolShape'
  BY <1>9, <1>0, KeptSubset, Zenon
  DEF PoolShape, clientVars, managerVars, Release, AddOpenUsage, ConnClose, history, connVars
<1>10. ASSUME NEW s \in Streams, NEW c \in Clients, GetPooled(s, c) PROVE PoolShape'
  BY <1>10, <1>0, KeptSubset, Zenon
  DEF PoolShape, clientVars, managerVars, GetPooled, CloseClients, ConnClose, HandOut, connVars
<1>11. ASSUME Close PROVE PoolShape'
  BY <1>11, <1>0, KeptSubset, Zenon
  DEF PoolShape, clientVars, managerVars, Close, streamVars, history, connVars, callVars
<1>12. ASSUME WindowEnds PROVE PoolShape'
  BY <1>12, <1>0, KeptSubset, Zenon
  DEF PoolShape, clientVars, managerVars, WindowEnds, streamVars, history, connVars, callVars
<1>13. ASSUME NEW c \in Clients, CloseOne(c) PROVE PoolShape'
  BY <1>13, <1>0, KeptSubset, ZenonT(30)
  DEF PoolShape, clientVars, managerVars, CloseOne, CloseClients, ConnClose, streamVars, connVars,
      callVars
<1>14. ASSUME NEW c \in Clients, Expires(c) PROVE PoolShape'
  BY <1>14, <1>0, KeptSubset, Zenon
  DEF PoolShape, clientVars, managerVars, Expires, streamVars, history, connVars, callVars
<1> QED
  BY <1>1, <1>2, <1>3, <1>4, <1>5, <1>6, <1>7, <1>8, <1>9, <1>10, <1>11, <1>12, <1>13, <1>14,
     Zenon
  DEF Next

\* A step of a request of a stream that is counted, or was.
LEMMA ShapeByStep ==
    ASSUME Types, StreamShape, NEW s \in Streams, NEW k \in Slots, NEW l, Step(s, k, l),
           pc[s] = "live", UNCHANGED <<opened, pc, hold, released>>
    PROVE  StreamShape'
<1>1. ASSUME NEW t \in Streams, NEW m \in Slots, req'[t][m] # "none" PROVE pc[t] = "live"
  <2>1. CASE t = s
    BY <2>1, Zenon
  <2>2. CASE t # s
    BY <1>1, <2>2, Zenon DEF Types, StreamTypes, StreamShape, Step
  <2> QED
    BY <2>1, <2>2, Zenon
<1> QED
  BY <1>1, Zenon DEF StreamShape

\* A vacant stream gets a client that exists.
LEMMA ShapeByHandOut ==
    ASSUME Types, Shape, NEW s \in Streams, NEW c, Vacant(s), HandOut(s, c),
           c \in 1..opened', 1..opened \subseteq 1..opened'
    PROVE  StreamShape'
<1>1. \A k \in Slots : req[s][k] = "none"
  BY VacantIsNew, Zenon
<1>2. /\ pc' = [pc EXCEPT ![s] = "got"] /\ hold' = [hold EXCEPT ![s] = c]
      /\ released' = released \ {s} /\ req' = req
  BY Zenon DEF HandOut
<1>3. pc \in [Streams -> {"idle", "got", "live"}] /\ DOMAIN hold = Streams
  BY Zenon DEF Types, StreamTypes
<1>4. ASSUME NEW t \in Streams, t # s
      PROVE  /\ pc'[t] # "idle" => hold'[t] \in 1..opened'
             /\ t \in released' => pc'[t] = "live"
             /\ \A k \in Slots : req'[t][k] # "none" => pc'[t] = "live"
  BY <1>2, <1>3, <1>4, Zenon DEF Shape, StreamShape
<1>5. hold'[s] \in 1..opened' /\ s \notin released'
  BY <1>2, <1>3, Zenon
<1> QED
  BY <1>1, <1>2, <1>4, <1>5, Zenon DEF StreamShape

\* Every step preserves StreamShape.
LEMMA StreamShapeStep == ASSUME Types, Shape, Next PROVE StreamShape'
<1>0. opened \in Nat /\ StreamShape /\ DOMAIN pc = Streams /\ clients \subseteq 1..opened
  BY OpenedAreClients, Zenon DEF Types, SetTypes, StreamTypes, Shape
<1>1. ASSUME NEW s \in Streams, GetNew(s) PROVE StreamShape'
  <2>1. opened' = opened + 1 /\ Vacant(s) /\ HandOut(s, opened + 1)
    BY <1>1, Zenon DEF GetNew
  <2>2. opened + 1 \in 1..opened' /\ 1..opened \subseteq 1..opened'
    BY <1>0, <2>1
  <2> QED
    BY <2>1, <2>2, ShapeByHandOut, Zenon
<1>2. ASSUME NEW s \in Streams, NEW c \in Clients, GetPooled(s, c) PROVE StreamShape'
  <2>1. opened' = opened /\ Vacant(s) /\ HandOut(s, c) /\ c \in 1..opened
    BY <1>0, <1>2, KeptSubset, Zenon DEF GetPooled
  <2> QED
    BY <2>1, ShapeByHandOut, Zenon
<1>3. ASSUME NEW s \in Streams, CountIn(s) PROVE StreamShape'
  <2>1. /\ pc[s] = "got" /\ pc' = [pc EXCEPT ![s] = "live"]
        /\ UNCHANGED <<opened, hold, released, req>>
    BY <1>3, Zenon DEF CountIn, managerVars, callVars
  <2> QED
    BY <1>0, <2>1, ZenonT(30) DEF StreamShape
<1>4. ASSUME NEW s \in Streams, NEW k \in Slots,
             \/ RoundTrip(s, k) \/ NoteFailure(s, k) \/ NoteBreakerTrip(s, k)
             \/ NoteSuccess(s, k) \/ ResetBackoff(s, k)
      PROVE  StreamShape'
  <2>1. UNCHANGED <<opened, pc, hold, released>>
    BY <1>4, ZenonT(30)
    DEF RoundTrip, NoteFailure, NoteBreakerTrip, NoteSuccess, ResetBackoff, managerVars
  <2>2. \E l : Step(s, k, l)
    BY <1>4, ZenonT(30)
    DEF RoundTrip, NoteFailure, NoteBreakerTrip, NoteSuccess, ResetBackoff
  <2>3. pc[s] = "live" \/ req[s][k] \in {"request", "trip", "reset"}
    BY <1>4, ZenonT(30)
    DEF RoundTrip, NoteFailure, NoteBreakerTrip, NoteSuccess, ResetBackoff
  <2>4. pc[s] = "live"
    BY <1>0, <2>3 DEF StreamShape
  <2> QED
    BY <1>0, <2>1, <2>2, <2>4, ShapeByStep, Zenon
<1>5. ASSUME NEW s \in Streams, Release(s) PROVE StreamShape'
  <2>1. /\ pc[s] = "live" /\ UNCHANGED <<opened, pc, hold, req>>
        /\ released' \subseteq released \cup {s}
    BY <1>5, Zenon DEF Release, managerVars
  <2> QED
    BY <1>0, <2>1, Zenon DEF StreamShape
<1>6. ASSUME GetWaits \/ Close \/ WindowEnds \/ \E c \in Clients : CloseOne(c) \/ Expires(c)
      PROVE  StreamShape'
  <2>1. UNCHANGED <<opened, pc, hold, released, req>>
    BY <1>6, ZenonT(30)
    DEF GetWaits, Close, WindowEnds, CloseOne, Expires, managerVars, streamVars, callVars
  <2> QED
    BY <1>0, <2>1, Zenon DEF StreamShape
<1> QED
  BY <1>1, <1>2, <1>3, <1>4, <1>5, <1>6, ZenonT(30) DEF Next

\* Every step preserves Shape.
LEMMA ShapeStep == ASSUME Types, Shape, Next PROVE Shape'
  BY PoolShapeStep, StreamShapeStep, Zenon DEF Shape

\* Every step preserves UsesAddUp.
LEMMA UsesAddUpStep == ASSUME Types, Shape, UsesAddUp, Next PROVE UsesAddUp'
<1>0. /\ clients \subseteq 1..opened /\ opened \in Nat /\ ReuseTimes \in Nat
      /\ leftUsage \in [Clients -> Int] /\ handouts \in [Clients -> Nat]
  BY XmuxAssumption, OpenedAreClients, Zenon DEF Types, SetTypes, FunTypes
<1>00. \A c \in Clients : c \in Int
  BY DEF Clients
<1>1. ASSUME NEW s \in Streams, GetNew(s) PROVE UsesAddUp'
  BY <1>1, <1>0, <1>00, KeptSubset
  DEF UsesAddUp, clientVars, managerVars, history, GetNew, CloseClients, ConnClose, HandOut,
      connVars
<1>2. ASSUME GetWaits PROVE UsesAddUp'
  BY <1>2, <1>0, <1>00, KeptSubset, Zenon
  DEF UsesAddUp, clientVars, managerVars, history, GetWaits, CloseClients, ConnClose,
      streamVars, connVars, callVars
<1>3. ASSUME NEW s \in Streams, CountIn(s) PROVE UsesAddUp'
  BY <1>3, <1>0, <1>00, KeptSubset, Zenon
  DEF UsesAddUp, clientVars, managerVars, history, CountIn, AddOpenUsage, ConnClose, connVars,
      callVars
<1>4. ASSUME NEW s \in Streams, NEW k \in Slots, RoundTrip(s, k) PROVE UsesAddUp'
  BY <1>4, <1>0, <1>00, KeptSubset, Zenon
  DEF UsesAddUp, clientVars, managerVars, history, RoundTrip, Step, connVars
<1>5. ASSUME NEW s \in Streams, NEW k \in Slots, NoteFailure(s, k) PROVE UsesAddUp'
  BY <1>5, <1>0, <1>00, KeptSubset, Zenon
  DEF UsesAddUp, clientVars, managerVars, history, NoteFailure, Step, connVars
<1>6. ASSUME NEW s \in Streams, NEW k \in Slots, NoteBreakerTrip(s, k) PROVE UsesAddUp'
  BY <1>6, <1>0, <1>00, KeptSubset, Zenon
  DEF UsesAddUp, clientVars, managerVars, history, NoteBreakerTrip, Step, connVars
<1>7. ASSUME NEW s \in Streams, NEW k \in Slots, NoteSuccess(s, k) PROVE UsesAddUp'
  BY <1>7, <1>0, <1>00, KeptSubset, Zenon
  DEF UsesAddUp, clientVars, managerVars, history, NoteSuccess, Step, connVars
<1>8. ASSUME NEW s \in Streams, NEW k \in Slots, ResetBackoff(s, k) PROVE UsesAddUp'
  BY <1>8, <1>0, <1>00, KeptSubset, Zenon
  DEF UsesAddUp, clientVars, managerVars, history, ResetBackoff, Step, connVars
<1>9. ASSUME NEW s \in Streams, Release(s) PROVE UsesAddUp'
  BY <1>9, <1>0, <1>00, KeptSubset, Zenon
  DEF UsesAddUp, clientVars, managerVars, history, Release, AddOpenUsage, ConnClose, connVars
<1>10. ASSUME NEW s \in Streams, NEW c \in Clients, GetPooled(s, c) PROVE UsesAddUp'
  <2>1. leftUsage[c] # 0 /\ c \in 1..opened
    BY <1>10, <1>0, KeptSubset, Zenon DEF GetPooled, Candidates, Kept, evictCause
  <2>2. /\ leftUsage' = [leftUsage EXCEPT ![c] = IF @ > 0 THEN @ - 1 ELSE @]
        /\ handouts' = [handouts EXCEPT ![c] = @ + 1] /\ opened' = opened
    BY <1>10, Zenon DEF GetPooled, HandOut
  <2> QED
    BY <1>0, <1>00, <2>1, <2>2 DEF UsesAddUp
<1>11. ASSUME Close PROVE UsesAddUp'
  BY <1>11, <1>0, <1>00, KeptSubset, Zenon
  DEF UsesAddUp, clientVars, managerVars, history, Close, streamVars, connVars, callVars
<1>12. ASSUME WindowEnds PROVE UsesAddUp'
  BY <1>12, <1>0, <1>00, KeptSubset, Zenon
  DEF UsesAddUp, clientVars, managerVars, history, WindowEnds, streamVars, connVars, callVars
<1>13. ASSUME NEW c \in Clients, CloseOne(c) PROVE UsesAddUp'
  BY <1>13, <1>0, <1>00, KeptSubset, Zenon
  DEF UsesAddUp, clientVars, managerVars, history, CloseOne, CloseClients, ConnClose,
      streamVars, connVars, callVars
<1>14. ASSUME NEW c \in Clients, Expires(c) PROVE UsesAddUp'
  BY <1>14, <1>0, <1>00, KeptSubset, Zenon
  DEF UsesAddUp, clientVars, managerVars, history, Expires, streamVars, connVars, callVars
<1> QED
  BY <1>1, <1>2, <1>3, <1>4, <1>5, <1>6, <1>7, <1>8, <1>9, <1>10, <1>11, <1>12, <1>13, <1>14,
     Zenon
  DEF Next

\* The limits are rolled once.
LEMMA LimitsSame == ASSUME Next PROVE concurrency' = concurrency /\ connections' = connections
<1>1. ASSUME NEW s \in Streams, GetNew(s)
      PROVE  concurrency' = concurrency /\ connections' = connections
  BY <1>1, Zenon
  DEF clientVars, managerVars, history, GetNew, CloseClients, ConnClose, HandOut, connVars
<1>2. ASSUME GetWaits PROVE concurrency' = concurrency /\ connections' = connections
  BY <1>2, Zenon
  DEF clientVars, managerVars, history, GetWaits, CloseClients, ConnClose, streamVars, connVars,
      callVars
<1>3. ASSUME NEW s \in Streams, CountIn(s)
      PROVE  concurrency' = concurrency /\ connections' = connections
  BY <1>3, Zenon
  DEF clientVars, managerVars, history, CountIn, AddOpenUsage, ConnClose, connVars, callVars
<1>4. ASSUME NEW s \in Streams, NEW k \in Slots, RoundTrip(s, k)
      PROVE  concurrency' = concurrency /\ connections' = connections
  BY <1>4, Zenon DEF clientVars, managerVars, history, RoundTrip, Step, connVars
<1>5. ASSUME NEW s \in Streams, NEW k \in Slots, NoteFailure(s, k)
      PROVE  concurrency' = concurrency /\ connections' = connections
  BY <1>5, Zenon DEF clientVars, managerVars, history, NoteFailure, Step, connVars
<1>6. ASSUME NEW s \in Streams, NEW k \in Slots, NoteBreakerTrip(s, k)
      PROVE  concurrency' = concurrency /\ connections' = connections
  BY <1>6, Zenon
  DEF clientVars, managerVars, history, NoteBreakerTrip, Step, connVars
<1>7. ASSUME NEW s \in Streams, NEW k \in Slots, NoteSuccess(s, k)
      PROVE  concurrency' = concurrency /\ connections' = connections
  BY <1>7, Zenon DEF clientVars, managerVars, history, NoteSuccess, Step, connVars
<1>8. ASSUME NEW s \in Streams, NEW k \in Slots, ResetBackoff(s, k)
      PROVE  concurrency' = concurrency /\ connections' = connections
  BY <1>8, Zenon DEF clientVars, managerVars, history, ResetBackoff, Step, connVars
<1>9. ASSUME NEW s \in Streams, Release(s)
      PROVE  concurrency' = concurrency /\ connections' = connections
  BY <1>9, Zenon
  DEF clientVars, managerVars, history, Release, AddOpenUsage, ConnClose, connVars
<1>10. ASSUME NEW s \in Streams, NEW c \in Clients, GetPooled(s, c)
      PROVE  concurrency' = concurrency /\ connections' = connections
  BY <1>10, Zenon
  DEF clientVars, managerVars, history, GetPooled, CloseClients, ConnClose, HandOut, connVars
<1>11. ASSUME Close PROVE concurrency' = concurrency /\ connections' = connections
  BY <1>11, Zenon DEF clientVars, managerVars, history, Close, streamVars, connVars, callVars
<1>12. ASSUME WindowEnds PROVE concurrency' = concurrency /\ connections' = connections
  BY <1>12, Zenon
  DEF clientVars, managerVars, history, WindowEnds, streamVars, connVars, callVars
<1>13. ASSUME NEW c \in Clients, CloseOne(c)
       PROVE  concurrency' = concurrency /\ connections' = connections
  BY <1>13, Zenon
  DEF clientVars, managerVars, history, CloseOne, CloseClients, ConnClose, streamVars, connVars,
      callVars
<1>14. ASSUME NEW c \in Clients, Expires(c)
       PROVE  concurrency' = concurrency /\ connections' = connections
  BY <1>14, Zenon
  DEF clientVars, managerVars, history, Expires, streamVars, connVars, callVars
<1> QED
  BY <1>1, <1>2, <1>3, <1>4, <1>5, <1>6, <1>7, <1>8, <1>9, <1>10, <1>11, <1>12, <1>13, <1>14,
     Zenon
  DEF Next

\* The pool changes in lookups and in Close only.
LEMMA PoolSame ==
    ASSUME Next, ~Close, ~GetWaits,
           \A s \in Streams : ~GetNew(s) /\ \A c \in Clients : ~GetPooled(s, c)
    PROVE  clients' = clients
<1>1. ASSUME NEW s \in Streams, GetNew(s) PROVE clients' = clients
  BY <1>1, Zenon
<1>2. ASSUME GetWaits PROVE clients' = clients
  BY <1>2, Zenon
<1>3. ASSUME NEW s \in Streams, CountIn(s) PROVE clients' = clients
  BY <1>3, Zenon
  DEF clientVars, managerVars, history, CountIn, AddOpenUsage, ConnClose, connVars, callVars
<1>4. ASSUME NEW s \in Streams, NEW k \in Slots, RoundTrip(s, k) PROVE clients' = clients
  BY <1>4, Zenon DEF clientVars, managerVars, history, RoundTrip, Step, connVars
<1>5. ASSUME NEW s \in Streams, NEW k \in Slots, NoteFailure(s, k) PROVE clients' = clients
  BY <1>5, Zenon DEF clientVars, managerVars, history, NoteFailure, Step, connVars
<1>6. ASSUME NEW s \in Streams, NEW k \in Slots, NoteBreakerTrip(s, k) PROVE clients' = clients
  BY <1>6, Zenon
  DEF clientVars, managerVars, history, NoteBreakerTrip, Step, connVars
<1>7. ASSUME NEW s \in Streams, NEW k \in Slots, NoteSuccess(s, k) PROVE clients' = clients
  BY <1>7, Zenon DEF clientVars, managerVars, history, NoteSuccess, Step, connVars
<1>8. ASSUME NEW s \in Streams, NEW k \in Slots, ResetBackoff(s, k) PROVE clients' = clients
  BY <1>8, Zenon DEF clientVars, managerVars, history, ResetBackoff, Step, connVars
<1>9. ASSUME NEW s \in Streams, Release(s) PROVE clients' = clients
  BY <1>9, Zenon
  DEF clientVars, managerVars, history, Release, AddOpenUsage, ConnClose, connVars
<1>10. ASSUME NEW s \in Streams, NEW c \in Clients, GetPooled(s, c) PROVE clients' = clients
  BY <1>10, Zenon
<1>11. ASSUME Close PROVE clients' = clients
  BY <1>11, Zenon
<1>12. ASSUME WindowEnds PROVE clients' = clients
  BY <1>12, Zenon
  DEF clientVars, managerVars, history, WindowEnds, streamVars, connVars, callVars
<1>13. ASSUME NEW c \in Clients, CloseOne(c) PROVE clients' = clients
  BY <1>13, Zenon
  DEF clientVars, managerVars, history, CloseOne, CloseClients, ConnClose, streamVars, connVars,
      callVars
<1>14. ASSUME NEW c \in Clients, Expires(c) PROVE clients' = clients
  BY <1>14, Zenon
  DEF clientVars, managerVars, history, Expires, streamVars, connVars, callVars
<1> QED
  BY <1>1, <1>2, <1>3, <1>4, <1>5, <1>6, <1>7, <1>8, <1>9, <1>10, <1>11, <1>12, <1>13, <1>14,
     Zenon
  DEF Next

\* Clients are handed out in GetNew and GetPooled only.
LEMMA CrowdedSame ==
    ASSUME Next, \A s \in Streams : ~GetNew(s) /\ \A c \in Clients : ~GetPooled(s, c)
    PROVE  crowded' = crowded
<1>1. ASSUME NEW s \in Streams, GetNew(s) PROVE crowded' = crowded
  BY <1>1, Zenon
<1>2. ASSUME GetWaits PROVE crowded' = crowded
  BY <1>2, Zenon
  DEF clientVars, managerVars, history, GetWaits, CloseClients, ConnClose, streamVars, connVars,
      callVars
<1>3. ASSUME NEW s \in Streams, CountIn(s) PROVE crowded' = crowded
  BY <1>3, Zenon
  DEF clientVars, managerVars, history, CountIn, AddOpenUsage, ConnClose, connVars, callVars
<1>4. ASSUME NEW s \in Streams, NEW k \in Slots, RoundTrip(s, k) PROVE crowded' = crowded
  BY <1>4, Zenon DEF clientVars, managerVars, history, RoundTrip, Step, connVars
<1>5. ASSUME NEW s \in Streams, NEW k \in Slots, NoteFailure(s, k) PROVE crowded' = crowded
  BY <1>5, Zenon DEF clientVars, managerVars, history, NoteFailure, Step, connVars
<1>6. ASSUME NEW s \in Streams, NEW k \in Slots, NoteBreakerTrip(s, k) PROVE crowded' = crowded
  BY <1>6, Zenon
  DEF clientVars, managerVars, history, NoteBreakerTrip, Step, connVars
<1>7. ASSUME NEW s \in Streams, NEW k \in Slots, NoteSuccess(s, k) PROVE crowded' = crowded
  BY <1>7, Zenon DEF clientVars, managerVars, history, NoteSuccess, Step, connVars
<1>8. ASSUME NEW s \in Streams, NEW k \in Slots, ResetBackoff(s, k) PROVE crowded' = crowded
  BY <1>8, Zenon DEF clientVars, managerVars, history, ResetBackoff, Step, connVars
<1>9. ASSUME NEW s \in Streams, Release(s) PROVE crowded' = crowded
  BY <1>9, Zenon
  DEF clientVars, managerVars, history, Release, AddOpenUsage, ConnClose, connVars
<1>10. ASSUME NEW s \in Streams, NEW c \in Clients, GetPooled(s, c) PROVE crowded' = crowded
  BY <1>10, Zenon
<1>11. ASSUME Close PROVE crowded' = crowded
  BY <1>11, Zenon DEF clientVars, managerVars, history, Close, streamVars, connVars, callVars
<1>12. ASSUME WindowEnds PROVE crowded' = crowded
  BY <1>12, Zenon
  DEF clientVars, managerVars, history, WindowEnds, streamVars, connVars, callVars
<1>13. ASSUME NEW c \in Clients, CloseOne(c) PROVE crowded' = crowded
  BY <1>13, Zenon
  DEF clientVars, managerVars, history, CloseOne, CloseClients, ConnClose, streamVars, connVars,
      callVars
<1>14. ASSUME NEW c \in Clients, Expires(c) PROVE crowded' = crowded
  BY <1>14, Zenon
  DEF clientVars, managerVars, history, Expires, streamVars, connVars, callVars
<1> QED
  BY <1>1, <1>2, <1>3, <1>4, <1>5, <1>6, <1>7, <1>8, <1>9, <1>10, <1>11, <1>12, <1>13, <1>14,
     Zenon
  DEF Next

\* Every step preserves the limits.
LEMMA LimitsKeptStep == ASSUME Types, Shape, UsesAddUp, LimitsKept, Next PROVE LimitsKept'
<1>1. ReuseTimes > 0 => \A c \in Clients : handouts'[c] <= ReuseTimes
  <2>1. UsesAddUp' /\ Types'
    BY UsesAddUpStep, TypesStep, Zenon
  <2>2. /\ opened' \in Nat /\ ReuseTimes \in Nat /\ \A c \in Clients : c \in Nat
    BY <2>1, XmuxAssumption DEF Types, NumTypes, Clients
  <2>3. leftUsage' \in [Clients -> Int] /\ handouts' \in [Clients -> Nat]
    BY <2>1, Zenon DEF Types, FunTypes
  <2> HIDE DEF Clients
  <2> QED
    BY <2>1, <2>2, <2>3 DEF UsesAddUp
<1>2. ASSUME connections > 0 PROVE Cardinality(clients') <= connections
  <2>0. connections \in Nat /\ connections > 0 /\ concurrency = 0
    BY <1>2, XmuxAssumption DEF Types, NumTypes, Shape, PoolShape, StreamShape
  <2>1. IsFiniteSet(clients)
    <3>1. clients \subseteq 1..opened /\ IsFiniteSet(1..opened)
      BY FS_Interval, OpenedAreClients DEF Types, SetTypes
    <3> QED
      BY <3>1, FS_Subset, Zenon
  <2>2. IsFiniteSet(Kept) /\ Cardinality(Kept) <= Cardinality(clients)
    BY <2>1, KeptSubset, FS_Subset, Zenon
  <2>3. Cardinality(Kept) \in Nat /\ Cardinality(clients) \in Nat /\ Cardinality({}) = 0
    BY <2>1, <2>2, FS_CardinalityType, FS_EmptySet, Zenon
  <2>4. Cardinality(clients) <= connections
    BY <1>2, Zenon DEF LimitsKept
  <2>5. Candidates = Kept
    BY <2>0 DEF Candidates
  <2>6. ASSUME NEW s \in Streams, GetNew(s) PROVE Cardinality(clients') <= connections
    <3>1. clients' = Kept \cup {opened + 1}
      BY <2>6, Zenon DEF GetNew
    <3>2. Cardinality(clients') <= Cardinality(Kept) + 1
      BY <2>2, <2>3, <3>1, FS_AddElement
    <3>3. Kept = {} \/ Cardinality(Kept) < connections
      BY <2>5, <2>6, Zenon DEF GetNew, Opens
    <3>4. Cardinality(clients') \in Nat
      BY <2>2, <3>1, FS_AddElement, FS_CardinalityType, Zenon
    <3> QED
      BY <2>0, <2>3, <3>2, <3>3, <3>4
  <2>7. ASSUME NEW s \in Streams, NEW c \in Clients, GetPooled(s, c)
        PROVE  Cardinality(clients') <= connections
    BY <2>0, <2>2, <2>3, <2>4, <2>7 DEF GetPooled
  <2>8. ASSUME Close \/ GetWaits PROVE Cardinality(clients') <= connections
    BY <2>0, <2>3, <2>8 DEF Close, GetWaits
  <2> QED
    BY <2>4, <2>6, <2>7, <2>8, PoolSame, Zenon
<1> QED
  BY <1>1, <1>2, LimitsSame, Zenon DEF LimitsKept

\* A lookup hands its client to its stream.
LEMMA UncountedByHandOut ==
    ASSUME Types, NEW s \in Streams, NEW c, pc[s] # "got", HandOut(s, c), NEW d
    PROVE  Uncounted(d)' = IF d = c THEN Uncounted(d) \cup {s} ELSE Uncounted(d)
  BY Zenon DEF Types, StreamTypes, HandOut, Uncounted

\* CountIn takes its stream from the uncounted.
LEMMA UncountedByCountIn ==
    ASSUME Types, NEW s \in Streams, CountIn(s), NEW d
    PROVE  /\ Uncounted(d)' = Uncounted(d) \ {s}
           /\ s \in Uncounted(d) <=> d = hold[s]
  BY Zenon DEF Types, StreamTypes, CountIn, callVars, Uncounted

\* Handing out a client that has room keeps room for the uncounted.
LEMMA RoomByHandOut ==
    ASSUME Types, RoomForUncounted, ConcurrencyKept, NEW s \in Streams, NEW c \in Clients,
           pc[s] # "got", HandOut(s, c), concurrency > 0 => openUsage[c] < concurrency,
           openUsage' = openUsage, concurrency' = concurrency
    PROVE  RoomForUncounted' /\ ConcurrencyKept'
<1>1. crowded \subseteq crowded'
  BY Zenon DEF HandOut
<1>2. ASSUME NEW d \in Clients \ crowded', d # c
      PROVE  /\ \A t, u \in Uncounted(d)' : t = u
             /\ (concurrency > 0 /\ Uncounted(d)' # {}) => openUsage[d] < concurrency
  BY <1>1, <1>2, UncountedByHandOut DEF RoomForUncounted
<1>3. ASSUME c \notin crowded' PROVE \A t, u \in Uncounted(c)' : t = u
  <2>1. Uncounted(c) = {}
    BY <1>3, Zenon DEF HandOut
  <2> QED
    BY <2>1, UncountedByHandOut
<1>4. RoomForUncounted'
  BY <1>2, <1>3, Zenon DEF RoomForUncounted
<1>5. ConcurrencyKept'
  BY <1>1, Zenon DEF ConcurrencyKept
<1> QED
  BY <1>4, <1>5, Zenon

\* No stream holds a client before it is opened.
LEMMA NewIsUnused ==
    ASSUME Types, Shape, UsageExact, NEW c \in Clients, c \notin 1..opened
    PROVE  Counted(c) = {} /\ Uncounted(c) = {} /\ openUsage[c] = 0
<1>1. Counted(c) = {} /\ Uncounted(c) = {}
  BY Zenon DEF Shape, PoolShape, StreamShape, Counted, Uncounted
<1> QED
  BY <1>1, CountedFinite, Zenon DEF UsageExact

\* Every step keeps room for the uncounted, and the limit on the counted.
LEMMA RoomStep ==
    ASSUME Types, Shape, UsageExact, RoomForUncounted, ConcurrencyKept, Next
    PROVE  RoomForUncounted' /\ ConcurrencyKept'
<1>0. /\ concurrency' = concurrency /\ concurrency \in Nat
      /\ openUsage \in [Clients -> Int] /\ opened \in Nat
  BY LimitsSame, XmuxAssumption DEF Types, NumTypes, FunTypes
<1>1. ASSUME NEW s \in Streams, GetNew(s) PROVE RoomForUncounted' /\ ConcurrencyKept'
  <2>1. opened + 1 \in Clients /\ opened + 1 \notin 1..opened
    BY <1>0, <1>1, OpenedAreClients DEF GetNew
  <2>2. openUsage[opened + 1] = 0
    BY <2>1, NewIsUnused, Zenon
  <2>3. pc[s] # "got" /\ HandOut(s, opened + 1) /\ openUsage' = openUsage
    BY <1>1, VacantIsNew, Zenon DEF GetNew
  <2> QED
    BY <1>0, <2>1, <2>2, <2>3, RoomByHandOut, Zenon
<1>2. ASSUME NEW s \in Streams, NEW c \in Clients, GetPooled(s, c)
      PROVE  RoomForUncounted' /\ ConcurrencyKept'
  <2>1. /\ pc[s] # "got" /\ HandOut(s, c) /\ openUsage' = openUsage
        /\ concurrency > 0 => openUsage[c] < concurrency
    BY <1>2, VacantIsNew, Zenon DEF GetPooled, Candidates
  <2> QED
    BY <1>0, <2>1, RoomByHandOut, Zenon
<1>3. ASSUME NEW s \in Streams, CountIn(s) PROVE RoomForUncounted' /\ ConcurrencyKept'
  <2>1. crowded' = crowded /\ openUsage' = [openUsage EXCEPT ![hold[s]] = @ + 1]
    BY <1>3, Zenon DEF CountIn, AddOpenUsage, history
  <2>2. ASSUME NEW d \in Clients \ crowded, d = hold[s]
        PROVE  /\ Uncounted(d)' = {}
               /\ concurrency > 0 => openUsage'[d] <= concurrency
    <3>1. Uncounted(d) = {s}
      BY <1>3, <2>2, UncountedByCountIn DEF RoomForUncounted
    <3>2. concurrency > 0 => openUsage[d] < concurrency
      BY <3>1, Zenon DEF RoomForUncounted
    <3> QED
      BY <1>0, <1>3, <2>1, <2>2, <3>1, <3>2, UncountedByCountIn
  <2>3. ASSUME NEW d \in Clients \ crowded, d # hold[s]
        PROVE  Uncounted(d)' = Uncounted(d) /\ openUsage'[d] = openUsage[d]
    BY <1>0, <1>3, <2>1, <2>3, UncountedByCountIn, Zenon
  <2>4. RoomForUncounted'
    BY <1>0, <2>1, <2>2, <2>3 DEF RoomForUncounted
  <2>5. ConcurrencyKept'
    BY <1>0, <2>1, <2>2, <2>3, Zenon DEF ConcurrencyKept
  <2> QED
    BY <2>4, <2>5, Zenon
<1>4. CASE \A s \in Streams : /\ ~GetNew(s) /\ ~CountIn(s)
                              /\ \A c \in Clients : ~GetPooled(s, c)
  <2>1. crowded' = crowded /\ \A d : Uncounted(d)' = Uncounted(d)
    BY <1>4, CrowdedSame, UncountedSame, Zenon
  <2>2. \A d \in Clients : openUsage'[d] <= openUsage[d] /\ openUsage'[d] \in Int
    <3>1. ASSUME NEW s \in Streams, Release(s), s \notin released
          PROVE  \A d \in Clients : openUsage'[d] <= openUsage[d] /\ openUsage'[d] \in Int
      <4>1. openUsage' = [openUsage EXCEPT ![hold[s]] = @ + -1]
        BY <3>1, Zenon DEF Release, AddOpenUsage
      <4> QED
        BY <1>0, <4>1
    <3>2. ASSUME NEW s \in Streams, Release(s), s \in released
          PROVE  \A d \in Clients : openUsage'[d] <= openUsage[d] /\ openUsage'[d] \in Int
      BY <1>0, <3>2, ReleaseAgain
    <3>3. CASE \A s \in Streams : ~Release(s)
      BY <1>0, <1>4, <3>3, CountedSame
    <3> QED
      BY <3>1, <3>2, <3>3, Zenon
  <2> QED
    BY <1>0, <2>1, <2>2 DEF RoomForUncounted, ConcurrencyKept
<1> QED
  BY <1>1, <1>2, <1>3, <1>4, Zenon

\* Clients are closed by lookups and by Close only.
LEMMA ClosedSame ==
    ASSUME Next, ~GetWaits, \A c \in Clients : ~CloseOne(c),
           \A s \in Streams : ~GetNew(s) /\ \A c \in Clients : ~GetPooled(s, c)
    PROVE  closed' = closed /\ missed' = missed
<1>1. ASSUME NEW s \in Streams, GetNew(s) PROVE closed' = closed /\ missed' = missed
  BY <1>1, Zenon
<1>2. ASSUME GetWaits PROVE closed' = closed /\ missed' = missed
  BY <1>2, Zenon
<1>3. ASSUME NEW s \in Streams, CountIn(s) PROVE closed' = closed /\ missed' = missed
  BY <1>3, Zenon
  DEF clientVars, managerVars, history, CountIn, AddOpenUsage, ConnClose, connVars, callVars
<1>4. ASSUME NEW s \in Streams, NEW k \in Slots, RoundTrip(s, k)
      PROVE  closed' = closed /\ missed' = missed
  BY <1>4, Zenon DEF clientVars, managerVars, history, RoundTrip, Step, connVars
<1>5. ASSUME NEW s \in Streams, NEW k \in Slots, NoteFailure(s, k)
      PROVE  closed' = closed /\ missed' = missed
  BY <1>5, Zenon DEF clientVars, managerVars, history, NoteFailure, Step, connVars
<1>6. ASSUME NEW s \in Streams, NEW k \in Slots, NoteBreakerTrip(s, k)
      PROVE  closed' = closed /\ missed' = missed
  BY <1>6, Zenon
  DEF clientVars, managerVars, history, NoteBreakerTrip, Step, connVars
<1>7. ASSUME NEW s \in Streams, NEW k \in Slots, NoteSuccess(s, k)
      PROVE  closed' = closed /\ missed' = missed
  BY <1>7, Zenon DEF clientVars, managerVars, history, NoteSuccess, Step, connVars
<1>8. ASSUME NEW s \in Streams, NEW k \in Slots, ResetBackoff(s, k)
      PROVE  closed' = closed /\ missed' = missed
  BY <1>8, Zenon DEF clientVars, managerVars, history, ResetBackoff, Step, connVars
<1>9. ASSUME NEW s \in Streams, Release(s) PROVE closed' = closed /\ missed' = missed
  BY <1>9, Zenon
  DEF clientVars, managerVars, history, Release, AddOpenUsage, ConnClose, connVars
<1>10. ASSUME NEW s \in Streams, NEW c \in Clients, GetPooled(s, c)
      PROVE  closed' = closed /\ missed' = missed
  BY <1>10, Zenon
<1>11. ASSUME Close PROVE closed' = closed /\ missed' = missed
  BY <1>11, Zenon DEF clientVars, managerVars, history, Close, streamVars, connVars, callVars
<1>12. ASSUME WindowEnds PROVE closed' = closed /\ missed' = missed
  BY <1>12, Zenon
  DEF clientVars, managerVars, history, WindowEnds, streamVars, connVars, callVars
<1>13. ASSUME NEW c \in Clients, CloseOne(c) PROVE closed' = closed /\ missed' = missed
  BY <1>13, Zenon
<1>14. ASSUME NEW c \in Clients, Expires(c) PROVE closed' = closed /\ missed' = missed
  BY <1>14, Zenon
  DEF clientVars, managerVars, history, Expires, streamVars, connVars, callVars
<1> QED
  BY <1>1, <1>2, <1>3, <1>4, <1>5, <1>6, <1>7, <1>8, <1>9, <1>10, <1>11, <1>12, <1>13, <1>14,
     Zenon
  DEF Next

\* Connections are opened and closed where clients are closed, by CountIn,
\* RoundTrip and Release only.
LEMMA LinkSame ==
    ASSUME Next, ~GetWaits, \A c \in Clients : ~CloseOne(c),
           \A s \in Streams : /\ ~GetNew(s) /\ \A c \in Clients : ~GetPooled(s, c)
                              /\ ~CountIn(s) /\ ~Release(s) /\ \A k \in Slots : ~RoundTrip(s, k)
    PROVE  UNCHANGED connVars
<1>1. ASSUME NEW s \in Streams, GetNew(s) PROVE UNCHANGED connVars
  BY <1>1, Zenon
<1>2. ASSUME GetWaits PROVE UNCHANGED connVars
  BY <1>2, Zenon
<1>3. ASSUME NEW s \in Streams, CountIn(s) PROVE UNCHANGED connVars
  BY <1>3, Zenon
<1>4. ASSUME NEW s \in Streams, NEW k \in Slots, RoundTrip(s, k)
      PROVE  UNCHANGED connVars
  BY <1>4, Zenon
<1>5. ASSUME NEW s \in Streams, NEW k \in Slots, NoteFailure(s, k)
      PROVE  UNCHANGED connVars
  BY <1>5, Zenon DEF clientVars, managerVars, history, NoteFailure, Step, connVars
<1>6. ASSUME NEW s \in Streams, NEW k \in Slots, NoteBreakerTrip(s, k)
      PROVE  UNCHANGED connVars
  BY <1>6, Zenon
  DEF clientVars, managerVars, history, NoteBreakerTrip, Step, connVars
<1>7. ASSUME NEW s \in Streams, NEW k \in Slots, NoteSuccess(s, k)
      PROVE  UNCHANGED connVars
  BY <1>7, Zenon DEF clientVars, managerVars, history, NoteSuccess, Step, connVars
<1>8. ASSUME NEW s \in Streams, NEW k \in Slots, ResetBackoff(s, k)
      PROVE  UNCHANGED connVars
  BY <1>8, Zenon DEF clientVars, managerVars, history, ResetBackoff, Step, connVars
<1>9. ASSUME NEW s \in Streams, Release(s) PROVE UNCHANGED connVars
  BY <1>9, Zenon
<1>10. ASSUME NEW s \in Streams, NEW c \in Clients, GetPooled(s, c)
      PROVE  UNCHANGED connVars
  BY <1>10, Zenon
<1>11. ASSUME Close PROVE UNCHANGED connVars
  BY <1>11, Zenon DEF clientVars, managerVars, history, Close, streamVars, connVars, callVars
<1>12. ASSUME WindowEnds PROVE UNCHANGED connVars
  BY <1>12, Zenon
  DEF clientVars, managerVars, history, WindowEnds, streamVars, connVars, callVars
<1>13. ASSUME NEW c \in Clients, CloseOne(c) PROVE UNCHANGED connVars
  BY <1>13, Zenon
<1>14. ASSUME NEW c \in Clients, Expires(c) PROVE UNCHANGED connVars
  BY <1>14, Zenon
  DEF clientVars, managerVars, history, Expires, streamVars, connVars, callVars
<1> QED
  BY <1>1, <1>2, <1>3, <1>4, <1>5, <1>6, <1>7, <1>8, <1>9, <1>10, <1>11, <1>12, <1>13, <1>14,
     Zenon
  DEF Next

\* What is closed comes from the pool or from what Close took, and no stream is
\* counted or leaves in that step.
LEMMA ClosingStep ==
    ASSUME Types, Shape, UsageExact, Next,
           \/ GetWaits \/ \E c \in Clients : CloseOne(c)
           \/ \E s \in Streams : GetNew(s) \/ \E c \in Clients : GetPooled(s, c)
    PROVE  /\ \E cs \in SUBSET Clients : CloseClients(cs) /\ cs \cap closed = {}
           /\ \A d : Counted(d)' = Counted(d)
<1>0. clients \subseteq Clients /\ retiring \subseteq Clients
  BY OpenedAreClients, Zenon DEF Types, SetTypes
<1>1. ASSUME NEW c \in Clients, CloseOne(c)
      PROVE  /\ \E cs \in SUBSET Clients : CloseClients(cs) /\ cs \cap closed = {}
             /\ \A d : Counted(d)' = Counted(d)
  <2>1. CloseClients({c}) /\ {c} \in SUBSET Clients /\ {c} \cap closed = {}
    BY <1>1, Zenon DEF CloseOne, Shape, PoolShape, StreamShape
  <2>2. \A d : Counted(d)' = Counted(d)
    BY <1>1, Zenon DEF CloseOne, streamVars, callVars, Counted
  <2> QED
    BY <2>1, <2>2, Zenon
<1>2. ASSUME GetWaits \/ \E s \in Streams : GetNew(s) \/ \E c \in Clients : GetPooled(s, c)
      PROVE  /\ \E cs \in SUBSET Clients : CloseClients(cs) /\ cs \cap closed = {}
             /\ \A d : Counted(d)' = Counted(d)
  <2>1. CloseClients(clients) \/ CloseClients(clients \ Kept)
    BY <1>2, ZenonT(30) DEF GetNew, GetWaits, GetPooled
  <2>2. /\ clients \in SUBSET Clients /\ clients \ Kept \in SUBSET Clients
        /\ clients \cap closed = {} /\ (clients \ Kept) \cap closed = {}
    BY <1>0, ZenonT(30) DEF Shape, PoolShape, StreamShape
  <2>3. \A d : Counted(d)' = Counted(d)
    <3>1. CASE GetWaits
      BY <3>1, Zenon DEF GetWaits, streamVars, callVars, Counted
    <3>2. ASSUME NEW s \in Streams, GetNew(s) \/ \E c \in Clients : GetPooled(s, c)
          PROVE  \A d : Counted(d)' = Counted(d)
      <4>1. Vacant(s) /\ \E c : HandOut(s, c)
        BY <3>2, Zenon DEF GetNew, GetPooled
      <4> QED
        BY <4>1, CountedByHandOut, Zenon
    <3> QED
      BY <1>2, <3>1, <3>2, Zenon
  <2> QED
    BY <2>1, <2>2, <2>3, Zenon
<1> QED
  BY <1>1, <1>2, Zenon

\* No step leaves an uncounted stream on a client it closes unmissed.
LEMMA ClosedIsCountedStep ==
    ASSUME Types, Shape, UsageExact, ClosedIsCounted, Next
    PROVE  ClosedIsCounted'
<1>1. missed \subseteq missed' /\ \A d \in closed' \ missed' : Uncounted(d) = {}
  <2>1. ASSUME NEW cs, CloseClients(cs)
        PROVE  missed \subseteq missed' /\ \A d \in closed' \ missed' : Uncounted(d) = {}
    BY <2>1, Zenon DEF CloseClients, ClosedIsCounted
  <2> QED
    BY <2>1, ClosedSame, ClosingStep, Zenon DEF ClosedIsCounted
<1>2. Shape'
  BY ShapeStep, Zenon
<1>3. ASSUME NEW s \in Streams, GetNew(s) PROVE ClosedIsCounted'
  <2>1. pc[s] # "got" /\ HandOut(s, opened + 1) /\ opened + 1 \in clients'
    BY <1>3, VacantIsNew, Zenon DEF GetNew
  <2>2. opened + 1 \notin closed'
    BY <1>2, <2>1, Zenon DEF Shape, PoolShape, StreamShape
  <2> QED
    BY <1>1, <2>1, <2>2, UncountedByHandOut, Zenon DEF ClosedIsCounted
<1>4. ASSUME NEW s \in Streams, NEW c \in Clients, GetPooled(s, c) PROVE ClosedIsCounted'
  <2>1. pc[s] # "got" /\ HandOut(s, c) /\ c \in clients'
    BY <1>4, VacantIsNew, KeptSubset, Zenon DEF GetPooled
  <2>2. c \notin closed'
    BY <1>2, <2>1, Zenon DEF Shape, PoolShape, StreamShape
  <2> QED
    BY <1>1, <2>1, <2>2, UncountedByHandOut, Zenon DEF ClosedIsCounted
<1>5. ASSUME NEW s \in Streams, CountIn(s) PROVE ClosedIsCounted'
  BY <1>1, <1>5, UncountedByCountIn, Zenon DEF ClosedIsCounted
<1> QED
  BY <1>1, <1>3, <1>4, <1>5, UncountedSame, Zenon DEF ClosedIsCounted

\* openUsage tells whether streams are counted.
LEMMA UsageTells ==
    ASSUME UsageExact, NEW c \in Clients
    PROVE  openUsage[c] \in Nat /\ (openUsage[c] <= 0 <=> Counted(c) = {})
  BY CountedFinite DEF UsageExact

\* Every step tears down what it has to, and nothing that is in use.
LEMMA TornDownStep ==
    ASSUME Types, Shape, UsageExact, ClosedIsCounted, RetiredIsTornDownIfCounted, Next
    PROVE  RetiredIsTornDownIfCounted'
<1>0. /\ closed \subseteq Clients /\ closed' \subseteq Clients
      /\ UsageExact' /\ connClosed \subseteq closed
  BY TypesStep, UsageExactStep, Zenon DEF Types, SetTypes, Shape, PoolShape, StreamShape
<1>1. ASSUME NEW cs \in SUBSET Clients, CloseClients(cs), cs \cap closed = {},
             \A d : Counted(d)' = Counted(d)
      PROVE  RetiredIsTornDownIfCounted'
  <2> DEFINE unused == {d \in cs : openUsage[d] <= 0}
  <2>1. /\ closed' = closed \cup cs /\ missed \subseteq missed'
        /\ connClosed' = connClosed \cup unused
        /\ link' = link \ {d \in unused \ connClosed : InFlight(d) = {}}
        /\ busy' = busy \cup {d \in unused \ connClosed : InFlight(d) # {}}
    BY <1>1, Zenon DEF CloseClients, ConnClose
  <2>2. ASSUME NEW d \in cs, Counted(d) = {} PROVE d \notin link' \/ d \in busy'
    BY <1>0, <1>1, <2>1, <2>2, UsageTells, Zenon
  <2>3. ASSUME NEW d \in cs, Counted(d) # {} PROVE d \notin connClosed'
    BY <1>0, <1>1, <2>1, <2>3, UsageTells, Zenon
  <2> QED
    BY <1>1, <2>1, <2>2, <2>3, Zenon DEF RetiredIsTornDownIfCounted
<1>2. ASSUME NEW s \in Streams, CountIn(s) PROVE RetiredIsTornDownIfCounted'
  <2>1. hold[s] \in Clients /\ openUsage[hold[s]] \in Nat
    BY <1>2, HoldsClient, UsageTells, Zenon DEF CountIn
  <2>2. /\ closed' = closed /\ missed' = missed
        /\ openUsage[hold[s]] + 1 > 0 => UNCHANGED connVars
    <3>1. closed' = closed /\ missed' = missed /\ AddOpenUsage(hold[s], 1)
      BY <1>2, Zenon DEF CountIn, history
    <3>2. ~(openUsage[hold[s]] + 1 <= 0) => UNCHANGED connVars
      BY <3>1, Zenon DEF AddOpenUsage
    <3> QED
      BY <2>1, <3>1, <3>2
  <2>3. hold[s] \notin closed \ missed
    BY <1>2, UncountedByCountIn, Zenon DEF ClosedIsCounted
  <2>4. UNCHANGED connVars
    BY <2>1, <2>2
  <2>5. \A d \in closed \ missed : Counted(d)' = Counted(d)
    BY <1>2, <2>3, CountedByCountIn, Zenon
  <2> QED
    BY <2>2, <2>4, <2>5, Zenon DEF RetiredIsTornDownIfCounted, connVars
<1>3. ASSUME NEW s \in Streams, NEW k \in Slots, RoundTrip(s, k)
      PROVE  RetiredIsTornDownIfCounted'
  <2>1. /\ link' = IF s \in released THEN link ELSE link \cup {hold[s]}
        /\ connClosed' = connClosed /\ busy' = busy /\ closed' = closed /\ missed' = missed
    BY <1>3, Zenon DEF RoundTrip, history
  <2>2. s \in released \/ s \in Counted(hold[s])
    BY <1>3, Zenon DEF RoundTrip, Counted
  <2>3. \A d : Counted(d)' = Counted(d)
    BY <1>3, Zenon DEF RoundTrip, Counted
  <2> QED
    BY <2>1, <2>2, <2>3, Zenon DEF RetiredIsTornDownIfCounted
<1>4. ASSUME NEW s \in Streams, Release(s), s \notin released
      PROVE  RetiredIsTornDownIfCounted'
  <2>0. PICK h \in Clients : h = hold[s]
    BY <1>4, HoldsClient, Zenon DEF Release
  <2>1. h \in Clients /\ s \in Counted(h)
    BY <1>4, <2>0, CountedNow, Zenon
  <2>2. closed' = closed /\ missed' = missed /\ openUsage' = [openUsage EXCEPT ![h] = @ + -1]
    BY <1>4, <2>0, Zenon DEF Release, AddOpenUsage, history
  <2>3. openUsage'[h] = openUsage[h] + -1
    BY <2>1, <2>2, Zenon DEF Types, FunTypes
  <2>4. Counted(h)' = Counted(h) \ {s} /\ \A d : d # h => Counted(d)' = Counted(d)
    BY <1>4, <2>0, CountedByRelease, Zenon
  <2>5. openUsage'[h] <= 0 <=> Counted(h)' = {}
    <3>1. openUsage'[h] = Cardinality(Counted(h)') /\ IsFiniteSet(Counted(h) \ {s})
      BY <1>0, <2>1, CountedFinite, FS_RemoveElement, Zenon DEF UsageExact
    <3> QED
      BY <2>4, <3>1, FS_CardinalityType, FS_EmptySet
  <2>6. IF h \in closed /\ openUsage[h] + -1 <= 0
        THEN /\ connClosed' = connClosed \cup {h}
             /\ link' = link \ {d \in {h} \ connClosed : InFlight(d) = {}}
             /\ busy' = busy \cup {d \in {h} \ connClosed : InFlight(d) # {}}
        ELSE connClosed' = connClosed /\ link' = link /\ busy' = busy
    BY <1>4, <2>0, Zenon DEF Release, AddOpenUsage, ConnClose, connVars
  <2>7. ASSUME h \in closed \ missed
        PROVE  /\ Counted(h)' = {} => h \notin link' \/ h \in busy'
               /\ Counted(h)' # {} => h \notin connClosed'
    <3>1. h \notin connClosed
      BY <2>1, <2>7, Zenon DEF RetiredIsTornDownIfCounted
    <3> QED
      BY <2>3, <2>5, <2>6, <2>7, <3>1, Zenon
  <2>8. ASSUME NEW d \in closed \ missed, d # h
        PROVE  /\ Counted(d)' = {} => d \notin link' \/ d \in busy'
               /\ Counted(d)' # {} => d \notin connClosed'
    BY <2>4, <2>6, <2>8, Zenon DEF RetiredIsTornDownIfCounted
  <2> QED
    BY <2>2, <2>7, <2>8, Zenon DEF RetiredIsTornDownIfCounted
<1>5. ASSUME NEW s \in Streams, Release(s), s \in released
      PROVE  RetiredIsTornDownIfCounted'
  BY <1>5, ReleaseAgain, Zenon DEF RetiredIsTornDownIfCounted, connVars
<1>6. CASE /\ ~GetWaits /\ \A c \in Clients : ~CloseOne(c)
           /\ \A s \in Streams :
                /\ ~GetNew(s) /\ \A c \in Clients : ~GetPooled(s, c)
                /\ ~CountIn(s) /\ ~Release(s) /\ \A k \in Slots : ~RoundTrip(s, k)
  BY <1>6, LinkSame, ClosedSame, CountedSame, Zenon DEF RetiredIsTornDownIfCounted, connVars
<1> QED
  BY <1>1, <1>2, <1>3, <1>4, <1>5, <1>6, ClosingStep, Zenon

-----------------------------------------------------------------------------
(* The theorems                                                            *)

\* No stream is counted or holds anything at first.
LEMMA InvInit == Init => Inv
<1> SUFFICES ASSUME Init PROVE Inv
  OBVIOUS
<1>1. \A c : Counted(c) = {} /\ Uncounted(c) = {}
  BY Zenon DEF Init, Counted, Uncounted
<1>2. UsageExact
  BY <1>1, FS_EmptySet, Zenon DEF UsageExact, Init
<1>3. NumTypes /\ SetTypes
  BY XmuxAssumption DEF Init, NumTypes, SetTypes
<1>4. FunTypes
  BY XmuxAssumption DEF Init, FunTypes, Unlimited
<1>5. StreamTypes
  BY Zenon DEF Init, StreamTypes
<1>6. blocked \in BOOLEAN
  BY Zenon DEF Init
<1>7. TypeOK
  BY <1>2, <1>3, <1>4, <1>5, <1>6, TypesExact, Zenon DEF Types
<1>8. Shape
  BY Zenon DEF Init, Shape, PoolShape, StreamShape
<1>9. UsesAddUp
  BY XmuxAssumption DEF Init, UsesAddUp, Clients
<1>10. LimitsKept
  <2>1. clients = {} /\ Cardinality({}) = 0 /\ handouts = [c \in Clients |-> 0]
    BY FS_EmptySet, Zenon DEF Init
  <2>2. connections \in Nat /\ ReuseTimes \in Nat
    BY <1>3, XmuxAssumption DEF NumTypes
  <2> QED
    BY <2>1, <2>2 DEF LimitsKept
<1>11. RoomForUncounted /\ ConcurrencyKept
  <2>1. concurrency \in Nat /\ openUsage = [c \in Clients |-> 0]
    BY <1>3, XmuxAssumption DEF NumTypes, Init
  <2> QED
    BY <1>1, <2>1 DEF RoomForUncounted, ConcurrencyKept
<1>12. ClosedIsCounted /\ RetiredIsTornDownIfCounted
  BY Zenon DEF ClosedIsCounted, RetiredIsTornDownIfCounted, Init
<1> QED
  BY <1>2, <1>7, <1>8, <1>9, <1>10, <1>11, <1>12, Zenon DEF Inv

\* Every step preserves the invariant.
LEMMA InvNext == Inv /\ [Next]_vars => Inv'
<1> SUFFICES ASSUME Inv, [Next]_vars PROVE Inv'
  OBVIOUS
<1>1. Types
  BY TypesExact, Zenon DEF Inv
<1>2. CASE Next
  <2>1. Types' /\ Shape' /\ UsageExact'
    BY <1>1, <1>2, TypesStep, ShapeStep, UsageExactStep, Zenon DEF Inv
  <2>2. TypeOK'
    <3>1. UsageExact' => (Types' <=> TypeOK')
      BY TypesExact, PTL
    <3> QED
      BY <2>1, <3>1, Zenon
  <2>3. UsesAddUp' /\ LimitsKept'
    BY <1>1, <1>2, UsesAddUpStep, LimitsKeptStep, Zenon DEF Inv
  <2>4. RoomForUncounted' /\ ConcurrencyKept'
    BY <1>1, <1>2, RoomStep, Zenon DEF Inv
  <2>5. ClosedIsCounted' /\ RetiredIsTornDownIfCounted'
    BY <1>1, <1>2, ClosedIsCountedStep, TornDownStep, Zenon DEF Inv
  <2> QED
    BY <2>1, <2>2, <2>3, <2>4, <2>5, Zenon DEF Inv
<1>3. CASE UNCHANGED vars
  <2>1. TypeOK' /\ UsageExact' /\ Shape' /\ UsesAddUp' /\ LimitsKept'
    BY <1>3, ZenonT(30)
    DEF Inv, vars, clientVars, connVars, managerVars, streamVars, callVars, history, TypeOK,
                UsageExact,
                Shape, PoolShape, StreamShape, UsesAddUp, LimitsKept, Counted
  <2>2. /\ RoomForUncounted' /\ ConcurrencyKept' /\ ClosedIsCounted'
        /\ RetiredIsTornDownIfCounted'
    BY <1>3, ZenonT(30)
    DEF Inv, vars, clientVars, connVars, managerVars, streamVars, callVars, history,
                RoomForUncounted,
                ConcurrencyKept, ClosedIsCounted, RetiredIsTornDownIfCounted, Counted, Uncounted
  <2> QED
    BY <2>1, <2>2, Zenon DEF Inv
<1> QED
  BY <1>2, <1>3, Zenon

\* The invariant of the pool of clients (newXmuxManager, get, addOpenUsage,
\* release, Close) holds in every behaviour.
THEOREM XmuxInv == Spec => []Inv
  BY InvInit, InvNext, PTL DEF Spec

\* The variables of the manager and its clients keep their types; openUsage is
\* never negative.
THEOREM XmuxTypeCorrect == Spec => []TypeOK
<1>1. Inv => TypeOK
  BY Zenon DEF Inv
<1> QED
  BY <1>1, XmuxInv, PTL

\* addOpenUsage counts exactly the streams between it and their first release,
\* however often and however early each is released.
THEOREM XmuxUsageExact == Spec => []UsageExact
<1>1. Inv => UsageExact
  BY Zenon DEF Inv
<1> QED
  BY <1>1, XmuxInv, PTL

\* get hands out a client c_max_reuse_times times at most, and keeps the pool
\* within max_connections, under any concurrent dials.
THEOREM XmuxLimitsKept == Spec => []LimitsKept
<1>1. Inv => LimitsKept
  BY Zenon DEF Inv
<1> QED
  BY <1>1, XmuxInv, PTL

\* get keeps the streams of a client within max_concurrency, unless it handed the
\* client out again before the previous stream was counted.
THEOREM XmuxConcurrencyKept == Spec => []ConcurrencyKept
<1>1. Inv => ConcurrencyKept
  BY Zenon DEF Inv
<1> QED
  BY <1>1, XmuxInv, PTL

\* The deferred close of close and addOpenUsage leaves no connection behind and
\* closes none under its streams, unless an uncounted stream was missed or a
\* cancelled request was on the connection when it was closed.
THEOREM XmuxRetiredIsTornDown == Spec => []RetiredIsTornDownIfCounted
<1>1. Inv => RetiredIsTornDownIfCounted
  BY Zenon DEF Inv
<1> QED
  BY <1>1, XmuxInv, PTL
=============================================================================
