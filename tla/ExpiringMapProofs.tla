-------------------------- MODULE ExpiringMapProofs --------------------------
(***************************************************************************)
(* ExpiringMap implements LifetimeMap, and its timer is never set too far  *)
(* ahead, for any callers, keys, values, lifetime and number of calls.     *)
(***************************************************************************)
EXTENDS ExpiringMap, TLAPS

OpType == [kind : {"none", "store", "storeIf", "load", "refresh", "close"},
           key : Keys, value : Values \cup {NoValue}, since : 0..LastCall, seen : SUBSET Values]

\* Calls read the clock in the past; what is stored has a value.
CallShape ==
    \A c \in Callers :
        /\ op[c].since <= clock
        /\ op[c].kind \in {"store", "storeIf"} => op[c].value \in Values

\* A call has seen what it would find.
SeesWhatItFinds ==
    \A c \in Callers : (Asking(c) /\ Loaded(c)) => entries[op[c].key].value \in op[c].seen

\* An entry lives a lifetime from a moment before it was stored, and the timer
\* is set to the end of such a lifetime.
TimeBounds ==
    /\ \A k \in Keys : entries[k] # Nothing => /\ entries[k].until <= stored[k] + Lifetime
                                               /\ stored[k] <= clock
    /\ loop = "timer" => deadline <= clock + Lifetime

\* The inductive invariant.
Inv == TypeOK /\ CallShape /\ SeesWhatItFinds /\ TimeBounds /\ TimerInTime

-----------------------------------------------------------------------------
LEMMA NoOpFacts ==
    NoOp \in OpType /\ NoOp.kind = "none" /\ NoOp.since = 0 /\ NoOp.key \in Keys
<1>1. (CHOOSE k \in Keys : TRUE) \in Keys
  BY ConstAssumption, Zenon
<1> QED
  BY <1>1, ConstAssumption DEF NoOp, OpType

LEMMA CloseOpFacts ==
    ASSUME NEW o \in OpType
    PROVE  /\ [o EXCEPT !.kind = "close"] \in OpType
           /\ [o EXCEPT !.kind = "close"].kind = "close"
           /\ [o EXCEPT !.kind = "close"].since = o.since
  BY Zenon DEF OpType

LEMMA EntryFacts ==
    ASSUME NEW e \in Entries
    PROVE  /\ e.until \in 0..MaxTime
           /\ e.until > 0 <=> e # Nothing
           /\ e # Nothing => e.value \in Values
           /\ Nothing.value = NoValue /\ Nothing.until = 0
  BY ConstAssumption DEF Entries, Nothing, MaxTime

LEMMA Types ==
    TypeOK => /\ clock \in 0..MaxTime /\ entries \in [Keys -> Entries] /\ op \in [Callers -> OpType]
              /\ pc \in [Callers -> {"idle", "called", "notify", "wait"}]
              /\ MaxTime \in Nat /\ Lifetime \in Nat \ {0} /\ LastCall \in Nat
  BY ConstAssumption DEF TypeOK, OpType, MaxTime

\* What the calls see when one of them stores a value.
LEMMA InstallFacts ==
    ASSUME Inv, NEW c \in Callers, NEW v \in Values, Asking(c), Install(c, v)
    PROVE  /\ op' \in [Callers -> OpType] /\ op'[c] = NoOp
           /\ entries' \in [Keys -> Entries] /\ stored' \in [Keys -> 0..MaxTime]
           /\ entries'[op[c].key] = [value |-> v, until |-> op[c].since + Lifetime]
           /\ \A d \in Callers \ {c} :
                 /\ op'[d].kind = op[d].kind /\ op'[d].key = op[d].key
                 /\ op'[d].value = op[d].value /\ op'[d].since = op[d].since
                 /\ op'[d].seen = IF Asking(d) /\ op[d].key = op[c].key
                                     /\ op[c].since + Lifetime > op[d].since
                                  THEN op[d].seen \cup {v} ELSE op[d].seen
<1>1. op \in [Callers -> OpType] /\ entries \in [Keys -> Entries] /\ stored \in [Keys -> 0..MaxTime]
      /\ clock \in 0..MaxTime
  BY Types, Zenon DEF Inv, TypeOK
<1>2. ASSUME NEW d \in Callers \ {c}
      PROVE  /\ op'[d] \in OpType
             /\ op'[d].kind = op[d].kind /\ op'[d].key = op[d].key
             /\ op'[d].value = op[d].value /\ op'[d].since = op[d].since
             /\ op'[d].seen = IF Asking(d) /\ op[d].key = op[c].key
                                 /\ op[c].since + Lifetime > op[d].since
                              THEN op[d].seen \cup {v} ELSE op[d].seen
  <2>1. op[d] \in OpType
    BY <1>1, Zenon
  <2>2. op'[d] = IF Asking(d) /\ op[d].key = op[c].key /\ op[c].since + Lifetime > op[d].since
                 THEN [op[d] EXCEPT !.seen = op[d].seen \cup {v}] ELSE op[d]
    BY Zenon DEF Install
  <2> HIDE DEF Asking
  <2> QED
    BY <2>1, <2>2 DEF OpType
<1>3. op'[c] = NoOp /\ op' = [d \in Callers |-> op'[d]]
  BY Zenon DEF Install
<1>4. op' \in [Callers -> OpType]
  BY <1>2, <1>3, NoOpFacts, Zenon
<1>5. op[c].key \in Keys /\ op[c].since \in 0..LastCall
  BY <1>1, Zenon DEF OpType
<1>6. [value |-> v, until |-> op[c].since + Lifetime] \in Entries
  BY <1>5, ConstAssumption DEF Entries, MaxTime
<1> QED
  BY <1>1, <1>2, <1>3, <1>4, <1>5, <1>6, Zenon DEF Install

LEMMA InitInv == Init => Inv
<1> SUFFICES ASSUME Init PROVE Inv
  OBVIOUS
<1>1. Nothing \in Entries /\ 0 \in 0..MaxTime
  BY ConstAssumption DEF Entries, MaxTime
<1>2. No \in [ok : BOOLEAN, value : Values \cup {NoValue}]
  BY Zenon DEF No
<1>3. op \in [Callers -> OpType]
  BY NoOpFacts, Zenon DEF Init
<1>3a. TypeOK
  <2>1. /\ answer \in [Callers -> [ok : BOOLEAN, value : Values \cup {NoValue}]]
        /\ entries \in [Keys -> Entries] /\ \A k \in Keys : entries[k] = Nothing
        /\ stored \in [Keys -> 0..MaxTime]
        /\ pc \in [Callers -> {"idle", "called", "notify", "wait"}]
    BY <1>1, <1>2, Zenon DEF Init
  <2>2. /\ clock \in 0..MaxTime /\ calls \in 0..MaxCalls /\ deadline \in 0..MaxTime
        /\ loop \in {"top", "empty", "timer", "ended"}
    BY <1>1, ConstAssumption DEF Init
  <2>3. closed \in BOOLEAN /\ wake \in BOOLEAN
    BY Zenon DEF Init
  <2> QED
    BY <1>3, <2>1, <2>2, <2>3, Zenon DEF TypeOK, OpType
<1>4. CallShape /\ SeesWhatItFinds
  BY NoOpFacts DEF Init, CallShape, SeesWhatItFinds, Asking, Locked
<1> QED
  BY <1>3a, <1>4, Zenon DEF Init, Inv, TimeBounds, TimerInTime

-----------------------------------------------------------------------------
(***************************************************************************)
(* The invariant: first the steps that leave the entries alone.            *)
(***************************************************************************)

\* A step that ends a call of c, or changes nothing of it but where it is.
LEMMA CallEnds ==
    ASSUME Inv, NEW c \in Callers, UNCHANGED <<clock, entries, closed, stored, loopVars>>, calls' \in 0..MaxCalls,
           NEW at \in {"idle", "called", "notify", "wait"}, pc' = [pc EXCEPT ![c] = at],
           NEW o \in OpType, op' = [op EXCEPT ![c] = o],
           o.since <= clock, o.kind \in {"store", "storeIf"} => o.value \in Values,
           at # "called" \/ o.kind \notin {"store", "storeIf", "load", "refresh"}
               \/ (entries[o.key].until > o.since => entries[o.key].value \in o.seen),
           answer' \in [Callers -> [ok : BOOLEAN, value : Values \cup {NoValue}]]
    PROVE  Inv'
<1>1. op \in [Callers -> OpType] /\ pc \in [Callers -> {"idle", "called", "notify", "wait"}]
  BY Types, Zenon DEF Inv
<1>2. TypeOK'
  BY <1>1, Zenon DEF Inv, TypeOK, OpType, loopVars
<1>3. CallShape' /\ SeesWhatItFinds'
  BY <1>1, Zenon DEF Inv, CallShape, SeesWhatItFinds, Asking, Locked, Loaded
<1>4. TimeBounds' /\ TimerInTime'
  BY Zenon DEF Inv, TimeBounds, TimerInTime, loopVars
<1> QED
  BY <1>2, <1>3, <1>4, Zenon DEF Inv

LEMMA AnswerType ==
    ASSUME Inv, NEW c \in Callers, NEW v \in Values \cup {NoValue}, NEW what \in {No, Yes(v)},
           answer' = [answer EXCEPT ![c] = what]
    PROVE  answer' \in [Callers -> [ok : BOOLEAN, value : Values \cup {NoValue}]]
<1>1. No \in [ok : BOOLEAN, value : Values \cup {NoValue}]
  BY Zenon DEF No
<1>2. Yes(v) \in [ok : BOOLEAN, value : Values \cup {NoValue}]
  BY Zenon DEF Yes
<1> QED
  BY <1>1, <1>2, Zenon DEF Inv, TypeOK

LEMMA LeavesInv ==
    ASSUME Inv, NEW c \in Callers, Leaves(c), UNCHANGED <<clock, entries, closed, stored, loopVars, calls>>,
           answer' \in [Callers -> [ok : BOOLEAN, value : Values \cup {NoValue}]]
    PROVE  Inv'
<1>1. /\ pc' = [pc EXCEPT ![c] = "idle"] /\ op' = [op EXCEPT ![c] = NoOp]
      /\ clock \in Nat /\ calls' \in 0..MaxCalls
  BY Types DEF Leaves, Goto, Inv, TypeOK
<1>2. NoOp.since <= clock
  BY <1>1, NoOpFacts
<1> QED
  BY <1>1, <1>2, NoOpFacts, CallEnds, "idle" # "called", Zenon

LEMMA CallInv ==
    ASSUME Inv, NEW c \in Callers, NEW kind \in {"store", "storeIf", "load", "refresh"},
           NEW k \in Keys, NEW v \in Values \cup {NoValue}, Call(c, kind, k, v)
    PROVE  Inv'
<1> DEFINE sees == IF entries[k].until > clock THEN {entries[k].value} ELSE {}
           o == [kind |-> kind, key |-> k, value |-> v, since |-> clock, seen |-> sees]
<1>0. clock \in Nat /\ clock <= LastCall /\ entries[k] \in Entries /\ LastCall \in Nat
  BY Types DEF Inv, Call
<1>1. sees \in SUBSET Values
  BY <1>0, EntryFacts
<1>2. o \in OpType /\ o.since = clock /\ o.key = k /\ o.seen = sees /\ o.kind = kind /\ o.value = v
  <2> HIDE DEF sees
  <2> QED
    BY <1>0, <1>1 DEF OpType
<1>3. v # NoValue <=> kind \in {"store", "storeIf"}
  BY Zenon DEF Call
<1>4. /\ op' = [op EXCEPT ![c] = o] /\ pc' = [pc EXCEPT ![c] = "called"]
      /\ answer' = [answer EXCEPT ![c] = No] /\ calls' \in 0..MaxCalls
      /\ UNCHANGED <<clock, entries, closed, stored, loopVars>>
  BY ConstAssumption DEF Call, Goto, mapVars, Inv, TypeOK
<1>5. /\ o.since <= clock /\ (o.kind \in {"store", "storeIf"} => o.value \in Values)
      /\ entries[o.key].until > o.since => entries[o.key].value \in o.seen
  BY <1>0, <1>2, <1>3
<1>6. answer' \in [Callers -> [ok : BOOLEAN, value : Values \cup {NoValue}]]
  BY <1>4, AnswerType, Zenon
<1> HIDE DEF o
<1> QED
  BY <1>2, <1>4, <1>5, <1>6, CallEnds, Zenon

LEMMA CallCloseInv ==
    ASSUME Inv, NEW c \in Callers, CallClose(c)
    PROVE  Inv'
<1> DEFINE o == [NoOp EXCEPT !.kind = "close"]
<1>1. o \in OpType /\ o.kind = "close" /\ o.since = 0
  BY NoOpFacts, CloseOpFacts, Zenon
<1>2. /\ op' = [op EXCEPT ![c] = o] /\ pc' = [pc EXCEPT ![c] = "called"]
      /\ answer' = answer /\ calls' \in 0..MaxCalls
      /\ UNCHANGED <<clock, entries, closed, stored, loopVars>>
  BY ConstAssumption DEF CallClose, Goto, mapVars, Inv, TypeOK
<1> HIDE DEF o
<1>3. o.since <= clock
  BY <1>1, Types DEF Inv
<1>4. answer' \in [Callers -> [ok : BOOLEAN, value : Values \cup {NoValue}]]
  BY <1>2, Zenon DEF Inv, TypeOK
<1> QED
  BY <1>1, <1>2, <1>3, <1>4, CallEnds, Zenon

\* Calls that store nothing and remove nothing.
LEMMA QuietCallInv ==
    ASSUME Inv, NEW c \in Callers,
           Refused(c) \/ storeIfDeclined(c) \/ Load(c) \/ CloseReturns(c)
    PROVE  Inv'
<1>1. CASE Refused(c) \/ storeIfDeclined(c)
  <2>1. /\ Leaves(c) /\ UNCHANGED <<clock, entries, closed, stored, loopVars, calls>>
        /\ answer' = [answer EXCEPT ![c] = No]
    BY <1>1, Zenon DEF Refused, storeIfDeclined, Returns
  <2>2. answer' \in [Callers -> [ok : BOOLEAN, value : Values \cup {NoValue}]]
    BY <2>1, AnswerType, Zenon
  <2> QED
    BY <2>1, <2>2, LeavesInv, Zenon
<1>2. CASE Load(c)
  <2> DEFINE v == entries[op[c].key].value
  <2>1. /\ Leaves(c) /\ UNCHANGED <<clock, entries, closed, stored, loopVars, calls>>
        /\ answer' = [answer EXCEPT ![c] = Yes(v)]
    BY <1>2, Zenon DEF Load, Returns
  <2>2. v \in Values \cup {NoValue}
    <3>1. op[c].key \in Keys /\ entries[op[c].key] \in Entries
      BY Types, Zenon DEF Inv, OpType
    <3> QED
      BY <3>1, EntryFacts, Zenon
  <2>3. answer' \in [Callers -> [ok : BOOLEAN, value : Values \cup {NoValue}]]
    BY <2>1, <2>2, AnswerType, Zenon
  <2> QED
    BY <2>1, <2>3, LeavesInv, Zenon
<1>3. CASE CloseReturns(c)
  <2>1. /\ Leaves(c) /\ UNCHANGED <<clock, entries, closed, stored, loopVars, calls>> /\ answer' = answer
    BY <1>3, Zenon DEF CloseReturns, mapVars
  <2>2. answer' \in [Callers -> [ok : BOOLEAN, value : Values \cup {NoValue}]]
    BY <2>1, Zenon DEF Inv, TypeOK
  <2> QED
    BY <2>1, <2>2, LeavesInv, Zenon
<1> QED
  BY <1>1, <1>2, <1>3, Zenon

-----------------------------------------------------------------------------
(***************************************************************************)
(* The steps that change the entries, and run.                             *)
(***************************************************************************)

\* A call of c stores v and ends.
LEMMA InstallInv ==
    ASSUME Inv, NEW c \in Callers, NEW v \in Values, Asking(c), ~closed, Install(c, v),
           NEW at \in {"idle", "notify"}, pc' = [pc EXCEPT ![c] = at],
           UNCHANGED <<clock, closed, loopVars, calls>>,
           answer' \in [Callers -> [ok : BOOLEAN, value : Values \cup {NoValue}]]
    PROVE  Inv'
<1> DEFINE k == op[c].key
           until == op[c].since + Lifetime
<1>1. /\ op \in [Callers -> OpType] /\ pc \in [Callers -> {"idle", "called", "notify", "wait"}]
      /\ entries \in [Keys -> Entries] /\ clock \in 0..MaxTime /\ Lifetime \in Nat \ {0}
      /\ LastCall \in Nat
  BY Types, Zenon DEF Inv
<1>2. /\ op' \in [Callers -> OpType] /\ op'[c] = NoOp
      /\ entries' \in [Keys -> Entries] /\ stored' \in [Keys -> 0..MaxTime]
      /\ entries'[k] = [value |-> v, until |-> until]
      /\ \A d \in Callers \ {c} :
            /\ op'[d].kind = op[d].kind /\ op'[d].key = op[d].key
            /\ op'[d].value = op[d].value /\ op'[d].since = op[d].since
            /\ op'[d].seen = IF Asking(d) /\ op[d].key = k /\ until > op[d].since
                             THEN op[d].seen \cup {v} ELSE op[d].seen
  BY InstallFacts, Zenon
<1>3. /\ entries' = [entries EXCEPT ![k] = [value |-> v, until |-> until]]
      /\ stored' = [stored EXCEPT ![k] = clock]
  BY Zenon DEF Install
<1>4. k \in Keys /\ op[c].since \in 0..LastCall /\ op[c].since <= clock
  BY <1>1, Zenon DEF Inv, CallShape, OpType
<1>5. TypeOK'
  BY <1>1, <1>2, Zenon DEF Inv, TypeOK, OpType, loopVars
<1>6. CallShape'
  <2>1. NoOp.since <= clock /\ NoOp.kind \notin {"store", "storeIf"}
    BY <1>1, NoOpFacts
  <2>2. \A d \in Callers \ {c} : /\ op'[d].since <= clock
                                 /\ op'[d].kind \in {"store", "storeIf"} => op'[d].value \in Values
    BY <1>2, Zenon DEF Inv, CallShape
  <2> QED
    BY <1>2, <2>1, <2>2, Zenon DEF CallShape
<1>7. SeesWhatItFinds'
  <2> SUFFICES ASSUME NEW d \in Callers, Asking(d)', Loaded(d)'
               PROVE  entries'[op'[d].key].value \in op'[d].seen
    BY Zenon DEF SeesWhatItFinds
  <2>1. d # c
    BY <1>1, Zenon DEF Asking, Locked
  <2>2. Asking(d) /\ op'[d].key = op[d].key /\ op'[d].since = op[d].since /\ op[d].key \in Keys
    BY <1>1, <1>2, <2>1, Zenon DEF Asking, Locked, OpType
  <2>3. CASE op[d].key = k
    <3>1. entries'[op'[d].key].value = v /\ until > op[d].since
      BY <1>2, <2>2, <2>3 DEF Loaded
    <3>2. op'[d].seen = op[d].seen \cup {v}
      BY <1>2, <2>1, <2>2, <2>3, <3>1, Zenon
    <3> QED
      BY <3>1, <3>2, Zenon
  <2>4. CASE op[d].key # k
    <3>1. entries'[op[d].key] = entries[op[d].key]
      BY <1>1, <1>3, <2>2, <2>4, Zenon
    <3> QED
      BY <1>2, <2>1, <2>2, <2>4, <3>1, Zenon DEF Loaded, Inv, SeesWhatItFinds
  <2> QED
    BY <2>3, <2>4, Zenon
<1>8. TimeBounds' /\ TimerInTime'
  <2>1. ASSUME NEW j \in Keys, entries'[j] # Nothing
        PROVE  /\ entries'[j].until <= stored'[j] + Lifetime /\ stored'[j] <= clock
               /\ loop = "timer" => deadline <= stored'[j] + Lifetime
    <3>1. CASE j = k
      <4>1. entries'[j].until = until /\ stored'[j] = clock
        BY <1>2, <1>3, <1>4, <3>1, Zenon DEF Inv, TypeOK
      <4> QED
        BY <1>1, <1>4, <4>1 DEF Inv, TimeBounds, TypeOK
    <3>2. CASE j # k
      <4>1. entries'[j] = entries[j] /\ stored'[j] = stored[j]
        BY <1>1, <1>3, <3>2, Zenon DEF Inv, TypeOK
      <4> QED
        BY <2>1, <4>1, Zenon DEF Inv, TimeBounds, TimerInTime
    <3> QED
      BY <3>1, <3>2, Zenon
  <2>2. clock' = clock /\ loop' = loop /\ deadline' = deadline
    BY Zenon DEF loopVars
  <2>3. loop = "timer" => deadline <= clock + Lifetime
    BY Zenon DEF Inv, TimeBounds
  <2> QED
    BY <2>1, <2>2, <2>3, Zenon DEF TimeBounds, TimerInTime
<1> QED
  BY <1>5, <1>6, <1>7, <1>8, Zenon DEF Inv

\* The entry a call finds has a value.
LEMMA FoundFacts ==
    ASSUME Inv, NEW c \in Callers
    PROVE  /\ op[c].key \in Keys /\ op[c].since \in 0..LastCall /\ op[c].since <= clock
           /\ entries[op[c].key] \in Entries
           /\ Loaded(c) => entries[op[c].key].value \in Values
<1>1. op[c] \in OpType /\ entries \in [Keys -> Entries] /\ LastCall \in Nat
  BY Types, Zenon DEF Inv
<1>2. op[c].key \in Keys /\ op[c].since \in 0..LastCall
  BY <1>1, Zenon DEF OpType
<1> QED
  BY <1>1, <1>2, EntryFacts DEF Inv, CallShape, Loaded

LEMMA StoreInv ==
    ASSUME Inv, NEW c \in Callers, storeIf(c) \/ LoadAndRefresh(c)
    PROVE  Inv'
<1>1. CASE storeIf(c)
  <2>1. PICK at \in {"idle", "notify"} : pc' = [pc EXCEPT ![c] = at]
    BY <1>1, Zenon DEF storeIf, Goto
  <2>2. /\ Asking(c) /\ op[c].kind \in {"store", "storeIf"} /\ ~closed /\ Install(c, op[c].value)
        /\ answer' = [answer EXCEPT ![c] = Yes(NoValue)]
        /\ UNCHANGED <<clock, closed, loopVars, calls>>
    BY <1>1, Zenon DEF storeIf, Locked, Asking, Returns
  <2>3. op[c].value \in Values
    BY <2>2, Zenon DEF Inv, CallShape
  <2>4. answer' \in [Callers -> [ok : BOOLEAN, value : Values \cup {NoValue}]]
    BY <2>2, AnswerType, Zenon
  <2> QED
    BY <2>1, <2>2, <2>3, <2>4, InstallInv, Zenon
<1>2. CASE LoadAndRefresh(c)
  <2> DEFINE v == entries[op[c].key].value
  <2>1. /\ Asking(c) /\ ~closed /\ Install(c, v) /\ pc' = [pc EXCEPT ![c] = "idle"]
        /\ answer' = [answer EXCEPT ![c] = Yes(v)] /\ Loaded(c)
        /\ UNCHANGED <<clock, closed, loopVars, calls>>
    BY <1>2, Zenon DEF LoadAndRefresh, Locked, Asking, Returns, Goto
  <2>2. v \in Values
    BY <2>1, FoundFacts, Zenon
  <2> HIDE DEF v
  <2>3. answer' \in [Callers -> [ok : BOOLEAN, value : Values \cup {NoValue}]]
    BY <2>1, <2>2, AnswerType, Zenon
  <2> QED
    BY <2>1, <2>2, <2>3, InstallInv, Zenon
<1> QED
  BY <1>1, <1>2, Zenon

\* Entries are only removed, those that are left stay as they are.
LEMMA RemovedInv ==
    ASSUME Inv, NEW es \in [Keys -> Entries], entries' = es,
           \A k \in Keys : es[k] = entries[k] \/ es[k] = Nothing,
           stored' \in [Keys -> 0..MaxTime], \A k \in Keys : es[k] # Nothing => stored'[k] = stored[k],
           closed' \in BOOLEAN, closed' => \A k \in Keys : es[k] = Nothing,
           clock' = clock, calls' = calls, wake' \in BOOLEAN,
           loop' \in {"top", "empty", "timer", "ended"}, deadline' \in 0..MaxTime,
           loop' = "timer" => /\ \A k \in Keys : es[k] # Nothing => deadline' <= stored[k] + Lifetime
                              /\ deadline' <= clock + Lifetime,
           pc' \in [Callers -> {"idle", "called", "notify", "wait"}],
           \A c \in Callers : pc'[c] = "called" => pc[c] = "called" /\ op'[c] = op[c],
           op' \in [Callers -> OpType], \A c \in Callers : op'[c] \in {op[c], NoOp},
           answer' \in [Callers -> [ok : BOOLEAN, value : Values \cup {NoValue}]]
    PROVE  Inv'
<1>1. TypeOK'
  BY Zenon DEF Inv, TypeOK, OpType
<1>2. CallShape'
  <2>1. NoOp.since <= clock /\ NoOp.kind \notin {"store", "storeIf"}
    BY NoOpFacts, Types DEF Inv
  <2> QED
    BY <2>1, Zenon DEF Inv, CallShape
<1>3. SeesWhatItFinds'
  <2> SUFFICES ASSUME NEW c \in Callers, Asking(c)', Loaded(c)'
               PROVE  es[op[c].key].value \in op[c].seen /\ op'[c] = op[c]
    BY Zenon DEF SeesWhatItFinds
  <2>1. op'[c] = op[c] /\ Asking(c)
    BY Zenon DEF Asking, Locked
  <2>2. op[c].key \in Keys /\ op[c].since \in 0..LastCall
    BY FoundFacts, Zenon
  <2>3. es[op[c].key] = entries[op[c].key]
    <3>1. es[op[c].key].until > op[c].since
      BY <2>1, Zenon DEF Loaded
    <3>2. ~(Nothing.until > op[c].since)
      BY <2>2, ConstAssumption DEF Nothing
    <3> QED
      BY <2>2, <3>1, <3>2, Zenon
  <2> QED
    BY <2>1, <2>3, Zenon DEF Inv, SeesWhatItFinds, Loaded
<1>4. TimeBounds' /\ TimerInTime'
  BY Zenon DEF Inv, TimeBounds, TimerInTime
<1> QED
  BY <1>1, <1>2, <1>3, <1>4, Zenon DEF Inv

LEMMA LoadMissesInv ==
    ASSUME Inv, NEW c \in Callers, LoadMisses(c)
    PROVE  Inv'
<1> DEFINE k == op[c].key
           es == [entries EXCEPT ![k] = Nothing]
<1>1. /\ op \in [Callers -> OpType] /\ pc \in [Callers -> {"idle", "called", "notify", "wait"}]
      /\ entries \in [Keys -> Entries] /\ Nothing \in Entries /\ 0 \in 0..MaxTime
  BY Types DEF Inv, Entries
<1>2. /\ pc' = [pc EXCEPT ![c] = "idle"] /\ op' = [op EXCEPT ![c] = NoOp] /\ entries' = es
      /\ stored' = [stored EXCEPT ![k] = 0] /\ answer' = [answer EXCEPT ![c] = No]
      /\ clock' = clock /\ calls' = calls /\ wake' = wake /\ loop' = loop /\ deadline' = deadline
      /\ ~closed /\ closed' = closed
  BY Zenon DEF LoadMisses, Leaves, Goto, Returns, loopVars
<1>3. answer' \in [Callers -> [ok : BOOLEAN, value : Values \cup {NoValue}]]
  BY <1>2, AnswerType, Zenon
<1>4. /\ stored' \in [Keys -> 0..MaxTime] /\ loop' \in {"top", "empty", "timer", "ended"}
      /\ deadline' \in 0..MaxTime
  BY <1>1, <1>2, Zenon DEF Inv, TypeOK
<1>5. wake' \in BOOLEAN /\ closed' \in BOOLEAN
  BY <1>2, Zenon DEF Inv, TypeOK
<1>6. /\ es \in [Keys -> Entries] /\ \A j \in Keys : es[j] = entries[j] \/ es[j] = Nothing
      /\ \A j \in Keys : es[j] # Nothing => j # k /\ entries[j] # Nothing
  BY <1>1, Zenon
<1>7. \A j \in Keys : es[j] # Nothing => stored'[j] = stored[j]
  BY <1>2, <1>6, Zenon DEF Inv, TypeOK
<1>8. loop' = "timer" => /\ \A j \in Keys : es[j] # Nothing => deadline' <= stored[j] + Lifetime
                         /\ deadline' <= clock + Lifetime
  BY <1>2, <1>6, Zenon DEF Inv, TimeBounds, TimerInTime
<1>9. /\ pc' \in [Callers -> {"idle", "called", "notify", "wait"}] /\ op' \in [Callers -> OpType]
      /\ \A d \in Callers : pc'[d] = "called" => pc[d] = "called" /\ op'[d] = op[d]
      /\ \A d \in Callers : op'[d] \in {op[d], NoOp}
  BY <1>1, <1>2, NoOpFacts, Zenon
<1> HIDE DEF es
<1> QED
  BY <1>2, <1>3, <1>4, <1>5, <1>6, <1>7, <1>8, <1>9, RemovedInv, Zenon

LEMMA CloseInv ==
    ASSUME Inv, NEW c \in Callers, Close(c)
    PROVE  Inv'
<1> DEFINE es == [k \in Keys |-> Nothing]
<1>1. /\ op \in [Callers -> OpType] /\ pc \in [Callers -> {"idle", "called", "notify", "wait"}]
      /\ Nothing \in Entries /\ 0 \in 0..MaxTime
  BY Types DEF Inv, Entries
<1>2. /\ pc' = [pc EXCEPT ![c] = "notify"] /\ op' = op /\ entries' = es
      /\ stored' = [k \in Keys |-> 0] /\ answer' = answer /\ closed' = TRUE
      /\ clock' = clock /\ calls' = calls /\ wake' = wake /\ loop' = loop /\ deadline' = deadline
  BY Zenon DEF Close, Goto, loopVars
<1>3. /\ answer' \in [Callers -> [ok : BOOLEAN, value : Values \cup {NoValue}]]
      /\ stored' \in [Keys -> 0..MaxTime] /\ loop' \in {"top", "empty", "timer", "ended"}
      /\ deadline' \in 0..MaxTime /\ wake' \in BOOLEAN
  BY <1>1, <1>2, Zenon DEF Inv, TypeOK
<1>4. es \in [Keys -> Entries] /\ \A j \in Keys : es[j] = Nothing
  BY <1>1, Zenon
<1>5. loop' = "timer" => deadline' <= clock + Lifetime
  BY <1>2, Zenon DEF Inv, TimeBounds
<1>6. /\ pc' \in [Callers -> {"idle", "called", "notify", "wait"}] /\ op' \in [Callers -> OpType]
      /\ \A d \in Callers : pc'[d] = "called" => pc[d] = "called" /\ op'[d] = op[d]
      /\ \A d \in Callers : op'[d] \in {op[d], NoOp}
  BY <1>1, <1>2, Zenon
<1>7. closed' \in BOOLEAN
  BY <1>2, Zenon
<1> HIDE DEF es
<1> QED
  BY <1>2, <1>3, <1>4, <1>5, <1>6, <1>7, RemovedInv

\* Steps that leave the entries and the calls' arguments alone.
LEMMA LoopInv ==
    ASSUME Inv, (\E c \in Callers : notify(c)) \/ RunCloses \/ RunWoken \/ TimerFires
    PROVE  Inv'
<1>1. /\ op \in [Callers -> OpType] /\ pc \in [Callers -> {"idle", "called", "notify", "wait"}]
      /\ entries \in [Keys -> Entries] /\ stored \in [Keys -> 0..MaxTime]
      /\ 0 \in 0..MaxTime /\ deadline \in 0..MaxTime
      /\ answer \in [Callers -> [ok : BOOLEAN, value : Values \cup {NoValue}]]
  BY Types DEF Inv, TypeOK
<1>2. /\ op' = op /\ entries' = entries /\ stored' = stored /\ answer' = answer
      /\ closed' = closed /\ clock' = clock /\ calls' = calls
  BY Zenon DEF notify, RunCloses, RunWoken, TimerFires, mapVars, callVars
<1>3. /\ pc' \in [Callers -> {"idle", "called", "notify", "wait"}]
      /\ \A d \in Callers : pc'[d] = "called" => pc[d] = "called"
  BY <1>1, Zenon DEF notify, RunCloses, RunWoken, TimerFires, callVars, Goto
<1>4. /\ loop' \in {"top", "empty", "timer", "ended"} /\ deadline' \in 0..MaxTime
      /\ loop' = "timer" => loop = "timer" /\ deadline' = deadline
  BY <1>1, Zenon DEF notify, RunCloses, RunWoken, TimerFires, Inv, TypeOK
<1>5. wake' \in BOOLEAN
  BY Zenon DEF notify, RunCloses, RunWoken, TimerFires, Inv, TypeOK
<1>6. closed' \in BOOLEAN /\ (closed' => \A k \in Keys : entries[k] = Nothing)
  BY <1>2, Zenon DEF Inv, TypeOK
<1>7. loop' = "timer" => /\ \A j \in Keys : entries[j] # Nothing => deadline' <= stored[j] + Lifetime
                         /\ deadline' <= clock + Lifetime
  BY <1>4, Zenon DEF Inv, TimeBounds, TimerInTime
<1> QED
  BY <1>1, <1>2, <1>3, <1>4, <1>5, <1>6, <1>7, RemovedInv, Zenon

LEMMA RunRemovesInv ==
    ASSUME Inv, RunRemoves
    PROVE  Inv'
<1> DEFINE es == removeExpired
<1>1. /\ op \in [Callers -> OpType] /\ pc \in [Callers -> {"idle", "called", "notify", "wait"}]
      /\ entries \in [Keys -> Entries] /\ Nothing \in Entries /\ 0 \in 0..MaxTime
      /\ stored \in [Keys -> 0..MaxTime] /\ clock \in 0..MaxTime /\ Lifetime \in Nat \ {0}
      /\ MaxTime \in Nat
      /\ answer \in [Callers -> [ok : BOOLEAN, value : Values \cup {NoValue}]]
  BY Types DEF Inv, TypeOK, Entries
<1>2. /\ op' = op /\ pc' = pc /\ entries' = es /\ answer' = answer
      /\ closed' = closed /\ clock' = clock /\ calls' = calls /\ wake' = wake /\ ~closed
      /\ stored' = [k \in Keys |-> IF es[k] = Nothing THEN 0 ELSE stored[k]]
  BY Zenon DEF RunRemoves, callVars
<1>3. /\ es \in [Keys -> Entries] /\ \A j \in Keys : es[j] = entries[j] \/ es[j] = Nothing
  BY <1>1, Zenon DEF removeExpired
<1> HIDE DEF es
<1>4. stored' \in [Keys -> 0..MaxTime] /\ \A k \in Keys : es[k] # Nothing => stored'[k] = stored[k]
  BY <1>1, <1>2, Zenon
<1>5. \/ loop' = "empty" /\ deadline' = 0
      \/ loop' = "timer" /\ deadline' \in First(es)
  BY <1>2, Zenon DEF RunRemoves
<1>6. ASSUME loop' = "timer", deadline' \in First(es)
      PROVE  /\ deadline' \in 0..MaxTime /\ deadline' <= clock + Lifetime
             /\ \A j \in Keys : es[j] # Nothing => deadline' <= stored[j] + Lifetime
  <2>1. PICK k \in Keys : es[k] # Nothing /\ deadline' = es[k].until
    BY <1>6, Zenon DEF First, Untils
  <2>2. \A j \in Keys : es[j] # Nothing => deadline' <= es[j].until
    BY <1>6, Zenon DEF First, Untils
  <2>3. \A j \in Keys : es[j] # Nothing =>
            /\ es[j].until \in 0..MaxTime /\ es[j].until <= stored[j] + Lifetime
            /\ stored[j] \in 0..MaxTime /\ stored[j] <= clock
    BY <1>1, <1>3, EntryFacts, Zenon DEF Inv, TimeBounds
  <2>4. deadline' \in 0..MaxTime
    BY <2>1, <2>3, Zenon
  <2>5. \A j \in Keys : es[j] # Nothing => deadline' <= stored[j] + Lifetime
    BY <1>1, <2>2, <2>3, <2>4
  <2> QED
    BY <1>1, <2>1, <2>3, <2>4, <2>5
<1>7. /\ loop' \in {"top", "empty", "timer", "ended"} /\ deadline' \in 0..MaxTime
      /\ loop' = "timer" => /\ \A j \in Keys : es[j] # Nothing => deadline' <= stored[j] + Lifetime
                            /\ deadline' <= clock + Lifetime
  BY <1>1, <1>5, <1>6, Zenon
<1>8. wake' \in BOOLEAN /\ closed' \in BOOLEAN
  BY <1>2, Zenon DEF Inv, TypeOK
<1> QED
  BY <1>1, <1>2, <1>3, <1>4, <1>7, <1>8, RemovedInv, Zenon

LEMMA TickInv ==
    ASSUME Inv, Tick
    PROVE  Inv'
<1>1. /\ clock' = clock + 1 /\ clock' \in 0..MaxTime /\ clock \in Nat
      /\ Lifetime \in Nat /\ deadline \in Nat /\ stored \in [Keys -> Nat]
      /\ UNCHANGED <<mapVars, loopVars, callVars>>
  BY Types, ConstAssumption DEF Tick, Inv, TypeOK, MaxTime
<1>2. op \in [Callers -> OpType] /\ LastCall \in Nat
  BY Types, Zenon DEF Inv
<1>3. TypeOK'
  BY <1>1, Zenon DEF Inv, TypeOK, mapVars, loopVars, callVars
<1>4. CallShape'
  BY <1>1, <1>2 DEF Inv, CallShape, callVars, OpType
<1>5. SeesWhatItFinds' /\ TimerInTime'
  BY <1>1, Zenon DEF Inv, SeesWhatItFinds, TimerInTime, Asking, Locked, Loaded, mapVars, loopVars, callVars
<1>6. TimeBounds'
  BY <1>1 DEF Inv, TimeBounds, mapVars, loopVars
<1> QED
  BY <1>3, <1>4, <1>5, <1>6, Zenon DEF Inv

\* A step of Next, or none, preserves the invariant.
LEMMA NextInv == Inv /\ [Next]_vars => Inv'
<1> SUFFICES ASSUME Inv, [Next]_vars PROVE Inv'
  OBVIOUS
<1>1. ASSUME NEW c \in Callers, CallStep(c) PROVE Inv'
  BY <1>1, QuietCallInv, StoreInv, LoadMissesInv, CloseInv, LoopInv, Zenon DEF CallStep
<1>2. CASE run
  <2>1. CASE RunRemoves
    BY <2>1, RunRemovesInv, Zenon
  <2>2. CASE RunCloses \/ RunWoken \/ TimerFires
    BY <2>2, LoopInv, Zenon
  <2> QED
    BY <1>2, <2>1, <2>2, Zenon DEF run
<1>3. CASE UNCHANGED vars
  BY <1>3, Zenon DEF Inv, TypeOK, CallShape, SeesWhatItFinds, TimeBounds, TimerInTime, Asking, Locked, Loaded,
              vars, mapVars, loopVars, callVars
<1> QED
  BY <1>1, <1>2, <1>3, CallInv, CallCloseInv, TickInv, Zenon DEF Next

-----------------------------------------------------------------------------
(***************************************************************************)
(* Every step is one of LifetimeMap, or none.                              *)
(***************************************************************************)
Quiet == [kind |-> "none"]

\* What is asked, from which LifetimeMap's steps are read.
LEMMA AskedFacts ==
    ASSUME Inv
    PROVE  /\ Asked \in [Callers -> OpType \cup {Quiet}]
           /\ \A c \in Callers : /\ Asking(c) => Asked[c] = op[c] /\ Asked[c] # Quiet
                                 /\ ~Asking(c) => Asked[c] = Quiet
<1>1. op \in [Callers -> OpType]
  BY Types, Zenon DEF Inv
<1>2. ASSUME NEW c \in Callers, Asking(c) PROVE op[c] # Quiet
  <2>1. op[c].kind # "none"
    BY <1>2, Zenon DEF Asking, Locked
  <2>2. Quiet.kind = "none"
    BY Zenon DEF Quiet
  <2> QED
    BY <2>1, <2>2, Zenon
<1> HIDE DEF Asking
<1> QED
  BY <1>1, <1>2, Zenon DEF Asked, Quiet

\* Calls that end without a change of what lives.
LEMMA LeavesMaps ==
    ASSUME Inv, NEW c \in Callers, Asking(c), Leaves(c), Live' = Live
    PROVE  LM!Leaves(c)
<1>1. op \in [Callers -> OpType] /\ pc \in [Callers -> {"idle", "called", "notify", "wait"}]
  BY Types, Zenon DEF Inv
<1>2. ~Asking(c)' /\ \A d \in Callers \ {c} : (Asking(d)' <=> Asking(d)) /\ op'[d] = op[d]
  BY <1>1, Zenon DEF Leaves, Goto, Asking, Locked
<1>3. Asked' = [Asked EXCEPT ![c] = [kind |-> "none"]]
  <2> HIDE DEF Asking
  <2> QED
    BY <1>2, Zenon DEF Asked
<1> QED
  BY <1>3, Zenon DEF LM!Leaves, LM!Quiet

LEMMA SameLive ==
    ASSUME entries' = entries, clock' = clock
    PROVE  Live' = Live
  BY Zenon DEF Live

LEMMA CallMaps ==
    ASSUME Inv, NEW c \in Callers, NEW kind \in {"store", "storeIf", "load", "refresh"},
           NEW k \in Keys, NEW v \in Values \cup {NoValue}, Call(c, kind, k, v)
    PROVE  LM!Ask(c, kind, k, v)
<1> DEFINE sees == IF entries[k].until > clock THEN {entries[k].value} ELSE {}
           o == [kind |-> kind, key |-> k, value |-> v, since |-> clock, seen |-> sees]
<1>1. op \in [Callers -> OpType] /\ pc \in [Callers -> {"idle", "called", "notify", "wait"}]
      /\ entries[k] \in Entries /\ clock \in Nat
  BY Types DEF Inv
<1>2. sees = {Live[k].value} \ {NoValue}
  <2>1. CASE entries[k].until > clock
    BY <1>1, <2>1, EntryFacts, ConstAssumption DEF Live
  <2>2. CASE ~(entries[k].until > clock)
    BY <1>1, <2>2, EntryFacts, Zenon DEF Live
  <2> QED
    BY <2>1, <2>2, Zenon
<1> HIDE DEF sees
<1>3. o.kind = kind
  OBVIOUS
<1>4. /\ op' = [op EXCEPT ![c] = o] /\ pc[c] = "idle" /\ pc' = [pc EXCEPT ![c] = "called"]
      /\ answer' = [answer EXCEPT ![c] = No]
      /\ clock' = clock /\ entries' = entries /\ closed' = closed
      /\ v # NoValue <=> kind \in {"store", "storeIf"}
  BY Zenon DEF Call, Goto, mapVars, sees
<1> HIDE DEF o
<1>5. ~Asking(c) /\ Asking(c)' /\ \A d \in Callers \ {c} : (Asking(d)' <=> Asking(d)) /\ op'[d] = op[d]
  BY <1>1, <1>3, <1>4, Zenon DEF Asking, Locked
<1>6. Asked' = [Asked EXCEPT ![c] = o] /\ Asked[c] = [kind |-> "none"]
  <2> HIDE DEF Asking
  <2>1. op'[c] = o
    BY <1>1, <1>4, Zenon
  <2> QED
    BY <1>5, <2>1, Zenon DEF Asked
<1>7. Live' = Live
  BY <1>4, SameLive, Zenon
<1>8. o = [kind |-> kind, key |-> k, value |-> v, since |-> clock, seen |-> {Live[k].value} \ {NoValue}]
  BY <1>2, Zenon DEF o
<1> QED
  BY <1>4, <1>6, <1>7, <1>8, Zenon DEF LM!Ask, LM!Quiet, LM!No, No

\* A stored value is put, with the lifetime counted from when the call began.
LEMMA InstallMaps ==
    ASSUME Inv, NEW c \in Callers, NEW v \in Values, Asking(c), Install(c, v), clock' = clock,
           NEW at \in {"idle", "notify"}, pc' = [pc EXCEPT ![c] = at]
    PROVE  LM!Puts(c, v)
<1> DEFINE k == op[c].key
           until == op[c].since + Lifetime
           e == [value |-> v, until |-> until]
<1>1. /\ op \in [Callers -> OpType] /\ pc \in [Callers -> {"idle", "called", "notify", "wait"}]
      /\ entries \in [Keys -> Entries] /\ clock \in Nat /\ k \in Keys
      /\ op[c].since \in Nat /\ op[c].since <= clock
  BY Types, FoundFacts DEF Inv
<1>2. Asked[c] = op[c]
  BY AskedFacts, Zenon
<1>3. entries' = [entries EXCEPT ![k] = e]
  BY Zenon DEF Install
<1>4. Live' = [Live EXCEPT ![k] = IF until > clock THEN e ELSE Nothing]
  <2>1. e.until = until
    OBVIOUS
  <2> HIDE DEF e, until, k
  <2> QED
    BY <1>1, <1>3, <2>1, Zenon DEF Live
<1>5. ~Asking(c)' /\ \A d \in Callers \ {c} : Asking(d)' <=> Asking(d)
  BY <1>1, InstallFacts, Zenon DEF Asking, Locked
<1>6. ASSUME NEW d \in Callers \ {c}
      PROVE  op'[d] = IF Asking(d) /\ op[d].key = k /\ until > op[d].since
                      THEN [op[d] EXCEPT !.seen = op[d].seen \cup {v}] ELSE op[d]
  BY Zenon DEF Install
<1>7. Asked' = [d \in Callers |->
                   IF d = c THEN Quiet
                   ELSE IF Asked[d] # Quiet /\ Asked[d].key = k /\ until > Asked[d].since
                   THEN [Asked[d] EXCEPT !.seen = Asked[d].seen \cup {v}] ELSE Asked[d]]
  <2> DEFINE new(d) == [op[d] EXCEPT !.seen = op[d].seen \cup {v}]
  <2>1. ASSUME NEW d \in Callers
        PROVE  Asked'[d] = IF d = c THEN Quiet
                           ELSE IF Asked[d] # Quiet /\ Asked[d].key = k /\ until > Asked[d].since
                           THEN [Asked[d] EXCEPT !.seen = Asked[d].seen \cup {v}] ELSE Asked[d]
    <3>1. Asked'[d] = IF Asking(d)' THEN op'[d] ELSE Quiet
      BY Zenon DEF Asked, Quiet
    <3>2. CASE d = c
      BY <1>5, <3>1, <3>2, Zenon
    <3>3. CASE d # c /\ ~Asking(d)
      <4>1. Asked[d] = Quiet
        BY <3>3, AskedFacts, Zenon
      <4> QED
        BY <1>5, <3>1, <3>3, <4>1, Zenon
    <3>4. CASE d # c /\ Asking(d)
      <4>1. Asked[d] = op[d] /\ Asked[d] # Quiet
        BY <3>4, AskedFacts, Zenon
      <4>2. Asked'[d] = op'[d]
        BY <1>5, <3>1, <3>4, Zenon
      <4>3. op'[d] = IF op[d].key = k /\ until > op[d].since THEN new(d) ELSE op[d]
        BY <1>6, <3>4, Zenon
      <4> QED
        BY <3>4, <4>1, <4>2, <4>3, Zenon
    <3> QED
      BY <3>2, <3>3, <3>4, Zenon
  <2>2. Asked' = [d \in Callers |-> Asked'[d]]
    BY Zenon DEF Asked
  <2> QED
    BY <2>1, <2>2, Zenon
<1>8. op[c].since \in op[c].since .. clock
  BY <1>1
<1> QED
  BY <1>2, <1>4, <1>7, <1>8, ZenonT(60) DEF LM!Puts, LM!Quiet, LM!Nothing, Nothing, Quiet

\* What did not live when a call began does not live when it ends.
LEMMA NotLoaded ==
    ASSUME Inv, NEW c \in Callers, ~Loaded(c)
    PROVE  Live[op[c].key] = Nothing
<1>1. /\ op[c].key \in Keys /\ op[c].since \in Nat /\ op[c].since <= clock /\ clock \in Nat
      /\ entries[op[c].key] \in Entries
  BY Types, FoundFacts DEF Inv
<1>2. entries[op[c].key].until \in Nat
  BY <1>1, EntryFacts, Types DEF Inv
<1> QED
  BY <1>1, <1>2 DEF Live, Loaded

LEMMA StoreMaps ==
    ASSUME Inv, NEW c \in Callers, storeIf(c)
    PROVE  LM!Stores(c)
<1>1. PICK at \in {"idle", "notify"} : pc' = [pc EXCEPT ![c] = at]
  BY Zenon DEF storeIf, Goto
<1>2. /\ Asking(c) /\ op[c].kind \in {"store", "storeIf"} /\ ~closed /\ Install(c, op[c].value)
      /\ Allowed(c) /\ answer' = [answer EXCEPT ![c] = Yes(NoValue)]
      /\ clock' = clock /\ closed' = closed
  BY Zenon DEF storeIf, Locked, Asking, Returns
<1>3. op[c].value \in Values
  BY <1>2, Zenon DEF Inv, CallShape
<1>4. LM!Puts(c, op[c].value)
  BY <1>1, <1>2, <1>3, InstallMaps, Zenon
<1>5. Asked[c] = op[c] /\ Asked[c] # Quiet
  BY <1>2, AskedFacts, Zenon
<1>6. op[c].kind = "storeIf" => Live[op[c].key] = Nothing \/ op[c].value \in op[c].seen
  <2>1. CASE ~Loaded(c)
    BY <2>1, NotLoaded, Zenon
  <2>2. CASE Loaded(c)
    BY <1>2, <2>2, Zenon DEF Allowed, Inv, SeesWhatItFinds
  <2> QED
    BY <2>1, <2>2, Zenon
<1> QED
  BY <1>2, <1>4, <1>5, <1>6, Zenon DEF LM!Stores, LM!Asks, LM!Answers, LM!Quiet, LM!Nothing, LM!Yes, Quiet, Nothing, Yes

LEMMA LoadMaps ==
    ASSUME Inv, NEW c \in Callers, Load(c) \/ LoadAndRefresh(c)
    PROVE  \E v \in Values : LM!Finds(c, v)
<1> DEFINE v == entries[op[c].key].value
<1>1. /\ Asking(c) /\ op[c].kind \in {"load", "refresh"} /\ ~closed /\ Loaded(c)
      /\ answer' = [answer EXCEPT ![c] = Yes(v)] /\ clock' = clock /\ closed' = closed
  BY Zenon DEF Load, LoadAndRefresh, Locked, Asking, Returns
<1>2. v \in Values /\ v \in op[c].seen
  BY <1>1, FoundFacts, Zenon DEF Inv, SeesWhatItFinds
<1>3. Asked[c] = op[c] /\ Asked[c] # Quiet
  BY <1>1, AskedFacts, Zenon
<1>4. IF op[c].kind = "refresh" THEN LM!Puts(c, v) ELSE LM!Leaves(c)
  <2>1. CASE Load(c)
    <3>1. op[c].kind # "refresh" /\ Leaves(c) /\ entries' = entries
      BY <2>1, Zenon DEF Load, Locked
    <3> QED
      BY <1>1, <3>1, SameLive, LeavesMaps, Zenon
  <2>2. CASE LoadAndRefresh(c)
    <3>1. op[c].kind = "refresh" /\ Install(c, v) /\ pc' = [pc EXCEPT ![c] = "idle"]
      BY <2>2, Zenon DEF LoadAndRefresh, Locked, Goto
    <3> HIDE DEF v
    <3> QED
      BY <1>1, <1>2, <3>1, InstallMaps, Zenon
  <2> QED
    BY <2>1, <2>2, Zenon
<1> HIDE DEF v
<1>5. LM!Finds(c, v)
  BY <1>1, <1>2, <1>3, <1>4, Zenon DEF LM!Finds, LM!Asks, LM!Answers, LM!Quiet, LM!Yes, Quiet, Yes
<1> QED
  BY <1>2, <1>5, Zenon

LEMMA NegativeMaps ==
    ASSUME Inv, NEW c \in Callers, Refused(c) \/ storeIfDeclined(c) \/ LoadMisses(c)
    PROVE  LM!Refuses(c) \/ LM!Declines(c) \/ LM!FindsNothing(c)
<1>1. /\ Asking(c) /\ Leaves(c) /\ answer' = [answer EXCEPT ![c] = No]
      /\ clock' = clock /\ closed' = closed
  BY Zenon DEF Refused, storeIfDeclined, LoadMisses, Locked, Asking, Returns
<1>2. Asked[c] = op[c] /\ Asked[c] # Quiet
  BY <1>1, AskedFacts, Zenon
<1>3. LM!Answers(c, LM!No)
  BY <1>1, Zenon DEF LM!Answers, LM!No, No
<1>4. CASE Refused(c)
  <2>1. closed /\ entries' = entries
    BY <1>4, Zenon DEF Refused
  <2>2. LM!Leaves(c)
    BY <1>1, <2>1, SameLive, LeavesMaps, Zenon
  <2> QED
    BY <1>2, <1>3, <2>1, <2>2, Zenon DEF LM!Refuses, LM!Quiet, Quiet
<1>5. CASE storeIfDeclined(c)
  <2>1. /\ entries' = entries /\ ~closed /\ op[c].kind = "storeIf" /\ Loaded(c)
        /\ entries[op[c].key].value # op[c].value
    BY <1>5, Zenon DEF storeIfDeclined, Allowed
  <2>2. LM!Leaves(c)
    BY <1>1, <2>1, SameLive, LeavesMaps, Zenon
  <2>3. entries[op[c].key].value \in op[c].seen \ {op[c].value}
    BY <1>1, <2>1, Zenon DEF Inv, SeesWhatItFinds
  <2> QED
    BY <1>2, <1>3, <2>1, <2>2, <2>3, Zenon DEF LM!Declines, LM!Asks, LM!Quiet, Quiet
<1>6. CASE LoadMisses(c)
  <2>1. /\ entries' = [entries EXCEPT ![op[c].key] = Nothing] /\ ~Loaded(c)
        /\ op[c].kind \in {"load", "refresh"}
    BY <1>6, Zenon DEF LoadMisses, Locked
  <2>2. Live[op[c].key] = Nothing
    BY <2>1, NotLoaded, Zenon
  <2>3. Live' = Live
    <3>1. entries \in [Keys -> Entries] /\ op[c].key \in Keys
      BY Types, FoundFacts, Zenon DEF Inv
    <3> QED
      BY <1>1, <2>1, <2>2, <3>1, Zenon DEF Live
  <2>4. LM!Leaves(c)
    BY <1>1, <2>3, LeavesMaps, Zenon
  <2> QED
    BY <1>2, <1>3, <2>1, <2>2, <2>4, Zenon DEF LM!FindsNothing, LM!Asks, LM!Quiet, LM!Nothing, Quiet, Nothing
<1> QED
  BY <1>4, <1>5, <1>6, Zenon

\* Steps of Close, of the goroutine and of nobody, that are no steps of LifetimeMap.
LEMMA SilentMaps ==
    ASSUME Inv,
           \/ \E c \in Callers : CallClose(c) \/ CloseReturns(c) \/ notify(c)
           \/ run \/ UNCHANGED vars
    PROVE  UNCHANGED LM!vars
<1>1. /\ op \in [Callers -> OpType] /\ pc \in [Callers -> {"idle", "called", "notify", "wait"}]
      /\ entries \in [Keys -> Entries] /\ clock \in Nat
  BY Types DEF Inv
<1>2. clock' = clock /\ closed' = closed /\ answer' = answer
  BY Zenon DEF CallClose, CloseReturns, notify, run, RunCloses, RunRemoves, RunWoken, TimerFires,
         vars, mapVars, loopVars, callVars
<1>3. Live' = Live
  <2>1. CASE RunRemoves
    <3>1. \A k \in Keys : entries'[k] = IF entries[k].until > clock THEN entries[k] ELSE Nothing
      BY <2>1, Zenon DEF RunRemoves, removeExpired
    <3>2. ~(Nothing.until > clock)
      BY <1>1 DEF Nothing
    <3> QED
      BY <1>2, <3>1, <3>2, Zenon DEF Live
  <2>2. CASE ~RunRemoves
    <3>1. entries' = entries
      BY <2>2, Zenon DEF CallClose, CloseReturns, notify, run, RunCloses, RunWoken, TimerFires,
                  vars, mapVars, loopVars, callVars
    <3> QED
      BY <1>2, <3>1, SameLive, Zenon
  <2> QED
    BY <2>1, <2>2, Zenon
<1>4. Asked' = Asked
  <2>1. CASE \E c \in Callers : CallClose(c)
    <3>1. PICK c \in Callers : CallClose(c)
      BY <2>1, Zenon
    <3> DEFINE o == [NoOp EXCEPT !.kind = "close"]
    <3>2. o.kind = "close" /\ op' = [op EXCEPT ![c] = o] /\ pc[c] = "idle" /\ pc' = [pc EXCEPT ![c] = "called"]
      BY <3>1, NoOpFacts, CloseOpFacts, Zenon DEF CallClose, Goto
    <3> HIDE DEF o
    <3>3. /\ ~Asking(c) /\ ~Asking(c)'
          /\ \A d \in Callers \ {c} : (Asking(d)' <=> Asking(d)) /\ op'[d] = op[d]
      BY <1>1, <3>2, Zenon DEF Asking, Locked
    <3> HIDE DEF Asking
    <3> QED
      BY <3>3, Zenon DEF Asked
  <2>2. CASE \E c \in Callers : CloseReturns(c) \/ notify(c)
    <3>1. PICK c \in Callers : CloseReturns(c) \/ notify(c)
      BY <2>2, Zenon
    <3>2. /\ pc[c] \in {"notify", "wait"} /\ pc' \in [Callers -> {"idle", "called", "notify", "wait"}]
          /\ pc'[c] # "called"
          /\ \A d \in Callers \ {c} : op'[d] = op[d] /\ pc'[d] = pc[d]
      BY <1>1, <3>1, Zenon DEF CloseReturns, notify, Leaves, Goto
    <3>3. /\ ~Asking(c) /\ ~Asking(c)'
          /\ \A d \in Callers \ {c} : (Asking(d)' <=> Asking(d)) /\ op'[d] = op[d]
      BY <3>2, Zenon DEF Asking, Locked
    <3> HIDE DEF Asking
    <3> QED
      BY <3>3, Zenon DEF Asked
  <2>3. CASE run \/ UNCHANGED vars
    <3>1. op' = op /\ pc' = pc
      BY <2>3, Zenon DEF run, RunCloses, RunRemoves, RunWoken, TimerFires, vars, callVars
    <3> QED
      BY <3>1, Zenon DEF Asked, Asking, Locked
  <2> QED
    BY <2>1, <2>2, <2>3, Zenon
<1> QED
  BY <1>2, <1>3, <1>4, Zenon DEF LM!vars

LEMMA CloseMaps ==
    ASSUME Inv, NEW c \in Callers, Close(c)
    PROVE  LM!Ends
<1>1. /\ op \in [Callers -> OpType] /\ pc \in [Callers -> {"idle", "called", "notify", "wait"}]
      /\ clock \in Nat
  BY Types DEF Inv
<1>2. /\ clock' = clock /\ closed' = TRUE /\ answer' = answer /\ op' = op
      /\ entries' = [k \in Keys |-> Nothing] /\ pc' = [pc EXCEPT ![c] = "notify"]
      /\ op[c].kind = "close"
  BY Zenon DEF Close, Locked, Goto
<1>3. Live' = [k \in Keys |-> Nothing]
  BY <1>1, <1>2, Zenon DEF Live, Nothing
<1>4. \A d \in Callers : Asking(d)' <=> Asking(d)
  BY <1>1, <1>2, Zenon DEF Asking, Locked
<1>5. Asked' = Asked
  <2> HIDE DEF Asking
  <2> QED
    BY <1>2, <1>4, Zenon DEF Asked
<1> QED
  BY <1>2, <1>3, <1>5, Zenon DEF LM!Ends, LM!Nothing, Nothing

LEMMA TickMaps ==
    ASSUME Inv, Tick
    PROVE  LM!TimePasses
<1>1. entries \in [Keys -> Entries] /\ clock \in Nat
  BY Types DEF Inv
<1>2. clock' = clock + 1 /\ UNCHANGED <<entries, closed, pc, op, answer>>
  BY Zenon DEF Tick, mapVars, callVars
<1>3. ASSUME NEW k \in Keys
      PROVE  (IF entries[k].until > clock + 1 THEN entries[k] ELSE Nothing)
             = (IF Live[k].until > clock + 1 THEN Live[k] ELSE Nothing)
  <2>1. entries[k].until \in Nat /\ Nothing.until = 0
    BY <1>1, EntryFacts, Types DEF Inv
  <2> QED
    BY <1>1, <2>1 DEF Live
<1>4. Live' = [k \in Keys |-> IF Live[k].until > clock + 1 THEN Live[k] ELSE Nothing]
  <2>1. Live' = [k \in Keys |-> IF entries[k].until > clock + 1 THEN entries[k] ELSE Nothing]
    BY <1>2, Zenon DEF Live
  <2> QED
    BY <1>3, <2>1, Zenon
<1>5. Asked' = Asked
  BY <1>2, Zenon DEF Asked, Asking, Locked
<1> QED
  BY <1>2, <1>4, <1>5, Zenon DEF LM!TimePasses, LM!Nothing, Nothing

LEMMA StepMaps == Inv /\ [Next]_vars => [LM!Next]_(LM!vars)
<1> SUFFICES ASSUME Inv, [Next]_vars PROVE LM!Next \/ UNCHANGED LM!vars
  OBVIOUS
<1>1. ASSUME NEW c \in Callers, NEW kind \in {"store", "storeIf", "load", "refresh"},
             NEW k \in Keys, NEW v \in Values \cup {NoValue}, Call(c, kind, k, v)
      PROVE  LM!Next
  BY <1>1, CallMaps DEF LM!Next
<1>2. ASSUME NEW c \in Callers, CallStep(c) PROVE LM!Next \/ UNCHANGED LM!vars
  <2>1. CASE storeIf(c)
    BY <2>1, StoreMaps, Zenon DEF LM!Next
  <2>2. CASE Load(c) \/ LoadAndRefresh(c)
    BY <2>2, LoadMaps, Zenon DEF LM!Next
  <2>3. CASE Refused(c) \/ storeIfDeclined(c) \/ LoadMisses(c)
    BY <2>3, NegativeMaps, Zenon DEF LM!Next
  <2>4. CASE Close(c)
    BY <2>4, CloseMaps, Zenon DEF LM!Next
  <2>5. CASE notify(c) \/ CloseReturns(c)
    BY <2>5, SilentMaps, Zenon
  <2> QED
    BY <1>2, <2>1, <2>2, <2>3, <2>4, <2>5, Zenon DEF CallStep
<1>3. CASE Tick
  BY <1>3, TickMaps, Zenon DEF LM!Next
<1> QED
  BY <1>1, <1>2, <1>3, SilentMaps, Zenon DEF Next

LEMMA InitMaps == Init => LM!Init
<1> SUFFICES ASSUME Init PROVE LM!Init
  OBVIOUS
<1>1. Live = [k \in Keys |-> Nothing]
  BY Zenon DEF Init, Live, Nothing
<1>2. Asked = [c \in Callers |-> [kind |-> "none"]]
  BY Zenon DEF Init, Asked, Asking, Locked
<1> QED
  BY <1>1, <1>2, Zenon DEF Init, LM!Init, LM!Nothing, LM!Quiet, LM!No, Nothing, No

-----------------------------------------------------------------------------
\* The inductive invariant holds always.
THEOREM MapInv == Safety => []Inv
  BY InitInv, NextInv, PTL DEF Safety

\* The variables of the map keep their types, and a closed map has no entries.
THEOREM MapTypeCorrect == Safety => []TypeOK
<1>1. Inv => TypeOK
  BY Zenon DEF Inv
<1> QED
  BY <1>1, MapInv, PTL

\* run's timer fires within a lifetime of the moment an entry was stored, also of
\* one that was stored late and expires before the timer does.
THEOREM MapTimerInTime == Safety => []TimerInTime
<1>1. Inv => TimerInTime
  BY Zenon DEF Inv
<1> QED
  BY <1>1, MapInv, PTL

\* expiringmap.Map implements the map whose entries vanish when their lifetime
\* ends, whatever the delay between a call's time.Now and its lock.
THEOREM MapIsLifetimeMap == Safety => IsLifetimeMap
  BY InitMaps, StepMaps, MapInv, PTL DEF Safety, IsLifetimeMap, LM!Spec
=============================================================================
