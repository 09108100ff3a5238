----------------------------- MODULE ExpiringMap -----------------------------
(***************************************************************************)
(* expiringmap.Map (common/expiringmap/map.go), and its users' calls       *)
(* (protocol/snell/outbound.go, route/router.go).  A call reads the clock  *)
(* before it locks m.access, so what it stores may be older than what it   *)
(* finds.  The goroutine of run removes what has expired, then sleeps      *)
(* until the first entry expires or wake is signalled.                     *)
(*                                                                         *)
(* The queue holds exactly the entries, under the same lock; of the heap   *)
(* only its least expiresAt matters.  compact changes nothing that can be  *)
(* seen.  Time is counted in ticks.                                        *)
(***************************************************************************)
EXTENDS Integers

CONSTANTS
    Callers,        \* goroutines that use the map
    Keys,
    Values,
    NoValue,
    Lifetime,       \* m.lifetime
    LastCall,       \* bound: nothing is stored or asked for later
    MaxCalls        \* bound on the calls

ASSUME ConstAssumption == /\ NoValue \notin Values /\ Keys # {}
                          /\ Lifetime \in Nat \ {0} /\ LastCall \in Nat /\ MaxCalls \in Nat

VARIABLES
    clock,
    entries,        \* m.entries and m.queue
    closed,         \* m.closed
    wake,           \* m.wake has its one element
    loop,           \* where run is
    deadline,       \* what run's timer is set to, 0 if there is none
    pc,             \* where a caller is
    op,             \* its arguments, the time it read and, as a history, the values
                    \* its key had or was given since
    calls,
    answer,         \* what the call has returned
    stored          \* history: when the entry of a key was last stored or refreshed

mapVars == <<entries, closed, stored>>
loopVars == <<wake, loop, deadline>>
callVars == <<pc, op, calls, answer>>
vars == <<clock, mapVars, loopVars, callVars>>

MaxTime == LastCall + Lifetime
Nothing == [value |-> NoValue, until |-> 0]
Entries == [value : Values, until : Lifetime..MaxTime] \cup {Nothing}
Yes(v) == [ok |-> TRUE, value |-> v]
No == [ok |-> FALSE, value |-> NoValue]
NoOp == [kind |-> "none", key |-> CHOOSE k \in Keys : TRUE, value |-> NoValue, since |-> 0,
         seen |-> {}]

\* New
Init ==
    /\ clock = 0
    /\ entries = [k \in Keys |-> Nothing]
    /\ closed = FALSE /\ wake = FALSE /\ loop = "top" /\ deadline = 0 /\ calls = 0
    /\ pc = [c \in Callers |-> "idle"]
    /\ op = [c \in Callers |-> NoOp]
    /\ answer = [c \in Callers |-> No]
    /\ stored = [k \in Keys |-> 0]

-----------------------------------------------------------------------------
(***************************************************************************)
(* The calls.                                                              *)
(***************************************************************************)

Goto(c, at) == pc' = [pc EXCEPT ![c] = at]

\* Store, StoreIf, Load or LoadAndRefresh begins, and reads the clock.
Call(c, kind, k, v) ==
    /\ pc[c] = "idle" /\ calls < MaxCalls /\ clock <= LastCall
    /\ v # NoValue <=> kind \in {"store", "storeIf"}
    /\ calls' = calls + 1
    /\ op' = [op EXCEPT ![c] = [kind |-> kind, key |-> k, value |-> v, since |-> clock,
                                seen |-> IF entries[k].until > clock THEN {entries[k].value} ELSE {}]]
    /\ answer' = [answer EXCEPT ![c] = No]
    /\ Goto(c, "called")
    /\ UNCHANGED <<clock, mapVars, loopVars>>

CallClose(c) ==
    /\ pc[c] = "idle" /\ calls < MaxCalls
    /\ calls' = calls + 1
    /\ op' = [op EXCEPT ![c] = [NoOp EXCEPT !.kind = "close"]]
    /\ Goto(c, "called")
    /\ UNCHANGED <<clock, mapVars, loopVars, answer>>

\* The caller has the lock.
Locked(c, kinds) == pc[c] = "called" /\ op[c].kind \in kinds

Asking(c) == Locked(c, {"store", "storeIf", "load", "refresh"})

Returns(c, what) ==
    /\ answer' = [answer EXCEPT ![c] = what]
    /\ UNCHANGED <<clock, closed, loopVars, calls>>

\* Its call is over, without anything stored.
Leaves(c) ==
    /\ Goto(c, "idle")
    /\ op' = [op EXCEPT ![c] = NoOp]

\* item.expiresAt.After(now), of the caller's key and the time it read.
Loaded(c) == entries[op[c].key].until > op[c].since

\* item.value and item.expiresAt are set.
Install(c, v) ==
    LET k == op[c].key
        until == op[c].since + Lifetime
    IN  /\ entries' = [entries EXCEPT ![k] = [value |-> v, until |-> until]]
        /\ stored' = [stored EXCEPT ![k] = clock]
        /\ op' = [d \in Callers |->
               IF d = c THEN NoOp
               ELSE IF Asking(d) /\ op[d].key = k /\ until > op[d].since
               THEN [op[d] EXCEPT !.seen = @ \cup {v}] ELSE op[d]]

\* The map is closed: nothing is stored or found.
Refused(c) ==
    /\ Asking(c) /\ closed
    /\ Leaves(c)
    /\ UNCHANGED <<entries, stored>>
    /\ Returns(c, No)

\* allow: both users of StoreIf refresh only what they have stored themselves.
Allowed(c) ==
    op[c].kind = "storeIf" => ~Loaded(c) \/ entries[op[c].key].value = op[c].value

\* Mutant: the loop is not woken.
storeIf_NoWake(c) ==
    /\ Locked(c, {"store", "storeIf"}) /\ ~closed /\ Allowed(c)
    /\ Install(c, op[c].value)
    /\ Goto(c, "idle")
    /\ Returns(c, Yes(NoValue))

\* storeIf: an expired entry is replaced; the loop is woken, after the lock is
\* released, if there was no other.
storeIf(c) ==
    /\ Locked(c, {"store", "storeIf"}) /\ ~closed /\ Allowed(c)
    /\ Install(c, op[c].value)
    /\ Goto(c, IF ~Loaded(c) /\ \A k \in Keys \ {op[c].key} : entries[k] = Nothing
               THEN "notify" ELSE "idle")
    /\ Returns(c, Yes(NoValue))

storeIfDeclined(c) ==
    /\ Locked(c, {"store", "storeIf"}) /\ ~closed /\ ~Allowed(c)
    /\ Leaves(c)
    /\ UNCHANGED <<entries, stored>>
    /\ Returns(c, No)

\* Mutant: expiresAt is not looked at.
Load_Expired(c) ==
    /\ Locked(c, {"load"}) /\ ~closed /\ entries[op[c].key] # Nothing
    /\ Leaves(c)
    /\ UNCHANGED <<entries, stored>>
    /\ Returns(c, Yes(entries[op[c].key].value))

Load(c) ==
    /\ Locked(c, {"load"}) /\ ~closed /\ Loaded(c)
    /\ Leaves(c)
    /\ UNCHANGED <<entries, stored>>
    /\ Returns(c, Yes(entries[op[c].key].value))

LoadAndRefresh(c) ==
    /\ Locked(c, {"refresh"}) /\ ~closed /\ Loaded(c)
    /\ Install(c, entries[op[c].key].value)
    /\ Goto(c, "idle")
    /\ Returns(c, Yes(entries[op[c].key].value))

\* Either finds an expired entry, which it removes, or none.
LoadMisses(c) ==
    /\ Locked(c, {"load", "refresh"}) /\ ~closed /\ ~Loaded(c)
    /\ Leaves(c)
    /\ entries' = [entries EXCEPT ![op[c].key] = Nothing]
    /\ stored' = [stored EXCEPT ![op[c].key] = 0]
    /\ Returns(c, No)

\* Mutant: the entries are left.
Close_KeepsEntries(c) ==
    /\ Locked(c, {"close"})
    /\ closed' = TRUE
    /\ Goto(c, "notify")
    /\ UNCHANGED <<clock, entries, stored, loopVars, op, calls, answer>>

\* Close: under the lock,
Close(c) ==
    /\ Locked(c, {"close"})
    /\ closed' = TRUE
    /\ entries' = [k \in Keys |-> Nothing] /\ stored' = [k \in Keys |-> 0]
    /\ Goto(c, "notify")
    /\ UNCHANGED <<clock, loopVars, op, calls, answer>>

\* Mutant: a send that blocks while the channel is full.
notify_Blocks(c) ==
    /\ pc[c] = "notify" /\ ~wake
    /\ wake' = TRUE
    /\ Goto(c, IF op[c].kind = "close" THEN "wait" ELSE "idle")
    /\ UNCHANGED <<clock, mapVars, loop, deadline, op, calls, answer>>

\* then m.notify(), which storeIf ends with too, and <-m.done.
notify(c) ==
    /\ pc[c] = "notify"
    /\ wake' = TRUE
    /\ Goto(c, IF op[c].kind = "close" THEN "wait" ELSE "idle")
    /\ UNCHANGED <<clock, mapVars, loop, deadline, op, calls, answer>>

CloseReturns(c) ==
    /\ pc[c] = "wait" /\ loop = "ended"
    /\ Leaves(c)
    /\ UNCHANGED <<clock, mapVars, loopVars, calls, answer>>

-----------------------------------------------------------------------------
(***************************************************************************)
(* run                                                                     *)
(***************************************************************************)

\* removeExpired
removeExpired == [k \in Keys |-> IF entries[k].until > clock THEN entries[k] ELSE Nothing]

Untils(es) == {es[k].until : k \in {j \in Keys : es[j] # Nothing}}

\* Mutant: Less is the wrong way round.
First_Last(es) == {u \in Untils(es) : \A w \in Untils(es) : w <= u}

\* m.queue[0].expiresAt is in
First(es) == {u \in Untils(es) : \A w \in Untils(es) : u <= w}

\* m.closed
RunCloses ==
    /\ loop = "top" /\ closed
    /\ loop' = "ended"
    /\ UNCHANGED <<clock, mapVars, wake, deadline, callVars>>

\* The rest of what run does under the lock.
RunRemoves ==
    /\ loop = "top" /\ ~closed
    /\ entries' = removeExpired
    /\ stored' = [k \in Keys |-> IF entries'[k] = Nothing THEN 0 ELSE stored[k]]
    /\ \/ /\ Untils(entries') = {}
          /\ loop' = "empty" /\ deadline' = 0
       \/ /\ loop' = "timer" /\ deadline' \in First(entries')
    /\ UNCHANGED <<clock, closed, wake, callVars>>

RunWoken ==
    /\ loop \in {"empty", "timer"} /\ wake
    /\ wake' = FALSE /\ loop' = "top" /\ deadline' = 0
    /\ UNCHANGED <<clock, mapVars, callVars>>

TimerFires ==
    /\ loop = "timer" /\ deadline <= clock
    /\ loop' = "top" /\ deadline' = 0
    /\ UNCHANGED <<clock, mapVars, wake, callVars>>

Tick ==
    /\ clock < MaxTime
    /\ clock' = clock + 1
    /\ UNCHANGED <<mapVars, loopVars, callVars>>

-----------------------------------------------------------------------------
CallStep(c) ==
    \/ Refused(c) \/ storeIf(c) \/ storeIfDeclined(c) \/ Load(c) \/ LoadAndRefresh(c) \/ LoadMisses(c)
    \/ Close(c) \/ notify(c) \/ CloseReturns(c)

run == RunCloses \/ RunRemoves \/ RunWoken \/ TimerFires

Next ==
    \/ \E c \in Callers :
           \/ \E kind \in {"store", "storeIf", "load", "refresh"}, k \in Keys, v \in Values \cup {NoValue} :
                  Call(c, kind, k, v)
           \/ CallClose(c) \/ CallStep(c)
    \/ run \/ Tick

\* Goroutines that can run do, the lock is free after every step, and time passes.
Fairness == WF_vars(run) /\ WF_vars(Tick) /\ \A c \in Callers : WF_vars(CallStep(c))

Safety == Init /\ [][Next]_vars
Spec == Safety /\ Fairness

-----------------------------------------------------------------------------
\* The values of the variables; a closed map is nil.
TypeOK ==
    /\ clock \in 0..MaxTime /\ calls \in 0..MaxCalls
    /\ entries \in [Keys -> Entries]
    /\ closed \in BOOLEAN /\ wake \in BOOLEAN
    /\ closed => \A k \in Keys : entries[k] = Nothing
    /\ loop \in {"top", "empty", "timer", "ended"} /\ deadline \in 0..MaxTime
    /\ pc \in [Callers -> {"idle", "called", "notify", "wait"}]
    /\ op \in [Callers -> [kind : {"none", "store", "storeIf", "load", "refresh", "close"},
                           key : Keys, value : Values \cup {NoValue}, since : 0..LastCall,
                           seen : SUBSET Values]]
    /\ answer \in [Callers -> [ok : BOOLEAN, value : Values \cup {NoValue}]]
    /\ stored \in [Keys -> 0..MaxTime]

\* run never sleeps past an entry for longer than the entry's own lifetime:
\* although a delayed call can store an entry that expires before the one the
\* timer is set to, without waking the loop, the timer fires within a lifetime of
\* the moment it was stored.
TimerInTime ==
    \A k \in Keys : (loop = "timer" /\ entries[k] # Nothing) => deadline <= stored[k] + Lifetime

\* "entries are removed without lookup-time polling": an entry whose lifetime is
\* over is removed, whether or not anybody asks for it again.
ExpiredIsRemoved ==
    \A k \in Keys : (entries[k] # Nothing /\ entries[k].until <= clock)
                        ~> (entries[k] = Nothing \/ entries[k].until > clock)

\* Close returns, wherever run was and however many Close at once.
CloseEnds == \A c \in Callers : (pc[c] # "idle" /\ op[c].kind = "close") ~> pc[c] = "idle"

-----------------------------------------------------------------------------
(***************************************************************************)
(* What LifetimeMap sees of it.                                            *)
(***************************************************************************)
Live == [k \in Keys |-> IF entries[k].until > clock THEN entries[k] ELSE Nothing]

Asked == [c \in Callers |-> IF Asking(c) THEN op[c] ELSE [kind |-> "none"]]

LM == INSTANCE LifetimeMap WITH time <- clock, live <- Live, ended <- closed, ask <- Asked

\* The map with its lock, queue, timer and goroutine is a map whose entries vanish
\* when their lifetime ends: no call finds a value its key did not have while the
\* call ran, or misses one it had all the time.
IsLifetimeMap == LM!Spec
=============================================================================
