----------------------------- MODULE LifetimeMap -----------------------------
(***************************************************************************)
(* What expiringmap.Map promises, without its lock, queue, timer and       *)
(* goroutine: a map whose entries vanish at the very moment their lifetime *)
(* ends.  Calls take time.  A call may answer with any value its key had   *)
(* while it ran (seen), and with none if the key has none when it answers; *)
(* the lifetime of what it stores is counted from a moment of the call.    *)
(***************************************************************************)
EXTENDS Integers

CONSTANTS Callers, Keys, Values, NoValue, Lifetime

VARIABLES time, live, ended, ask, answer

vars == <<time, live, ended, ask, answer>>

Nothing == [value |-> NoValue, until |-> 0]
Quiet == [kind |-> "none"]
Yes(v) == [ok |-> TRUE, value |-> v]
No == [ok |-> FALSE, value |-> NoValue]

Init ==
    /\ time = 0 /\ ended = FALSE
    /\ live = [k \in Keys |-> Nothing]
    /\ ask = [c \in Callers |-> Quiet]
    /\ answer = [c \in Callers |-> No]

TimePasses ==
    /\ time' = time + 1
    /\ live' = [k \in Keys |-> IF live[k].until > time + 1 THEN live[k] ELSE Nothing]
    /\ UNCHANGED <<ended, ask, answer>>

Ends ==
    /\ ended' = TRUE
    /\ live' = [k \in Keys |-> Nothing]
    /\ UNCHANGED <<time, ask, answer>>

\* A call begins: Store and StoreIf have a value, Load and LoadAndRefresh none.
Ask(c, kind, k, v) ==
    /\ ask[c] = Quiet
    /\ v # NoValue <=> kind \in {"store", "storeIf"}
    /\ ask' = [ask EXCEPT ![c] = [kind |-> kind, key |-> k, value |-> v, since |-> time,
                                  seen |-> {live[k].value} \ {NoValue}]]
    /\ answer' = [answer EXCEPT ![c] = No]
    /\ UNCHANGED <<time, live, ended>>

Asks(c, kinds) == ask[c] # Quiet /\ ask[c].kind \in kinds

Answers(c, what) ==
    /\ answer' = [answer EXCEPT ![c] = what]
    /\ UNCHANGED <<time, ended>>

\* Nothing is stored.
Leaves(c) ==
    /\ ask' = [ask EXCEPT ![c] = Quiet]
    /\ UNCHANGED live

\* The key gets a value, for as long as is left of its lifetime.  Whoever asks
\* for the key, and did before that lifetime ends, has seen it.
Puts(c, v) ==
    \E t \in ask[c].since .. time :
        LET k == ask[c].key
            until == t + Lifetime
        IN  /\ live' = [live EXCEPT ![k] = IF until > time THEN [value |-> v, until |-> until]
                                           ELSE Nothing]
            /\ ask' = [d \in Callers |->
                   IF d = c THEN Quiet
                   ELSE IF ask[d] # Quiet /\ ask[d].key = k /\ until > ask[d].since
                   THEN [ask[d] EXCEPT !.seen = @ \cup {v}] ELSE ask[d]]

\* Store; and StoreIf, if the key has no value or had the same one.
Stores(c) ==
    /\ Asks(c, {"store", "storeIf"}) /\ ~ended
    /\ ask[c].kind = "storeIf" => live[ask[c].key] = Nothing \/ ask[c].value \in ask[c].seen
    /\ Puts(c, ask[c].value)
    /\ Answers(c, Yes(NoValue))

\* StoreIf, if the key had another value.
Declines(c) ==
    /\ Asks(c, {"storeIf"}) /\ ~ended /\ ask[c].seen \ {ask[c].value} # {}
    /\ Leaves(c)
    /\ Answers(c, No)

\* Load, and LoadAndRefresh.
Finds(c, v) ==
    /\ Asks(c, {"load", "refresh"}) /\ ~ended /\ v \in ask[c].seen
    /\ IF ask[c].kind = "refresh" THEN Puts(c, v) ELSE Leaves(c)
    /\ Answers(c, Yes(v))

FindsNothing(c) ==
    /\ Asks(c, {"load", "refresh"}) /\ live[ask[c].key] = Nothing
    /\ Leaves(c)
    /\ Answers(c, No)

Refuses(c) ==
    /\ ask[c] # Quiet /\ ended
    /\ Leaves(c)
    /\ Answers(c, No)

Next ==
    \/ TimePasses \/ Ends
    \/ \E c \in Callers : \/ Stores(c) \/ Declines(c) \/ FindsNothing(c) \/ Refuses(c)
                          \/ \E v \in Values : Finds(c, v)
    \/ \E c \in Callers, kind \in {"store", "storeIf", "load", "refresh"}, k \in Keys,
          v \in Values \cup {NoValue} : Ask(c, kind, k, v)

Spec == Init /\ [][Next]_vars
=============================================================================
