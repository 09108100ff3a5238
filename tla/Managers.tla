------------------------------ MODULE Managers ------------------------------
(***************************************************************************)
(* The outbound manager (adapter/outbound/manager.go) and the endpoint     *)
(* manager (adapter/endpoint/manager.go) of a running box.                 *)
(*                                                                         *)
(* The two keep the same state: a list, a map by tag and "started".  They  *)
(* differ in what the operations do under the lock, so an operation takes  *)
(* the kind of the manager.  Outbounds and endpoints are objects, numbered *)
(* as they are created; object 1 is the configured outbound "Compatible",  *)
(* which box.go adds to every configuration.  The list is a set here: its  *)
(* order only tells which outbound becomes the default when the default    *)
(* one is removed, and the default is always a configured outbound.        *)
(***************************************************************************)
EXTENDS Integers, Sequences, FiniteSets

CONSTANTS
    Tags,           \* the tags of the nodes of a provider
    CompatibleTag,  \* the tag of the outbound "Compatible"
    MaxObjects      \* bound on the outbounds and endpoints ever created

Kinds == {"outbound", "endpoint"}
AllTags == Tags \cup {CompatibleTag}
Objects == 1..MaxObjects
None == 0
Compatible == 1

VARIABLES
    started,        \* m.started of either manager
    list,           \* m.outbounds and m.endpoints
    byTag,          \* m.outboundByTag and m.endpointByTag
    dependBy,       \* m.dependByTag of the outbound manager: a slice of tags is
                    \* the set of the objects that appended theirs
    made,           \* how many objects were created
    tagOf, status,  \* of every object: its tag; none, new, started or closed
    deps,           \* of every object: Dependencies(), the tag of its detour
    dropped,        \* started, and let go of by the manager without a Close
    panicked        \* the panics the process died of

mgrVars == <<started, list, byTag, dependBy, made, tagOf, status, deps, dropped, panicked>>

MgrInit ==
    /\ started = [k \in Kinds |-> TRUE]
    /\ list = [k \in Kinds |-> IF k = "outbound" THEN {Compatible} ELSE {}]
    /\ byTag = [k \in Kinds |-> [t \in AllTags |->
                    IF k = "outbound" /\ t = CompatibleTag THEN Compatible ELSE None]]
    /\ dependBy = [t \in AllTags |-> {}]
    /\ deps = [o \in Objects |-> {}]
    /\ made = 1
    /\ tagOf = [o \in Objects |-> CompatibleTag]
    /\ status = [o \in Objects |-> IF o = Compatible THEN "started" ELSE "none"]
    /\ dropped = {}
    /\ panicked = {}

\* Manager.Outbound asks the endpoint manager for a tag that it does not know.
Lookup(k, t) ==
    IF k = "outbound" /\ byTag[k][t] = None THEN byTag["endpoint"][t] ELSE byTag[k][t]

-----------------------------------------------------------------------------
(* Remove                                                                  *)

Forget(k, t) == byTag' = [byTag EXCEPT ![k][t] = None]

RemoveUnknown(k, t) == byTag[k][t] = None /\ UNCHANGED mgrVars

\* The tag is deleted, then the object is not in the list.
RemoveLost(k, t) ==
    /\ byTag[k][t] # None /\ byTag[k][t] \notin list[k]
    /\ Forget(k, t)
    /\ panicked' = panicked \cup {k}
    /\ UNCHANGED <<started, list, dependBy, made, tagOf, status, deps, dropped>>

\* The dependents are looked at after the outbound left the list and the map.
RemoveRefused(t) ==
    LET o == byTag["outbound"][t] IN
    /\ o # None /\ o \in list["outbound"] /\ dependBy[t] # {}
    /\ Forget("outbound", t)
    /\ list' = [list EXCEPT !["outbound"] = @ \ {o}]
    /\ dropped' = dropped \cup {o}
    /\ UNCHANGED <<started, dependBy, made, tagOf, status, deps, panicked>>

\* A slice of length one is deleted whatever it holds.
Undepend(o) ==
    [d \in AllTags |-> IF d \notin deps[o] THEN dependBy[d]
                       ELSE IF Cardinality(dependBy[d]) = 1 THEN {}
                       ELSE {x \in dependBy[d] : tagOf[x] # tagOf[o]}]

RemoveCloses(k, t) ==
    LET o == byTag[k][t] IN
    /\ o # None /\ o \in list[k] /\ (k = "outbound" => dependBy[t] = {})
    /\ Forget(k, t)
    /\ list' = [list EXCEPT ![k] = @ \ {o}]
    /\ dependBy' = IF k = "outbound" THEN Undepend(o) ELSE dependBy
    /\ status' = IF started[k] THEN [status EXCEPT ![o] = "closed"] ELSE status
    /\ UNCHANGED <<started, made, tagOf, deps, dropped, panicked>>

Remove(k, t) ==
    \/ RemoveUnknown(k, t) \/ RemoveLost(k, t) \/ RemoveCloses(k, t)
    \/ k = "outbound" /\ RemoveRefused(t)

-----------------------------------------------------------------------------
(* Create                                                                  *)

\* The new outbound is started before the lock is taken, on an unlocked read
\* of m.started.
CreateOutside(t, ds) ==
    /\ made < MaxObjects
    /\ made' = made + 1
    /\ tagOf' = [tagOf EXCEPT ![made + 1] = t]
    /\ deps' = [deps EXCEPT ![made + 1] = ds]
    /\ status' = [status EXCEPT ![made + 1] = IF started["outbound"] THEN "started" ELSE "new"]
    /\ UNCHANGED <<started, list, byTag, dependBy, dropped, panicked>>

\* Mutant: the replaced object is not closed.
Replace_LeavesOld(k, o, t, st) ==
    LET old == byTag[k][t] IN
    /\ status' = st
    /\ IF old # None /\ old \notin list[k]
       THEN /\ panicked' = panicked \cup {k}
            /\ UNCHANGED <<list, byTag, dependBy>>
       ELSE /\ list' = [list EXCEPT ![k] = (@ \ {old}) \cup {o}]
            /\ byTag' = [byTag EXCEPT ![k][t] = o]
            /\ dependBy' = IF k = "endpoint" THEN dependBy
                           ELSE [d \in AllTags |-> IF d \in deps[o] THEN dependBy[d] \cup {o}
                                                                   ELSE dependBy[d]]
            /\ UNCHANGED panicked
    /\ UNCHANGED <<started, dropped>>

\* Under the lock object o takes the place of what the tag named before; what
\* the old object depended on stays in dependByTag.
Replace(k, o, t, st) ==
    LET old == byTag[k][t] IN
    /\ status' = IF started[k] /\ old # None THEN [st EXCEPT ![old] = "closed"] ELSE st
    /\ IF old # None /\ old \notin list[k]
       THEN /\ panicked' = panicked \cup {k}
            /\ UNCHANGED <<list, byTag, dependBy>>
       ELSE /\ list' = [list EXCEPT ![k] = (@ \ {old}) \cup {o}]
            /\ byTag' = [byTag EXCEPT ![k][t] = o]
            /\ dependBy' = IF k = "endpoint" THEN dependBy
                           ELSE [d \in AllTags |-> IF d \in deps[o] THEN dependBy[d] \cup {o}
                                                                   ELSE dependBy[d]]
            /\ UNCHANGED panicked
    /\ UNCHANGED <<started, dropped>>

CreateLocked(o, t) == Replace("outbound", o, t, status) /\ UNCHANGED <<made, tagOf, deps>>

\* An endpoint is created, started and put in its place under one lock.
NewEndpoint(t) ==
    /\ made < MaxObjects
    /\ made' = made + 1
    /\ tagOf' = [tagOf EXCEPT ![made + 1] = t]
    /\ UNCHANGED deps

WithNewEndpoint ==
    [status EXCEPT ![made + 1] = IF started["endpoint"] THEN "started" ELSE "new"]

CreateEndpoint(t) == NewEndpoint(t) /\ Replace("endpoint", made + 1, t, WithNewEndpoint)

\* Closing the replaced object fails: Create returns, the old object keeps its
\* place and nobody holds the new one.
CloseOldFails(k, o, t, st) ==
    /\ started[k] /\ byTag[k][t] # None
    /\ status' = [st EXCEPT ![byTag[k][t]] = "closed"]
    /\ dropped' = IF st[o] = "started" THEN dropped \cup {o} ELSE dropped
    /\ UNCHANGED <<started, list, byTag, dependBy, panicked>>

-----------------------------------------------------------------------------
\* Mutant: the early return has the opposite test.
CloseManager_Inverted(k) == started[k] /\ UNCHANGED mgrVars

\* Close empties the list and not the map; a second Close does nothing.
CloseManager(k) ==
    /\ started' = [started EXCEPT ![k] = FALSE]
    /\ IF ~started[k] THEN UNCHANGED <<list, status>>
       ELSE /\ list' = [list EXCEPT ![k] = {}]
            /\ status' = [o \in Objects |-> IF o \in list[k] THEN "closed" ELSE status[o]]
    /\ UNCHANGED <<byTag, dependBy, made, tagOf, deps, dropped, panicked>>

MgrTypeOK ==
    /\ started \in [Kinds -> BOOLEAN]
    /\ list \in [Kinds -> SUBSET Objects]
    /\ byTag \in [Kinds -> [AllTags -> Objects \cup {None}]]
    /\ dependBy \in [AllTags -> SUBSET Objects] /\ deps \in [Objects -> SUBSET AllTags]
    /\ made \in Objects
    /\ tagOf \in [Objects -> AllTags]
    /\ status \in [Objects -> {"none", "new", "started", "closed"}]
    /\ dropped \subseteq Objects
    /\ panicked \subseteq Kinds \cup {"nil"}
=============================================================================
