--------------------------- MODULE ProviderUpdate ---------------------------
(***************************************************************************)
(* A provider that replaces its outbounds and endpoints while the box runs *)
(* and while it is being closed (adapter/provider/adapter.go), a selector  *)
(* whose members are the provider's nodes (protocol/group/selector.go and  *)
(* provider_members.go), and Box.Close (box.go).                           *)
(*                                                                         *)
(* An update is what a remote provider's fetch or a local provider's       *)
(* reloadFile does with new content: UpdateOutbounds, UpdateEndpoints and  *)
(* UpdateGroups.  Updates of one provider exclude each other ("updating",  *)
(* "mu"); Box.Close does not wait for the one in flight.                   *)
(***************************************************************************)
EXTENDS Managers

CONSTANTS
    Contents,       \* what a download may hold: a sequence of nodes per kind
    GroupDefaults,  \* the values of the selector's option "default"
    Directs,        \* the values of its option "outbounds", configured members
    StoredTags,     \* the tags an earlier process may have stored
    NoTag,          \* the empty string
    MaxUpdates      \* bound on the updates

\* The tags of a download are those of resolveOutboundTags, all different.
ASSUME ProviderAssumption ==
    /\ NoTag \notin AllTags /\ CompatibleTag \notin Tags
    /\ MaxObjects \in Nat \ {0} /\ MaxUpdates \in Nat
    /\ GroupDefaults \subseteq AllTags \cup {NoTag} /\ StoredTags \subseteq AllTags \cup {NoTag}
    /\ Directs \subseteq Seq({Compatible})
    /\ \A c \in Contents, k \in Kinds :
          /\ c[k] \in Seq({c[k][i] : i \in DOMAIN c[k]})
          /\ \A i \in DOMAIN c[k] : c[k][i].tag \in Tags /\ c[k][i].via \subseteq AllTags
          /\ \A i, j \in DOMAIN c[k] : c[k][i].tag = c[k][j].tag => i = j

VARIABLES
    active,         \* a.outbounds and a.endpoints; None is a nil outbound
    lastOpts,       \* lastOutOpts and lastEPOpts, by tag
    upd,            \* the update in progress
    updates,        \* how many updates began
    box,            \* how far Box.Close got
    closing,        \* what Adapter.Close has still to remove, in order
    overlapped,     \* an update and Box.Close ran at the same time
    groupDefault, direct, members, selected,   \* the selector
    stored,         \* the tag StoreSelected saved in the cache file
    refused         \* the last onProviderUpdated returned an error

provVars == <<active, lastOpts, upd, updates, box, closing, overlapped>>
groupVars == <<groupDefault, direct, members, selected, stored, refused>>
vars == <<mgrVars, provVars, groupVars>>

NoOpts == [t \in Tags |-> None]
Idle == [pc |-> "idle"]

Elems(s) == {s[i] : i \in DOMAIN s}
TagsOf(s) == {tagOf[o] : o \in Elems(s)}
Alive == panicked = {}

-----------------------------------------------------------------------------
(* The members of the selector and its choice among them                   *)

Collected == active["outbound"] \o active["endpoint"]
Candidates == IF direct \o Collected = <<>> THEN <<Compatible>> ELSE direct \o Collected

\* A map by tag: of two members with one tag the later one counts, and a tag
\* that is not there gives nil.
ByTag(s, t) ==
    IF t \notin TagsOf(s) THEN None
    ELSE s[CHOOSE i \in DOMAIN s : tagOf[s[i]] = t /\ \A j \in DOMAIN s : tagOf[s[j]] = t => j <= i]

OutboundSelect(s) ==
    CASE stored \in TagsOf(s) -> ByTag(s, stored)
      [] stored \notin TagsOf(s) /\ groupDefault # NoTag -> ByTag(s, groupDefault)
      [] OTHER -> ByTag(s, tagOf[s[1]])

\* Mutant: the default is looked up without a test that it is there.
DefaultMissing_Untested(s) == FALSE

\* "default outbound not found"
DefaultMissing(s) == stored \notin TagsOf(s) /\ groupDefault \notin TagsOf(s) \cup {NoTag}

\* The selector has started, which fails if its default is missing, and the
\* provider has no nodes yet.
Init ==
    /\ MgrInit
    /\ active = [k \in Kinds |-> <<>>]
    /\ lastOpts = [k \in Kinds |-> NoOpts]
    /\ upd = Idle
    /\ updates = 0
    /\ box = "running"
    /\ closing = <<>>
    /\ overlapped = FALSE
    /\ groupDefault \in GroupDefaults
    /\ direct \in Directs
    /\ stored \in StoredTags
    /\ members = Candidates
    /\ ~DefaultMissing(members) /\ selected = OutboundSelect(members)
    /\ refused = FALSE

-----------------------------------------------------------------------------
(* UpdateOutbounds and UpdateEndpoints, which differ in the manager only   *)

Nodes == upd.new[upd.kind]
Node == Nodes[upd.i]
Names == {Nodes[i].tag : i \in DOMAIN Nodes}

Begin(k, c) ==
    upd' = [pc |-> "snap", kind |-> k, new |-> c, active |-> TagsOf(active[k]),
            snap |-> <<>>, i |-> 1, built |-> <<>>, fresh |-> None]

\* Nobody waits for an update: a response that was already read is applied,
\* and a callback of the file watcher runs, however far Box.Close has got.
UpdateBegin(c) ==
    /\ Alive /\ upd.pc = "idle" /\ updates < MaxUpdates
    /\ Begin("outbound", c)
    /\ updates' = updates + 1
    /\ overlapped' = (overlapped \/ box # "running")
    /\ UNCHANGED <<mgrVars, active, lastOpts, box, closing, groupVars>>

\* removeUseless copies the list; activeOutboundTags read it before.
UpdateSnap ==
    /\ Alive /\ upd.pc = "snap"
    /\ upd' = [upd EXCEPT !.pc = "nodes", !.snap = active[upd.kind]]
    /\ UNCHANGED <<mgrVars, active, lastOpts, updates, box, closing, overlapped, groupVars>>

UpdateRemove ==
    /\ Alive /\ upd.pc = "nodes" /\ upd.snap # <<>>
    /\ IF tagOf[Head(upd.snap)] \in Names THEN UNCHANGED mgrVars
       ELSE Remove(upd.kind, tagOf[Head(upd.snap)])
    /\ upd' = [upd EXCEPT !.snap = Tail(@)]
    /\ UNCHANGED <<active, lastOpts, updates, box, closing, overlapped, groupVars>>

AtNode == Alive /\ upd.pc = "nodes" /\ upd.snap = <<>> /\ upd.i <= Len(Nodes)

Reusable ==
    /\ Lookup(upd.kind, Node.tag) # None
    /\ Node.tag \in upd.active
    /\ Node.opt = lastOpts[upd.kind][Node.tag]

NodeKept ==
    /\ AtNode /\ Reusable
    /\ upd' = [upd EXCEPT !.built = Append(@, Lookup(upd.kind, Node.tag)), !.i = @ + 1]
    /\ UNCHANGED <<mgrVars, active, lastOpts, updates, box, closing, overlapped, groupVars>>

\* Create returns an error; a node that was active is removed, the new one is
\* skipped.
NodeSkipped ==
    /\ upd' = [upd EXCEPT !.pc = "nodes", !.i = @ + 1, !.fresh = None]
    /\ UNCHANGED <<active, lastOpts, updates, box, closing, overlapped, groupVars>>

NodeFails ==
    /\ AtNode /\ ~Reusable
    /\ IF Node.tag \in upd.active THEN Remove(upd.kind, Node.tag) ELSE UNCHANGED mgrVars
    /\ NodeSkipped

NodeCreated(pc, o) ==
    /\ upd' = [upd EXCEPT !.pc = pc, !.fresh = o]
    /\ UNCHANGED <<active, lastOpts, updates, box, closing, overlapped, groupVars>>

NodeStarts ==
    /\ AtNode /\ ~Reusable /\ upd.kind = "outbound"
    /\ CreateOutside(Node.tag, Node.via)
    /\ NodeCreated("locked", made + 1)

NodeInstalled ==
    /\ Alive /\ upd.pc = "locked"
    /\ CreateLocked(upd.fresh, Node.tag)
    /\ NodeCreated("lookup", None)

EndpointInstalled ==
    /\ AtNode /\ ~Reusable /\ upd.kind = "endpoint"
    /\ CreateEndpoint(Node.tag)
    /\ NodeCreated("lookup", None)

\* The old node's Close fails: the new one is dropped, then the old one, still
\* in its place, is removed.
OldCloseFails ==
    \/ /\ Alive /\ upd.pc = "locked"
       /\ CloseOldFails("outbound", upd.fresh, Node.tag, status)
       /\ UNCHANGED <<made, tagOf, deps>>
       /\ NodeCreated("remove", None)
    \/ /\ AtNode /\ ~Reusable /\ upd.kind = "endpoint"
       /\ NewEndpoint(Node.tag)
       /\ CloseOldFails("endpoint", made + 1, Node.tag, WithNewEndpoint)
       /\ NodeCreated("remove", None)

OldRemoved ==
    /\ Alive /\ upd.pc = "remove"
    /\ IF Node.tag \in upd.active THEN Remove(upd.kind, Node.tag) ELSE UNCHANGED mgrVars
    /\ NodeSkipped

\* The new node is looked up by its tag; nil if it was removed in between.
NodeLookedUp ==
    /\ Alive /\ upd.pc = "lookup"
    /\ upd' = [upd EXCEPT !.pc = "nodes", !.i = @ + 1,
                          !.built = Append(@, Lookup(upd.kind, Node.tag))]
    /\ UNCHANGED <<mgrVars, active, lastOpts, updates, box, closing, overlapped, groupVars>>

\* Mutant: an empty list is not published.
UpdatePublish_NotEmpty ==
    /\ Alive /\ upd.pc = "nodes" /\ upd.snap = <<>> /\ upd.i > Len(Nodes)
    /\ active' = IF upd.built = <<>> THEN active ELSE [active EXCEPT ![upd.kind] = upd.built]
    /\ lastOpts' = [lastOpts EXCEPT ![upd.kind] = [t \in Tags |->
                        IF \E i \in DOMAIN Nodes : Nodes[i].tag = t
                        THEN (CHOOSE n \in Elems(Nodes) : n.tag = t).opt ELSE None]]
    /\ IF upd.kind = "outbound" THEN Begin("endpoint", upd.new)
                                ELSE upd' = [Idle EXCEPT !.pc = "groups"]
    /\ UNCHANGED <<mgrVars, updates, box, closing, overlapped, groupVars>>

UpdatePublish ==
    /\ Alive /\ upd.pc = "nodes" /\ upd.snap = <<>> /\ upd.i > Len(Nodes)
    /\ active' = [active EXCEPT ![upd.kind] = upd.built]
    /\ lastOpts' = [lastOpts EXCEPT ![upd.kind] = [t \in Tags |->
                        IF \E i \in DOMAIN Nodes : Nodes[i].tag = t
                        THEN (CHOOSE n \in Elems(Nodes) : n.tag = t).opt ELSE None]]
    /\ IF upd.kind = "outbound" THEN Begin("endpoint", upd.new)
                                ELSE upd' = [Idle EXCEPT !.pc = "groups"]
    /\ UNCHANGED <<mgrVars, updates, box, closing, overlapped, groupVars>>

-----------------------------------------------------------------------------
(* UpdateGroups calls the selector's onProviderUpdated; the panel selects  *)

\* If the default is missing the callback's error is dropped and the selector
\* keeps the members it had.
UpdateGroups ==
    /\ Alive /\ upd.pc = "groups"
    /\ upd' = Idle
    /\ IF None \in Elems(Collected)
       THEN /\ panicked' = panicked \cup {"nil"}
            /\ UNCHANGED <<started, list, byTag, dependBy, made, tagOf, status, deps, dropped, members, selected, refused>>
       ELSE /\ UNCHANGED mgrVars
            /\ refused' = DefaultMissing(Candidates)
            /\ IF DefaultMissing(Candidates) THEN UNCHANGED <<members, selected>>
               ELSE members' = Candidates /\ selected' = OutboundSelect(Candidates)
    /\ UNCHANGED <<active, lastOpts, updates, box, closing, overlapped, groupDefault, direct, stored>>

\* The choice is stored only if it differs from the current one.
SelectOutbound(t) ==
    /\ Alive /\ t \in TagsOf(members)
    /\ ByTag(members, t) # selected
    /\ selected' = ByTag(members, t)
    /\ stored' = t
    /\ UNCHANGED <<mgrVars, provVars, groupDefault, direct, members, refused>>

-----------------------------------------------------------------------------
(* Box.Close: the endpoint manager, the provider, the outbound manager     *)

BoxStep(from, to) == Alive /\ box = from /\ box' = to

\* Mutant: the outbound manager is closed before the provider.
CloseEndpoints_OutboundsFirst ==
    /\ BoxStep("running", "endpoint")
    /\ CloseManager("outbound")
    /\ overlapped' = (upd.pc # "idle")
    /\ UNCHANGED <<active, lastOpts, upd, updates, closing, groupVars>>

\* At any time: a first fetch that fails is repeated in the background.
CloseEndpoints ==
    /\ BoxStep("running", "endpoint")
    /\ CloseManager("endpoint")
    /\ overlapped' = (upd.pc # "idle")
    /\ UNCHANGED <<active, lastOpts, upd, updates, closing, groupVars>>

\* Adapter.Close takes both lists, then removes what they hold by tag.
ProviderClose ==
    /\ BoxStep("endpoint", "provider")
    /\ closing' = [i \in DOMAIN Collected |->
                      [kind |-> IF i <= Len(active["outbound"]) THEN "outbound" ELSE "endpoint",
                       tag |-> tagOf[Collected[i]]]]
    /\ active' = [k \in Kinds |-> <<>>]
    /\ UNCHANGED <<mgrVars, lastOpts, upd, updates, overlapped, groupVars>>

ProviderRemoves ==
    /\ Alive /\ box = "provider" /\ closing # <<>>
    /\ Remove(Head(closing).kind, Head(closing).tag)
    /\ closing' = Tail(closing)
    /\ UNCHANGED <<active, lastOpts, upd, updates, box, overlapped, groupVars>>

CloseOutbounds ==
    /\ BoxStep("provider", "closed") /\ closing = <<>>
    /\ CloseManager("outbound")
    /\ UNCHANGED <<active, lastOpts, upd, updates, closing, overlapped, groupVars>>

-----------------------------------------------------------------------------
Next ==
    \/ \E c \in Contents : UpdateBegin(c)
    \/ UpdateSnap \/ UpdateRemove \/ NodeKept \/ NodeFails \/ NodeStarts \/ NodeInstalled
    \/ EndpointInstalled \/ OldCloseFails \/ OldRemoved \/ NodeLookedUp \/ UpdatePublish
    \/ UpdateGroups
    \/ \E t \in AllTags : SelectOutbound(t)
    \/ CloseEndpoints \/ ProviderClose \/ ProviderRemoves \/ CloseOutbounds

Spec == Init /\ [][Next]_vars

Quiet == Alive /\ box = "running" /\ upd.pc = "idle"

TypeOK ==
    /\ MgrTypeOK
    /\ active \in [Kinds -> Seq(Objects \cup {None})]
    /\ direct \in Seq(Objects) /\ members \in Seq(Objects) /\ selected \in Objects
    /\ stored \in AllTags \cup {NoTag} /\ groupDefault \in AllTags \cup {NoTag}
    /\ box \in {"running", "endpoint", "provider", "closed"}
    /\ updates \in 0..MaxUpdates /\ overlapped \in BOOLEAN /\ refused \in BOOLEAN

\* Between two updates the selector's members are exactly the provider's nodes,
\* all of them started and in their manager, and one of them is selected; unless
\* the selector's own default is not among them, when it refuses the update.
MembersOpen ==
    (Quiet /\ ~refused) =>
        /\ members = Candidates
        /\ \A o \in Elems(members) : status[o] = "started" /\ Lookup("outbound", tagOf[o]) # None
        /\ selected \in Elems(members)

\* Every started outbound or endpoint is in its manager's list, where a Remove,
\* a Create or a Close finds it, or about to be put there; the others were let
\* go of by Remove, which refuses to close a node others depend on after it
\* took it out of the list, or by Create, when the replaced node's Close fails.
\* Not so if an update overlaps Box.Close: Create reads m.started before it
\* locks, and a closed manager closes nothing that is installed after.
StartedIsManaged ==
    (Alive /\ ~overlapped) => \A o \in Objects : status[o] = "started" =>
        o \in list["outbound"] \cup list["endpoint"] \cup dropped
            \/ (upd.pc = "locked" /\ upd.fresh = o)

\* When Box.Close has returned everything is closed, unless Remove or Create
\* had dropped it or an update was running meanwhile.
ClosedAtEnd ==
    (box = "closed" /\ ~overlapped /\ Alive) =>
        \A o \in Objects \ dropped : status[o] # "started"

\* Without an update that overlaps Box.Close the outbound manager's map names
\* nothing its list does not hold, and no list holds a nil outbound: neither of
\* the manager's two "invalid inbound index" panics is reached, nor a nil Tag().
OutboundIndexValid == ~overlapped => panicked \cap {"outbound", "nil"} = {}

\* Likewise the endpoint manager's panic("invalid endpoint index") is not
\* reached when Box.Close runs with no update in progress.
EndpointIndexValid == ~overlapped => "endpoint" \notin panicked
=============================================================================
