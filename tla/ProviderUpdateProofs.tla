------------------------ MODULE ProviderUpdateProofs ------------------------
(***************************************************************************)
(* Proofs about ProviderUpdate: what an update and Box.Close keep true of  *)
(* the two managers, the provider's lists and the selector, for every set  *)
(* of tags and downloads and any number of updates and objects.            *)
(***************************************************************************)
EXTENDS ProviderUpdate, TLAPS

-----------------------------------------------------------------------------
(* The inductive invariant                                                 *)

Live == Alive /\ ~overlapped
Running == Alive /\ box = "running"

Places == {"snap", "nodes", "locked", "lookup", "remove"}

\* An update in one of the loops of UpdateOutbounds and UpdateEndpoints.
Working ==
    [pc : Places, kind : Kinds, new : Contents,
     active : SUBSET AllTags, snap : Seq(Objects), i : Nat \ {0},
     built : Seq(Objects \cup {None}), fresh : Objects \cup {None}]

AtCreate == upd.pc \in {"locked", "lookup", "remove"}

UpdateShape ==
    /\ upd \in Working \cup {Idle, [pc |-> "groups"]}
    /\ upd.pc = "snap" => upd.i = 1 /\ upd.built = <<>>
    /\ AtCreate => upd.i <= Len(Nodes) /\ upd.snap = <<>>
    /\ upd.pc = "locked" => /\ upd.kind = "outbound" /\ upd.fresh \in 1..made
                            /\ tagOf[upd.fresh] = Node.tag
                            /\ \A k \in Kinds : upd.fresh \notin list[k]

\* Before Adapter.Close nobody removes what an update installed.
BeforeProvider == box \in {"running", "endpoint"}
Solid ==
    /\ \A k \in Kinds : active[k] \in Seq(Objects)
    /\ upd \in Working => upd.built \in Seq(Objects)
    /\ upd.pc = "lookup" => byTag[upd.kind][Node.tag] # None

\* A nil outbound is published only where UpdateGroups meets it next.
NilFree(k) == upd.pc = "idle" \/ (upd.pc # "groups" /\ upd.kind \in {k, "outbound"})

BoxShape ==
    /\ started["endpoint"] = (box = "running")
    /\ started["outbound"] = (box # "closed")
    /\ box = "running" => ~overlapped
    /\ (box # "running" /\ ~overlapped) => upd.pc = "idle"

Base ==
    /\ TypeOK /\ UpdateShape /\ BoxShape
    /\ \A k \in Kinds : list[k] \subseteq 1..made
    /\ direct \in Seq({Compatible}) /\ members # <<>>
    /\ closing \in Seq([kind : Kinds, tag : AllTags])
    /\ Alive => \A k \in Kinds : NilFree(k) => active[k] \in Seq(Objects)
    /\ Alive /\ BeforeProvider => Solid

\* What the maps name has that tag and is in the manager's list; the lists
\* hold different objects, and none once their manager is closed.
Placed ==
    /\ \A k \in Kinds : ~started[k] => list[k] = {}
    /\ \A k \in Kinds, t \in AllTags : byTag[k][t] # None =>
          tagOf[byTag[k][t]] = t /\ (started[k] => byTag[k][t] \in list[k])
    /\ list["outbound"] \cap list["endpoint"] = {}

\* What the maps name is started, but for the node whose Close just failed.
Healthy ==
    \A k \in Kinds, t \in AllTags : byTag[k][t] # None =>
        \/ status[byTag[k][t]] = "started"
        \/ upd.pc = "remove" /\ upd.kind = k /\ Node.tag = t

\* The provider's list is what the manager holds under the provider's tags.
Settled(k) == Elems(active[k]) = {byTag[k][t] : t \in Tags} \ {None}

Named(k) == {t \in Tags : byTag[k][t] # None}

\* How far an update has got with the nodes of its kind: the ones before i are
\* built or gone, the others are as they were, and what the download does not
\* name is still to be removed.
Progress ==
    /\ Elems(upd.built) = {byTag[upd.kind][Nodes[j].tag] : j \in 1..(upd.i - 1)} \ {None}
    /\ upd.i <= Len(Nodes) + 1
    /\ Named(upd.kind) \subseteq Names \cup TagsOf(upd.snap) /\ TagsOf(upd.snap) \subseteq Tags
    /\ \A j \in DOMAIN Nodes : j > upd.i \/ (j = upd.i /\ upd.pc \in {"nodes", "locked"}) =>
          (byTag[upd.kind][Nodes[j].tag] # None <=> Nodes[j].tag \in upd.active)
    /\ upd.pc = "locked" => status[upd.fresh] = "started"
    /\ upd.pc = "remove" => Node.tag \in upd.active

Current ==
    /\ byTag["outbound"][CompatibleTag] = Compatible
    /\ Healthy
    /\ upd.pc \in {"idle", "groups", "snap"} => \A k \in Kinds : Settled(k)
    /\ upd.pc = "snap" => upd.active = Named(upd.kind)
    /\ upd.pc = "nodes" \/ AtCreate =>
          Progress /\ \A k \in Kinds \ {upd.kind} : Settled(k)

Safe ==
    /\ Live => Placed
    /\ StartedIsManaged
    /\ OutboundIndexValid

Inv ==
    /\ Base
    /\ Safe
    /\ Running => Current
    /\ MembersOpen

-----------------------------------------------------------------------------
(* Sequences and the objects in them                                       *)

\* A set of positions of a sequence that is not empty has a last one.  The lemmas
\* have this as a hypothesis, so that only its proof, at the end of the module,
\* needs the theorems about well-founded orders.
HasLast ==
    \A n \in Nat : \A S \in SUBSET (1..n) : S # {} => \E i \in S : \A j \in S : j <= i

\* The objects of a sequence are of the type of its elements,
LEMMA ElemsType ==
    ASSUME NEW S, NEW s \in Seq(S)
    PROVE  Elems(s) \subseteq S
BY DEF Elems

\* and a sequence is one over any set that has its objects.
LEMMA ElemsBack ==
    ASSUME NEW S, NEW T, NEW s \in Seq(S), Elems(s) \subseteq T
    PROVE  s \in Seq(T)
<1>1. Len(s) \in Nat /\ s \in [1..Len(s) -> S] /\ DOMAIN s = 1..Len(s)
    OBVIOUS
<1>2. \A i \in 1..Len(s) : s[i] \in T
    BY <1>1, Zenon DEF Elems
<1> QED BY <1>1, <1>2

\* A function on 1..n is a sequence.
LEMMA FunctionIsSeq ==
    ASSUME NEW S, NEW n \in Nat, NEW f \in [1..n -> S]
    PROVE  f \in Seq(S)
OBVIOUS

\* Only the empty sequence has no objects.
LEMMA ElemsEmpty ==
    ASSUME NEW S, NEW s \in Seq(S)
    PROVE  Elems(s) = {} <=> s = <<>>
BY DEF Elems

\* Append adds its object,
LEMMA ElemsAppend ==
    ASSUME NEW S, NEW s \in Seq(S), NEW o \in S
    PROVE  Append(s, o) \in Seq(S) /\ Elems(Append(s, o)) = Elems(s) \cup {o}
<1>1. /\ Append(s, o) \in Seq(S)
      /\ Len(s) \in Nat /\ DOMAIN s = 1..Len(s)
      /\ DOMAIN Append(s, o) = 1..(Len(s) + 1)
      /\ \A i \in 1..Len(s) : Append(s, o)[i] = s[i]
      /\ Append(s, o)[Len(s) + 1] = o
    OBVIOUS
<1>2. \A i \in 1..(Len(s) + 1) : i \in 1..Len(s) \/ i = Len(s) + 1
    BY <1>1
<1>3. 1..Len(s) \subseteq 1..(Len(s) + 1) /\ Len(s) + 1 \in 1..(Len(s) + 1)
    BY <1>1
<1> QED BY <1>1, <1>2, <1>3, Zenon DEF Elems

\* Tail leaves out at most the head,
LEMMA ElemsTail ==
    ASSUME NEW S, NEW s \in Seq(S), s # <<>>
    PROVE  /\ Tail(s) \in Seq(S) /\ Head(s) \in S
           /\ Elems(s) = {Head(s)} \cup Elems(Tail(s))
<1>1. /\ Tail(s) \in Seq(S) /\ Head(s) \in S /\ Head(s) = s[1]
      /\ Len(s) \in Nat /\ DOMAIN s = 1..Len(s) /\ 1 \in 1..Len(s)
      /\ DOMAIN Tail(s) = 1..(Len(s) - 1)
      /\ \A i \in 1..(Len(s) - 1) : Tail(s)[i] = s[i + 1] /\ i + 1 \in 1..Len(s)
    OBVIOUS
<1>2. \A i \in 1..Len(s) : i = 1 \/ (i - 1 \in 1..(Len(s) - 1) /\ (i - 1) + 1 = i)
    BY <1>1
<1>3. Elems(s) \subseteq {Head(s)} \cup Elems(Tail(s))
  <2> SUFFICES ASSUME NEW i \in 1..Len(s) PROVE s[i] \in {Head(s)} \cup Elems(Tail(s))
      BY <1>1, ZenonT(60) DEF Elems
  <2>1. CASE i = 1
      BY <1>1, <2>1, Zenon
  <2>2. CASE i - 1 \in 1..(Len(s) - 1) /\ (i - 1) + 1 = i
    <3> DEFINE j == i - 1
    <3>1. j \in 1..(Len(s) - 1) /\ j + 1 = i
        BY <2>2
    <3>2. Tail(s)[j] = s[j + 1]
        BY <1>1, <3>1, Zenon
    <3> QED BY <1>1, <3>1, <3>2, Zenon DEF Elems
  <2> QED BY <1>2, <2>1, <2>2, Zenon
<1>4. Head(s) \in Elems(s)
    BY <1>1, Zenon DEF Elems
<1>5. Elems(Tail(s)) \subseteq Elems(s)
  <2> SUFFICES ASSUME NEW i \in 1..(Len(s) - 1) PROVE Tail(s)[i] \in Elems(s)
      BY <1>1, Zenon DEF Elems
  <2> QED BY <1>1, Zenon DEF Elems
<1> QED BY <1>1, <1>3, <1>4, <1>5, Zenon

\* and a concatenation has the objects of both.
LEMMA ElemsConcat ==
    ASSUME NEW S, NEW s \in Seq(S), NEW t \in Seq(S)
    PROVE  s \o t \in Seq(S) /\ Elems(s \o t) = Elems(s) \cup Elems(t)
<1>1. /\ s \o t \in Seq(S)
      /\ Len(s) \in Nat /\ DOMAIN s = 1..Len(s) /\ Len(t) \in Nat /\ DOMAIN t = 1..Len(t)
      /\ DOMAIN (s \o t) = 1..(Len(s) + Len(t))
      /\ \A i \in 1..Len(s) : (s \o t)[i] = s[i] /\ i \in 1..(Len(s) + Len(t))
      /\ \A i \in 1..Len(t) : (s \o t)[Len(s) + i] = t[i] /\ Len(s) + i \in 1..(Len(s) + Len(t))
    OBVIOUS
<1>2. \A i \in 1..(Len(s) + Len(t)) :
        i \in 1..Len(s) \/ (i - Len(s) \in 1..Len(t) /\ Len(s) + (i - Len(s)) = i)
    BY <1>1
<1>3. Elems(s \o t) \subseteq Elems(s) \cup Elems(t)
  <2> SUFFICES ASSUME NEW i \in 1..(Len(s) + Len(t)) PROVE (s \o t)[i] \in Elems(s) \cup Elems(t)
      BY <1>1, Zenon DEF Elems
  <2>1. CASE i \in 1..Len(s)
      BY <1>1, <2>1, Zenon DEF Elems
  <2>2. CASE i - Len(s) \in 1..Len(t) /\ Len(s) + (i - Len(s)) = i
    <3> DEFINE j == i - Len(s)
    <3>1. j \in 1..Len(t) /\ Len(s) + j = i
        BY <2>2
    <3>2. (s \o t)[Len(s) + j] = t[j]
        BY <1>1, <3>1, Zenon
    <3> QED BY <1>1, <3>1, <3>2, Zenon DEF Elems
  <2> QED BY <1>2, <2>1, <2>2, Zenon
<1>4. Elems(s) \subseteq Elems(s \o t)
    BY <1>1, Zenon DEF Elems
<1>5. Elems(t) \subseteq Elems(s \o t)
    BY <1>1, Zenon DEF Elems
<1> QED BY <1>1, <1>3, <1>4, <1>5, Zenon

\* A tag that some member has names one of the members.
LEMMA ByTagMember ==
    ASSUME HasLast, NEW s \in Seq(Objects), NEW t \in TagsOf(s)
    PROVE  ByTag(s, t) \in Elems(s)
<1> DEFINE S == {i \in DOMAIN s : tagOf[s[i]] = t}
<1>1. Len(s) \in Nat /\ DOMAIN s = 1..Len(s)
    OBVIOUS
<1>2. S \subseteq 1..Len(s) /\ S # {}
    BY <1>1, Zenon DEF TagsOf, Elems
<1>3. \E i \in S : \A j \in S : j <= i
  <2> HIDE DEF S
  <2> QED BY <1>1, <1>2, Zenon DEF HasLast
<1>4. \E i \in DOMAIN s : tagOf[s[i]] = t /\ \A j \in DOMAIN s : tagOf[s[j]] = t => j <= i
    BY <1>3, Zenon
<1> QED BY <1>4, Zenon DEF ByTag, Elems

\* A selector with members that does not miss its default selects a member.
LEMMA SelectsMember ==
    ASSUME HasLast, NEW s \in Seq(Objects), s # <<>>, ~DefaultMissing(s)
    PROVE  OutboundSelect(s) \in Elems(s)
<1>1. 1 \in DOMAIN s
    OBVIOUS
<1>2. tagOf[s[1]] \in TagsOf(s)
    BY <1>1, Zenon DEF TagsOf, Elems
<1>3. CASE stored \in TagsOf(s)
    BY <1>3, ByTagMember, Zenon DEF OutboundSelect
<1>4. CASE stored \notin TagsOf(s) /\ groupDefault # NoTag
  <2>1. groupDefault \in TagsOf(s)
      BY <1>4, Zenon DEF DefaultMissing
  <2> QED BY <1>4, <2>1, ByTagMember DEF OutboundSelect
<1>5. CASE stored \notin TagsOf(s) /\ groupDefault = NoTag
    BY <1>5, <1>2, ByTagMember DEF OutboundSelect
<1> QED BY <1>3, <1>4, <1>5, Zenon

-----------------------------------------------------------------------------
(* What Remove, Create and Close do to the managers                        *)

Statuses == {"none", "new", "started", "closed"}

\* nil is no object.
LEMMA NoneIsNoObject == None \notin Objects
BY DEF None, Objects

\* What a tag names is an object or nil.
LEMMA NamedType ==
    ASSUME MgrTypeOK, NEW k \in Kinds, NEW t \in AllTags
    PROVE  byTag[k][t] \in Objects \cup {None}
<1>1. byTag \in [Kinds -> [AllTags -> Objects \cup {None}]]
    BY Zenon DEF MgrTypeOK
<1>2. byTag[k] \in [AllTags -> Objects \cup {None}]
    BY <1>1, Zenon
<1> QED BY <1>2, Zenon

\* Remove takes a tag out of the map, the object it named out of the list, and
\* leaves the others alone; the object is closed or dropped if it was there.
LEMMA RemoveStep ==
    ASSUME MgrTypeOK, NEW k \in Kinds, NEW t \in AllTags, Remove(k, t)
    PROVE  /\ MgrTypeOK'
           /\ started' = started /\ made' = made /\ tagOf' = tagOf
           /\ byTag' = [byTag EXCEPT ![k][t] = None]
           /\ list' = [list EXCEPT ![k] = @ \ {byTag[k][t]}]
           /\ dropped \subseteq dropped'
           /\ \A x \in Objects : x # byTag[k][t] => status'[x] = status[x]
           /\ \A x \in Objects : status'[x] = "started" => status[x] = "started"
           /\ (byTag[k][t] \in list[k] /\ started[k]) =>
                 status'[byTag[k][t]] # "started" \/ byTag[k][t] \in dropped'
           /\ \/ panicked' = panicked
              \/ panicked' = panicked \cup {k} /\ byTag[k][t] # None /\ byTag[k][t] \notin list[k]
<1> DEFINE o == byTag[k][t]
<1>1. /\ started \in [Kinds -> BOOLEAN] /\ list \in [Kinds -> SUBSET Objects]
      /\ byTag \in [Kinds -> [AllTags -> Objects \cup {None}]]
      /\ dependBy \in [AllTags -> SUBSET Objects] /\ deps \in [Objects -> SUBSET AllTags]
      /\ made \in Objects /\ tagOf \in [Objects -> AllTags]
      /\ status \in [Objects -> Statuses] /\ dropped \subseteq Objects
      /\ panicked \subseteq Kinds \cup {"nil"}
    BY Zenon DEF MgrTypeOK, Statuses
<1>2. o \in Objects \cup {None} /\ None \notin Objects /\ list[k] \subseteq Objects
    BY <1>1, NoneIsNoObject, NamedType, Zenon
<1>3. [byTag EXCEPT ![k][t] = None] \in [Kinds -> [AllTags -> Objects \cup {None}]]
    BY <1>1, Zenon
<1>4. [list EXCEPT ![k] = @ \ {o}] \in [Kinds -> SUBSET Objects]
    BY <1>1, Zenon
<1>5. CASE RemoveUnknown(k, t)
  <2>1. o = None /\ UNCHANGED mgrVars
      BY <1>5, Zenon DEF RemoveUnknown
  <2>2. UNCHANGED <<started, list, byTag, dependBy, made, tagOf, status, deps, dropped, panicked>>
      BY <2>1, Zenon DEF mgrVars
  <2>3. MgrTypeOK'
      BY <2>2, Zenon DEF MgrTypeOK
  <2>4. byTag = [byTag EXCEPT ![k][t] = None]
    <3>1. byTag[k] = [byTag[k] EXCEPT ![t] = None]
        BY <1>1, <2>1, Zenon
    <3> QED BY <1>1, <3>1, Zenon
  <2>5. list = [list EXCEPT ![k] = @ \ {o}]
    <3>1. list[k] = list[k] \ {o}
        BY <1>2, <2>1, Zenon
    <3> QED BY <1>1, <3>1, Zenon
  <2> QED BY <1>2, <2>1, <2>2, <2>3, <2>4, <2>5, Zenon
<1>6. CASE RemoveLost(k, t)
  <2>1. /\ o # None /\ o \notin list[k]
        /\ byTag' = [byTag EXCEPT ![k][t] = None] /\ panicked' = panicked \cup {k}
        /\ UNCHANGED <<started, list, dependBy, made, tagOf, status, deps, dropped>>
      BY <1>6, Zenon DEF RemoveLost, Forget
  <2>2. MgrTypeOK'
      BY <1>1, <1>3, <2>1, Zenon DEF MgrTypeOK, Statuses
  <2>3. list = [list EXCEPT ![k] = @ \ {o}]
    <3>1. list[k] = list[k] \ {o}
        BY <1>2, <2>1, Zenon
    <3> QED BY <1>1, <3>1, Zenon
  <2> QED BY <1>2, <2>1, <2>2, <2>3, Zenon
<1>7. CASE k = "outbound" /\ RemoveRefused(t)
  <2>1. /\ o # None /\ o \in list[k]
        /\ byTag' = [byTag EXCEPT ![k][t] = None]
        /\ list' = [list EXCEPT ![k] = @ \ {o}]
        /\ dropped' = dropped \cup {o}
        /\ UNCHANGED <<started, dependBy, made, tagOf, status, deps, panicked>>
      BY <1>7, Zenon DEF RemoveRefused, Forget
  <2>2. MgrTypeOK'
      BY <1>1, <1>2, <1>3, <1>4, <2>1, Zenon DEF MgrTypeOK, Statuses
  <2> QED BY <1>2, <2>1, <2>2, Zenon
<1>8. CASE RemoveCloses(k, t)
  <2>1. /\ o # None /\ o \in list[k]
        /\ byTag' = [byTag EXCEPT ![k][t] = None]
        /\ list' = [list EXCEPT ![k] = @ \ {o}]
        /\ dependBy' = IF k = "outbound" THEN Undepend(o) ELSE dependBy
        /\ status' = IF started[k] THEN [status EXCEPT ![o] = "closed"] ELSE status
        /\ UNCHANGED <<started, made, tagOf, deps, dropped, panicked>>
      BY <1>8, Zenon DEF RemoveCloses, Forget
  <2>2. o \in Objects
      BY <1>2, <2>1, Zenon
  <2>3. Undepend(o) \in [AllTags -> SUBSET Objects]
      BY <1>1, <2>2, Zenon DEF Undepend
  <2>4. dependBy' \in [AllTags -> SUBSET Objects]
      BY <1>1, <2>1, <2>3, Zenon
  <2>5. [status EXCEPT ![o] = "closed"] \in [Objects -> Statuses]
      BY <1>1, <2>2, Zenon DEF Statuses
  <2>6. status' \in [Objects -> Statuses]
      BY <1>1, <2>1, <2>5, Zenon
  <2>7. MgrTypeOK'
      BY <1>1, <1>3, <1>4, <2>1, <2>4, <2>6, Zenon DEF MgrTypeOK, Statuses
  <2>8. /\ \A x \in Objects : x # o => status'[x] = status[x]
        /\ \A x \in Objects : status'[x] = "started" => status[x] = "started"
        /\ started[k] => status'[o] # "started"
      BY <1>1, <2>1, <2>2
  <2> QED BY <2>1, <2>7, <2>8, Zenon
<1> QED BY <1>5, <1>6, <1>7, <1>8, Zenon DEF Remove

\* Under the lock of Create the new object takes the place of the old one,
\* which is closed, or the old one is not in the list and the manager panics.
LEMMA ReplaceStep ==
    ASSUME MgrTypeOK, NEW k \in Kinds, NEW t \in AllTags, NEW o \in Objects,
           NEW st \in [Objects -> Statuses], Replace(k, o, t, st)
    PROVE  /\ list' \in [Kinds -> SUBSET Objects]
           /\ byTag' \in [Kinds -> [AllTags -> Objects \cup {None}]]
           /\ dependBy' \in [AllTags -> SUBSET Objects]
           /\ status' \in [Objects -> Statuses]
           /\ panicked' \subseteq Kinds \cup {"nil"}
           /\ started' = started /\ dropped' = dropped
           /\ \A x \in Objects : x # byTag[k][t] => status'[x] = st[x]
           /\ byTag[k][t] \in Objects /\ started[k] => status'[byTag[k][t]] = "closed"
           /\ \A x \in Objects : status'[x] = "started" => st[x] = "started"
           /\ \/ /\ panicked' = panicked
                 /\ byTag' = [byTag EXCEPT ![k][t] = o]
                 /\ list' = [list EXCEPT ![k] = (@ \ {byTag[k][t]}) \cup {o}]
              \/ /\ panicked' = panicked \cup {k}
                 /\ byTag[k][t] # None /\ byTag[k][t] \notin list[k]
<1> DEFINE old == byTag[k][t]
<1>1. /\ started \in [Kinds -> BOOLEAN] /\ list \in [Kinds -> SUBSET Objects]
      /\ byTag \in [Kinds -> [AllTags -> Objects \cup {None}]]
      /\ dependBy \in [AllTags -> SUBSET Objects] /\ deps \in [Objects -> SUBSET AllTags]
      /\ panicked \subseteq Kinds \cup {"nil"}
    BY Zenon DEF MgrTypeOK
<1>2. old \in Objects \cup {None} /\ None \notin Objects
    BY <1>1, NoneIsNoObject, NamedType, Zenon
<1>3. /\ status' = IF started[k] /\ old # None THEN [st EXCEPT ![old] = "closed"] ELSE st
      /\ started' = started /\ dropped' = dropped
    BY Zenon DEF Replace
<1>4. \/ /\ old # None /\ old \notin list[k] /\ panicked' = panicked \cup {k}
         /\ UNCHANGED <<list, byTag, dependBy>>
      \/ /\ list' = [list EXCEPT ![k] = (@ \ {old}) \cup {o}]
         /\ byTag' = [byTag EXCEPT ![k][t] = o]
         /\ dependBy' = IF k = "endpoint" THEN dependBy
                        ELSE [d \in AllTags |-> IF d \in deps[o] THEN dependBy[d] \cup {o}
                                                                ELSE dependBy[d]]
         /\ panicked' = panicked
    BY Zenon DEF Replace
<1>5. /\ status' \in [Objects -> Statuses]
      /\ \A x \in Objects : x # old => status'[x] = st[x]
      /\ old \in Objects /\ started[k] => status'[old] = "closed"
      /\ \A x \in Objects : status'[x] = "started" => st[x] = "started"
  <2>1. CASE started[k] /\ old # None
    <3>1. status' = [st EXCEPT ![old] = "closed"] /\ old \in Objects
        BY <1>2, <1>3, <2>1, Zenon
    <3>2. status' \in [Objects -> Statuses]
        BY <3>1, Zenon DEF Statuses
    <3>3. \A x \in Objects : status'[x] = IF x = old THEN "closed" ELSE st[x]
        BY <3>1, Zenon
    <3> QED BY <3>1, <3>2, <3>3
  <2>2. CASE ~(started[k] /\ old # None)
      BY <1>2, <1>3, <2>2, Zenon
  <2> QED BY <2>1, <2>2, Zenon
<1>6. [list EXCEPT ![k] = (@ \ {old}) \cup {o}] \in [Kinds -> SUBSET Objects]
  <2>1. (list[k] \ {old}) \cup {o} \in SUBSET Objects
      BY <1>1, Zenon
  <2> QED BY <1>1, <2>1, Zenon
<1>7. [byTag EXCEPT ![k][t] = o] \in [Kinds -> [AllTags -> Objects \cup {None}]]
    BY <1>1, Zenon
<1>8. [d \in AllTags |-> IF d \in deps[o] THEN dependBy[d] \cup {o} ELSE dependBy[d]]
        \in [AllTags -> SUBSET Objects]
  <2>1. \A d \in AllTags : dependBy[d] \cup {o} \in SUBSET Objects
      BY <1>1, Zenon
  <2> QED BY <1>1, <2>1, Zenon
<1>9. dependBy' \in [AllTags -> SUBSET Objects]
    BY <1>1, <1>4, <1>8, Zenon
<1>10. panicked' \subseteq Kinds \cup {"nil"}
    BY <1>1, <1>4, Zenon
<1>11. list' \in [Kinds -> SUBSET Objects] /\ byTag' \in [Kinds -> [AllTags -> Objects \cup {None}]]
    BY <1>1, <1>4, <1>6, <1>7, Zenon
<1> QED BY <1>3, <1>4, <1>5, <1>9, <1>10, <1>11, Zenon

-----------------------------------------------------------------------------
(* The steps of an update                                                  *)

\* An update is in one of its loops, in UpdateGroups, or there is none.
LEMMA UpdateShapes ==
    ASSUME UpdateShape
    PROVE  /\ upd.pc \in Places => upd \in Working
           /\ upd.pc \in Places \/ upd.pc \in {"idle", "groups"}
<1>1. upd \in Working \/ upd = Idle \/ upd = [pc |-> "groups"]
    BY Zenon DEF UpdateShape
<1>2. upd \in Working => upd.pc \in Places
    BY Zenon DEF Working
<1>3. upd = Idle => upd.pc = "idle"
    BY DEF Idle
<1>4. upd = [pc |-> "groups"] => upd.pc = "groups"
    OBVIOUS
<1>5. "idle" \notin Places /\ "groups" \notin Places
    BY DEF Places
<1> QED BY <1>1, <1>2, <1>3, <1>4, <1>5, Zenon

\* The nodes of a download and the one an update is at, from ProviderAssumption.
LEMMA NodesShape ==
    ASSUME upd \in Working
    PROVE  /\ upd.kind \in Kinds /\ upd.new \in Contents
           /\ Len(Nodes) \in Nat /\ DOMAIN Nodes = 1..Len(Nodes)
           /\ \A j \in DOMAIN Nodes : Nodes[j].tag \in Tags /\ Nodes[j].via \subseteq AllTags
           /\ \A h, j \in DOMAIN Nodes : Nodes[h].tag = Nodes[j].tag => h = j
           /\ upd.i \in Nat /\ upd.i >= 1
           /\ upd.i <= Len(Nodes) => /\ upd.i \in DOMAIN Nodes
                                     /\ Node.tag \in Tags /\ Node.via \subseteq AllTags
<1>1. upd.kind \in Kinds /\ upd.new \in Contents /\ upd.i \in Nat \ {0}
    BY Zenon DEF Working
<1>2. /\ Nodes \in Seq({Nodes[j] : j \in DOMAIN Nodes})
      /\ \A j \in DOMAIN Nodes : Nodes[j].tag \in Tags /\ Nodes[j].via \subseteq AllTags
      /\ \A h, j \in DOMAIN Nodes : Nodes[h].tag = Nodes[j].tag => h = j
    BY <1>1, ProviderAssumption, Zenon DEF Nodes
<1>3. Len(Nodes) \in Nat /\ DOMAIN Nodes = 1..Len(Nodes)
  <2> HIDE DEF Nodes
  <2> QED BY <1>2
<1>4. upd.i \in Nat /\ upd.i >= 1
    BY <1>1
<1>5. upd.i <= Len(Nodes) => upd.i \in 1..Len(Nodes)
    BY <1>3, <1>4
<1> QED BY <1>1, <1>2, <1>3, <1>4, <1>5, Zenon DEF Node

\* The tags of nodes and the one of "Compatible" are tags.
LEMMA TagTypes == Tags \subseteq AllTags /\ CompatibleTag \in AllTags
BY Zenon DEF AllTags

\* What a lookup finds is an object or nil.
LEMMA LookupType ==
    ASSUME MgrTypeOK, NEW k \in Kinds, NEW t \in AllTags
    PROVE  Lookup(k, t) \in Objects \cup {None}
<1>1. "endpoint" \in Kinds
    BY Zenon DEF Kinds
<1> QED BY <1>1, NamedType, Zenon DEF Lookup

\* The fields of an update after each of its steps.
LEMMA CreatedFields ==
    ASSUME upd \in Working, NEW pc \in Places, NEW o \in Objects \cup {None}, NodeCreated(pc, o)
    PROVE  /\ upd' \in Working /\ upd'.pc = pc /\ upd'.fresh = o
           /\ upd'.kind = upd.kind /\ upd'.new = upd.new /\ upd'.active = upd.active
           /\ upd'.snap = upd.snap /\ upd'.i = upd.i /\ upd'.built = upd.built
BY Zenon DEF NodeCreated, Working, Places

\* What an update has in hand after a node was skipped,
LEMMA SkippedFields ==
    ASSUME upd \in Working, NodeSkipped
    PROVE  /\ upd' \in Working /\ upd'.pc = "nodes" /\ upd'.i = upd.i + 1 /\ upd'.fresh = None
           /\ upd'.kind = upd.kind /\ upd'.new = upd.new /\ upd'.active = upd.active
           /\ upd'.snap = upd.snap /\ upd'.built = upd.built
<1>1. upd.i + 1 \in Nat \ {0}
    BY NodesShape
<1> QED BY <1>1, Zenon DEF NodeSkipped, Working, Places

\* after the list was copied,
LEMMA SnapFields ==
    ASSUME upd \in Working, UpdateSnap, active[upd.kind] \in Seq(Objects)
    PROVE  /\ upd' \in Working /\ upd'.pc = "nodes" /\ upd'.snap = active[upd.kind]
           /\ upd'.kind = upd.kind /\ upd'.new = upd.new /\ upd'.active = upd.active
           /\ upd'.i = upd.i /\ upd'.built = upd.built /\ upd'.fresh = upd.fresh
BY Zenon DEF UpdateSnap, Working, Places

\* after one more node of the copy,
LEMMA RemoveFields ==
    ASSUME upd \in Working, UpdateRemove
    PROVE  /\ upd' \in Working /\ upd'.pc = "nodes" /\ upd'.snap = Tail(upd.snap)
           /\ upd'.kind = upd.kind /\ upd'.new = upd.new /\ upd'.active = upd.active
           /\ upd'.i = upd.i /\ upd'.built = upd.built /\ upd'.fresh = upd.fresh
<1>1. upd.snap \in Seq(Objects) /\ upd.snap # <<>>
    BY Zenon DEF Working, UpdateRemove
<1>2. Tail(upd.snap) \in Seq(Objects)
    BY <1>1, ElemsTail
<1> QED BY <1>2, Zenon DEF UpdateRemove, Working, Places

\* NodeKept and NodeLookedUp add a node to the list.
LEMMA BuiltFields ==
    ASSUME upd \in Working, NEW o \in Objects \cup {None},
           upd' = [upd EXCEPT !.pc = "nodes", !.i = @ + 1, !.built = Append(@, o)]
    PROVE  /\ upd' \in Working /\ upd'.pc = "nodes" /\ upd'.i = upd.i + 1
           /\ upd'.built = Append(upd.built, o)
           /\ upd'.kind = upd.kind /\ upd'.new = upd.new /\ upd'.active = upd.active
           /\ upd'.snap = upd.snap /\ upd'.fresh = upd.fresh
<1>1. upd.i + 1 \in Nat \ {0}
    BY NodesShape
<1>2. upd.built \in Seq(Objects \cup {None})
    BY Zenon DEF Working
<1>3. Append(upd.built, o) \in Seq(Objects \cup {None})
    BY <1>2
<1> QED BY <1>1, <1>3, Zenon DEF Working, Places

\* and after a node was kept.
LEMMA KeptFields ==
    ASSUME upd \in Working, NodeKept
    PROVE  upd' = [upd EXCEPT !.pc = "nodes", !.i = @ + 1, !.built = Append(@, Lookup(upd.kind, Node.tag))]
BY Zenon DEF NodeKept, AtNode, Working

-----------------------------------------------------------------------------
(* Base                                                                    *)

\* The types that Base gives.
LEMMA BaseTypes ==
    ASSUME Base
    PROVE  /\ MgrTypeOK
           /\ started \in [Kinds -> BOOLEAN] /\ list \in [Kinds -> SUBSET Objects]
           /\ byTag \in [Kinds -> [AllTags -> Objects \cup {None}]]
           /\ deps \in [Objects -> SUBSET AllTags]
           /\ made \in Objects /\ tagOf \in [Objects -> AllTags]
           /\ status \in [Objects -> Statuses] /\ dropped \subseteq Objects
           /\ panicked \subseteq Kinds \cup {"nil"}
           /\ active \in [Kinds -> Seq(Objects \cup {None})]
           /\ "outbound" \in Kinds /\ "endpoint" \in Kinds
           /\ upd.pc \in Places => upd \in Working
           /\ UpdateShape /\ upd.pc \in Places \cup {"idle", "groups"}
BY UpdateShapes, Zenon DEF Base, TypeOK, MgrTypeOK, Statuses, Kinds

\* A step within UpdateOutbounds or UpdateEndpoints.
Inside ==
    UNCHANGED <<active, lastOpts, updates, box, closing, overlapped, groupVars>>

\* A step within the loops of an update keeps Base if it keeps these parts of it.
LEMMA BaseInside ==
    ASSUME Base, upd.pc \in Places, Alive, Inside,
           MgrTypeOK', started' = started, \A k \in Kinds : list'[k] \subseteq 1..made',
           UpdateShape', upd' \in Working, upd'.kind = upd.kind,
           (Alive' /\ BeforeProvider) =>
               upd'.built \in Seq(Objects) /\ (upd'.pc = "lookup" => byTag'[upd'.kind][Node'.tag] # None)
    PROVE  Base'
<1>1. /\ active' = active /\ updates' = updates /\ box' = box /\ closing' = closing
      /\ overlapped' = overlapped /\ groupDefault' = groupDefault /\ direct' = direct
      /\ members' = members /\ selected' = selected /\ stored' = stored /\ refused' = refused
    BY Zenon DEF Inside, groupVars
<1>2. TypeOK'
    BY <1>1, Zenon DEF Base, TypeOK
<1>3. upd'.pc \in Places
    BY Zenon DEF Working
<1>4. "idle" \notin Places /\ "groups" \notin Places
    BY DEF Places
<1>5. BoxShape'
    BY <1>1, <1>4, Zenon DEF Base, BoxShape
<1>6. \A k \in Kinds : NilFree(k)' => NilFree(k)
    BY <1>3, <1>4, Zenon DEF NilFree
<1>7. \A k \in Kinds : NilFree(k)' => active[k] \in Seq(Objects)
    BY <1>6, Zenon DEF Base
<1>8. (Alive' /\ BeforeProvider') => Solid'
    BY <1>1, Zenon DEF Base, Solid, BeforeProvider
<1> QED BY <1>1, <1>2, <1>5, <1>7, <1>8, Zenon DEF Base

\* The copy of the list keeps Base.
LEMMA BaseUpdateSnap ==
    ASSUME Base, UpdateSnap
    PROVE  Base'
<1>1. /\ Alive /\ upd.pc = "snap" /\ UNCHANGED mgrVars /\ Inside
    BY Zenon DEF UpdateSnap, Inside
<1>2. upd.pc \in Places /\ upd \in Working
    BY <1>1, BaseTypes, Zenon DEF Places
<1>3. "snap" # "groups"
    OBVIOUS
<1>4. upd.kind \in Kinds /\ active[upd.kind] \in Seq(Objects)
    BY <1>1, <1>2, <1>3, NodesShape, Zenon DEF Base, NilFree
<1>5. /\ upd' \in Working /\ upd'.pc = "nodes"
      /\ upd'.kind = upd.kind /\ upd'.built = upd.built
    BY <1>2, <1>4, SnapFields, Zenon
<1>6. "nodes" \notin {"snap", "locked", "lookup", "remove"}
    OBVIOUS
<1>7. UpdateShape'
    BY <1>5, <1>6, Zenon DEF UpdateShape, AtCreate
<1>8. MgrTypeOK' /\ started' = started /\ \A k \in Kinds : list'[k] \subseteq 1..made'
    BY <1>1, BaseTypes, Zenon DEF mgrVars, MgrTypeOK, Base
<1>9. (Alive' /\ BeforeProvider) => upd'.built \in Seq(Objects)
    BY <1>1, <1>2, <1>5, Zenon DEF Base, Solid
<1> QED BY <1>1, <1>2, <1>5, <1>6, <1>7, <1>8, <1>9, BaseInside, Zenon

\* What Remove leaves of the managers' types.
LEMMA RemoveKeeps ==
    ASSUME Base, NEW k \in Kinds, NEW t \in AllTags, Remove(k, t) \/ UNCHANGED mgrVars
    PROVE  /\ MgrTypeOK' /\ started' = started /\ \A j \in Kinds : list'[j] \subseteq 1..made'
           /\ made' = made /\ tagOf' = tagOf /\ \A j \in Kinds : list'[j] \subseteq list[j]
<1>1. MgrTypeOK /\ list \in [Kinds -> SUBSET Objects] /\ \A j \in Kinds : list[j] \subseteq 1..made
    BY BaseTypes, Zenon DEF Base
<1>2. CASE Remove(k, t)
  <2>1. /\ MgrTypeOK' /\ started' = started /\ made' = made /\ tagOf' = tagOf
        /\ list' = [list EXCEPT ![k] = @ \ {byTag[k][t]}]
      BY <1>1, <1>2, RemoveStep, Zenon
  <2>2. \A j \in Kinds : list'[j] \subseteq list[j]
      BY <1>1, <2>1, Zenon
  <2> QED BY <1>1, <2>1, <2>2, Zenon
<1>3. CASE UNCHANGED mgrVars
    BY <1>1, <1>3, Zenon DEF mgrVars, MgrTypeOK
<1> QED BY <1>2, <1>3, Zenon

\* removeUseless, one node keeps Base.
LEMMA BaseUpdateRemove ==
    ASSUME Base, UpdateRemove
    PROVE  Base'
<1>1. Alive /\ upd.pc = "nodes" /\ Inside /\ upd.snap # <<>>
    BY Zenon DEF UpdateRemove, Inside
<1>2. upd.pc \in Places /\ upd \in Working
    BY <1>1, BaseTypes, Zenon DEF Places
<1>3. upd.kind \in Kinds /\ upd.snap \in Seq(Objects)
    BY <1>2, Zenon DEF Working
<1>4. tagOf[Head(upd.snap)] \in AllTags
  <2>1. Head(upd.snap) \in Objects
      BY <1>1, <1>3, ElemsTail, Zenon
  <2> QED BY <2>1, BaseTypes, Zenon
<1>5. /\ upd' \in Working /\ upd'.pc = "nodes"
      /\ upd'.kind = upd.kind /\ upd'.built = upd.built
    BY <1>2, RemoveFields, Zenon
<1>6. "nodes" \notin {"snap", "locked", "lookup", "remove"}
    OBVIOUS
<1>7. UpdateShape'
    BY <1>5, <1>6, Zenon DEF UpdateShape, AtCreate
<1>8. MgrTypeOK' /\ started' = started /\ \A k \in Kinds : list'[k] \subseteq 1..made'
    BY <1>3, <1>4, RemoveKeeps, Zenon DEF UpdateRemove
<1>9. (Alive' /\ BeforeProvider) => upd'.built \in Seq(Objects)
    BY <1>1, <1>2, <1>5, Zenon DEF Base, Solid
<1> QED BY <1>1, <1>2, <1>5, <1>6, <1>7, <1>8, <1>9, BaseInside, Zenon

\* A node that is kept keeps Base.
LEMMA BaseNodeKept ==
    ASSUME Base, NodeKept
    PROVE  Base'
<1>1. /\ Alive /\ upd.pc = "nodes" /\ Inside /\ UNCHANGED mgrVars
      /\ upd.i <= Len(Nodes) /\ Lookup(upd.kind, Node.tag) # None
    BY Zenon DEF NodeKept, Inside, AtNode, Reusable
<1>2. upd.pc \in Places /\ upd \in Working
    BY <1>1, BaseTypes, Zenon DEF Places
<1>3. upd.kind \in Kinds /\ Node.tag \in AllTags
    BY <1>1, <1>2, NodesShape, TagTypes, Zenon
<1>4. Lookup(upd.kind, Node.tag) \in Objects
    BY <1>1, <1>3, BaseTypes, LookupType, Zenon
<1>5. /\ upd' \in Working /\ upd'.pc = "nodes" /\ upd'.kind = upd.kind
      /\ upd'.built = Append(upd.built, Lookup(upd.kind, Node.tag))
    BY <1>2, <1>4, KeptFields, BuiltFields, Zenon
<1>6. "nodes" \notin {"snap", "locked", "lookup", "remove"}
    OBVIOUS
<1>7. UpdateShape'
    BY <1>5, <1>6, Zenon DEF UpdateShape, AtCreate
<1>8. MgrTypeOK' /\ started' = started /\ \A k \in Kinds : list'[k] \subseteq 1..made'
    BY <1>1, BaseTypes, Zenon DEF mgrVars, MgrTypeOK, Base
<1>9. (Alive' /\ BeforeProvider) => upd'.built \in Seq(Objects)
  <2>1. BeforeProvider => upd.built \in Seq(Objects)
      BY <1>1, <1>2, Zenon DEF Base, Solid
  <2> QED BY <1>4, <1>5, <2>1
<1> QED BY <1>1, <1>2, <1>5, <1>6, <1>7, <1>8, <1>9, BaseInside, Zenon

\* The lookup of a new node keeps Base.
LEMMA BaseNodeLookedUp ==
    ASSUME Base, NodeLookedUp
    PROVE  Base'
<1>1. /\ Alive /\ upd.pc = "lookup" /\ Inside /\ UNCHANGED mgrVars
    BY Zenon DEF NodeLookedUp, Inside
<1>2. upd.pc \in Places /\ upd \in Working
    BY <1>1, BaseTypes, Zenon DEF Places
<1>3. upd.kind \in Kinds /\ Node.tag \in AllTags
    BY <1>1, <1>2, NodesShape, TagTypes, Zenon DEF Base, UpdateShape, AtCreate
<1>4. Lookup(upd.kind, Node.tag) \in Objects \cup {None}
    BY <1>3, BaseTypes, LookupType, Zenon
<1>5. /\ upd' \in Working /\ upd'.pc = "nodes" /\ upd'.kind = upd.kind
      /\ upd'.built = Append(upd.built, Lookup(upd.kind, Node.tag))
    BY <1>2, <1>4, BuiltFields, Zenon DEF NodeLookedUp
<1>6. "nodes" \notin {"snap", "locked", "lookup", "remove"}
    OBVIOUS
<1>7. UpdateShape'
    BY <1>5, <1>6, Zenon DEF UpdateShape, AtCreate
<1>8. MgrTypeOK' /\ started' = started /\ \A k \in Kinds : list'[k] \subseteq 1..made'
    BY <1>1, BaseTypes, Zenon DEF mgrVars, MgrTypeOK, Base
<1>9. (Alive' /\ BeforeProvider) => upd'.built \in Seq(Objects)
  <2> SUFFICES ASSUME BeforeProvider PROVE upd'.built \in Seq(Objects)
      BY Zenon
  <2>1. byTag[upd.kind][Node.tag] # None /\ upd.built \in Seq(Objects)
      BY <1>1, <1>2, Zenon DEF Base, Solid
  <2>2. Lookup(upd.kind, Node.tag) \in Objects
      BY <1>4, <2>1, Zenon DEF Lookup
  <2> QED BY <1>5, <2>1, <2>2
<1> QED BY <1>1, <1>2, <1>5, <1>6, <1>7, <1>8, <1>9, BaseInside, Zenon

\* Create fails, or failed to close the old node: a Remove, and the next node.
LEMMA BaseSkips ==
    ASSUME Base, Alive, upd.pc \in Places, NodeSkipped, upd.i <= Len(Nodes),
           Remove(upd.kind, Node.tag) \/ UNCHANGED mgrVars
    PROVE  Base'
<1>1. upd \in Working /\ Inside
    BY BaseTypes, Zenon DEF NodeSkipped, Inside
<1>2. upd.kind \in Kinds /\ Node.tag \in AllTags
    BY <1>1, NodesShape, TagTypes, Zenon
<1>3. /\ upd' \in Working /\ upd'.pc = "nodes"
      /\ upd'.kind = upd.kind /\ upd'.built = upd.built
    BY <1>1, SkippedFields, Zenon
<1>4. "nodes" \notin {"snap", "locked", "lookup", "remove"}
    OBVIOUS
<1>5. UpdateShape'
    BY <1>3, <1>4, Zenon DEF UpdateShape, AtCreate
<1>6. MgrTypeOK' /\ started' = started /\ \A k \in Kinds : list'[k] \subseteq 1..made'
    BY <1>2, RemoveKeeps, Zenon
<1>7. (Alive' /\ BeforeProvider) => upd'.built \in Seq(Objects)
    BY <1>1, <1>3, Zenon DEF Base, Solid
<1> QED BY <1>1, <1>3, <1>4, <1>5, <1>6, <1>7, BaseInside, Zenon

\* A node that cannot be created keeps Base.
LEMMA BaseNodeFails ==
    ASSUME Base, NodeFails
    PROVE  Base'
<1>1. /\ Alive /\ upd.pc = "nodes" /\ NodeSkipped /\ upd.i <= Len(Nodes)
      /\ Remove(upd.kind, Node.tag) \/ UNCHANGED mgrVars
    BY Zenon DEF NodeFails, AtNode
<1> QED BY <1>1, BaseSkips, Zenon DEF Places

\* The removal of a node whose Close failed keeps Base.
LEMMA BaseOldRemoved ==
    ASSUME Base, OldRemoved
    PROVE  Base'
<1>1. /\ Alive /\ upd.pc = "remove" /\ NodeSkipped
      /\ Remove(upd.kind, Node.tag) \/ UNCHANGED mgrVars
    BY Zenon DEF OldRemoved
<1>2. upd.i <= Len(Nodes)
    BY <1>1, Zenon DEF Base, UpdateShape, AtCreate
<1> QED BY <1>1, <1>2, BaseSkips, Zenon DEF Places

\* A new object has the next number.
LEMMA NextObject ==
    ASSUME Base, made < MaxObjects
    PROVE  /\ made + 1 \in Objects /\ made + 1 \in 1..(made + 1) /\ made + 1 \notin 1..made
           /\ 1..made \subseteq 1..(made + 1) /\ 1..(made + 1) \subseteq Objects
           /\ \A k \in Kinds : made + 1 \notin list[k]
<1>1. made \in 1..MaxObjects /\ MaxObjects \in Nat
    BY BaseTypes, ProviderAssumption, Zenon DEF Objects
<1>2. /\ made + 1 \in 1..MaxObjects /\ made + 1 \in 1..(made + 1) /\ made + 1 \notin 1..made
      /\ 1..made \subseteq 1..(made + 1) /\ 1..(made + 1) \subseteq 1..MaxObjects
    BY <1>1
<1> QED BY <1>2, Zenon DEF Base, Objects

\* An outbound that is started keeps Base.
LEMMA BaseNodeStarts ==
    ASSUME Base, NodeStarts
    PROVE  Base'
<1>1. /\ Alive /\ upd.pc = "nodes" /\ upd.snap = <<>> /\ upd.i <= Len(Nodes)
      /\ upd.kind = "outbound" /\ NodeCreated("locked", made + 1)
      /\ made < MaxObjects /\ made' = made + 1 /\ tagOf' = [tagOf EXCEPT ![made + 1] = Node.tag]
      /\ deps' = [deps EXCEPT ![made + 1] = Node.via]
      /\ status' = [status EXCEPT ![made + 1] = IF started["outbound"] THEN "started" ELSE "new"]
      /\ UNCHANGED <<started, list, byTag, dependBy, dropped, panicked>>
    BY Zenon DEF NodeStarts, AtNode, CreateOutside
<1>2. upd.pc \in Places /\ upd \in Working /\ Inside
    BY <1>1, BaseTypes, Zenon DEF Places, NodeCreated, Inside
<1>3. made + 1 \in Objects /\ made + 1 \in 1..(made + 1) /\ 1..made \subseteq 1..(made + 1)
      /\ \A k \in Kinds : made + 1 \notin list[k]
    BY <1>1, NextObject, Zenon
<1>4. Node.tag \in AllTags /\ Node.via \subseteq AllTags
    BY <1>1, <1>2, NodesShape, TagTypes, Zenon
<1>5. /\ upd' \in Working /\ upd'.pc = "locked" /\ upd'.fresh = made + 1
      /\ upd'.kind = upd.kind /\ upd'.new = upd.new /\ upd'.snap = upd.snap /\ upd'.i = upd.i
      /\ upd'.built = upd.built
    BY <1>1, <1>2, <1>3, CreatedFields, Zenon DEF Places
<1>6. MgrTypeOK'
  <2>1. tagOf' \in [Objects -> AllTags] /\ deps' \in [Objects -> SUBSET AllTags]
      BY <1>1, <1>3, <1>4, BaseTypes, Zenon
  <2>2. status' \in [Objects -> Statuses]
      BY <1>1, <1>3, BaseTypes, Zenon DEF Statuses
  <2> QED BY <1>1, <1>3, <2>1, <2>2, BaseTypes, Zenon DEF MgrTypeOK, Statuses
<1>7. \A k \in Kinds : list'[k] \subseteq 1..made'
    BY <1>1, <1>3, Zenon DEF Base
<1>8. Nodes' = Nodes /\ Node' = Node
    BY <1>5, Zenon DEF Nodes, Node
<1>9. "locked" \notin {"snap", "nodes", "lookup", "remove"}
    OBVIOUS
<1>10. tagOf'[upd'.fresh] = Node.tag
    BY <1>1, <1>3, <1>5, BaseTypes, ZenonT(60)
<1>11. UpdateShape'
    BY <1>1, <1>3, <1>5, <1>8, <1>9, <1>10, Zenon DEF UpdateShape, AtCreate
<1>12. (Alive' /\ BeforeProvider) => upd'.built \in Seq(Objects)
    BY <1>1, <1>2, <1>5, Zenon DEF Base, Solid
<1> QED BY <1>1, <1>2, <1>5, <1>6, <1>7, <1>9, <1>11, <1>12, BaseInside, Zenon

\* An outbound that is installed keeps Base.
LEMMA BaseNodeInstalled ==
    ASSUME Base, NodeInstalled
    PROVE  Base'
<1>1. /\ Alive /\ upd.pc = "locked" /\ NodeCreated("lookup", None)
      /\ Replace("outbound", upd.fresh, Node.tag, status) /\ UNCHANGED <<made, tagOf, deps>>
    BY Zenon DEF NodeInstalled, CreateLocked
<1>2. upd.pc \in Places /\ upd \in Working /\ Inside
    BY <1>1, BaseTypes, Zenon DEF Places, NodeCreated, Inside
<1>3. /\ upd.kind = "outbound" /\ upd.fresh \in 1..made /\ upd.i <= Len(Nodes) /\ upd.snap = <<>>
    BY <1>1, Zenon DEF Base, UpdateShape, AtCreate
<1>4. upd.fresh \in Objects
    BY <1>3, BaseTypes, ProviderAssumption DEF Objects
<1>5. Node.tag \in AllTags
    BY <1>2, <1>3, NodesShape, TagTypes, Zenon
<1>6. /\ upd' \in Working /\ upd'.pc = "lookup"
      /\ upd'.kind = upd.kind /\ upd'.new = upd.new /\ upd'.snap = upd.snap /\ upd'.i = upd.i
      /\ upd'.built = upd.built
    BY <1>1, <1>2, CreatedFields, Zenon DEF Places
<1>7. /\ list' \in [Kinds -> SUBSET Objects]
      /\ byTag' \in [Kinds -> [AllTags -> Objects \cup {None}]]
      /\ dependBy' \in [AllTags -> SUBSET Objects] /\ status' \in [Objects -> Statuses]
      /\ panicked' \subseteq Kinds \cup {"nil"} /\ started' = started /\ dropped' = dropped
      /\ \/ /\ panicked' = panicked
            /\ byTag' = [byTag EXCEPT !["outbound"][Node.tag] = upd.fresh]
            /\ list' = [list EXCEPT !["outbound"] = (@ \ {byTag["outbound"][Node.tag]}) \cup {upd.fresh}]
         \/ panicked' = panicked \cup {"outbound"}
  <2>1. MgrTypeOK /\ "outbound" \in Kinds /\ status \in [Objects -> Statuses]
      BY BaseTypes, Zenon
  <2> QED BY <1>1, <1>4, <1>5, <2>1, ReplaceStep
<1>8. MgrTypeOK'
    BY <1>1, <1>7, BaseTypes, Zenon DEF MgrTypeOK, Statuses
<1>9. \A k \in Kinds : list'[k] \subseteq 1..made'
  <2>1. list' = list \/ list' = [list EXCEPT !["outbound"] = (@ \ {byTag["outbound"][Node.tag]}) \cup {upd.fresh}]
      BY <1>1, Zenon DEF Replace
  <2>2. list \in [Kinds -> SUBSET Objects] /\ \A k \in Kinds : list[k] \subseteq 1..made
      BY BaseTypes, Zenon DEF Base
  <2>3. \A k \in Kinds : \A x \in list'[k] : x \in list[k] \/ x = upd.fresh
      BY <2>1, <2>2
  <2> QED BY <1>1, <1>3, <2>2, <2>3, Zenon
<1>10. Nodes' = Nodes /\ Node' = Node
    BY <1>6, Zenon DEF Nodes, Node
<1>11. "lookup" \notin {"snap", "nodes", "locked", "remove"}
    OBVIOUS
<1>12. UpdateShape'
    BY <1>3, <1>6, <1>10, <1>11, Zenon DEF UpdateShape, AtCreate
<1>13. (Alive' /\ BeforeProvider) => upd'.built \in Seq(Objects)
    BY <1>1, <1>2, <1>6, Zenon DEF Base, Solid
<1>14. Alive' => byTag'[upd'.kind][Node'.tag] # None
  <2> SUFFICES ASSUME Alive' PROVE byTag'["outbound"][Node.tag] # None
      BY <1>3, <1>6, <1>10, Zenon
  <2>1. byTag' = [byTag EXCEPT !["outbound"][Node.tag] = upd.fresh]
      BY <1>7, Zenon DEF Alive
  <2>2. byTag'["outbound"] = [byTag["outbound"] EXCEPT ![Node.tag] = upd.fresh]
      BY <2>1, BaseTypes, Zenon
  <2>3. byTag["outbound"] \in [AllTags -> Objects \cup {None}]
      BY BaseTypes, Zenon
  <2>4. byTag'["outbound"][Node.tag] = upd.fresh
      BY <1>5, <2>2, <2>3, Zenon
  <2> QED BY <1>4, <2>4, NoneIsNoObject, Zenon
<1> QED BY <1>1, <1>2, <1>6, <1>7, <1>8, <1>9, <1>12, <1>13, <1>14, BaseInside, Zenon

\* The numbering and the types after an endpoint was created.
LEMMA NewEndpointTypes ==
    ASSUME Base, NEW t \in AllTags, NewEndpoint(t)
    PROVE  /\ made' = made + 1 /\ made' \in Objects /\ 1..made \subseteq 1..made' /\ made' \in 1..made'
           /\ tagOf' = [tagOf EXCEPT ![made + 1] = t] /\ tagOf' \in [Objects -> AllTags]
           /\ deps' = deps /\ WithNewEndpoint \in [Objects -> Statuses]
           /\ \A x \in Objects : x # made' => tagOf'[x] = tagOf[x] /\ WithNewEndpoint[x] = status[x]
           /\ tagOf'[made'] = t /\ \A k \in Kinds : made' \notin list[k]
<1>1. /\ made < MaxObjects /\ made' = made + 1 /\ tagOf' = [tagOf EXCEPT ![made + 1] = t]
      /\ deps' = deps
    BY Zenon DEF NewEndpoint
<1>2. /\ made' \in Objects /\ 1..made \subseteq 1..made' /\ made' \in 1..made'
      /\ \A k \in Kinds : made' \notin list[k]
    BY <1>1, NextObject, Zenon
<1>3. tagOf' \in [Objects -> AllTags] /\ tagOf'[made'] = t
      /\ \A x \in Objects : x # made' => tagOf'[x] = tagOf[x]
    BY <1>1, <1>2, BaseTypes, Zenon
<1>4. WithNewEndpoint \in [Objects -> Statuses]
    BY <1>1, <1>2, BaseTypes, Zenon DEF WithNewEndpoint, Statuses
<1>5. \A x \in Objects : x # made' => WithNewEndpoint[x] = status[x]
    BY <1>1, <1>2, BaseTypes, Zenon DEF WithNewEndpoint
<1> QED BY <1>1, <1>2, <1>3, <1>4, <1>5, Zenon

\* An endpoint that is installed keeps Base.
LEMMA BaseEndpointInstalled ==
    ASSUME Base, EndpointInstalled
    PROVE  Base'
<1>1. /\ Alive /\ upd.pc = "nodes" /\ upd.snap = <<>> /\ upd.i <= Len(Nodes)
      /\ upd.kind = "endpoint" /\ NodeCreated("lookup", None) /\ NewEndpoint(Node.tag)
      /\ Replace("endpoint", made + 1, Node.tag, WithNewEndpoint)
    BY Zenon DEF EndpointInstalled, CreateEndpoint, AtNode
<1>2. upd.pc \in Places /\ upd \in Working /\ Inside
    BY <1>1, BaseTypes, Zenon DEF Places, NodeCreated, Inside
<1>3. Node.tag \in AllTags
    BY <1>1, <1>2, NodesShape, TagTypes, Zenon
<1>4. /\ made' = made + 1 /\ made' \in Objects /\ 1..made \subseteq 1..made' /\ made' \in 1..made'
      /\ tagOf' \in [Objects -> AllTags] /\ deps' = deps /\ WithNewEndpoint \in [Objects -> Statuses]
    BY <1>1, <1>3, NewEndpointTypes, Zenon
<1>5. /\ upd' \in Working /\ upd'.pc = "lookup"
      /\ upd'.kind = upd.kind /\ upd'.new = upd.new /\ upd'.snap = upd.snap /\ upd'.i = upd.i
      /\ upd'.built = upd.built
    BY <1>1, <1>2, CreatedFields, Zenon DEF Places
<1>6. /\ list' \in [Kinds -> SUBSET Objects]
      /\ byTag' \in [Kinds -> [AllTags -> Objects \cup {None}]]
      /\ dependBy' \in [AllTags -> SUBSET Objects] /\ status' \in [Objects -> Statuses]
      /\ panicked' \subseteq Kinds \cup {"nil"} /\ started' = started /\ dropped' = dropped
      /\ \/ /\ panicked' = panicked
            /\ byTag' = [byTag EXCEPT !["endpoint"][Node.tag] = made']
            /\ list' = [list EXCEPT !["endpoint"] = (@ \ {byTag["endpoint"][Node.tag]}) \cup {made'}]
         \/ panicked' = panicked \cup {"endpoint"}
  <2>1. MgrTypeOK /\ "endpoint" \in Kinds
      BY BaseTypes, Zenon
  <2>2. Replace("endpoint", made', Node.tag, WithNewEndpoint)
      BY <1>1, <1>4, Zenon
  <2> QED BY <1>3, <1>4, <2>1, <2>2, ReplaceStep
<1>7. MgrTypeOK'
    BY <1>4, <1>6, BaseTypes, Zenon DEF MgrTypeOK, Statuses
<1>8. \A k \in Kinds : list'[k] \subseteq 1..made'
  <2>1. list' = list \/ list' = [list EXCEPT !["endpoint"] = (@ \ {byTag["endpoint"][Node.tag]}) \cup {made'}]
      BY <1>1, <1>4, Zenon DEF Replace
  <2>2. list \in [Kinds -> SUBSET Objects] /\ \A k \in Kinds : list[k] \subseteq 1..made
      BY BaseTypes, Zenon DEF Base
  <2>3. \A k \in Kinds : \A x \in list'[k] : x \in list[k] \/ x = made'
      BY <2>1, <2>2
  <2> QED BY <1>4, <2>2, <2>3, Zenon
<1>9. Nodes' = Nodes /\ Node' = Node
    BY <1>5, Zenon DEF Nodes, Node
<1>10. "lookup" \notin {"snap", "nodes", "locked", "remove"}
    OBVIOUS
<1>11. UpdateShape'
    BY <1>1, <1>5, <1>9, <1>10, Zenon DEF UpdateShape, AtCreate
<1>12. (Alive' /\ BeforeProvider) => upd'.built \in Seq(Objects)
    BY <1>1, <1>2, <1>5, Zenon DEF Base, Solid
<1>13. Alive' => byTag'[upd'.kind][Node'.tag] # None
  <2> SUFFICES ASSUME Alive' PROVE byTag'["endpoint"][Node.tag] # None
      BY <1>1, <1>5, <1>9, Zenon
  <2>1. byTag' = [byTag EXCEPT !["endpoint"][Node.tag] = made']
      BY <1>6, Zenon DEF Alive
  <2>2. byTag'["endpoint"] = [byTag["endpoint"] EXCEPT ![Node.tag] = made']
      BY <2>1, BaseTypes, Zenon
  <2>3. byTag["endpoint"] \in [AllTags -> Objects \cup {None}]
      BY BaseTypes, Zenon
  <2>4. byTag'["endpoint"][Node.tag] = made'
      BY <1>3, <2>2, <2>3, Zenon
  <2> QED BY <1>4, <2>4, NoneIsNoObject, Zenon
<1> QED BY <1>1, <1>2, <1>5, <1>6, <1>7, <1>8, <1>11, <1>12, <1>13, BaseInside, Zenon

\* A node whose predecessor cannot be closed keeps Base.
LEMMA BaseOldCloseFails ==
    ASSUME Base, OldCloseFails
    PROVE  Base'
<1>1. ASSUME NEW k \in Kinds, NEW o \in Objects, NEW st \in [Objects -> Statuses],
             CloseOldFails(k, o, Node.tag, st), Alive, NodeCreated("remove", None),
             upd.pc \in Places, upd.i <= Len(Nodes), upd.snap = <<>>,
             made' \in Objects, 1..made \subseteq 1..made',
             tagOf' \in [Objects -> AllTags], deps' = deps
      PROVE  Base'
  <2>1. upd \in Working /\ Inside
      BY <1>1, BaseTypes, Zenon DEF NodeCreated, Inside
  <2>2. Node.tag \in AllTags
      BY <1>1, <2>1, NodesShape, TagTypes, Zenon
  <2>3. /\ upd' \in Working /\ upd'.pc = "remove"
        /\ upd'.kind = upd.kind /\ upd'.new = upd.new /\ upd'.snap = upd.snap /\ upd'.i = upd.i
        /\ upd'.built = upd.built
      BY <1>1, <2>1, CreatedFields, Zenon DEF Places
  <2>4. /\ byTag[k][Node.tag] # None
        /\ status' = [st EXCEPT ![byTag[k][Node.tag]] = "closed"]
        /\ dropped' = IF st[o] = "started" THEN dropped \cup {o} ELSE dropped
        /\ UNCHANGED <<started, list, byTag, dependBy, panicked>>
      BY <1>1, Zenon DEF CloseOldFails
  <2>5. status' \in [Objects -> Statuses]
    <3>1. byTag[k][Node.tag] \in Objects
        BY <1>1, <2>2, <2>4, BaseTypes, NamedType, Zenon
    <3> QED BY <2>4, <3>1, Zenon DEF Statuses
  <2>6. dropped' \subseteq Objects
      BY <2>4, BaseTypes, Zenon
  <2>7. MgrTypeOK'
      BY <1>1, <2>4, <2>5, <2>6, BaseTypes, Zenon DEF MgrTypeOK, Statuses
  <2>8. \A j \in Kinds : list'[j] \subseteq 1..made'
      BY <1>1, <2>4, Zenon DEF Base
  <2>9. Nodes' = Nodes
      BY <2>3, Zenon DEF Nodes
  <2>10. "remove" \notin {"snap", "nodes", "locked", "lookup"}
      OBVIOUS
  <2>11. UpdateShape'
      BY <1>1, <2>3, <2>9, <2>10, Zenon DEF UpdateShape, AtCreate
  <2>12. (Alive' /\ BeforeProvider) => upd'.built \in Seq(Objects)
      BY <1>1, <2>1, <2>3, Zenon DEF Base, Solid
  <2> QED BY <1>1, <2>1, <2>3, <2>4, <2>7, <2>8, <2>10, <2>11, <2>12, BaseInside, Zenon
<1>2. CASE /\ Alive /\ upd.pc = "locked"
           /\ CloseOldFails("outbound", upd.fresh, Node.tag, status)
           /\ UNCHANGED <<made, tagOf, deps>>
           /\ NodeCreated("remove", None)
  <2>1. upd.fresh \in 1..made /\ upd.i <= Len(Nodes) /\ upd.snap = <<>>
      BY <1>2, Zenon DEF Base, UpdateShape, AtCreate
  <2>2. upd.fresh \in Objects
      BY <2>1, BaseTypes, ProviderAssumption DEF Objects
  <2>3. upd.pc \in Places
      BY <1>2, Zenon DEF Places
  <2>4. /\ "outbound" \in Kinds /\ status \in [Objects -> Statuses]
        /\ made' \in Objects /\ 1..made \subseteq 1..made' /\ tagOf' \in [Objects -> AllTags]
      BY <1>2, BaseTypes, Zenon
  <2> QED BY <1>1, <1>2, <2>1, <2>2, <2>3, <2>4, Zenon
<1>3. CASE /\ AtNode /\ upd.kind = "endpoint" /\ NewEndpoint(Node.tag)
           /\ CloseOldFails("endpoint", made + 1, Node.tag, WithNewEndpoint)
           /\ NodeCreated("remove", None)
  <2>1. upd.pc = "nodes" /\ Alive /\ upd.i <= Len(Nodes) /\ upd.snap = <<>>
      BY <1>3, Zenon DEF AtNode
  <2>2. upd.pc \in Places /\ upd \in Working
      BY <2>1, BaseTypes, Zenon DEF Places
  <2>3. Node.tag \in AllTags
      BY <2>1, <2>2, NodesShape, TagTypes, Zenon
  <2>4. /\ made' = made + 1 /\ made' \in Objects /\ 1..made \subseteq 1..made'
        /\ tagOf' \in [Objects -> AllTags] /\ deps' = deps /\ WithNewEndpoint \in [Objects -> Statuses]
      BY <1>3, <2>3, NewEndpointTypes, Zenon
  <2>5. "endpoint" \in Kinds
      BY BaseTypes, Zenon
  <2> QED BY <1>1, <1>3, <2>1, <2>2, <2>4, <2>5, Zenon
<1> QED BY <1>2, <1>3, Zenon DEF OldCloseFails

\* What an update has in hand when it begins with one of the kinds.
LEMMA BeginFields ==
    ASSUME Base, NEW k \in Kinds, NEW c \in Contents, Begin(k, c), active[k] \in Seq(Objects)
    PROVE  /\ upd' \in Working /\ upd'.pc = "snap" /\ upd'.kind = k /\ upd'.new = c
           /\ upd'.active = TagsOf(active[k]) /\ upd'.snap = <<>> /\ upd'.i = 1
           /\ upd'.built = <<>> /\ upd'.fresh = None
           /\ UpdateShape'
<1>1. TagsOf(active[k]) \subseteq AllTags
    BY BaseTypes, ElemsType, Zenon DEF TagsOf
<1>2. <<>> \in Seq(Objects) /\ <<>> \in Seq(Objects \cup {None}) /\ 1 \in Nat \ {0}
    OBVIOUS
<1> DEFINE ts == TagsOf(active[k])
<1>3. upd' = [pc |-> "snap", kind |-> k, new |-> c, active |-> ts,
              snap |-> <<>>, i |-> 1, built |-> <<>>, fresh |-> None]
    BY Zenon DEF Begin
<1> HIDE DEF ts
<1>4. /\ upd'.pc = "snap" /\ upd'.kind = k /\ upd'.new = c
      /\ upd'.active = ts /\ upd'.snap = <<>> /\ upd'.i = 1
      /\ upd'.built = <<>> /\ upd'.fresh = None
    BY <1>3
<1>5. upd' \in Working
  <2>1. "snap" \in Places /\ ts \in SUBSET AllTags /\ None \in Objects \cup {None}
      BY <1>1, Zenon DEF Places, ts
  <2> QED BY <1>2, <1>3, <2>1, Zenon DEF Working
<1>6. "snap" \notin {"locked", "lookup", "remove"}
    OBVIOUS
<1>7. UpdateShape'
    BY <1>4, <1>5, <1>6, Zenon DEF UpdateShape, AtCreate
<1> QED BY <1>4, <1>5, <1>7, Zenon DEF ts

\* The begin of an update keeps Base.
LEMMA BaseUpdateBegin ==
    ASSUME Base, NEW c \in Contents, UpdateBegin(c)
    PROVE  Base'
<1>1. /\ Alive /\ upd.pc = "idle" /\ updates < MaxUpdates /\ Begin("outbound", c)
      /\ updates' = updates + 1 /\ overlapped' = (overlapped \/ box # "running")
      /\ UNCHANGED <<started, list, byTag, dependBy, made, tagOf, status, deps, dropped, panicked>>
      /\ UNCHANGED <<active, box, closing, groupDefault, direct, members, selected, stored, refused>>
    BY Zenon DEF UpdateBegin, mgrVars, groupVars
<1>2. \A k \in Kinds : active[k] \in Seq(Objects)
    BY <1>1, Zenon DEF Base, NilFree
<1>3. /\ upd' \in Working /\ upd'.pc = "snap" /\ upd'.built = <<>> /\ UpdateShape'
    BY <1>1, <1>2, BaseTypes, BeginFields, Zenon
<1>4. updates' \in 0..MaxUpdates
    BY <1>1, ProviderAssumption DEF Base, TypeOK
<1>5. overlapped' \in BOOLEAN
    BY <1>1, Zenon
<1>6. TypeOK'
    BY <1>1, <1>4, <1>5, Zenon DEF Base, TypeOK, MgrTypeOK
<1>7. BoxShape'
    BY <1>1, Zenon DEF Base, BoxShape
<1>8. <<>> \in Seq(Objects) /\ "snap" # "lookup"
    OBVIOUS
<1>9. Solid'
    BY <1>1, <1>2, <1>3, <1>8, Zenon DEF Solid
<1> QED BY <1>1, <1>2, <1>3, <1>6, <1>7, <1>9, Zenon DEF Base

\* The publication of the new list keeps Base.
LEMMA BaseUpdatePublish ==
    ASSUME Base, UpdatePublish
    PROVE  Base'
<1>1. /\ Alive /\ upd.pc = "nodes" /\ active' = [active EXCEPT ![upd.kind] = upd.built]
      /\ IF upd.kind = "outbound" THEN Begin("endpoint", upd.new)
                                  ELSE upd' = [Idle EXCEPT !.pc = "groups"]
      /\ UNCHANGED <<started, list, byTag, dependBy, made, tagOf, status, deps, dropped, panicked>>
      /\ UNCHANGED <<updates, box, closing, overlapped, groupDefault, direct, members, selected, stored, refused>>
    BY Zenon DEF UpdatePublish, mgrVars, groupVars
<1>2. upd.pc \in Places /\ upd \in Working
    BY <1>1, BaseTypes, Zenon DEF Places
<1>3. upd.kind \in Kinds /\ upd.new \in Contents /\ upd.built \in Seq(Objects \cup {None})
    BY <1>2, Zenon DEF Working
<1>4. active' \in [Kinds -> Seq(Objects \cup {None})]
    BY <1>1, <1>3, BaseTypes, Zenon
<1>5. TypeOK'
    BY <1>1, <1>4, Zenon DEF Base, TypeOK, MgrTypeOK
<1>6. "nodes" \notin {"idle", "groups"} /\ "snap" \notin {"idle", "groups", "lookup"}
      /\ "outbound" # "endpoint" /\ "groups" \notin {"idle", "lookup", "snap", "locked", "remove"}
    OBVIOUS
<1>7. BoxShape'
    BY <1>1, <1>6, Zenon DEF Base, BoxShape
<1>8. (Alive' /\ BeforeProvider') => \A k \in Kinds : active'[k] \in Seq(Objects)
  <2> SUFFICES ASSUME BeforeProvider, NEW k \in Kinds PROVE active'[k] \in Seq(Objects)
      BY <1>1, Zenon DEF BeforeProvider
  <2>1. active[k] \in Seq(Objects) /\ upd.built \in Seq(Objects)
      BY <1>1, <1>2, Zenon DEF Base, Solid
  <2> QED BY <1>1, <1>3, <2>1, BaseTypes, Zenon
<1>9. CASE upd.kind = "outbound"
  <2>1. active["endpoint"] \in Seq(Objects) /\ active'["endpoint"] = active["endpoint"]
      BY <1>1, <1>3, <1>6, <1>9, BaseTypes, Zenon DEF Base, NilFree
  <2>2. /\ upd' \in Working /\ upd'.pc = "snap" /\ upd'.kind = "endpoint" /\ upd'.built = <<>>
        /\ UpdateShape'
      BY <1>1, <1>3, <1>9, <2>1, BaseTypes, BeginFields, Zenon
  <2>3. \A k \in Kinds : NilFree(k)' => active'[k] \in Seq(Objects)
      BY <1>6, <2>1, <2>2, Zenon DEF NilFree
  <2>4. <<>> \in Seq(Objects)
      OBVIOUS
  <2>5. (Alive' /\ BeforeProvider') => Solid'
      BY <1>6, <1>8, <2>2, <2>4, Zenon DEF Solid
  <2> QED BY <1>1, <1>5, <1>7, <2>2, <2>3, <2>5, Zenon DEF Base
<1>10. CASE upd.kind # "outbound"
  <2>1. upd' = [pc |-> "groups"]
      BY <1>1, <1>10 DEF Idle
  <2>2. upd'.pc = "groups"
      BY <2>1
  <2>3. upd' \notin Working
      BY <1>6, <2>2, Zenon DEF Working, Places
  <2>4. UpdateShape'
      BY <1>6, <2>1, <2>2, Zenon DEF UpdateShape, AtCreate
  <2>5. \A k \in Kinds : ~NilFree(k)'
      BY <1>6, <2>2, Zenon DEF NilFree
  <2>6. (Alive' /\ BeforeProvider') => Solid'
      BY <1>6, <1>8, <2>2, <2>3, Zenon DEF Solid
  <2> QED BY <1>1, <1>5, <1>7, <2>4, <2>5, <2>6, Zenon DEF Base
<1> QED BY <1>9, <1>10, Zenon

\* The selector's members, when no list holds a nil outbound.
LEMMA CandidatesType ==
    ASSUME active \in [Kinds -> Seq(Objects \cup {None})], direct \in Seq({Compatible}),
           None \notin Elems(Collected)
    PROVE  /\ \A k \in Kinds : active[k] \in Seq(Objects)
           /\ Collected \in Seq(Objects)
           /\ Candidates \in Seq(Objects) /\ Candidates # <<>>
           /\ Elems(Candidates) \subseteq
                 {Compatible} \cup Elems(active["outbound"]) \cup Elems(active["endpoint"])
<1> DEFINE a == active["outbound"]  b == active["endpoint"]
<1>1. a \in Seq(Objects \cup {None}) /\ b \in Seq(Objects \cup {None})
    BY Zenon DEF Kinds
<1>2. Compatible \in Objects
    BY ProviderAssumption DEF Compatible, Objects
<1>3. Collected = a \o b
    BY Zenon DEF Collected
<1> HIDE DEF a, b
<1>4. Elems(Collected) = Elems(a) \cup Elems(b)
    BY <1>1, <1>3, ElemsConcat
<1>5. Elems(a) \subseteq Objects \cup {None} /\ Elems(b) \subseteq Objects \cup {None}
    BY <1>1, ElemsType
<1>6. Elems(a) \subseteq Objects /\ Elems(b) \subseteq Objects
    BY <1>4, <1>5, Zenon
<1>7. a \in Seq(Objects) /\ b \in Seq(Objects)
    BY <1>1, <1>6, ElemsBack
<1>8. Collected \in Seq(Objects)
    BY <1>3, <1>7, ElemsConcat
<1>9. direct \in Seq(Objects) /\ Elems(direct) \subseteq {Compatible}
  <2>1. Elems(direct) \subseteq {Compatible}
      BY ElemsType
  <2> QED BY <1>2, <2>1, ElemsBack
<1>10. /\ direct \o Collected \in Seq(Objects)
       /\ Elems(direct \o Collected) = Elems(direct) \cup Elems(Collected)
    BY <1>8, <1>9, ElemsConcat
<1>11. <<Compatible>> \in Seq(Objects) /\ <<Compatible>> # <<>> /\ Elems(<<Compatible>>) = {Compatible}
    BY <1>2 DEF Elems
<1>12. Candidates \in {<<Compatible>>, direct \o Collected} /\ Candidates # <<>>
    BY <1>11, Zenon DEF Candidates
<1>13. Elems(Candidates) \subseteq {Compatible} \cup Elems(a) \cup Elems(b)
    BY <1>4, <1>9, <1>10, <1>11, <1>12, Zenon
<1>14. \A k \in Kinds : active[k] \in Seq(Objects)
    BY <1>7, Zenon DEF Kinds, a, b
<1> QED BY <1>8, <1>10, <1>11, <1>12, <1>13, <1>14, Zenon DEF a, b

\* UpdateGroups keeps Base.
LEMMA BaseUpdateGroups ==
    ASSUME HasLast, Base, UpdateGroups
    PROVE  Base'
<1>1. /\ Alive /\ upd.pc = "groups" /\ upd' = Idle
      /\ UNCHANGED <<started, list, byTag, dependBy, made, tagOf, status, deps, dropped>>
      /\ UNCHANGED <<active, updates, box, closing, overlapped, groupDefault, direct, stored>>
    BY Zenon DEF UpdateGroups, mgrVars
<1>2. upd'.pc = "idle"
    BY <1>1 DEF Idle
<1>3. "idle" \notin {"snap", "locked", "lookup", "remove"} /\ "idle" \notin Places
    BY DEF Places
<1>4. UpdateShape' /\ upd' \notin Working
    BY <1>1, <1>2, <1>3, Zenon DEF UpdateShape, AtCreate, Working
<1>5. BoxShape'
    BY <1>1, <1>2, Zenon DEF Base, BoxShape
<1>6. CASE None \in Elems(Collected)
  <2>1. /\ panicked' = panicked \cup {"nil"} /\ members' = members /\ selected' = selected
        /\ refused' = refused
      BY <1>6, Zenon DEF UpdateGroups
  <2>2. TypeOK'
      BY <1>1, <2>1, Zenon DEF Base, TypeOK, MgrTypeOK
  <2>3. ~Alive'
      BY <2>1, Zenon DEF Alive
  <2> QED BY <1>1, <1>4, <1>5, <2>1, <2>2, <2>3, Zenon DEF Base
<1>7. CASE None \notin Elems(Collected)
  <2>1. /\ panicked' = panicked /\ refused' = DefaultMissing(Candidates)
        /\ IF DefaultMissing(Candidates) THEN members' = members /\ selected' = selected
           ELSE members' = Candidates /\ selected' = OutboundSelect(Candidates)
      BY <1>7, Zenon DEF UpdateGroups, mgrVars
  <2>2. /\ \A k \in Kinds : active[k] \in Seq(Objects)
        /\ Candidates \in Seq(Objects) /\ Candidates # <<>>
      BY <1>7, BaseTypes, CandidatesType, Zenon DEF Base
  <2>3. members' \in Seq(Objects) /\ members' # <<>> /\ selected' \in Objects
    <3>1. CASE DefaultMissing(Candidates)
        BY <2>1, <3>1, Zenon DEF Base, TypeOK
    <3>2. CASE ~DefaultMissing(Candidates)
      <4>1. OutboundSelect(Candidates) \in Elems(Candidates)
          BY <2>2, <3>2, SelectsMember, Zenon
      <4>2. Elems(Candidates) \subseteq Objects
          BY <2>2, ElemsType, Zenon
      <4> QED BY <2>1, <2>2, <3>2, <4>1, <4>2, Zenon
    <3> QED BY <3>1, <3>2, Zenon
  <2>4. refused' \in BOOLEAN
      BY <2>1, Zenon DEF DefaultMissing
  <2>5. TypeOK'
      BY <1>1, <2>1, <2>3, <2>4, Zenon DEF Base, TypeOK, MgrTypeOK
  <2>6. Solid'
      BY <1>1, <1>2, <1>3, <1>4, <2>2, Zenon DEF Solid
  <2> QED BY <1>1, <1>4, <1>5, <2>2, <2>3, <2>5, <2>6, Zenon DEF Base
<1> QED BY <1>6, <1>7, Zenon

\* A selection keeps Base.
LEMMA BaseSelectOutbound ==
    ASSUME HasLast, Base, NEW t \in AllTags, SelectOutbound(t)
    PROVE  Base'
<1>1. /\ t \in TagsOf(members) /\ selected' = ByTag(members, t) /\ stored' = t
      /\ UNCHANGED <<started, list, byTag, dependBy, made, tagOf, status, deps, dropped, panicked>>
      /\ UNCHANGED <<active, upd, updates, box, closing, overlapped, groupDefault, direct, members, refused>>
    BY Zenon DEF SelectOutbound, mgrVars, provVars
<1>2. members \in Seq(Objects)
    BY Zenon DEF Base, TypeOK
<1>3. selected' \in Objects
    BY <1>1, <1>2, ByTagMember, ElemsType, Zenon
<1>4. TypeOK'
    BY <1>1, <1>3, Zenon DEF Base, TypeOK, MgrTypeOK
<1>5. UpdateShape'
    BY <1>1, Zenon DEF Base, UpdateShape, AtCreate, Nodes, Node
<1>6. BoxShape'
    BY <1>1, Zenon DEF Base, BoxShape
<1>7. Alive' = Alive /\ BeforeProvider' = BeforeProvider /\ Solid' = Solid
    BY <1>1, Zenon DEF Alive, BeforeProvider, Solid, Node, Nodes
<1>8. \A k \in Kinds : NilFree(k)' = NilFree(k)
    BY <1>1, Zenon DEF NilFree
<1> QED BY <1>1, <1>4, <1>5, <1>6, <1>7, <1>8, Zenon DEF Base

\* Close of a manager empties its list and closes what was in it.
LEMMA CloseStep ==
    ASSUME MgrTypeOK, NEW k \in Kinds, CloseManager(k)
    PROVE  /\ MgrTypeOK'
           /\ byTag' = byTag /\ made' = made /\ tagOf' = tagOf
           /\ dropped' = dropped /\ panicked' = panicked
           /\ started' = [started EXCEPT ![k] = FALSE]
           /\ \A j \in Kinds \ {k} : list'[j] = list[j] /\ started'[j] = started[j]
           /\ started'[k] = FALSE
           /\ \A x \in Objects : status'[x] = "started" => status[x] = "started"
           /\ ~started[k] => list' = list /\ status' = status
           /\ started[k] => list'[k] = {} /\ \A x \in list[k] : status'[x] = "closed"
           /\ \A j \in Kinds : list'[j] \subseteq list[j]
<1>1. /\ started \in [Kinds -> BOOLEAN] /\ list \in [Kinds -> SUBSET Objects]
      /\ status \in [Objects -> Statuses]
    BY Zenon DEF MgrTypeOK, Statuses
<1>2. /\ started' = [started EXCEPT ![k] = FALSE]
      /\ IF ~started[k] THEN list' = list /\ status' = status
         ELSE /\ list' = [list EXCEPT ![k] = {}]
              /\ status' = [o \in Objects |-> IF o \in list[k] THEN "closed" ELSE status[o]]
      /\ UNCHANGED <<byTag, dependBy, made, tagOf, deps, dropped, panicked>>
    BY Zenon DEF CloseManager
<1>3. started' \in [Kinds -> BOOLEAN] /\ started'[k] = FALSE /\ \A j \in Kinds \ {k} : started'[j] = started[j]
    BY <1>1, <1>2, Zenon
<1>4. CASE ~started[k]
  <2>1. MgrTypeOK'
      BY <1>2, <1>3, <1>4, ZenonT(60) DEF MgrTypeOK
  <2> QED BY <1>2, <1>3, <1>4, <2>1, Zenon
<1>5. CASE started[k]
  <2>1. /\ list' = [list EXCEPT ![k] = {}]
        /\ status' = [o \in Objects |-> IF o \in list[k] THEN "closed" ELSE status[o]]
      BY <1>2, <1>5, Zenon
  <2>2. status' \in [Objects -> Statuses]
      BY <1>1, <2>1, Zenon DEF Statuses
  <2>3. list' \in [Kinds -> SUBSET Objects] /\ list'[k] = {} /\ \A j \in Kinds \ {k} : list'[j] = list[j]
      BY <1>1, <2>1, Zenon
  <2>4. MgrTypeOK'
      BY <1>2, <1>3, <2>2, <2>3, Zenon DEF MgrTypeOK, Statuses
  <2>5. \A x \in Objects : status'[x] = IF x \in list[k] THEN "closed" ELSE status[x]
      BY <2>1, Zenon
  <2>6. \A x \in Objects : status'[x] = "started" => status[x] = "started"
      BY <2>5
  <2>7. \A x \in list[k] : status'[x] = "closed"
      BY <1>1, <2>5, Zenon
  <2>8. \A j \in Kinds : list'[j] \subseteq list[j]
      BY <2>3, Zenon
  <2> QED BY <1>2, <1>3, <1>5, <2>3, <2>4, <2>6, <2>7, <2>8, Zenon
<1> QED BY <1>4, <1>5, Zenon

\* The shape of an update is kept by a step that leaves it and the objects alone.
LEMMA ShapeKept ==
    ASSUME UpdateShape, upd' = upd, made' = made, tagOf' = tagOf,
           \A k \in Kinds : list'[k] \subseteq list[k]
    PROVE  UpdateShape'
BY Zenon DEF UpdateShape, AtCreate, Nodes, Node

\* The Close of the endpoint manager keeps Base.
LEMMA BaseCloseEndpoints ==
    ASSUME Base, CloseEndpoints
    PROVE  Base'
<1>1. /\ Alive /\ box = "running" /\ box' = "endpoint" /\ CloseManager("endpoint")
      /\ overlapped' = (upd.pc # "idle")
      /\ UNCHANGED <<active, upd, updates, closing, groupDefault, direct, members, selected, stored, refused>>
    BY Zenon DEF CloseEndpoints, BoxStep, groupVars
<1>2. "endpoint" \in Kinds /\ "outbound" \in Kinds /\ MgrTypeOK
    BY BaseTypes, Zenon
<1>3. /\ MgrTypeOK' /\ byTag' = byTag /\ made' = made /\ tagOf' = tagOf /\ panicked' = panicked
      /\ started'["endpoint"] = FALSE /\ \A j \in Kinds \ {"endpoint"} : started'[j] = started[j]
      /\ \A j \in Kinds : list'[j] \subseteq list[j]
    BY <1>1, <1>2, CloseStep, Zenon
<1>4. "running" # "endpoint" /\ "endpoint" # "closed" /\ "running" # "closed" /\ "outbound" # "endpoint"
    OBVIOUS
<1>5. overlapped' \in BOOLEAN
    BY <1>1, Zenon
<1>6. TypeOK'
    BY <1>1, <1>3, <1>5, Zenon DEF Base, TypeOK
<1>7. UpdateShape'
    BY <1>1, <1>3, ShapeKept, Zenon DEF Base
<1>8. BoxShape'
  <2>1. started["outbound"] = TRUE
      BY <1>1, <1>4, Zenon DEF Base, BoxShape
  <2>2. started'["outbound"] = TRUE
      BY <1>2, <1>3, <1>4, <2>1, Zenon
  <2> QED BY <1>1, <1>3, <1>4, <2>2, Zenon DEF BoxShape
<1>9. BeforeProvider /\ Alive
    BY <1>1, Zenon DEF BeforeProvider
<1>10. Solid'
    BY <1>1, <1>3, <1>9, Zenon DEF Base, Solid, Nodes, Node
<1>11. \A k \in Kinds : NilFree(k)' => active'[k] \in Seq(Objects)
    BY <1>10, Zenon DEF Solid
<1> QED BY <1>1, <1>3, <1>6, <1>7, <1>8, <1>10, <1>11, Zenon DEF Base

\* The begin of Adapter.Close keeps Base.
LEMMA BaseProviderClose ==
    ASSUME Base, ProviderClose
    PROVE  Base'
<1>1. /\ Alive /\ box = "endpoint" /\ box' = "provider"
      /\ closing' = [i \in DOMAIN Collected |->
                        [kind |-> IF i <= Len(active["outbound"]) THEN "outbound" ELSE "endpoint",
                         tag |-> tagOf[Collected[i]]]]
      /\ active' = [k \in Kinds |-> <<>>]
      /\ UNCHANGED <<started, list, byTag, dependBy, made, tagOf, status, deps, dropped, panicked>>
      /\ UNCHANGED <<upd, updates, overlapped, groupDefault, direct, members, selected, stored, refused>>
    BY Zenon DEF ProviderClose, BoxStep, mgrVars, groupVars
<1>2. active["outbound"] \in Seq(Objects) /\ active["endpoint"] \in Seq(Objects)
    BY <1>1, BaseTypes, Zenon DEF Base, BeforeProvider, Solid
<1>3. Collected \in Seq(Objects)
    BY <1>2, ElemsConcat, Zenon DEF Collected
<1>4. closing' \in Seq([kind : Kinds, tag : AllTags])
  <2>1. Len(Collected) \in Nat /\ DOMAIN Collected = 1..Len(Collected)
        /\ \A i \in DOMAIN Collected : Collected[i] \in Objects
      BY <1>3
  <2>2. \A i \in DOMAIN Collected : tagOf[Collected[i]] \in AllTags
      BY <2>1, BaseTypes, Zenon
  <2>3. \A i \in DOMAIN Collected :
            [kind |-> IF i <= Len(active["outbound"]) THEN "outbound" ELSE "endpoint",
             tag |-> tagOf[Collected[i]]] \in [kind : Kinds, tag : AllTags]
      BY <2>2, BaseTypes, Zenon
  <2>4. closing' \in [1..Len(Collected) -> [kind : Kinds, tag : AllTags]]
      BY <1>1, <2>1, <2>3, Zenon
  <2> QED BY <2>1, <2>4, FunctionIsSeq, Zenon
<1>5. \A k \in Kinds : active'[k] \in Seq(Objects) /\ active'[k] \in Seq(Objects \cup {None})
  <2>1. <<>> \in Seq(Objects) /\ <<>> \in Seq(Objects \cup {None})
      OBVIOUS
  <2> QED BY <1>1, <2>1, Zenon
<1>6. active' \in [Kinds -> Seq(Objects \cup {None})]
    BY <1>1, <1>5, Zenon
<1>7. TypeOK'
    BY <1>1, <1>6, Zenon DEF Base, TypeOK, MgrTypeOK
<1>8. UpdateShape'
    BY <1>1, ShapeKept, Zenon DEF Base
<1>9. "provider" \notin {"running", "endpoint", "closed"} /\ "endpoint" \notin {"running", "closed"}
    OBVIOUS
<1>10. BoxShape' /\ ~BeforeProvider'
    BY <1>1, <1>9, Zenon DEF Base, BoxShape, BeforeProvider
<1> QED BY <1>1, <1>4, <1>5, <1>7, <1>8, <1>10, Zenon DEF Base

\* A removal by Adapter.Close keeps Base.
LEMMA BaseProviderRemoves ==
    ASSUME Base, ProviderRemoves
    PROVE  Base'
<1>1. /\ Alive /\ box = "provider" /\ closing # <<>> /\ closing' = Tail(closing)
      /\ Remove(Head(closing).kind, Head(closing).tag)
      /\ UNCHANGED <<active, upd, updates, box, overlapped, groupDefault, direct, members, selected, stored, refused>>
    BY Zenon DEF ProviderRemoves, groupVars
<1>2. closing \in Seq([kind : Kinds, tag : AllTags])
    BY Zenon DEF Base
<1>3. Head(closing) \in [kind : Kinds, tag : AllTags] /\ Tail(closing) \in Seq([kind : Kinds, tag : AllTags])
    BY <1>1, <1>2, ElemsTail, Zenon
<1>4. Head(closing).kind \in Kinds /\ Head(closing).tag \in AllTags
    BY <1>3
<1>5. /\ MgrTypeOK' /\ started' = started /\ \A j \in Kinds : list'[j] \subseteq 1..made'
      /\ made' = made /\ tagOf' = tagOf /\ \A j \in Kinds : list'[j] \subseteq list[j]
    BY <1>1, <1>4, RemoveKeeps, Zenon
<1>6. TypeOK'
    BY <1>1, <1>5, Zenon DEF Base, TypeOK
<1>7. UpdateShape'
    BY <1>1, <1>5, ShapeKept, Zenon DEF Base
<1>8. "provider" \notin {"running", "endpoint"}
    OBVIOUS
<1>9. BoxShape' /\ ~BeforeProvider'
    BY <1>1, <1>5, <1>8, Zenon DEF Base, BoxShape, BeforeProvider
<1>10. \A k \in Kinds : NilFree(k)' => active'[k] \in Seq(Objects)
    BY <1>1, Zenon DEF Base, NilFree
<1> QED BY <1>1, <1>3, <1>5, <1>6, <1>7, <1>9, <1>10, Zenon DEF Base

\* The Close of the outbound manager keeps Base.
LEMMA BaseCloseOutbounds ==
    ASSUME Base, CloseOutbounds
    PROVE  Base'
<1>1. /\ Alive /\ box = "provider" /\ box' = "closed" /\ CloseManager("outbound")
      /\ UNCHANGED <<active, upd, updates, closing, overlapped, groupDefault, direct, members, selected, stored, refused>>
    BY Zenon DEF CloseOutbounds, BoxStep, groupVars
<1>2. "endpoint" \in Kinds /\ "outbound" \in Kinds /\ MgrTypeOK
    BY BaseTypes, Zenon
<1>3. /\ MgrTypeOK' /\ byTag' = byTag /\ made' = made /\ tagOf' = tagOf /\ panicked' = panicked
      /\ started'["outbound"] = FALSE /\ \A j \in Kinds \ {"outbound"} : started'[j] = started[j]
      /\ \A j \in Kinds : list'[j] \subseteq list[j]
    BY <1>1, <1>2, CloseStep, Zenon
<1>4. /\ "provider" \notin {"running", "endpoint", "closed"} /\ "closed" \notin {"running", "endpoint"}
      /\ "outbound" # "endpoint"
    OBVIOUS
<1>5. TypeOK'
    BY <1>1, <1>3, Zenon DEF Base, TypeOK
<1>6. UpdateShape'
    BY <1>1, <1>3, ShapeKept, Zenon DEF Base
<1>7. BoxShape' /\ ~BeforeProvider'
  <2>1. started'["endpoint"] = FALSE
      BY <1>1, <1>2, <1>3, <1>4, Zenon DEF Base, BoxShape
  <2> QED BY <1>1, <1>3, <1>4, <2>1, Zenon DEF Base, BoxShape, BeforeProvider
<1>8. \A k \in Kinds : NilFree(k)' => active'[k] \in Seq(Objects)
    BY <1>1, Zenon DEF Base, NilFree
<1> QED BY <1>1, <1>3, <1>5, <1>6, <1>7, <1>8, Zenon DEF Base

\* Base holds when the box starts to run.
LEMMA BaseInit ==
    ASSUME HasLast, Init
    PROVE  Base
<1>1. /\ started = [k \in Kinds |-> TRUE]
      /\ list = [k \in Kinds |-> IF k = "outbound" THEN {Compatible} ELSE {}]
      /\ byTag = [k \in Kinds |-> [t \in AllTags |->
                      IF k = "outbound" /\ t = CompatibleTag THEN Compatible ELSE None]]
      /\ dependBy = [t \in AllTags |-> {}] /\ deps = [o \in Objects |-> {}]
      /\ made = 1 /\ tagOf = [o \in Objects |-> CompatibleTag]
      /\ status = [o \in Objects |-> IF o = Compatible THEN "started" ELSE "none"]
      /\ dropped = {} /\ panicked = {}
    BY Zenon DEF Init, MgrInit
<1>2. /\ active = [k \in Kinds |-> <<>>] /\ upd = Idle /\ updates = 0 /\ box = "running"
      /\ closing = <<>> /\ overlapped = FALSE /\ groupDefault \in GroupDefaults
      /\ direct \in Directs /\ stored \in StoredTags /\ members = Candidates
      /\ ~DefaultMissing(members) /\ selected = OutboundSelect(members) /\ refused = FALSE
    BY Zenon DEF Init
<1>3. Compatible \in Objects /\ Compatible = 1 /\ 1 \in 1..1
    BY ProviderAssumption DEF Compatible, Objects
<1>4. MgrTypeOK
  <2>1. \A k \in Kinds : \A t \in AllTags :
           (IF k = "outbound" /\ t = CompatibleTag THEN Compatible ELSE None) \in Objects \cup {None}
      BY <1>3, Zenon
  <2>2. byTag \in [Kinds -> [AllTags -> Objects \cup {None}]]
      BY <1>1, <2>1, Zenon
  <2>3. list \in [Kinds -> SUBSET Objects] /\ started \in [Kinds -> BOOLEAN]
      BY <1>1, <1>3, Zenon
  <2>4. tagOf \in [Objects -> AllTags]
      BY <1>1, TagTypes, Zenon
  <2>5. status \in [Objects -> {"none", "new", "started", "closed"}]
      BY <1>1, Zenon
  <2>6. dependBy \in [AllTags -> SUBSET Objects] /\ deps \in [Objects -> SUBSET AllTags]
      BY <1>1, Zenon
  <2> QED BY <1>1, <1>3, <2>2, <2>3, <2>4, <2>5, <2>6, Zenon DEF MgrTypeOK
<1>5. direct \in Seq({Compatible}) /\ GroupDefaults \subseteq AllTags \cup {NoTag}
      /\ StoredTags \subseteq AllTags \cup {NoTag}
    BY <1>2, ProviderAssumption, Zenon
<1>6. <<>> \in Seq(Objects) /\ <<>> \in Seq(Objects \cup {None})
      /\ <<>> \in Seq([kind : Kinds, tag : AllTags]) /\ Elems(<<>>) = {} /\ <<>> \o <<>> = <<>>
    BY DEF Elems
<1>7. active \in [Kinds -> Seq(Objects \cup {None})] /\ \A k \in Kinds : active[k] = <<>>
    BY <1>2, <1>6, Zenon
<1>8. Collected = <<>>
    BY <1>6, <1>7, Zenon DEF Collected, Kinds
<1>9. Candidates \in Seq(Objects) /\ Candidates # <<>>
    BY <1>5, <1>6, <1>7, <1>8, CandidatesType, Zenon
<1>10. selected \in Objects
    BY <1>2, <1>9, SelectsMember, ElemsType, Zenon
<1>11. direct \in Seq(Objects)
    BY <1>3, <1>5
<1>12. updates \in 0..MaxUpdates
    BY <1>2, ProviderAssumption
<1>13. TypeOK
    BY <1>2, <1>4, <1>5, <1>7, <1>9, <1>10, <1>11, <1>12, Zenon DEF TypeOK
<1>14. upd.pc = "idle" /\ "idle" \notin {"snap", "locked", "lookup", "remove"} /\ upd \notin Working
  <2>1. upd.pc = "idle"
      BY <1>2 DEF Idle
  <2>2. "idle" \notin Places
      BY DEF Places
  <2> QED BY <2>1, <2>2 DEF Working
<1>15. UpdateShape
    BY <1>2, <1>14, Zenon DEF UpdateShape, AtCreate
<1>16. BoxShape
  <2>1. "endpoint" \in Kinds /\ "outbound" \in Kinds /\ "running" # "closed"
      BY DEF Kinds
  <2> QED BY <1>1, <1>2, <2>1, Zenon DEF BoxShape
<1>17. \A k \in Kinds : list[k] \subseteq 1..made
    BY <1>1, <1>3, Zenon
<1>18. Solid
    BY <1>6, <1>7, <1>14, Zenon DEF Solid
<1> QED BY <1>2, <1>5, <1>6, <1>7, <1>9, <1>13, <1>15, <1>16, <1>17, <1>18, Zenon DEF Base

\* Every step keeps Base.
LEMMA BaseNext ==
    ASSUME HasLast, Base, [Next]_vars
    PROVE  Base'
<1>1. CASE Next
    BY <1>1, BaseUpdateBegin, BaseUpdateSnap, BaseUpdateRemove, BaseNodeKept, BaseNodeFails, BaseNodeStarts,
       BaseNodeInstalled, BaseEndpointInstalled, BaseOldCloseFails, BaseOldRemoved, BaseNodeLookedUp,
       BaseUpdatePublish, BaseUpdateGroups, BaseSelectOutbound, BaseCloseEndpoints, BaseProviderClose,
       BaseProviderRemoves, BaseCloseOutbounds, Zenon DEF Next
<1>2. CASE UNCHANGED vars
  <2>1. /\ UNCHANGED <<started, list, byTag, dependBy, made, tagOf, status, deps, dropped, panicked>>
        /\ UNCHANGED <<active, upd, updates, box, closing, overlapped, groupDefault, direct, members, selected, stored, refused>>
      BY <1>2, Zenon DEF vars, mgrVars, provVars, groupVars
  <2>2. TypeOK'
      BY <2>1, Zenon DEF Base, TypeOK, MgrTypeOK
  <2>3. UpdateShape'
      BY <2>1, ShapeKept, Zenon DEF Base
  <2>4. BoxShape'
      BY <2>1, Zenon DEF Base, BoxShape
  <2>5. Alive' = Alive /\ BeforeProvider' = BeforeProvider /\ Solid' = Solid
      BY <2>1, Zenon DEF Alive, BeforeProvider, Solid, Node, Nodes
  <2>6. \A k \in Kinds : NilFree(k)' = NilFree(k)
      BY <2>1, Zenon DEF NilFree
  <2> QED BY <2>1, <2>2, <2>3, <2>4, <2>5, <2>6, Zenon DEF Base
<1> QED BY <1>1, <1>2, Zenon

-----------------------------------------------------------------------------
(* Safe: what is started is managed, and the maps agree with the lists     *)

\* Without an overlap an update runs while both managers are started.
LEMMA LiveRunning ==
    ASSUME Base, Live, upd.pc \in Places
    PROVE  box = "running" /\ \A k \in Kinds : started[k] = TRUE
<1>1. "idle" \notin Places
    BY DEF Places
<1>2. box = "running"
    BY <1>1, Zenon DEF Base, BoxShape, Live
<1>3. "running" # "closed"
    OBVIOUS
<1>4. started["endpoint"] = TRUE /\ started["outbound"] = TRUE
    BY <1>2, <1>3, Zenon DEF Base, BoxShape
<1> QED BY <1>2, <1>4, Zenon DEF Kinds

\* A step that leaves the managers alone.
LEMMA SafeKept ==
    ASSUME Safe, Alive, overlapped => overlapped', UNCHANGED mgrVars,
           upd.pc = "locked" => upd' = upd
    PROVE  Safe'
<1>1. UNCHANGED <<started, list, byTag, dependBy, made, tagOf, status, deps, dropped, panicked>>
    BY Zenon DEF mgrVars
<1>2. Live' => Live
    BY <1>1, Zenon DEF Live, Alive
<1>3. Live' => Placed'
    BY <1>1, <1>2, Zenon DEF Safe, Placed
<1>4. StartedIsManaged'
    BY <1>1, <1>2, Zenon DEF Safe, StartedIsManaged, Live
<1>5. OutboundIndexValid'
    BY <1>1, Zenon DEF Safe, OutboundIndexValid
<1> QED BY <1>3, <1>4, <1>5, Zenon DEF Safe

\* Remove keeps Safe: what leaves the list is closed, or dropped when Remove refuses.
LEMMA SafeRemove ==
    ASSUME Base, Safe, Alive, overlapped' = overlapped,
           NEW k \in Kinds, NEW t \in AllTags, Remove(k, t),
           Live => upd.pc # "locked" /\ started["outbound"]
    PROVE  Safe'
<1> DEFINE old == byTag[k][t]
<1>1. MgrTypeOK /\ old \in Objects \cup {None} /\ None \notin Objects
    BY BaseTypes, NamedType, NoneIsNoObject, Zenon
<1>2. /\ started' = started /\ made' = made /\ tagOf' = tagOf
      /\ byTag' = [byTag EXCEPT ![k][t] = None]
      /\ list' = [list EXCEPT ![k] = @ \ {old}]
      /\ dropped \subseteq dropped'
      /\ \A x \in Objects : x # old => status'[x] = status[x]
      /\ \A x \in Objects : status'[x] = "started" => status[x] = "started"
      /\ (old \in list[k] /\ started[k]) => status'[old] # "started" \/ old \in dropped'
      /\ \/ panicked' = panicked
         \/ panicked' = panicked \cup {k} /\ old # None /\ old \notin list[k]
    BY <1>1, RemoveStep, Zenon
<1>3. Live' => Live
    BY Zenon DEF Live
<1>4. /\ list'[k] = list[k] \ {old} /\ \A j \in Kinds \ {k} : list'[j] = list[j]
    BY <1>2, BaseTypes, Zenon
<1>5. \A j \in Kinds, s \in AllTags :
         byTag'[j][s] = IF j = k /\ s = t THEN None ELSE byTag[j][s]
    BY <1>2, BaseTypes
<1>6. ASSUME Live PROVE Placed'
  <2>1. Placed
      BY <1>6, Zenon DEF Safe
  <2>2. \A j \in Kinds : ~started'[j] => list'[j] = {}
      BY <1>2, <1>4, <2>1, Zenon DEF Placed
  <2>3. ASSUME NEW j \in Kinds, NEW s \in AllTags, byTag'[j][s] # None
        PROVE  tagOf'[byTag'[j][s]] = s /\ (started'[j] => byTag'[j][s] \in list'[j])
    <3>1. byTag'[j][s] = byTag[j][s] /\ byTag[j][s] # None /\ ~(j = k /\ s = t)
        BY <1>5, <2>3, Zenon
    <3>2. tagOf[byTag[j][s]] = s /\ (started[j] => byTag[j][s] \in list[j])
        BY <2>1, <3>1, Zenon DEF Placed
    <3>3. ASSUME j = k, byTag[j][s] = old PROVE FALSE
      <4>1. old # None /\ s # t /\ tagOf[old] = s
          BY <3>1, <3>2, <3>3, Zenon
      <4>2. tagOf[old] = t
          BY <2>1, <4>1, Zenon DEF Placed
      <4> QED BY <4>1, <4>2, Zenon
    <3> QED BY <1>2, <1>4, <3>1, <3>2, <3>3, Zenon
  <2>4. list'["outbound"] \cap list'["endpoint"] = {}
      BY <1>4, <2>1, BaseTypes, Zenon DEF Placed
  <2> QED BY <2>2, <2>3, <2>4, Zenon DEF Placed
<1>7. StartedIsManaged'
  <2> SUFFICES ASSUME Live, NEW x \in Objects, status'[x] = "started"
               PROVE  x \in list'["outbound"] \cup list'["endpoint"] \cup dropped'
      BY <1>3, Zenon DEF StartedIsManaged, Live
  <2>1. x \in list["outbound"] \cup list["endpoint"] \cup dropped
      BY <1>2, Zenon DEF Safe, StartedIsManaged, Live
  <2>2. CASE x \in dropped
      BY <1>2, <2>2, Zenon
  <2>3. ASSUME NEW j \in Kinds, x \in list[j] PROVE x \in list'[j] \/ x \in dropped'
    <3>1. CASE x \in list'[j]
        BY <3>1
    <3>2. CASE x \notin list'[j]
      <4>1. j = k /\ x = old
          BY <1>4, <2>3, <3>2, Zenon
      <4>2. started[k]
          BY <2>3, <4>1, Zenon DEF Safe, Placed
      <4> QED BY <1>2, <2>3, <4>1, <4>2, Zenon
    <3> QED BY <3>1, <3>2, Zenon
  <2> QED BY <2>1, <2>2, <2>3, BaseTypes, Zenon
<1>8. OutboundIndexValid'
  <2> SUFFICES ASSUME ~overlapped PROVE panicked' \cap {"outbound", "nil"} = {}
      BY Zenon DEF OutboundIndexValid
  <2>1. CASE panicked' = panicked
      BY <2>1, Zenon DEF Safe, OutboundIndexValid
  <2>2. CASE panicked' = panicked \cup {k} /\ old # None /\ old \notin list[k]
    <3>1. k # "outbound"
      <4> SUFFICES ASSUME k = "outbound" PROVE FALSE
          OBVIOUS
      <4>1. Live
          BY Zenon DEF Live
      <4>2. Placed /\ started[k]
          BY <4>1, Zenon DEF Safe
      <4>3. old \in list[k]
          BY <2>2, <4>2, Zenon DEF Placed
      <4> QED BY <2>2, <4>3, Zenon
    <3>2. k = "endpoint" /\ "endpoint" \notin {"outbound", "nil"}
        BY <3>1 DEF Kinds
    <3> QED BY <2>2, <3>2, Zenon DEF Alive
  <2> QED BY <1>2, <2>1, <2>2, Zenon
<1> QED BY <1>3, <1>6, <1>7, <1>8, Zenon DEF Safe

\* A new object o: what is known of the other objects is not touched.
New(o, st) ==
    /\ o \in Objects /\ st \in [Objects -> Statuses]
    /\ \A x \in Objects : x # o => tagOf'[x] = tagOf[x] /\ st[x] = status[x]
    /\ \A k \in Kinds : o \notin list[k]
    /\ upd.pc = "locked" => upd.fresh = o

\* Create keeps Safe: the new object takes the place of the old one, which is closed.
LEMMA SafeReplace ==
    ASSUME Base, Safe, Alive, upd.pc \in Places, overlapped' = overlapped,
           NEW k \in Kinds, NEW t \in AllTags, NEW o, NEW st, New(o, st), tagOf'[o] = t,
           Replace(k, o, t, st)
    PROVE  Safe'
<1> DEFINE old == byTag[k][t]
<1>1. MgrTypeOK /\ old \in Objects \cup {None} /\ None \notin Objects
    BY BaseTypes, NamedType, NoneIsNoObject, Zenon
<1>2. /\ started' = started /\ dropped' = dropped
      /\ \A x \in Objects : x # old => status'[x] = st[x]
      /\ old \in Objects /\ started[k] => status'[old] = "closed"
      /\ \A x \in Objects : status'[x] = "started" => st[x] = "started"
      /\ \/ /\ panicked' = panicked
            /\ byTag' = [byTag EXCEPT ![k][t] = o]
            /\ list' = [list EXCEPT ![k] = (@ \ {old}) \cup {o}]
         \/ panicked' = panicked \cup {k} /\ old # None /\ old \notin list[k]
  <2>1. o \in Objects /\ st \in [Objects -> Statuses]
      BY Zenon DEF New
  <2> HIDE DEF old
  <2>2. old = byTag[k][t]
      BY DEF old
  <2> QED BY <1>1, <2>1, <2>2, ReplaceStep
<1>3. Live' => Live
    BY Zenon DEF Live
<1>4. SUFFICES ASSUME Live PROVE Safe'
  <2>1. CASE Live
      BY <1>4, <2>1, Zenon
  <2>2. CASE ~Live
    <3>1. overlapped' /\ ~Live'
        BY <2>2, Zenon DEF Live
    <3> QED BY <3>1, Zenon DEF Safe, StartedIsManaged, OutboundIndexValid, Live
  <2> QED BY <2>1, <2>2, Zenon
<1>5. Placed /\ started[k] /\ \A j \in Kinds : started[j]
  <2>1. Placed /\ \A j \in Kinds : started[j] = TRUE
      BY <1>4, LiveRunning, Zenon DEF Safe
  <2> QED BY <2>1
<1>6. old # None => old \in list[k] /\ tagOf[old] = t
    BY <1>5 DEF Placed
<1>7. /\ panicked' = panicked
      /\ byTag' = [byTag EXCEPT ![k][t] = o]
      /\ list' = [list EXCEPT ![k] = (@ \ {old}) \cup {o}]
    BY <1>2, <1>6, Zenon
<1>8. /\ list'[k] = (list[k] \ {old}) \cup {o} /\ \A j \in Kinds \ {k} : list'[j] = list[j]
    BY <1>7, BaseTypes, Zenon
<1>9. \A j \in Kinds, s \in AllTags :
         byTag'[j][s] = IF j = k /\ s = t THEN o ELSE byTag[j][s]
    BY <1>7, BaseTypes
<1>10. Placed'
  <2>1. \A j \in Kinds : ~started'[j] => list'[j] = {}
      BY <1>2, <1>5, Zenon
  <2>2. ASSUME NEW j \in Kinds, NEW s \in AllTags, byTag'[j][s] # None
        PROVE  tagOf'[byTag'[j][s]] = s /\ (started'[j] => byTag'[j][s] \in list'[j])
    <3>1. CASE j = k /\ s = t
        BY <1>8, <1>9, <3>1, Zenon
    <3>2. CASE ~(j = k /\ s = t)
      <4>1. byTag'[j][s] = byTag[j][s] /\ byTag[j][s] # None
          BY <1>9, <2>2, <3>2, Zenon
      <4>2. tagOf[byTag[j][s]] = s /\ byTag[j][s] \in list[j]
          BY <1>5, <4>1 DEF Placed
      <4>3. byTag[j][s] \in Objects /\ byTag[j][s] # o
          BY <4>2, BaseTypes, Zenon DEF New
      <4>4. ASSUME j = k, byTag[j][s] = old PROVE FALSE
          BY <1>6, <3>2, <4>1, <4>2, <4>4, Zenon
      <4>5. tagOf'[byTag[j][s]] = s
          BY <4>2, <4>3, Zenon DEF New
      <4> QED BY <1>8, <4>1, <4>2, <4>4, <4>5, Zenon
    <3> QED BY <3>1, <3>2, Zenon
  <2>3. list'["outbound"] \cap list'["endpoint"] = {}
    <3>1. list["outbound"] \cap list["endpoint"] = {}
        BY <1>5, Zenon DEF Placed
    <3>2. o \notin list["outbound"] /\ o \notin list["endpoint"]
        BY BaseTypes, Zenon DEF New
    <3>3. CASE k = "outbound"
        BY <1>8, <3>1, <3>2, <3>3, BaseTypes
    <3>4. CASE k = "endpoint"
        BY <1>8, <3>1, <3>2, <3>4, BaseTypes
    <3> QED BY <3>3, <3>4, Zenon DEF Kinds
  <2> QED BY <2>1, <2>2, <2>3, Zenon DEF Placed
<1>11. StartedIsManaged'
  <2> SUFFICES ASSUME NEW x \in Objects, status'[x] = "started"
               PROVE  x \in list'["outbound"] \cup list'["endpoint"] \cup dropped'
      BY Zenon DEF StartedIsManaged
  <2>1. CASE x = o
      BY <1>8, <2>1, BaseTypes, Zenon DEF Kinds
  <2>2. CASE x # o
    <3>1. status[x] = "started"
        BY <1>2, <2>2, Zenon DEF New
    <3>2. x \in list["outbound"] \cup list["endpoint"] \cup dropped
        BY <1>4, <2>2, <3>1, Zenon DEF Safe, StartedIsManaged, Live, New
    <3>3. "closed" # "started"
        OBVIOUS
    <3>4. x # old
        BY <1>2, <1>5, <3>3, Zenon
    <3>5. \A j \in Kinds : x \in list[j] => x \in list'[j]
        BY <1>8, <3>4, Zenon
    <3> QED BY <1>2, <3>2, <3>5, BaseTypes, Zenon
  <2> QED BY <2>1, <2>2, Zenon
<1>12. OutboundIndexValid'
    BY <1>7, Zenon DEF Safe, OutboundIndexValid
<1> QED BY <1>10, <1>11, <1>12, Zenon DEF Safe

\* A Create whose Close of the old object fails keeps Safe: the new one is dropped.
LEMMA SafeCloseOldFails ==
    ASSUME Base, Safe, Alive, upd.pc \in Places, overlapped' = overlapped,
           NEW k \in Kinds, NEW t \in AllTags, NEW o, NEW st, New(o, st),
           CloseOldFails(k, o, t, st)
    PROVE  Safe'
<1> DEFINE old == byTag[k][t]
<1>1. /\ old # None /\ status' = [st EXCEPT ![old] = "closed"]
      /\ dropped' = IF st[o] = "started" THEN dropped \cup {o} ELSE dropped
      /\ UNCHANGED <<started, list, byTag, dependBy, panicked>>
    BY Zenon DEF CloseOldFails
<1>2. old \in Objects /\ o \in Objects /\ st \in [Objects -> Statuses]
    BY <1>1, BaseTypes, NamedType, Zenon DEF New
<1>3. \A x \in Objects : status'[x] = "started" => st[x] = "started"
  <2>1. \A x \in Objects : status'[x] = IF x = old THEN "closed" ELSE st[x]
      BY <1>1, <1>2, Zenon
  <2> QED BY <2>1
<1>4. Live' => Live
    BY Zenon DEF Live
<1>5. ASSUME Live PROVE Placed'
  <2>1. Placed /\ \A j \in Kinds : started[j]
    <3>1. Placed /\ \A j \in Kinds : started[j] = TRUE
        BY <1>5, LiveRunning, Zenon DEF Safe
    <3> QED BY <3>1
  <2>2. ASSUME NEW j \in Kinds, NEW s \in AllTags, byTag[j][s] # None
        PROVE  tagOf'[byTag[j][s]] = s /\ byTag[j][s] \in list[j]
    <3>1. tagOf[byTag[j][s]] = s /\ byTag[j][s] \in list[j]
        BY <2>1, <2>2, Zenon DEF Placed
    <3>2. byTag[j][s] \in Objects /\ byTag[j][s] # o
        BY <3>1, BaseTypes, Zenon DEF New
    <3> QED BY <3>1, <3>2, Zenon DEF New
  <2> QED BY <1>1, <2>1, <2>2 DEF Placed
<1>6. StartedIsManaged'
  <2> SUFFICES ASSUME Live, NEW x \in Objects, status'[x] = "started"
               PROVE  x \in list'["outbound"] \cup list'["endpoint"] \cup dropped'
      BY <1>4, Zenon DEF StartedIsManaged, Live
  <2>1. CASE x = o
      BY <1>1, <1>3, <2>1, Zenon
  <2>2. CASE x # o
    <3>1. status[x] = "started"
        BY <1>3, <2>2, Zenon DEF New
    <3>2. x \in list["outbound"] \cup list["endpoint"] \cup dropped
        BY <2>2, <3>1, Zenon DEF Safe, StartedIsManaged, Live, New
    <3> QED BY <1>1, <3>2, Zenon
  <2> QED BY <2>1, <2>2, Zenon
<1>7. OutboundIndexValid'
    BY <1>1, Zenon DEF Safe, OutboundIndexValid
<1> QED BY <1>4, <1>5, <1>6, <1>7, Zenon DEF Safe

\* removeUseless keeps Safe.
LEMMA SafeUpdateRemove ==
    ASSUME Base, Safe, UpdateRemove
    PROVE  Safe'
<1>1. Alive /\ upd.pc = "nodes" /\ upd.snap # <<>> /\ overlapped' = overlapped
    BY Zenon DEF UpdateRemove
<1>2. upd.pc \in Places /\ upd \in Working /\ "nodes" # "locked"
    BY <1>1, BaseTypes DEF Places
<1>3. upd.kind \in Kinds /\ upd.snap \in Seq(Objects)
    BY <1>2, Zenon DEF Working
<1>4. tagOf[Head(upd.snap)] \in AllTags
  <2>1. Head(upd.snap) \in Objects
      BY <1>1, <1>3, ElemsTail, Zenon
  <2> QED BY <2>1, BaseTypes, Zenon
<1>5. Live => started["outbound"]
  <2>1. Live => started["outbound"] = TRUE
      BY <1>2, LiveRunning, BaseTypes, Zenon
  <2> QED BY <2>1
<1>6. CASE UNCHANGED mgrVars
    BY <1>1, <1>2, <1>6, SafeKept, Zenon
<1>7. CASE Remove(upd.kind, tagOf[Head(upd.snap)])
    BY <1>1, <1>2, <1>3, <1>4, <1>5, <1>7, SafeRemove, Zenon
<1> QED BY <1>6, <1>7, Zenon DEF UpdateRemove

\* A node that is skipped, and removed if it was active, keeps Safe.
LEMMA SafeSkips ==
    ASSUME Base, Safe, Alive, upd.pc \in {"nodes", "remove"}, upd.i <= Len(Nodes), overlapped' = overlapped,
           Remove(upd.kind, Node.tag) \/ UNCHANGED mgrVars
    PROVE  Safe'
<1>1. upd.pc \in Places /\ upd.pc # "locked"
    BY DEF Places
<1>2. upd \in Working
    BY <1>1, BaseTypes, Zenon
<1>3. upd.kind \in Kinds /\ Node.tag \in AllTags
    BY <1>2, NodesShape, TagTypes, Zenon
<1>4. Live => started["outbound"]
  <2>1. Live => started["outbound"] = TRUE
      BY <1>1, LiveRunning, BaseTypes, Zenon
  <2> QED BY <2>1
<1>5. CASE UNCHANGED mgrVars
    BY <1>1, <1>5, SafeKept, Zenon
<1>6. CASE Remove(upd.kind, Node.tag)
    BY <1>1, <1>3, <1>4, <1>6, SafeRemove, Zenon
<1> QED BY <1>5, <1>6, Zenon

\* An outbound that is started and not yet installed keeps Safe.
LEMMA SafeNodeStarts ==
    ASSUME Base, Safe, NodeStarts
    PROVE  Safe'
<1>1. /\ Alive /\ upd.pc = "nodes" /\ NodeCreated("locked", made + 1) /\ overlapped' = overlapped
      /\ made < MaxObjects /\ tagOf' = [tagOf EXCEPT ![made + 1] = Node.tag]
      /\ status' = [status EXCEPT ![made + 1] = IF started["outbound"] THEN "started" ELSE "new"]
      /\ UNCHANGED <<started, list, byTag, dropped, panicked>>
    BY Zenon DEF NodeStarts, AtNode, CreateOutside, NodeCreated
<1>2. upd.pc \in Places /\ upd \in Working /\ "nodes" # "locked"
    BY <1>1, BaseTypes DEF Places
<1>3. made + 1 \in Objects /\ \A k \in Kinds : made + 1 \notin list[k]
    BY <1>1, NextObject, Zenon
<1>4. upd'.pc = "locked" /\ upd'.fresh = made + 1
    BY <1>1, <1>2, <1>3, CreatedFields, Zenon DEF Places
<1>5. \A x \in Objects : x # made + 1 => tagOf'[x] = tagOf[x] /\ status'[x] = status[x]
    BY <1>1, <1>3, BaseTypes, Zenon
<1>6. ASSUME Live PROVE Placed'
  <2>1. Placed /\ \A j \in Kinds : started[j]
    <3>1. Placed /\ \A j \in Kinds : started[j] = TRUE
        BY <1>2, <1>6, LiveRunning, Zenon DEF Safe
    <3> QED BY <3>1
  <2>2. ASSUME NEW j \in Kinds, NEW s \in AllTags, byTag[j][s] # None
        PROVE  tagOf'[byTag[j][s]] = s /\ byTag[j][s] \in list[j]
    <3>1. tagOf[byTag[j][s]] = s /\ byTag[j][s] \in list[j]
        BY <2>1, <2>2 DEF Placed
    <3>2. byTag[j][s] \in Objects /\ byTag[j][s] # made + 1
        BY <1>3, <3>1, BaseTypes, Zenon
    <3> QED BY <1>5, <3>1, <3>2, Zenon
  <2> QED BY <1>1, <2>1, <2>2 DEF Placed
<1>7. StartedIsManaged'
    BY <1>1, <1>2, <1>4, <1>5, Zenon DEF Safe, StartedIsManaged, Alive
<1>8. OutboundIndexValid'
    BY <1>1, Zenon DEF Safe, OutboundIndexValid
<1> QED BY <1>1, <1>6, <1>7, <1>8, Zenon DEF Safe, Live

\* An outbound that is installed keeps Safe.
LEMMA SafeNodeInstalled ==
    ASSUME Base, Safe, NodeInstalled
    PROVE  Safe'
<1>1. /\ Alive /\ upd.pc = "locked" /\ NodeCreated("lookup", None) /\ overlapped' = overlapped
      /\ Replace("outbound", upd.fresh, Node.tag, status) /\ UNCHANGED <<made, tagOf, deps>>
    BY Zenon DEF NodeInstalled, CreateLocked, NodeCreated
<1>2. upd.pc \in Places /\ upd \in Working
    BY <1>1, BaseTypes, Zenon DEF Places
<1>3. /\ upd.fresh \in 1..made /\ upd.i <= Len(Nodes) /\ tagOf[upd.fresh] = Node.tag
      /\ \A k \in Kinds : upd.fresh \notin list[k]
    BY <1>1, Zenon DEF Base, UpdateShape, AtCreate
<1>4. upd.fresh \in Objects
    BY <1>3, BaseTypes, ProviderAssumption DEF Objects
<1>5. Node.tag \in AllTags
    BY <1>2, <1>3, NodesShape, TagTypes, Zenon
<1>6. New(upd.fresh, status) /\ tagOf'[upd.fresh] = Node.tag
    BY <1>1, <1>3, <1>4, BaseTypes, Zenon DEF New
<1> QED BY <1>1, <1>2, <1>5, <1>6, BaseTypes, SafeReplace, Zenon

\* A created endpoint is new to both managers.
LEMMA NewEndpointNew ==
    ASSUME Base, AtNode, NewEndpoint(Node.tag)
    PROVE  /\ New(made + 1, WithNewEndpoint) /\ tagOf'[made + 1] = Node.tag
           /\ Node.tag \in AllTags /\ upd.pc \in Places
<1>1. upd.pc = "nodes" /\ upd.i <= Len(Nodes) /\ "nodes" # "locked"
    BY DEF AtNode
<1>2. upd.pc \in Places /\ upd \in Working
    BY <1>1, BaseTypes, Zenon DEF Places
<1>3. Node.tag \in AllTags
    BY <1>1, <1>2, NodesShape, TagTypes, Zenon
<1>4. /\ made' = made + 1 /\ made' \in Objects /\ WithNewEndpoint \in [Objects -> Statuses]
      /\ \A x \in Objects : x # made' => tagOf'[x] = tagOf[x] /\ WithNewEndpoint[x] = status[x]
      /\ tagOf'[made'] = Node.tag /\ \A k \in Kinds : made' \notin list[k]
    BY <1>3, NewEndpointTypes, Zenon
<1> QED BY <1>1, <1>2, <1>3, <1>4, Zenon DEF New

\* An endpoint that is created and installed keeps Safe.
LEMMA SafeEndpointInstalled ==
    ASSUME Base, Safe, EndpointInstalled
    PROVE  Safe'
<1>1. /\ AtNode /\ Alive /\ NewEndpoint(Node.tag) /\ overlapped' = overlapped
      /\ Replace("endpoint", made + 1, Node.tag, WithNewEndpoint)
    BY Zenon DEF EndpointInstalled, CreateEndpoint, NodeCreated, AtNode
<1> QED BY <1>1, NewEndpointNew, BaseTypes, SafeReplace, Zenon

\* A node whose predecessor cannot be closed keeps Safe.
LEMMA SafeOldCloseFails ==
    ASSUME Base, Safe, OldCloseFails
    PROVE  Safe'
<1>1. CASE /\ Alive /\ upd.pc = "locked"
           /\ CloseOldFails("outbound", upd.fresh, Node.tag, status)
           /\ UNCHANGED <<made, tagOf, deps>>
           /\ NodeCreated("remove", None)
  <2>1. /\ upd.fresh \in 1..made /\ upd.i <= Len(Nodes) /\ overlapped' = overlapped
        /\ \A k \in Kinds : upd.fresh \notin list[k]
      BY <1>1, Zenon DEF Base, UpdateShape, AtCreate, NodeCreated
  <2>2. upd.fresh \in Objects
      BY <2>1, BaseTypes, ProviderAssumption DEF Objects
  <2>3. upd.pc \in Places /\ upd \in Working
      BY <1>1, BaseTypes, Zenon DEF Places
  <2>4. Node.tag \in AllTags
      BY <2>1, <2>3, NodesShape, TagTypes, Zenon
  <2>5. New(upd.fresh, status)
      BY <1>1, <2>1, <2>2, BaseTypes, Zenon DEF New
  <2> QED BY <1>1, <2>1, <2>3, <2>4, <2>5, BaseTypes, SafeCloseOldFails, Zenon
<1>2. CASE /\ AtNode /\ upd.kind = "endpoint" /\ NewEndpoint(Node.tag)
           /\ CloseOldFails("endpoint", made + 1, Node.tag, WithNewEndpoint)
           /\ NodeCreated("remove", None)
  <2>1. Alive /\ overlapped' = overlapped
      BY <1>2, Zenon DEF AtNode, NodeCreated
  <2> QED BY <1>2, <2>1, NewEndpointNew, BaseTypes, SafeCloseOldFails, Zenon
<1> QED BY <1>1, <1>2, Zenon DEF OldCloseFails

\* UpdateGroups keeps Safe: it finds no nil outbound.
LEMMA SafeUpdateGroups ==
    ASSUME Base, Safe, UpdateGroups
    PROVE  Safe'
<1>1. /\ Alive /\ upd.pc = "groups" /\ overlapped' = overlapped
    BY Zenon DEF UpdateGroups
<1>2. "groups" \notin {"locked", "idle"} /\ upd.pc # "locked" /\ upd.pc # "idle"
    BY <1>1
<1>3. CASE None \notin Elems(Collected)
  <2>1. UNCHANGED mgrVars
      BY <1>3, Zenon DEF UpdateGroups
  <2> QED BY <1>1, <1>2, <2>1, SafeKept, Zenon
<1>4. CASE None \in Elems(Collected)
  <2>1. overlapped
    <3> SUFFICES ASSUME ~overlapped PROVE FALSE
        OBVIOUS
    <3>1. box = "running"
        BY <1>2, Zenon DEF Base, BoxShape
    <3>2. Solid
        BY <1>1, <3>1, Zenon DEF Base, BeforeProvider
    <3>3. active["outbound"] \in Seq(Objects) /\ active["endpoint"] \in Seq(Objects)
        BY <3>2, BaseTypes, Zenon DEF Solid
    <3>4. Collected \in Seq(Objects)
        BY <3>3, ElemsConcat, Zenon DEF Collected
    <3>5. Elems(Collected) \subseteq Objects
        BY <3>4, ElemsType, Zenon
    <3> QED BY <1>4, <3>5, NoneIsNoObject, Zenon
  <2> QED BY <1>1, <2>1, Zenon DEF Safe, StartedIsManaged, OutboundIndexValid, Live
<1> QED BY <1>3, <1>4, Zenon

\* Close of a manager: what was in its list is closed.
LEMMA SafeCloseManager ==
    ASSUME Base, Safe, Alive, overlapped => overlapped', upd' = upd,
           NEW k \in Kinds, CloseManager(k), started[k]
    PROVE  Safe'
<1>1. /\ byTag' = byTag /\ tagOf' = tagOf /\ dropped' = dropped /\ panicked' = panicked
      /\ \A j \in Kinds \ {k} : list'[j] = list[j] /\ started'[j] = started[j]
      /\ started'[k] = FALSE /\ list'[k] = {}
      /\ \A x \in Objects : status'[x] = "started" => status[x] = "started"
      /\ \A x \in list[k] : status'[x] = "closed"
      /\ \A j \in Kinds : list'[j] \subseteq list[j]
  <2>1. MgrTypeOK
      BY BaseTypes, Zenon
  <2> QED BY <2>1, CloseStep, Zenon
<1>2. Live' => Live
    BY <1>1, Zenon DEF Live, Alive
<1>3. ASSUME Live PROVE Placed'
  <2>1. Placed
      BY <1>3, Zenon DEF Safe
  <2>2. \A j \in Kinds : ~started'[j] => list'[j] = {}
      BY <1>1, <2>1 DEF Placed
  <2>3. ASSUME NEW j \in Kinds, NEW s \in AllTags, byTag[j][s] # None
        PROVE  tagOf[byTag[j][s]] = s /\ (started'[j] => byTag[j][s] \in list'[j])
    <3>1. tagOf[byTag[j][s]] = s /\ (started[j] => byTag[j][s] \in list[j])
        BY <2>1, <2>3, Zenon DEF Placed
    <3>2. CASE j = k
        BY <1>1, <3>1, <3>2
    <3>3. CASE j # k
        BY <1>1, <3>1, <3>3
    <3> QED BY <3>2, <3>3, Zenon
  <2>4. list'["outbound"] \cap list'["endpoint"] = {}
      BY <1>1, <2>1, BaseTypes, Zenon DEF Placed
  <2> QED BY <1>1, <2>2, <2>3, <2>4 DEF Placed
<1>4. StartedIsManaged'
  <2> SUFFICES ASSUME Live, NEW x \in Objects, status'[x] = "started"
               PROVE  \/ x \in list'["outbound"] \cup list'["endpoint"] \cup dropped'
                      \/ upd.pc = "locked" /\ upd.fresh = x
      BY <1>2, Zenon DEF StartedIsManaged, Live
  <2>1. \/ x \in list["outbound"] \cup list["endpoint"] \cup dropped
        \/ upd.pc = "locked" /\ upd.fresh = x
      BY <1>1, Zenon DEF Safe, StartedIsManaged, Live
  <2>2. "closed" # "started"
      OBVIOUS
  <2>3. \A j \in Kinds : x \in list[j] => x \in list'[j]
      BY <1>1, <2>2, Zenon
  <2> QED BY <1>1, <2>1, <2>3, BaseTypes, Zenon
<1>5. OutboundIndexValid'
    BY <1>1, Zenon DEF OutboundIndexValid, Alive
<1> QED BY <1>2, <1>3, <1>4, <1>5, Zenon DEF Safe

\* The steps of Box.Close keep Safe.
LEMMA SafeClosing ==
    ASSUME Base, Safe, CloseEndpoints \/ ProviderClose \/ ProviderRemoves \/ CloseOutbounds
    PROVE  Safe'
<1>1. CASE CloseEndpoints
  <2>1. /\ Alive /\ box = "running" /\ CloseManager("endpoint") /\ upd' = upd
      BY <1>1, Zenon DEF CloseEndpoints, BoxStep
  <2>2. ~overlapped /\ started["endpoint"] = TRUE
      BY <2>1, Zenon DEF Base, BoxShape
  <2>3. started["endpoint"]
      BY <2>2
  <2> QED BY <2>1, <2>2, <2>3, BaseTypes, SafeCloseManager, Zenon
<1>2. CASE ProviderClose
  <2>1. Alive /\ UNCHANGED mgrVars /\ upd' = upd /\ overlapped' = overlapped
      BY <1>2, Zenon DEF ProviderClose, BoxStep
  <2> QED BY <2>1, SafeKept, Zenon
<1>3. CASE ProviderRemoves
  <2>1. /\ Alive /\ box = "provider" /\ closing # <<>> /\ overlapped' = overlapped
        /\ Remove(Head(closing).kind, Head(closing).tag)
      BY <1>3, Zenon DEF ProviderRemoves
  <2>2. closing \in Seq([kind : Kinds, tag : AllTags])
      BY Zenon DEF Base
  <2>3. Head(closing) \in [kind : Kinds, tag : AllTags]
      BY <2>1, <2>2, ElemsTail, Zenon
  <2>4. Head(closing).kind \in Kinds /\ Head(closing).tag \in AllTags
      BY <2>3
  <2>5. "provider" \notin {"running", "closed"} /\ "idle" # "locked"
      OBVIOUS
  <2>6. started["outbound"] = TRUE /\ (Live => upd.pc = "idle")
      BY <2>1, <2>5, Zenon DEF Base, BoxShape, Live
  <2>7. started["outbound"]
      BY <2>6
  <2> QED BY <2>1, <2>4, <2>5, <2>6, <2>7, SafeRemove, Zenon
<1>4. CASE CloseOutbounds
  <2>1. /\ Alive /\ box = "provider" /\ CloseManager("outbound") /\ upd' = upd /\ overlapped' = overlapped
      BY <1>4, Zenon DEF CloseOutbounds, BoxStep
  <2>2. "provider" # "closed"
      OBVIOUS
  <2>3. started["outbound"] = TRUE
      BY <2>1, <2>2, Zenon DEF Base, BoxShape
  <2>4. started["outbound"]
      BY <2>3
  <2> QED BY <2>1, <2>4, BaseTypes, SafeCloseManager, Zenon
<1> QED BY <1>1, <1>2, <1>3, <1>4, Zenon

\* Safe holds when the box starts to run.
LEMMA SafeInit == Init => Safe
<1> SUFFICES ASSUME Init PROVE Safe
    OBVIOUS
<1>1. /\ started = [k \in Kinds |-> TRUE]
      /\ list = [k \in Kinds |-> IF k = "outbound" THEN {Compatible} ELSE {}]
      /\ byTag = [k \in Kinds |-> [t \in AllTags |->
                      IF k = "outbound" /\ t = CompatibleTag THEN Compatible ELSE None]]
      /\ tagOf = [o \in Objects |-> CompatibleTag]
      /\ status = [o \in Objects |-> IF o = Compatible THEN "started" ELSE "none"]
      /\ panicked = {}
    BY Zenon DEF Init, MgrInit
<1>2. /\ "outbound" \in Kinds /\ "endpoint" \in Kinds /\ "endpoint" # "outbound"
      /\ \A k \in Kinds : started[k]
    BY <1>1 DEF Kinds
<1>3. list["outbound"] = {Compatible} /\ list["endpoint"] = {}
    BY <1>1, <1>2, Zenon
<1>4. Compatible \in Objects
    BY ProviderAssumption DEF Compatible, Objects
<1>5. \A k \in Kinds, t \in AllTags : byTag[k][t] # None =>
         byTag[k][t] = Compatible /\ k = "outbound" /\ t = CompatibleTag
    BY <1>1, Zenon
<1>6. Placed
  <2>1. \A k \in Kinds, t \in AllTags : byTag[k][t] # None => tagOf[byTag[k][t]] = t /\ byTag[k][t] \in list[k]
      BY <1>1, <1>3, <1>4, <1>5, Zenon
  <2> QED BY <1>2, <1>3, <2>1 DEF Placed
<1>7. \A x \in Objects : status[x] = "started" => x = Compatible
  <2>1. \A x \in Objects : x # Compatible => status[x] = "none"
      BY <1>1, Zenon
  <2>2. "none" # "started"
      OBVIOUS
  <2> QED BY <2>1, <2>2, Zenon
<1>8. StartedIsManaged
    BY <1>3, <1>7, Zenon DEF StartedIsManaged
<1>9. OutboundIndexValid
    BY <1>1, Zenon DEF OutboundIndexValid
<1> QED BY <1>6, <1>8, <1>9, Zenon DEF Safe

\* Every step keeps Safe.
LEMMA SafeNext ==
    ASSUME Base, Safe, [Next]_vars
    PROVE  Safe'
<1>1. ASSUME \/ \E c \in Contents : UpdateBegin(c)
             \/ UpdateSnap \/ NodeKept \/ NodeLookedUp \/ UpdatePublish
             \/ \E t \in AllTags : SelectOutbound(t)
      PROVE  Safe'
  <2>1. /\ Alive /\ UNCHANGED mgrVars /\ (overlapped => overlapped')
        /\ upd.pc \in {"idle", "snap", "nodes", "lookup"} \/ upd' = upd
    <3>1. CASE \E c \in Contents : UpdateBegin(c)
        BY <3>1, Zenon DEF UpdateBegin
    <3>2. CASE \E t \in AllTags : SelectOutbound(t)
      <4>1. Alive /\ UNCHANGED mgrVars /\ UNCHANGED provVars
          BY <3>2, Zenon DEF SelectOutbound
      <4>2. upd' = upd /\ overlapped' = overlapped
          BY <4>1, Zenon DEF provVars
      <4> QED BY <4>1, <4>2, Zenon
    <3>3. CASE UpdateSnap
        BY <3>3, Zenon DEF UpdateSnap
    <3>4. CASE NodeKept
        BY <3>4, Zenon DEF NodeKept, AtNode
    <3>5. CASE NodeLookedUp
        BY <3>5, Zenon DEF NodeLookedUp
    <3>6. CASE UpdatePublish
        BY <3>6, Zenon DEF UpdatePublish
    <3> QED BY <1>1, <3>1, <3>2, <3>3, <3>4, <3>5, <3>6, Zenon
  <2>2. "locked" \notin {"idle", "snap", "nodes", "lookup"}
      OBVIOUS
  <2> QED BY <2>1, <2>2, SafeKept, Zenon
<1>2. CASE NodeFails
  <2>1. /\ Alive /\ upd.pc = "nodes" /\ upd.i <= Len(Nodes) /\ overlapped' = overlapped
        /\ Remove(upd.kind, Node.tag) \/ UNCHANGED mgrVars
      BY <1>2, Zenon DEF NodeFails, AtNode, NodeSkipped
  <2> QED BY <2>1, SafeSkips, Zenon
<1>3. CASE OldRemoved
  <2>1. /\ Alive /\ upd.pc = "remove" /\ overlapped' = overlapped
        /\ Remove(upd.kind, Node.tag) \/ UNCHANGED mgrVars
      BY <1>3, Zenon DEF OldRemoved, NodeSkipped
  <2>2. upd.i <= Len(Nodes)
      BY <2>1, Zenon DEF Base, UpdateShape, AtCreate
  <2> QED BY <2>1, <2>2, SafeSkips, Zenon
<1>4. CASE UNCHANGED vars
  <2>1. /\ UNCHANGED <<started, list, byTag, tagOf, status, dropped, panicked, upd, overlapped>>
      BY <1>4, Zenon DEF vars, mgrVars, provVars
  <2> QED BY <2>1, Zenon DEF Safe, Live, Alive, Placed, StartedIsManaged, OutboundIndexValid
<1> QED BY <1>1, <1>2, <1>3, <1>4, SafeUpdateRemove, SafeNodeStarts, SafeNodeInstalled,
           SafeEndpointInstalled, SafeOldCloseFails, SafeUpdateGroups, SafeClosing, Zenon DEF Next

\* When Box.Close has returned both lists are empty, so nothing is managed.
LEMMA SafeAtEnd ==
    ASSUME Base, Safe
    PROVE  ClosedAtEnd
<1> SUFFICES ASSUME box = "closed", ~overlapped, Alive, NEW o \in Objects \ dropped, status[o] = "started"
             PROVE  FALSE
    BY Zenon DEF ClosedAtEnd
<1>1. "closed" # "running" /\ "idle" # "locked"
    OBVIOUS
<1>2. upd.pc = "idle" /\ started["endpoint"] = FALSE /\ started["outbound"] = FALSE
    BY <1>1, Zenon DEF Base, BoxShape
<1>3. list["endpoint"] = {} /\ list["outbound"] = {}
    BY <1>2, BaseTypes DEF Safe, Live, Placed
<1> QED BY <1>1, <1>2, <1>3, Zenon DEF Safe, StartedIsManaged

-----------------------------------------------------------------------------
(* Current: while the box runs the maps, the provider's lists and the      *)
(* update in progress agree                                                *)

\* What the maps name while the box runs.
LEMMA RunningFacts ==
    ASSUME Base, Safe, Running
    PROVE  /\ ~overlapped /\ Solid /\ Placed /\ \A k \in Kinds : started[k]
           /\ \A k \in Kinds, t \in AllTags : byTag[k][t] # None =>
                 /\ byTag[k][t] \in Objects /\ byTag[k][t] \in list[k] /\ tagOf[byTag[k][t]] = t
<1>1. Alive /\ box = "running" /\ ~overlapped
    BY Zenon DEF Running, Base, BoxShape
<1>2. Solid /\ Placed
    BY <1>1, Zenon DEF Base, BeforeProvider, Safe, Live
<1>3. \A k \in Kinds : started[k]
  <2>1. "running" # "closed"
      OBVIOUS
  <2>2. started["endpoint"] = TRUE /\ started["outbound"] = TRUE
      BY <1>1, <2>1, Zenon DEF Base, BoxShape
  <2> QED BY <2>2 DEF Kinds
<1>4. ASSUME NEW k \in Kinds, NEW t \in AllTags, byTag[k][t] # None
      PROVE  byTag[k][t] \in Objects /\ byTag[k][t] \in list[k] /\ tagOf[byTag[k][t]] = t
  <2>1. tagOf[byTag[k][t]] = t /\ byTag[k][t] \in list[k]
      BY <1>2, <1>3, <1>4 DEF Placed
  <2> QED BY <2>1, BaseTypes, Zenon
<1> QED BY <1>1, <1>2, <1>3, <1>4, Zenon

\* Two tags of the maps never name one object.
LEMMA NamedApart ==
    ASSUME Base, Safe, Running, NEW k \in Kinds, NEW t \in AllTags
    PROVE  \A j \in Kinds, s \in AllTags :
              (byTag[j][s] # None /\ ~(j = k /\ s = t)) => byTag[j][s] # byTag[k][t]
<1> SUFFICES ASSUME NEW j \in Kinds, NEW s \in AllTags, byTag[j][s] # None, ~(j = k /\ s = t),
                    byTag[j][s] = byTag[k][t]
             PROVE  FALSE
    BY Zenon
<1>1. Placed /\ byTag[k][t] # None
    BY RunningFacts, Zenon
<1>2. byTag[j][s] \in list[j] /\ tagOf[byTag[j][s]] = s
    BY RunningFacts, Zenon
<1>3. byTag[k][t] \in list[k] /\ tagOf[byTag[k][t]] = t
    BY <1>1, RunningFacts, Zenon
<1>4. s = t /\ byTag[k][t] \in list[j] /\ byTag[k][t] \in list[k] /\ j # k
    BY <1>2, <1>3, Zenon
<1>5. list["outbound"] \cap list["endpoint"] = {}
    BY <1>1, Zenon DEF Placed
<1>6. (j = "outbound" \/ j = "endpoint") /\ (k = "outbound" \/ k = "endpoint")
    BY Zenon DEF Kinds
<1> QED BY <1>4, <1>5, <1>6

\* A step that changes what one tag names, or the state of what it names.
Changed(k, t) ==
    \A j \in Kinds, s \in AllTags : ~(j = k /\ s = t) =>
        /\ byTag'[j][s] = byTag[j][s]
        /\ byTag[j][s] # None => status'[byTag[j][s]] = status[byTag[j][s]]

\* Managers that are left alone change at no tag.
LEMMA KeptChanges ==
    ASSUME UNCHANGED mgrVars, NEW k, NEW t
    PROVE  Changed(k, t)
BY Zenon DEF mgrVars, Changed

\* Remove changes one tag, which then names nothing.
LEMMA RemoveChanges ==
    ASSUME Base, Safe, Running, NEW k \in Kinds, NEW t \in AllTags, Remove(k, t)
    PROVE  Changed(k, t) /\ byTag'[k][t] = None /\ tagOf' = tagOf
<1> DEFINE old == byTag[k][t]
<1>1. MgrTypeOK /\ old \in Objects \cup {None} /\ None \notin Objects
    BY BaseTypes, NamedType, NoneIsNoObject, Zenon
<1>2. /\ tagOf' = tagOf /\ byTag' = [byTag EXCEPT ![k][t] = None]
      /\ \A x \in Objects : x # old => status'[x] = status[x]
    BY <1>1, RemoveStep, Zenon
<1>3. \A j \in Kinds, s \in AllTags :
         byTag'[j][s] = IF j = k /\ s = t THEN None ELSE byTag[j][s]
    BY <1>2, BaseTypes
<1>4. ASSUME NEW j \in Kinds, NEW s \in AllTags, ~(j = k /\ s = t), byTag[j][s] # None
      PROVE  status'[byTag[j][s]] = status[byTag[j][s]]
  <2>1. byTag[j][s] \in Objects
      BY <1>4, RunningFacts, Zenon
  <2>2. byTag[j][s] # old
      BY <1>4, NamedApart, Zenon
  <2> QED BY <1>2, <2>1, <2>2, Zenon
<1>5. /\ \A j \in Kinds, s \in AllTags : ~(j = k /\ s = t) => byTag'[j][s] = byTag[j][s]
      /\ byTag'[k][t] = None
    BY <1>3, Zenon
<1> QED BY <1>2, <1>4, <1>5, Zenon DEF Changed

\* Create changes one tag, which then names the new object.
LEMMA ReplaceChanges ==
    ASSUME Base, Safe, Running, NEW k \in Kinds, NEW t \in AllTags, NEW o, NEW st,
           New(o, st), Replace(k, o, t, st), Alive'
    PROVE  Changed(k, t) /\ byTag'[k][t] = o /\ status'[o] = st[o] /\ o \in Objects
<1> DEFINE old == byTag[k][t]
<1>1. /\ MgrTypeOK /\ old \in Objects \cup {None} /\ None \notin Objects
      /\ o \in Objects /\ st \in [Objects -> Statuses]
    BY BaseTypes, NamedType, NoneIsNoObject, Zenon DEF New
<1>2. /\ \A x \in Objects : x # old => status'[x] = st[x]
      /\ byTag' = [byTag EXCEPT ![k][t] = o]
  <2> HIDE DEF old
  <2>1. old = byTag[k][t]
      BY DEF old
  <2>2. /\ \A x \in Objects : x # old => status'[x] = st[x]
        /\ byTag' = [byTag EXCEPT ![k][t] = o] \/ panicked' = panicked \cup {k}
      BY <1>1, <2>1, ReplaceStep
  <2> QED BY <2>2, Zenon DEF Alive
<1>3. \A j \in Kinds, s \in AllTags :
         byTag'[j][s] = IF j = k /\ s = t THEN o ELSE byTag[j][s]
    BY <1>2, BaseTypes
<1>4. old # o
  <2>1. old \in Objects => old \in list[k]
      BY <1>1, RunningFacts
  <2> QED BY <1>1, <2>1, Zenon DEF New
<1>5. ASSUME NEW j \in Kinds, NEW s \in AllTags, ~(j = k /\ s = t), byTag[j][s] # None
      PROVE  status'[byTag[j][s]] = status[byTag[j][s]]
  <2>1. byTag[j][s] \in Objects /\ byTag[j][s] \in list[j]
      BY <1>5, RunningFacts, Zenon
  <2>2. byTag[j][s] # old
      BY <1>5, NamedApart, Zenon
  <2>3. byTag[j][s] # o
      BY <2>1, Zenon DEF New
  <2> QED BY <1>2, <2>1, <2>2, <2>3, Zenon DEF New
<1>6. /\ \A j \in Kinds, s \in AllTags : ~(j = k /\ s = t) => byTag'[j][s] = byTag[j][s]
      /\ byTag'[k][t] = o
    BY <1>3, Zenon
<1> QED BY <1>1, <1>2, <1>4, <1>5, <1>6, Zenon DEF Changed

\* A Create that fails to close the old object leaves the map alone.
LEMMA CloseOldFailsChanges ==
    ASSUME Base, Safe, Running, NEW k \in Kinds, NEW t \in AllTags, NEW o, NEW st,
           New(o, st), CloseOldFails(k, o, t, st)
    PROVE  Changed(k, t) /\ byTag' = byTag /\ byTag[k][t] # None
<1> DEFINE old == byTag[k][t]
<1>1. /\ old # None /\ status' = [st EXCEPT ![old] = "closed"] /\ byTag' = byTag
    BY Zenon DEF CloseOldFails
<1>2. old \in Objects /\ st \in [Objects -> Statuses]
    BY <1>1, BaseTypes, NamedType, Zenon DEF New
<1>3. \A x \in Objects : x # old => status'[x] = st[x]
    BY <1>1, <1>2, Zenon
<1>4. ASSUME NEW j \in Kinds, NEW s \in AllTags, ~(j = k /\ s = t), byTag[j][s] # None
      PROVE  status'[byTag[j][s]] = status[byTag[j][s]]
  <2>1. byTag[j][s] \in Objects /\ byTag[j][s] \in list[j]
      BY <1>4, RunningFacts, Zenon
  <2>2. byTag[j][s] # old
      BY <1>4, NamedApart, Zenon
  <2>3. byTag[j][s] # o
      BY <2>1, Zenon DEF New
  <2> QED BY <1>3, <2>1, <2>2, <2>3, Zenon DEF New
<1> QED BY <1>1, <1>4, Zenon DEF Changed

\* Healthy is kept by a change at one tag whose object is started.
LEMMA HealthyChanged ==
    ASSUME Healthy, NEW k \in Kinds, NEW t \in AllTags, Changed(k, t),
           upd.pc = "remove" => upd.kind = k /\ Node.tag = t,
           byTag'[k][t] # None => \/ status'[byTag'[k][t]] = "started"
                                  \/ upd'.pc = "remove" /\ upd'.kind = k /\ Node'.tag = t
    PROVE  Healthy'
<1> SUFFICES ASSUME NEW j \in Kinds, NEW s \in AllTags, byTag'[j][s] # None
             PROVE  \/ status'[byTag'[j][s]] = "started"
                    \/ upd'.pc = "remove" /\ upd'.kind = j /\ Node'.tag = s
    BY Zenon DEF Healthy
<1>1. CASE j = k /\ s = t
    BY <1>1, Zenon
<1>2. CASE ~(j = k /\ s = t)
  <2>1. byTag'[j][s] = byTag[j][s] /\ byTag[j][s] # None
      BY <1>2, Zenon DEF Changed
  <2>2. status'[byTag[j][s]] = status[byTag[j][s]]
      BY <1>2, <2>1, Zenon DEF Changed
  <2>3. status[byTag[j][s]] = "started"
      BY <1>2, <2>1, Zenon DEF Healthy
  <2> QED BY <2>1, <2>2, <2>3, Zenon
<1> QED BY <1>1, <1>2, Zenon

\* A list is settled as long as neither it nor the map changes.
LEMMA SettledKept ==
    ASSUME NEW j \in Kinds, Settled(j), active'[j] = active[j],
           \A s \in AllTags : byTag'[j][s] = byTag[j][s]
    PROVE  Settled(j)'
<1>1. \A s \in Tags : byTag'[j][s] = byTag[j][s]
    BY TagTypes, Zenon
<1>2. {byTag'[j][s] : s \in Tags} = {byTag[j][s] : s \in Tags}
    BY <1>1, Zenon
<1> QED BY <1>2, Zenon DEF Settled

\* A step within the loop over the nodes, or before it, that changes one tag.
LEMMA CurrentInside ==
    ASSUME Current, NEW t \in Tags, upd.kind \in Kinds, Changed(upd.kind, t), active' = active,
           upd.pc = "nodes" \/ AtCreate, upd'.pc \in {"nodes", "locked", "lookup", "remove"},
           upd'.kind = upd.kind, Healthy', Progress'
    PROVE  Current'
<1>1. t \in AllTags /\ t # CompatibleTag /\ CompatibleTag \in AllTags /\ "outbound" \in Kinds
    BY TagTypes, ProviderAssumption, Zenon DEF Kinds
<1>2. byTag'["outbound"][CompatibleTag] = Compatible
    BY <1>1, Zenon DEF Changed, Current
<1>3. \A k \in Kinds \ {upd.kind} : Settled(k)'
  <2> SUFFICES ASSUME NEW k \in Kinds \ {upd.kind} PROVE Settled(k)'
      BY Zenon
  <2>1. Settled(k)
      BY Zenon DEF Current
  <2>2. \A s \in AllTags : byTag'[k][s] = byTag[k][s]
      BY Zenon DEF Changed
  <2> QED BY <2>1, <2>2, SettledKept, Zenon
<1>4. upd'.pc \notin {"idle", "groups", "snap"}
    OBVIOUS
<1> QED BY <1>2, <1>3, <1>4, Zenon DEF Current

\* At a node: the other nodes have other tags.
LEMMA AtNodeFacts ==
    ASSUME upd \in Working, Progress, upd.snap = <<>>, upd.i <= Len(Nodes), Changed(upd.kind, Node.tag)
    PROVE  /\ upd.kind \in Kinds /\ Node.tag \in Tags /\ Node.tag \in AllTags /\ Node.tag \in Names
           /\ upd.i \in DOMAIN Nodes /\ 1..(upd.i - 1) \subseteq DOMAIN Nodes
           /\ \A j \in DOMAIN Nodes : j # upd.i =>
                 byTag'[upd.kind][Nodes[j].tag] = byTag[upd.kind][Nodes[j].tag]
           /\ \A j \in 1..(upd.i - 1) :
                 byTag'[upd.kind][Nodes[j].tag] = byTag[upd.kind][Nodes[j].tag]
           /\ {t \in Tags : byTag'[upd.kind][t] # None} \subseteq Names
<1>1. /\ upd.kind \in Kinds /\ Len(Nodes) \in Nat /\ DOMAIN Nodes = 1..Len(Nodes)
      /\ \A j \in DOMAIN Nodes : Nodes[j].tag \in Tags
      /\ \A h, j \in DOMAIN Nodes : Nodes[h].tag = Nodes[j].tag => h = j
      /\ upd.i \in Nat /\ upd.i >= 1 /\ upd.i \in DOMAIN Nodes /\ Node.tag \in Tags
    BY NodesShape, Zenon
<1>2. 1..(upd.i - 1) \subseteq 1..Len(Nodes) /\ \A j \in 1..(upd.i - 1) : j # upd.i
    BY <1>1
<1>3. Node.tag \in AllTags /\ Node.tag \in Names
    BY <1>1, TagTypes, Zenon DEF Names, Node
<1>4. ASSUME NEW j \in DOMAIN Nodes, j # upd.i
      PROVE  byTag'[upd.kind][Nodes[j].tag] = byTag[upd.kind][Nodes[j].tag]
  <2>1. Nodes[j].tag # Node.tag /\ Nodes[j].tag \in AllTags
      BY <1>1, <1>4, TagTypes, Zenon DEF Node
  <2> QED BY <1>1, <2>1, Zenon DEF Changed
<1>5. TagsOf(upd.snap) = {}
  <2>1. Elems(<<>>) = {}
      BY DEF Elems
  <2> QED BY <2>1, Zenon DEF TagsOf
<1>6. ASSUME NEW t \in Tags, byTag'[upd.kind][t] # None PROVE t \in Names
  <2>1. CASE t = Node.tag
      BY <1>3, <2>1, Zenon
  <2>2. CASE t # Node.tag
    <3>1. byTag[upd.kind][t] # None
        BY <1>1, <1>6, <2>2, TagTypes, ZenonT(60) DEF Changed
    <3> QED BY <1>5, <3>1, Zenon DEF Progress, Named
  <2> QED BY <2>1, <2>2, Zenon
<1> QED BY <1>1, <1>2, <1>3, <1>4, <1>6, Zenon

\* Progress is kept while the node an update is at is being created,
LEMMA ProgressCreate ==
    ASSUME upd \in Working, Progress, upd.snap = <<>>, upd.i <= Len(Nodes),
           Changed(upd.kind, Node.tag),
           upd'.pc \in {"locked", "lookup", "remove"}, upd'.kind = upd.kind, upd'.new = upd.new,
           upd'.active = upd.active, upd'.snap = upd.snap, upd'.i = upd.i, upd'.built = upd.built,
           upd'.pc = "locked" => upd.pc = "nodes" /\ byTag' = byTag /\ status'[upd'.fresh] = "started",
           upd'.pc = "remove" => Node.tag \in upd.active
    PROVE  Progress'
<1> DEFINE k == upd.kind
<1>1. Nodes' = Nodes /\ Node' = Node /\ Names' = Names
    BY Zenon DEF Nodes, Node, Names
<1>2. /\ upd.i \in DOMAIN Nodes /\ 1..(upd.i - 1) \subseteq DOMAIN Nodes
      /\ \A j \in DOMAIN Nodes : j # upd.i => byTag'[k][Nodes[j].tag] = byTag[k][Nodes[j].tag]
      /\ \A j \in 1..(upd.i - 1) : byTag'[k][Nodes[j].tag] = byTag[k][Nodes[j].tag]
      /\ {t \in Tags : byTag'[k][t] # None} \subseteq Names
    BY AtNodeFacts, Zenon
<1>3. /\ Elems(upd.built) = {byTag[k][Nodes[j].tag] : j \in 1..(upd.i - 1)} \ {None}
      /\ upd.i <= Len(Nodes) + 1
    BY Zenon DEF Progress
<1>4. {byTag'[k][Nodes[j].tag] : j \in 1..(upd.i - 1)} = {byTag[k][Nodes[j].tag] : j \in 1..(upd.i - 1)}
    BY <1>2, ZenonT(60)
<1>5. Elems(upd'.built) = {byTag'[k][Nodes[j].tag] : j \in 1..(upd.i - 1)} \ {None}
    BY <1>3, <1>4, Zenon
<1>6. (TagsOf(upd.snap))' = {}
  <2>1. Elems(<<>>) = {}
      BY DEF Elems
  <2>2. Elems(upd'.snap) = {}
      BY <2>1, Zenon
  <2> QED BY <2>2, Zenon DEF TagsOf, Elems
<1>7. ASSUME NEW j \in DOMAIN Nodes, j > upd.i \/ (j = upd.i /\ upd'.pc \in {"nodes", "locked"})
      PROVE  byTag'[k][Nodes[j].tag] # None <=> Nodes[j].tag \in upd.active
  <2>1. CASE j > upd.i
    <3>1. j # upd.i
        BY <2>1, NodesShape
    <3> QED BY <1>2, <2>1, <3>1, Zenon DEF Progress
  <2>2. CASE j = upd.i /\ upd'.pc \in {"nodes", "locked"}
    <3>1. upd.pc = "nodes" /\ byTag' = byTag
        BY <2>2, SMTT(30)
    <3> QED BY <2>2, <3>1, Zenon DEF Progress
  <2> QED BY <1>7, <2>1, <2>2, Zenon
<1>8. (Elems(upd.built) = {byTag[upd.kind][Nodes[j].tag] : j \in 1..(upd.i - 1)} \ {None})'
    BY <1>1, <1>5, SMTT(30)
<1>9. (Named(upd.kind) \subseteq Names)'
    BY <1>1, <1>2 DEF Named
<1>10. (\A j \in DOMAIN Nodes : j > upd.i \/ (j = upd.i /\ upd.pc \in {"nodes", "locked"}) =>
          (byTag[upd.kind][Nodes[j].tag] # None <=> Nodes[j].tag \in upd.active))'
    BY <1>1, <1>7, Zenon
<1>11. (upd.i <= Len(Nodes) + 1)' /\ (upd'.pc = "locked" => status'[upd'.fresh] = "started")
       /\ (upd.pc = "remove" => Node.tag \in upd.active)'
    BY <1>1, <1>3, Zenon
<1> QED BY <1>6, <1>8, <1>9, <1>10, <1>11, Zenon DEF Progress

\* and when the update goes on to the next node with this one built or gone.
LEMMA ProgressAdvance ==
    ASSUME upd \in Working, Progress, upd.snap = <<>>, upd.i <= Len(Nodes),
           Changed(upd.kind, Node.tag),
           upd'.pc = "nodes", upd'.kind = upd.kind, upd'.new = upd.new,
           upd'.active = upd.active, upd'.snap = upd.snap, upd'.i = upd.i + 1,
           Elems(upd'.built) = Elems(upd.built) \cup ({byTag'[upd.kind][Node.tag]} \ {None})
    PROVE  Progress'
<1> DEFINE k == upd.kind
           before == {byTag[k][Nodes[j].tag] : j \in 1..(upd.i - 1)}
<1>1. Nodes' = Nodes /\ Names' = Names
    BY Zenon DEF Nodes, Names
<1>2. /\ upd.i \in DOMAIN Nodes /\ 1..(upd.i - 1) \subseteq DOMAIN Nodes
      /\ \A j \in DOMAIN Nodes : j # upd.i => byTag'[k][Nodes[j].tag] = byTag[k][Nodes[j].tag]
      /\ \A j \in 1..(upd.i - 1) : byTag'[k][Nodes[j].tag] = byTag[k][Nodes[j].tag]
      /\ {t \in Tags : byTag'[k][t] # None} \subseteq Names
    BY AtNodeFacts, Zenon
<1>3. upd.i \in Nat /\ upd.i >= 1 /\ Len(Nodes) \in Nat /\ DOMAIN Nodes = 1..Len(Nodes)
    BY NodesShape, Zenon
<1>4. Elems(upd.built) = before \ {None}
    BY Zenon DEF Progress
<1>5. {byTag'[k][Nodes[j].tag] : j \in 1..(upd'.i - 1)} = before \cup {byTag'[k][Node.tag]}
  <2>1. \A j : j \in 1..(upd'.i - 1) <=> (j \in 1..(upd.i - 1) \/ j = upd.i)
      BY <1>3
  <2>2. Node = Nodes[upd.i]
      BY Zenon DEF Node
  <2>3. {byTag'[k][Nodes[j].tag] : j \in 1..(upd'.i - 1)} \subseteq before \cup {byTag'[k][Node.tag]}
    <3> SUFFICES ASSUME NEW j \in 1..(upd'.i - 1)
                 PROVE  byTag'[k][Nodes[j].tag] \in before \cup {byTag'[k][Node.tag]}
        BY Zenon
    <3>1. CASE j = upd.i
        BY <2>2, <3>1, Zenon
    <3>2. CASE j \in 1..(upd.i - 1)
        BY <1>2, <3>2, Zenon
    <3> QED BY <2>1, <3>1, <3>2, Zenon
  <2>4. before \cup {byTag'[k][Node.tag]} \subseteq {byTag'[k][Nodes[j].tag] : j \in 1..(upd'.i - 1)}
    <3>1. ASSUME NEW j \in 1..(upd.i - 1)
          PROVE  byTag[k][Nodes[j].tag] \in {byTag'[k][Nodes[h].tag] : h \in 1..(upd'.i - 1)}
      <4>1. byTag[k][Nodes[j].tag] = byTag'[k][Nodes[j].tag] /\ j \in 1..(upd'.i - 1)
          BY <1>2, <2>1, Zenon
      <4> QED BY <4>1, Zenon
    <3>2. byTag'[k][Node.tag] \in {byTag'[k][Nodes[h].tag] : h \in 1..(upd'.i - 1)}
        BY <2>1, <2>2, Zenon
    <3> QED BY <3>1, <3>2, Zenon
  <2> QED BY <2>3, <2>4, Zenon
<1>6. Elems(upd'.built) = {byTag'[k][Nodes[j].tag] : j \in 1..(upd'.i - 1)} \ {None}
  <2> HIDE DEF before
  <2> QED BY <1>4, <1>5, Zenon
<1>7. (TagsOf(upd.snap))' = {}
  <2>1. Elems(<<>>) = {}
      BY DEF Elems
  <2>2. Elems(upd'.snap) = {}
      BY <2>1, Zenon
  <2> QED BY <2>2, Zenon DEF TagsOf, Elems
<1>8. ASSUME NEW j \in DOMAIN Nodes, j > upd'.i \/ (j = upd'.i /\ upd'.pc \in {"nodes", "locked"})
      PROVE  byTag'[k][Nodes[j].tag] # None <=> Nodes[j].tag \in upd.active
  <2>1. j > upd.i /\ j # upd.i
      BY <1>3, <1>8
  <2> QED BY <1>2, <2>1, Zenon DEF Progress
<1>9. (Elems(upd.built) = {byTag[upd.kind][Nodes[j].tag] : j \in 1..(upd.i - 1)} \ {None})'
  <2>1. \A j \in 1..(upd'.i - 1) : byTag'[upd'.kind][Nodes'[j].tag] = byTag'[k][Nodes[j].tag]
      BY <1>1, Zenon
  <2>2. {byTag'[upd'.kind][Nodes'[j].tag] : j \in 1..(upd'.i - 1)} = {byTag'[k][Nodes[j].tag] : j \in 1..(upd'.i - 1)}
      BY <2>1, ZenonT(60)
  <2> QED BY <1>6, <2>2, Zenon
<1>10. (Named(upd.kind) \subseteq Names)'
    BY <1>1, <1>2 DEF Named
<1>11. (\A j \in DOMAIN Nodes : j > upd.i \/ (j = upd.i /\ upd.pc \in {"nodes", "locked"}) =>
          (byTag[upd.kind][Nodes[j].tag] # None <=> Nodes[j].tag \in upd.active))'
    BY <1>1, <1>8, Zenon
<1>12. (upd.i <= Len(Nodes) + 1)'
  <2>1. upd.i + 1 <= Len(Nodes) + 1
      BY <1>3
  <2> QED BY <1>1, <2>1, Zenon
<1>13. upd'.pc \notin {"locked", "remove"}
    OBVIOUS
<1> QED BY <1>7, <1>9, <1>10, <1>11, <1>12, <1>13, Zenon DEF Progress

\* A node is kept or was just created: its object is added to the list.
LEMMA CurrentAdds ==
    ASSUME Base, Safe, Running, Current, upd \in Working, upd.pc \in {"nodes", "lookup"},
           upd.snap = <<>>, upd.i <= Len(Nodes), byTag[upd.kind][Node.tag] # None,
           upd' = [upd EXCEPT !.pc = "nodes", !.i = @ + 1, !.built = Append(@, Lookup(upd.kind, Node.tag))],
           UNCHANGED mgrVars, active' = active
    PROVE  Current'
<1>1. upd.kind \in Kinds /\ Node.tag \in Tags /\ Node.tag \in AllTags
    BY NodesShape, TagTypes, Zenon
<1>2. Lookup(upd.kind, Node.tag) = byTag[upd.kind][Node.tag]
    BY Zenon DEF Lookup
<1>3. byTag[upd.kind][Node.tag] \in Objects
    BY <1>1, BaseTypes, NamedType, Zenon
<1>4. /\ upd' \in Working /\ upd'.pc = "nodes" /\ upd'.i = upd.i + 1
      /\ upd'.built = Append(upd.built, byTag[upd.kind][Node.tag])
      /\ upd'.kind = upd.kind /\ upd'.new = upd.new /\ upd'.active = upd.active /\ upd'.snap = upd.snap
    BY <1>2, <1>3, BuiltFields, Zenon
<1>5. Elems(upd'.built) = Elems(upd.built) \cup {byTag[upd.kind][Node.tag]}
  <2>1. upd.built \in Seq(Objects \cup {None}) /\ byTag[upd.kind][Node.tag] \in Objects \cup {None}
      BY <1>3, Zenon DEF Working
  <2> QED BY <1>4, <2>1, ElemsAppend
<1>6. Changed(upd.kind, Node.tag) /\ byTag' = byTag /\ status' = status
    BY KeptChanges, Zenon DEF mgrVars
<1>7. Elems(upd'.built) = Elems(upd.built) \cup ({byTag'[upd.kind][Node.tag]} \ {None})
    BY <1>5, <1>6, Zenon
<1>8. Progress /\ Healthy /\ (upd.pc = "nodes" \/ AtCreate)
    BY Zenon DEF Current, AtCreate
<1>9. Progress'
    BY <1>4, <1>6, <1>7, <1>8, ProgressAdvance, Zenon
<1>10. upd.pc # "remove"
    OBVIOUS
<1>11. Healthy'
  <2>1. status[byTag[upd.kind][Node.tag]] = "started"
      BY <1>1, <1>8, <1>10, Zenon DEF Healthy
  <2> QED BY <1>1, <1>6, <1>8, <1>10, <2>1, HealthyChanged, Zenon
<1> QED BY <1>1, <1>4, <1>6, <1>8, <1>9, <1>11, CurrentInside, Zenon

\* A node is given up: its tag names nothing.
LEMMA CurrentSkips ==
    ASSUME Current, upd \in Working, upd.pc \in {"nodes", "remove"},
           upd.snap = <<>>, upd.i <= Len(Nodes), NodeSkipped,
           Changed(upd.kind, Node.tag), byTag'[upd.kind][Node.tag] = None
    PROVE  Current'
<1>1. upd.kind \in Kinds /\ Node.tag \in Tags /\ Node.tag \in AllTags
    BY NodesShape, TagTypes, Zenon
<1>2. /\ upd'.pc = "nodes" /\ upd'.i = upd.i + 1 /\ upd'.built = upd.built /\ active' = active
      /\ upd'.kind = upd.kind /\ upd'.new = upd.new /\ upd'.active = upd.active /\ upd'.snap = upd.snap
    BY SkippedFields, Zenon DEF NodeSkipped
<1>3. Elems(upd'.built) = Elems(upd.built) \cup ({byTag'[upd.kind][Node.tag]} \ {None})
    BY <1>2, Zenon
<1>4. Progress /\ Healthy /\ (upd.pc = "nodes" \/ AtCreate)
    BY Zenon DEF Current, AtCreate
<1>5. Progress'
    BY <1>2, <1>3, <1>4, ProgressAdvance, Zenon
<1>6. upd.pc = "remove" => upd.kind = upd.kind /\ Node.tag = Node.tag
    OBVIOUS
<1>7. Healthy'
    BY <1>1, <1>4, HealthyChanged, Zenon
<1> QED BY <1>1, <1>2, <1>4, <1>5, <1>7, CurrentInside, Zenon

\* A new node was created, installed, or is dropped for an old one.
LEMMA CurrentCreates ==
    ASSUME Current, upd \in Working, upd.pc \in {"nodes", "locked"},
           upd.snap = <<>>, upd.i <= Len(Nodes), Changed(upd.kind, Node.tag),
           NEW pc \in {"locked", "lookup", "remove"}, NEW o \in Objects \cup {None}, NodeCreated(pc, o),
           pc = "locked" => upd.pc = "nodes" /\ byTag' = byTag /\ status'[o] = "started",
           pc = "remove" => Node.tag \in upd.active,
           (pc # "remove" /\ byTag'[upd.kind][Node.tag] # None) =>
               status'[byTag'[upd.kind][Node.tag]] = "started"
    PROVE  Current'
<1>1. upd.kind \in Kinds /\ Node.tag \in Tags /\ Node.tag \in AllTags
    BY NodesShape, TagTypes, Zenon
<1>2. /\ upd'.pc = pc /\ upd'.i = upd.i /\ upd'.built = upd.built /\ active' = active /\ upd'.fresh = o
      /\ upd'.kind = upd.kind /\ upd'.new = upd.new /\ upd'.active = upd.active /\ upd'.snap = upd.snap
    BY CreatedFields, Zenon DEF NodeCreated, Places
<1>3. Progress /\ Healthy /\ (upd.pc = "nodes" \/ AtCreate)
    BY Zenon DEF Current, AtCreate
<1>4. Progress'
  <2>1. /\ upd'.pc = "locked" => upd.pc = "nodes" /\ byTag' = byTag /\ status'[upd'.fresh] = "started"
        /\ upd'.pc = "remove" => Node.tag \in upd.active
        /\ upd'.pc \in {"locked", "lookup", "remove"}
      BY <1>2, Zenon
  <2> QED BY <1>2, <1>3, <2>1, ProgressCreate, Zenon
<1>5. upd.pc # "remove" /\ Node' = Node
  <2>1. Node' = Node
      BY <1>2, Zenon DEF Node, Nodes
  <2>2. upd.pc # "remove"
      OBVIOUS
  <2> QED BY <2>1, <2>2, Zenon
<1>6. byTag'[upd.kind][Node.tag] # None =>
         \/ status'[byTag'[upd.kind][Node.tag]] = "started"
         \/ upd'.pc = "remove" /\ upd'.kind = upd.kind /\ Node'.tag = Node.tag
    BY <1>2, <1>5, Zenon
<1>7. Healthy'
    BY <1>1, <1>3, <1>5, <1>6, HealthyChanged, Zenon
<1>8. upd'.pc \in {"nodes", "locked", "lookup", "remove"}
    BY <1>2, Zenon
<1> QED BY <1>1, <1>2, <1>3, <1>4, <1>7, <1>8, CurrentInside, Zenon

\* Between updates the provider's tags are those its manager knows.
LEMMA SettledTags ==
    ASSUME Base, Safe, Running, NEW k \in Kinds, Settled(k)
    PROVE  TagsOf(active[k]) = Named(k)
<1>1. \A t \in Tags : byTag[k][t] # None => tagOf[byTag[k][t]] = t
    BY RunningFacts, TagTypes, Zenon
<1>2. ASSUME NEW o \in Elems(active[k]) PROVE tagOf[o] \in Named(k)
  <2>1. PICK t \in Tags : o = byTag[k][t] /\ byTag[k][t] # None
      BY <1>2, Zenon DEF Settled
  <2> QED BY <1>1, <2>1, Zenon DEF Named
<1>3. ASSUME NEW t \in Named(k) PROVE t \in TagsOf(active[k])
  <2>1. t \in Tags /\ byTag[k][t] # None
      BY <1>3, Zenon DEF Named
  <2>2. byTag[k][t] \in Elems(active[k]) /\ tagOf[byTag[k][t]] = t
      BY <1>1, <2>1, Zenon DEF Settled
  <2> QED BY <2>2, Zenon DEF TagsOf
<1> QED BY <1>2, <1>3, Zenon DEF TagsOf

\* The begin of an update keeps Current.
LEMMA CurrentUpdateBegin ==
    ASSUME Base, Safe, Running, Current, NEW c \in Contents, UpdateBegin(c)
    PROVE  Current'
<1>1. /\ Alive /\ upd.pc = "idle" /\ Begin("outbound", c)
      /\ UNCHANGED <<byTag, status, tagOf, active>>
    BY Zenon DEF UpdateBegin, mgrVars
<1>2. "outbound" \in Kinds /\ active["outbound"] \in Seq(Objects)
    BY BaseTypes, RunningFacts, Zenon DEF Solid
<1>3. upd'.pc = "snap" /\ upd'.kind = "outbound" /\ upd'.active = TagsOf(active["outbound"])
    BY <1>1, <1>2, BeginFields, Zenon
<1>4. "snap" \notin {"nodes", "locked", "lookup", "remove"} /\ "idle" # "remove"
    OBVIOUS
<1>5. \A k \in Kinds : Settled(k)
    BY <1>1, Zenon DEF Current
<1>6. upd'.active = Named("outbound")
    BY <1>2, <1>3, <1>5, SettledTags, Zenon
<1>7. \A k \in Kinds : Settled(k)'
    BY <1>1, <1>5, SettledKept, Zenon
<1>8. Healthy'
    BY <1>1, <1>4, Zenon DEF Current, Healthy
<1>9. (Named(upd.kind))' = Named("outbound")
    BY <1>1, <1>3 DEF Named
<1>10. byTag'["outbound"][CompatibleTag] = Compatible
    BY <1>1, Zenon DEF Current
<1> QED BY <1>3, <1>4, <1>6, <1>7, <1>8, <1>9, <1>10, Zenon DEF Current, AtCreate

\* The copy of the list keeps Current.
LEMMA CurrentUpdateSnap ==
    ASSUME Base, Safe, Running, Current, UpdateSnap
    PROVE  Current'
<1>1. upd.pc = "snap" /\ UNCHANGED <<byTag, status, tagOf, active>>
    BY Zenon DEF UpdateSnap, mgrVars
<1>2. upd \in Working /\ upd.kind \in Kinds /\ upd.i = 1 /\ upd.built = <<>>
    BY <1>1, BaseTypes, NodesShape, Zenon DEF Places, UpdateShape
<1>3. active[upd.kind] \in Seq(Objects)
    BY <1>2, RunningFacts, Zenon DEF Solid
<1>4. /\ upd'.pc = "nodes" /\ upd'.snap = active[upd.kind]
      /\ upd'.kind = upd.kind /\ upd'.new = upd.new /\ upd'.active = upd.active
      /\ upd'.i = upd.i /\ upd'.built = upd.built
    BY <1>2, <1>3, SnapFields, Zenon
<1>5. /\ \A k \in Kinds : Settled(k)
      /\ upd.active = Named(upd.kind)
    BY <1>1, Zenon DEF Current
<1>6. TagsOf(active[upd.kind]) = Named(upd.kind)
    BY <1>2, <1>5, SettledTags, Zenon
<1>7. Nodes' = Nodes /\ Names' = Names
    BY <1>4, Zenon DEF Nodes, Names
<1>8. (Named(upd.kind))' = Named(upd.kind)
    BY <1>1, <1>4, SMTT(30) DEF Named
<1>9. (TagsOf(upd.snap))' = TagsOf(active[upd.kind])
    BY <1>1, <1>4 DEF TagsOf, Elems
<1>10. Named(upd.kind) \subseteq Tags
    BY Zenon DEF Named
<1>11. (Elems(upd.built) = {byTag[upd.kind][Nodes[j].tag] : j \in 1..(upd.i - 1)} \ {None})'
  <2>1. Elems(upd'.built) = {}
      BY <1>2, <1>4 DEF Elems
  <2>2. 1..(upd'.i - 1) = {}
      BY <1>2, <1>4
  <2> QED BY <2>1, <2>2, Zenon
<1>12. \A j \in DOMAIN Nodes : Nodes[j].tag \in Tags
    BY <1>2, NodesShape, Zenon
<1>13. (\A j \in DOMAIN Nodes : j > upd.i \/ (j = upd.i /\ upd.pc \in {"nodes", "locked"}) =>
          (byTag[upd.kind][Nodes[j].tag] # None <=> Nodes[j].tag \in upd.active))'
  <2>1. \A j \in DOMAIN Nodes : byTag[upd.kind][Nodes[j].tag] # None <=> Nodes[j].tag \in upd.active
      BY <1>5, <1>12, Zenon DEF Named
  <2> QED BY <1>1, <1>4, <1>7, <2>1, Zenon
<1>14. (upd.i <= Len(Nodes) + 1)'
  <2>1. 1 <= Len(Nodes) + 1
      BY <1>2, NodesShape
  <2> QED BY <1>2, <1>4, <1>7, <2>1, Zenon
<1>15. "nodes" \notin {"idle", "groups", "snap", "locked", "remove"} /\ "snap" # "remove"
    OBVIOUS
<1>16. Progress'
    BY <1>4, <1>6, <1>8, <1>9, <1>10, <1>11, <1>13, <1>14, <1>15, Zenon DEF Progress
<1>17. \A k \in Kinds : Settled(k)'
    BY <1>1, <1>5, SettledKept, Zenon
<1>18. Healthy'
    BY <1>1, <1>15, Zenon DEF Current, Healthy
<1>19. byTag'["outbound"][CompatibleTag] = Compatible
    BY <1>1, Zenon DEF Current
<1> QED BY <1>4, <1>15, <1>16, <1>17, <1>18, <1>19, Zenon DEF Current

\* removeUseless, one node keeps Current.
LEMMA CurrentUpdateRemove ==
    ASSUME Base, Safe, Running, Current, UpdateRemove
    PROVE  Current'
<1> DEFINE k == upd.kind  t == tagOf[Head(upd.snap)]
<1>1. upd.pc = "nodes" /\ upd.snap # <<>> /\ active' = active
    BY Zenon DEF UpdateRemove
<1>2. upd \in Working /\ k \in Kinds /\ upd.snap \in Seq(Objects)
    BY <1>1, BaseTypes, Zenon DEF Places, Working
<1>3. /\ upd'.pc = "nodes" /\ upd'.snap = Tail(upd.snap)
      /\ upd'.kind = k /\ upd'.new = upd.new /\ upd'.active = upd.active
      /\ upd'.i = upd.i /\ upd'.built = upd.built
    BY <1>2, RemoveFields, Zenon
<1>4. Progress /\ Healthy
    BY <1>1, Zenon DEF Current
<1>5. Elems(upd.snap) = {Head(upd.snap)} \cup Elems(Tail(upd.snap))
    BY <1>1, <1>2, ElemsTail, Zenon
<1>6. TagsOf(upd.snap) = {t} \cup TagsOf(Tail(upd.snap))
    BY <1>5, Zenon DEF TagsOf
<1>7. t \in Tags /\ t \in AllTags
    BY <1>4, <1>6, TagTypes, Zenon DEF Progress
<1>8. /\ Changed(k, t) /\ tagOf' = tagOf
      /\ t \in Names => byTag' = byTag /\ status' = status
      /\ t \notin Names => byTag'[k][t] = None
  <2>1. CASE t \in Names
    <3>1. UNCHANGED mgrVars
        BY <2>1, Zenon DEF UpdateRemove
    <3> QED BY <2>1, <3>1, KeptChanges, Zenon DEF mgrVars
  <2>2. CASE t \notin Names
    <3>1. Remove(k, t)
        BY <2>2, Zenon DEF UpdateRemove
    <3> QED BY <1>2, <1>7, <2>2, <3>1, RemoveChanges, Zenon
  <2> QED BY <2>1, <2>2, Zenon
<1> HIDE DEF t
<1>9. Nodes' = Nodes /\ Names' = Names
    BY <1>3, Zenon DEF Nodes, Names
<1>10. /\ \A j \in DOMAIN Nodes : Nodes[j].tag \in AllTags /\ Nodes[j].tag \in Names
       /\ 1..(upd.i - 1) \subseteq DOMAIN Nodes
  <2>1. /\ \A j \in DOMAIN Nodes : Nodes[j].tag \in Tags
        /\ upd.i \in Nat /\ Len(Nodes) \in Nat /\ DOMAIN Nodes = 1..Len(Nodes)
      BY <1>2, NodesShape, Zenon
  <2>2. upd.i <= Len(Nodes) + 1
      BY <1>4, Zenon DEF Progress
  <2>3. 1..(upd.i - 1) \subseteq DOMAIN Nodes
      BY <2>1, <2>2
  <2> QED BY <2>1, <2>3, TagTypes, Zenon DEF Names
<1>11. \A j \in DOMAIN Nodes : byTag'[k][Nodes[j].tag] = byTag[k][Nodes[j].tag]
  <2>1. CASE t \in Names
      BY <1>8, <2>1, Zenon
  <2>2. CASE t \notin Names
      BY <1>2, <1>8, <1>10, <2>2, Zenon DEF Changed
  <2> QED BY <2>1, <2>2, Zenon
<1>12. {byTag'[k][Nodes[j].tag] : j \in 1..(upd.i - 1)} = {byTag[k][Nodes[j].tag] : j \in 1..(upd.i - 1)}
    BY <1>10, <1>11, Zenon
<1>13. (Elems(upd.built) = {byTag[upd.kind][Nodes[j].tag] : j \in 1..(upd.i - 1)} \ {None})'
  <2>1. Elems(upd'.built) = {byTag'[k][Nodes[j].tag] : j \in 1..(upd.i - 1)} \ {None}
      BY <1>3, <1>4, <1>12, Zenon DEF Progress
  <2> QED BY <1>3, <1>9, <2>1
<1>14. (TagsOf(upd.snap))' = TagsOf(Tail(upd.snap))
    BY <1>3, <1>8 DEF TagsOf, Elems
<1>15. \A s \in Tags : byTag'[k][s] # None => s \in Names \cup TagsOf(Tail(upd.snap))
  <2> SUFFICES ASSUME NEW s \in Tags, byTag'[k][s] # None PROVE s \in Names \cup TagsOf(Tail(upd.snap))
      BY Zenon
  <2>1. CASE s = t
      BY <1>8, <2>1, Zenon
  <2>2. CASE s # t
    <3>1. byTag[k][s] # None
        BY <1>2, <1>8, <2>2, TagTypes, Zenon DEF Changed
    <3> QED BY <1>4, <1>6, <2>2, <3>1, Zenon DEF Progress, Named
  <2> QED BY <2>1, <2>2, Zenon
<1>16. (Named(upd.kind) \subseteq Names \cup TagsOf(upd.snap) /\ TagsOf(upd.snap) \subseteq Tags)'
  <2>1. TagsOf(Tail(upd.snap)) \subseteq Tags
      BY <1>4, <1>6, Zenon DEF Progress
  <2>2. (Named(upd.kind))' \subseteq Names \cup TagsOf(Tail(upd.snap))
      BY <1>3, <1>15 DEF Named
  <2> QED BY <1>9, <1>14, <2>1, <2>2, Zenon
<1>17. (\A j \in DOMAIN Nodes : j > upd.i \/ (j = upd.i /\ upd.pc \in {"nodes", "locked"}) =>
          (byTag[upd.kind][Nodes[j].tag] # None <=> Nodes[j].tag \in upd.active))'
  <2> SUFFICES ASSUME NEW j \in DOMAIN Nodes, j > upd.i \/ (j = upd.i /\ upd.pc \in {"nodes", "locked"})
               PROVE  byTag'[k][Nodes[j].tag] # None <=> Nodes[j].tag \in upd.active
      BY <1>1, <1>3, <1>9, Zenon
  <2> QED BY <1>4, <1>11, Zenon DEF Progress
<1>18. (upd.i <= Len(Nodes) + 1)'
    BY <1>3, <1>4, <1>9, Zenon DEF Progress
<1>19. "nodes" \notin {"locked", "remove"}
    OBVIOUS
<1>20. Progress'
    BY <1>3, <1>13, <1>16, <1>17, <1>18, <1>19, Zenon DEF Progress
<1>21. Healthy'
  <2>1. byTag'[k][t] # None => status'[byTag'[k][t]] = "started"
    <3> SUFFICES ASSUME byTag'[k][t] # None PROVE status'[byTag'[k][t]] = "started"
        BY Zenon
    <3>1. byTag' = byTag /\ status' = status
        BY <1>8, Zenon
    <3> QED BY <1>1, <1>2, <1>4, <1>7, <1>19, <3>1, Zenon DEF Healthy
  <2> QED BY <1>1, <1>2, <1>4, <1>7, <1>8, <1>19, <2>1, HealthyChanged, Zenon
<1> QED BY <1>1, <1>2, <1>3, <1>7, <1>8, <1>20, <1>21, CurrentInside, Zenon

\* A node that is kept keeps Current.
LEMMA CurrentNodeKept ==
    ASSUME Base, Safe, Running, Current, NodeKept
    PROVE  Current'
<1>1. /\ upd.pc = "nodes" /\ upd.snap = <<>> /\ upd.i <= Len(Nodes) /\ Node.tag \in upd.active
      /\ UNCHANGED mgrVars /\ active' = active
    BY Zenon DEF NodeKept, AtNode, Reusable
<1>2. upd \in Working
    BY <1>1, BaseTypes, Zenon DEF Places
<1>3. byTag[upd.kind][Node.tag] # None
  <2>1. Progress /\ upd.i \in DOMAIN Nodes
      BY <1>1, <1>2, NodesShape, Zenon DEF Current
  <2> QED BY <1>1, <2>1, Zenon DEF Progress, Node
<1> QED BY <1>1, <1>2, <1>3, KeptFields, CurrentAdds, Zenon

\* The lookup of a new node keeps Current.
LEMMA CurrentNodeLookedUp ==
    ASSUME Base, Safe, Running, Current, NodeLookedUp
    PROVE  Current'
<1>1. /\ upd.pc = "lookup" /\ UNCHANGED mgrVars /\ active' = active
      /\ upd' = [upd EXCEPT !.pc = "nodes", !.i = @ + 1, !.built = Append(@, Lookup(upd.kind, Node.tag))]
    BY Zenon DEF NodeLookedUp
<1>2. upd \in Working /\ upd.i <= Len(Nodes) /\ upd.snap = <<>>
    BY <1>1, BaseTypes, Zenon DEF Places, UpdateShape, AtCreate
<1>3. byTag[upd.kind][Node.tag] # None
    BY <1>1, RunningFacts, Zenon DEF Solid
<1> QED BY <1>1, <1>2, <1>3, CurrentAdds, Zenon

\* A node that cannot be created keeps Current.
LEMMA CurrentNodeFails ==
    ASSUME Base, Safe, Running, Current, NodeFails
    PROVE  Current'
<1>1. /\ upd.pc = "nodes" /\ upd.snap = <<>> /\ upd.i <= Len(Nodes) /\ NodeSkipped
      /\ IF Node.tag \in upd.active THEN Remove(upd.kind, Node.tag) ELSE UNCHANGED mgrVars
    BY Zenon DEF NodeFails, AtNode
<1>2. upd \in Working
    BY <1>1, BaseTypes, Zenon DEF Places
<1>3. upd.kind \in Kinds /\ Node.tag \in AllTags /\ upd.i \in DOMAIN Nodes
    BY <1>1, <1>2, NodesShape, TagTypes, Zenon
<1>4. Changed(upd.kind, Node.tag) /\ byTag'[upd.kind][Node.tag] = None
  <2>1. CASE Node.tag \in upd.active
      BY <1>1, <1>3, <2>1, RemoveChanges, Zenon
  <2>2. CASE Node.tag \notin upd.active
    <3>1. byTag[upd.kind][Node.tag] = None
        BY <1>1, <1>3, <2>2, Zenon DEF Current, Progress, Node
    <3>2. UNCHANGED mgrVars /\ byTag' = byTag
        BY <1>1, <2>2, Zenon DEF mgrVars
    <3> QED BY <3>1, <3>2, KeptChanges, Zenon
  <2> QED BY <2>1, <2>2, Zenon
<1> QED BY <1>1, <1>2, <1>4, CurrentSkips, Zenon

\* The removal of a node whose Close failed keeps Current.
LEMMA CurrentOldRemoved ==
    ASSUME Base, Safe, Running, Current, OldRemoved
    PROVE  Current'
<1>1. /\ upd.pc = "remove" /\ NodeSkipped
      /\ IF Node.tag \in upd.active THEN Remove(upd.kind, Node.tag) ELSE UNCHANGED mgrVars
    BY Zenon DEF OldRemoved
<1>2. upd \in Working /\ upd.i <= Len(Nodes) /\ upd.snap = <<>>
    BY <1>1, BaseTypes, Zenon DEF Places, UpdateShape, AtCreate
<1>3. upd.kind \in Kinds /\ Node.tag \in AllTags
    BY <1>2, NodesShape, TagTypes, Zenon
<1>4. Node.tag \in upd.active
    BY <1>1, Zenon DEF Current, Progress, AtCreate
<1>5. Changed(upd.kind, Node.tag) /\ byTag'[upd.kind][Node.tag] = None
    BY <1>1, <1>3, <1>4, RemoveChanges, Zenon
<1> QED BY <1>1, <1>2, <1>5, CurrentSkips, Zenon

\* An outbound that is started keeps Current.
LEMMA CurrentNodeStarts ==
    ASSUME Base, Safe, Running, Current, NodeStarts
    PROVE  Current'
<1>1. /\ upd.pc = "nodes" /\ upd.snap = <<>> /\ upd.i <= Len(Nodes) /\ NodeCreated("locked", made + 1)
      /\ made < MaxObjects /\ byTag' = byTag
      /\ status' = [status EXCEPT ![made + 1] = IF started["outbound"] THEN "started" ELSE "new"]
    BY Zenon DEF NodeStarts, AtNode, CreateOutside
<1>2. upd \in Working
    BY <1>1, BaseTypes, Zenon DEF Places
<1>3. upd.kind \in Kinds /\ Node.tag \in AllTags
    BY <1>1, <1>2, NodesShape, TagTypes, Zenon
<1>4. made + 1 \in Objects /\ \A k \in Kinds : made + 1 \notin list[k]
    BY <1>1, NextObject, Zenon
<1>5. started["outbound"]
    BY BaseTypes, RunningFacts, Zenon
<1>6. status'[made + 1] = "started" /\ \A x \in Objects : x # made + 1 => status'[x] = status[x]
    BY <1>1, <1>4, <1>5, BaseTypes, Zenon
<1>7. \A k \in Kinds, t \in AllTags : byTag[k][t] # None => status'[byTag[k][t]] = status[byTag[k][t]]
  <2> SUFFICES ASSUME NEW k \in Kinds, NEW t \in AllTags, byTag[k][t] # None
               PROVE  status'[byTag[k][t]] = status[byTag[k][t]]
      BY Zenon
  <2>1. byTag[k][t] \in Objects /\ byTag[k][t] \in list[k]
      BY RunningFacts, Zenon
  <2> QED BY <1>4, <1>6, <2>1, Zenon
<1>8. Changed(upd.kind, Node.tag)
    BY <1>1, <1>7, Zenon DEF Changed
<1>9. byTag'[upd.kind][Node.tag] # None => status'[byTag'[upd.kind][Node.tag]] = "started"
  <2>1. "nodes" # "remove"
      OBVIOUS
  <2> QED BY <1>1, <1>3, <1>7, <2>1, Zenon DEF Current, Healthy
<1>10. "locked" # "remove"
    OBVIOUS
<1> QED BY <1>1, <1>2, <1>4, <1>6, <1>8, <1>9, <1>10, CurrentCreates, Zenon

\* An outbound that is installed keeps Current.
LEMMA CurrentNodeInstalled ==
    ASSUME Base, Safe, Running, Current, NodeInstalled, Alive'
    PROVE  Current'
<1>1. /\ upd.pc = "locked" /\ NodeCreated("lookup", None)
      /\ Replace("outbound", upd.fresh, Node.tag, status) /\ UNCHANGED <<made, tagOf, deps>>
    BY Zenon DEF NodeInstalled, CreateLocked
<1>2. upd \in Working
    BY <1>1, BaseTypes, Zenon DEF Places
<1>3. /\ upd.fresh \in 1..made /\ upd.i <= Len(Nodes) /\ upd.snap = <<>> /\ upd.kind = "outbound"
      /\ \A k \in Kinds : upd.fresh \notin list[k]
    BY <1>1, Zenon DEF Base, UpdateShape, AtCreate
<1>4. upd.fresh \in Objects
    BY <1>3, BaseTypes, ProviderAssumption DEF Objects
<1>5. upd.kind \in Kinds /\ Node.tag \in AllTags
    BY <1>2, <1>3, NodesShape, TagTypes, Zenon
<1>6. New(upd.fresh, status)
    BY <1>1, <1>3, <1>4, BaseTypes, Zenon DEF New
<1>7. Changed(upd.kind, Node.tag) /\ byTag'[upd.kind][Node.tag] = upd.fresh /\ status'[upd.fresh] = status[upd.fresh]
  <2>1. Replace(upd.kind, upd.fresh, Node.tag, status)
      BY <1>1, <1>3, Zenon
  <2> QED BY <1>5, <1>6, <2>1, ReplaceChanges
<1>8. status[upd.fresh] = "started"
    BY <1>1, Zenon DEF Current, Progress, AtCreate
<1>9. "lookup" \notin {"locked", "remove"}
    OBVIOUS
<1> QED BY <1>1, <1>2, <1>3, <1>7, <1>8, <1>9, CurrentCreates, Zenon

\* An endpoint that is installed keeps Current.
LEMMA CurrentEndpointInstalled ==
    ASSUME Base, Safe, Running, Current, EndpointInstalled, Alive'
    PROVE  Current'
<1>1. /\ AtNode /\ upd.pc = "nodes" /\ upd.snap = <<>> /\ upd.i <= Len(Nodes)
      /\ upd.kind = "endpoint" /\ NodeCreated("lookup", None) /\ NewEndpoint(Node.tag)
      /\ Replace("endpoint", made + 1, Node.tag, WithNewEndpoint)
    BY Zenon DEF EndpointInstalled, CreateEndpoint, AtNode
<1>2. upd \in Working /\ upd.kind \in Kinds
    BY <1>1, BaseTypes, Zenon DEF Places
<1>3. New(made + 1, WithNewEndpoint) /\ Node.tag \in AllTags
    BY <1>1, NewEndpointNew, Zenon
<1>4. /\ Changed(upd.kind, Node.tag) /\ byTag'[upd.kind][Node.tag] = made + 1
      /\ status'[made + 1] = WithNewEndpoint[made + 1]
  <2>1. Replace(upd.kind, made + 1, Node.tag, WithNewEndpoint)
      BY <1>1, Zenon
  <2> QED BY <1>2, <1>3, <2>1, ReplaceChanges
<1>5. WithNewEndpoint[made + 1] = "started"
  <2>1. started["endpoint"] /\ made + 1 \in Objects
      BY <1>3, BaseTypes, RunningFacts, Zenon DEF New
  <2> QED BY <2>1, BaseTypes, Zenon DEF WithNewEndpoint
<1>6. "lookup" \notin {"locked", "remove"}
    OBVIOUS
<1> QED BY <1>1, <1>2, <1>4, <1>5, <1>6, CurrentCreates, Zenon

\* A node whose predecessor cannot be closed keeps Current.
LEMMA CurrentOldCloseFails ==
    ASSUME Base, Safe, Running, Current, OldCloseFails
    PROVE  Current'
<1>1. ASSUME upd.pc \in {"nodes", "locked"}, upd.snap = <<>>, upd.i <= Len(Nodes), NodeCreated("remove", None),
             NEW o, NEW st, New(o, st), CloseOldFails(upd.kind, o, Node.tag, st)
      PROVE  Current'
  <2>1. upd \in Working
      BY <1>1, BaseTypes, Zenon DEF Places
  <2>2. upd.kind \in Kinds /\ Node.tag \in AllTags /\ upd.i \in DOMAIN Nodes
      BY <1>1, <2>1, NodesShape, TagTypes, Zenon
  <2>3. Changed(upd.kind, Node.tag) /\ byTag[upd.kind][Node.tag] # None
      BY <1>1, <2>2, CloseOldFailsChanges, Zenon
  <2>4. Progress
      BY <1>1, Zenon DEF Current, AtCreate
  <2>5. Node.tag \in upd.active
      BY <1>1, <2>2, <2>3, <2>4, Zenon DEF Progress, Node
  <2>6. "remove" # "locked"
      OBVIOUS
  <2> QED BY <1>1, <2>1, <2>3, <2>5, <2>6, CurrentCreates, Zenon
<1>2. CASE /\ Alive /\ upd.pc = "locked"
           /\ CloseOldFails("outbound", upd.fresh, Node.tag, status)
           /\ UNCHANGED <<made, tagOf, deps>>
           /\ NodeCreated("remove", None)
  <2>1. /\ upd.fresh \in 1..made /\ upd.i <= Len(Nodes) /\ upd.snap = <<>> /\ upd.kind = "outbound"
        /\ \A k \in Kinds : upd.fresh \notin list[k]
      BY <1>2, Zenon DEF Base, UpdateShape, AtCreate
  <2>2. upd.fresh \in Objects
      BY <2>1, BaseTypes, ProviderAssumption DEF Objects
  <2>3. New(upd.fresh, status)
      BY <1>2, <2>1, <2>2, BaseTypes, Zenon DEF New
  <2> QED BY <1>1, <1>2, <2>1, <2>3, Zenon
<1>3. CASE /\ AtNode /\ upd.kind = "endpoint" /\ NewEndpoint(Node.tag)
           /\ CloseOldFails("endpoint", made + 1, Node.tag, WithNewEndpoint)
           /\ NodeCreated("remove", None)
  <2>1. upd.pc = "nodes" /\ upd.i <= Len(Nodes) /\ upd.snap = <<>>
      BY <1>3, Zenon DEF AtNode
  <2>2. New(made + 1, WithNewEndpoint)
      BY <1>3, NewEndpointNew, Zenon
  <2> QED BY <1>1, <1>3, <2>1, <2>2, Zenon
<1> QED BY <1>2, <1>3, Zenon DEF OldCloseFails

\* The nodes before i are all of them: the list published is what the manager
\* holds under the tags of the download, and it holds nothing under the others.
LEMMA CurrentUpdatePublish ==
    ASSUME Base, Safe, Running, Current, UpdatePublish
    PROVE  Current'
<1> DEFINE k == upd.kind
<1>1. /\ upd.pc = "nodes" /\ upd.snap = <<>> /\ upd.i > Len(Nodes)
      /\ active' = [active EXCEPT ![k] = upd.built]
      /\ IF k = "outbound" THEN Begin("endpoint", upd.new) ELSE upd' = [Idle EXCEPT !.pc = "groups"]
      /\ UNCHANGED <<byTag, status, tagOf>>
    BY Zenon DEF UpdatePublish, mgrVars
<1>2. upd \in Working
    BY <1>1, BaseTypes, Zenon DEF Places
<1>3. /\ k \in Kinds /\ upd.new \in Contents /\ Len(Nodes) \in Nat /\ DOMAIN Nodes = 1..Len(Nodes)
      /\ upd.i \in Nat /\ \A j \in DOMAIN Nodes : Nodes[j].tag \in Tags
    BY <1>2, NodesShape, Zenon
<1>4. Progress /\ Healthy /\ \A j \in Kinds \ {k} : Settled(j)
    BY <1>1, Zenon DEF Current
<1>5. 1..(upd.i - 1) = DOMAIN Nodes
  <2>1. upd.i <= Len(Nodes) + 1
      BY <1>4, Zenon DEF Progress
  <2> QED BY <1>1, <1>3, <2>1
<1>6. Elems(upd.built) = {byTag[k][Nodes[j].tag] : j \in DOMAIN Nodes} \ {None}
    BY <1>4, <1>5, Zenon DEF Progress
<1>7. Named(k) \subseteq Names
  <2>1. TagsOf(upd.snap) = {}
    <3>1. Elems(<<>>) = {}
        BY DEF Elems
    <3> QED BY <1>1, <3>1, Zenon DEF TagsOf
  <2> QED BY <1>4, <2>1, Zenon DEF Progress
<1>8. {byTag[k][t] : t \in Tags} \ {None} = {byTag[k][Nodes[j].tag] : j \in DOMAIN Nodes} \ {None}
  <2>1. ASSUME NEW t \in Tags, byTag[k][t] # None PROVE byTag[k][t] \in {byTag[k][Nodes[j].tag] : j \in DOMAIN Nodes}
    <3>1. PICK j \in DOMAIN Nodes : t = Nodes[j].tag
        BY <1>7, <2>1, Zenon DEF Named, Names
    <3> QED BY <3>1, Zenon
  <2>2. \A j \in DOMAIN Nodes : byTag[k][Nodes[j].tag] \in {byTag[k][t] : t \in Tags}
      BY <1>3, Zenon
  <2> QED BY <2>1, <2>2, Zenon
<1>9. \A j \in Kinds : Settled(j)'
  <2>1. active'[k] = upd.built /\ \A j \in Kinds \ {k} : active'[j] = active[j]
      BY <1>1, <1>3, BaseTypes, Zenon
  <2>2. ASSUME NEW j \in Kinds, j = k PROVE Settled(j)'
    <3>1. Elems(active'[j]) = {byTag[j][t] : t \in Tags} \ {None}
        BY <1>6, <1>8, <2>1, <2>2
    <3> QED BY <1>1, <3>1, Zenon DEF Settled
  <2>3. \A j \in Kinds \ {k} : Settled(j)'
      BY <1>1, <1>4, <2>1, SettledKept, Zenon
  <2> QED BY <2>2, <2>3, Zenon
<1>10. byTag'["outbound"][CompatibleTag] = Compatible
    BY <1>1, Zenon DEF Current
<1>11. "nodes" # "remove" /\ "outbound" # "endpoint"
    OBVIOUS
<1>12. Healthy'
    BY <1>1, <1>4, <1>11, Zenon DEF Healthy
<1>13. CASE k = "outbound"
  <2>1. "endpoint" \in Kinds /\ "endpoint" \in Kinds \ {k} /\ active["endpoint"] \in Seq(Objects)
      BY <1>11, <1>13, BaseTypes, RunningFacts, Zenon DEF Solid
  <2>2. upd'.pc = "snap" /\ upd'.kind = "endpoint" /\ upd'.active = TagsOf(active["endpoint"])
      BY <1>1, <1>3, <1>13, <2>1, BeginFields, Zenon
  <2>3. upd'.active = Named("endpoint")
      BY <1>4, <2>1, <2>2, SettledTags, Zenon
  <2>4. (Named(upd.kind))' = Named("endpoint")
      BY <1>1, <2>2 DEF Named
  <2>5. "snap" \notin {"nodes", "locked", "lookup", "remove"}
      OBVIOUS
  <2> QED BY <1>9, <1>10, <1>12, <2>2, <2>3, <2>4, <2>5, Zenon DEF Current, AtCreate
<1>14. CASE k # "outbound"
  <2>1. upd'.pc = "groups"
      BY <1>1, <1>14 DEF Idle
  <2>2. "groups" \notin {"snap", "nodes", "locked", "lookup", "remove"}
      OBVIOUS
  <2> QED BY <1>9, <1>10, <1>12, <2>1, <2>2, Zenon DEF Current, AtCreate
<1> QED BY <1>13, <1>14, Zenon

\* UpdateGroups keeps Current.
LEMMA CurrentUpdateGroups ==
    ASSUME Base, Safe, Running, Current, UpdateGroups
    PROVE  Current'
<1>1. upd.pc = "groups" /\ upd' = Idle /\ UNCHANGED <<byTag, status, tagOf, active>>
    BY Zenon DEF UpdateGroups, mgrVars
<1>2. upd'.pc = "idle"
    BY <1>1 DEF Idle
<1>3. "idle" \notin {"snap", "nodes", "locked", "lookup", "remove"} /\ "groups" # "remove"
    OBVIOUS
<1>4. \A k \in Kinds : Settled(k)
    BY <1>1, Zenon DEF Current
<1>5. \A k \in Kinds : Settled(k)'
    BY <1>1, <1>4, SettledKept, Zenon
<1>6. Healthy'
    BY <1>1, <1>3, Zenon DEF Current, Healthy
<1>7. byTag'["outbound"][CompatibleTag] = Compatible
    BY <1>1, Zenon DEF Current
<1> QED BY <1>2, <1>3, <1>5, <1>6, <1>7, Zenon DEF Current, AtCreate

\* A step that leaves the managers, the provider and its update alone.
LEMMA CurrentKept ==
    ASSUME Current, UNCHANGED <<byTag, status, tagOf, active, upd>>
    PROVE  Current'
<1>1. /\ byTag' = byTag /\ status' = status /\ tagOf' = tagOf /\ active' = active /\ upd' = upd
    BY Zenon
<1>2. Nodes' = Nodes /\ Node' = Node /\ Names' = Names /\ AtCreate' = AtCreate
    BY <1>1, Zenon DEF Nodes, Node, Names, AtCreate
<1>3. Healthy => Healthy'
    BY <1>1, <1>2, SMTT(30) DEF Healthy
<1>4. Progress => Progress'
    BY <1>1, <1>2, SMTT(30) DEF Progress, Named, TagsOf, Elems
<1>5. \A k \in Kinds : Settled(k) => Settled(k)'
    BY <1>1, SettledKept, Zenon
<1>6. (Named(upd.kind))' = Named(upd.kind)
    BY <1>1 DEF Named
<1> QED BY <1>1, <1>2, <1>3, <1>4, <1>5, <1>6, Zenon DEF Current

\* Current holds when the box starts to run.
LEMMA CurrentInit == Init => Current
<1> SUFFICES ASSUME Init PROVE Current
    OBVIOUS
<1>1. /\ byTag = [k \in Kinds |-> [t \in AllTags |->
                      IF k = "outbound" /\ t = CompatibleTag THEN Compatible ELSE None]]
      /\ status = [o \in Objects |-> IF o = Compatible THEN "started" ELSE "none"]
      /\ active = [k \in Kinds |-> <<>>] /\ upd = Idle
    BY Zenon DEF Init, MgrInit
<1>2. "outbound" \in Kinds /\ CompatibleTag \in AllTags /\ Compatible \in Objects
    BY ProviderAssumption, TagTypes DEF Kinds, Compatible, Objects
<1>3. /\ byTag["outbound"][CompatibleTag] = Compatible
      /\ \A k \in Kinds, t \in AllTags : byTag[k][t] # None => byTag[k][t] = Compatible /\ t = CompatibleTag
    BY <1>1, <1>2, Zenon
<1>4. upd.pc = "idle"
    BY <1>1 DEF Idle
<1>5. Healthy
  <2>1. status[Compatible] = "started"
      BY <1>1, <1>2, Zenon
  <2> QED BY <1>3, <2>1, Zenon DEF Healthy
<1>6. ASSUME NEW k \in Kinds PROVE Settled(k)
  <2>1. Elems(active[k]) = {}
    <3>1. active[k] = <<>>
        BY <1>1, <1>6, Zenon
    <3>2. Elems(<<>>) = {}
        BY DEF Elems
    <3> QED BY <3>1, <3>2, Zenon
  <2>2. \A t \in Tags : byTag[k][t] = None
      BY <1>3, <1>6, TagTypes, ProviderAssumption, Zenon
  <2>3. {byTag[k][t] : t \in Tags} \ {None} = {}
      BY <2>2, Zenon
  <2> QED BY <2>1, <2>3, Zenon DEF Settled
<1>7. "idle" \notin {"snap", "nodes", "locked", "lookup", "remove"}
    OBVIOUS
<1> QED BY <1>3, <1>4, <1>5, <1>6, <1>7, Zenon DEF Current, AtCreate

\* Every step of a running box keeps Current.
LEMMA CurrentNext ==
    ASSUME Base, Safe, Running => Current, [Next]_vars, Running'
    PROVE  Current'
<1>1. CASE UNCHANGED vars
  <2>1. /\ UNCHANGED <<byTag, status, tagOf, active, upd>>
        /\ UNCHANGED <<panicked, box>>
      BY <1>1, Zenon DEF vars, mgrVars, provVars
  <2>2. Running
      BY <2>1, Zenon DEF Running, Alive
  <2> QED BY <2>1, <2>2, CurrentKept, Zenon
<1>2. CASE CloseEndpoints \/ ProviderClose \/ ProviderRemoves \/ CloseOutbounds
  <2>1. box' \in {"endpoint", "provider", "closed"}
      BY <1>2, Zenon DEF CloseEndpoints, ProviderClose, ProviderRemoves, CloseOutbounds, BoxStep
  <2>2. "running" \notin {"endpoint", "provider", "closed"}
      OBVIOUS
  <2> QED BY <2>1, <2>2, Zenon DEF Running
<1>3. CASE \E t \in AllTags : SelectOutbound(t)
  <2>1. Alive /\ UNCHANGED mgrVars /\ UNCHANGED provVars
      BY <1>3, Zenon DEF SelectOutbound
  <2>2. UNCHANGED <<byTag, status, tagOf, active, upd, box>>
      BY <2>1, Zenon DEF mgrVars, provVars
  <2>3. Running
      BY <2>1, <2>2, Zenon DEF Running
  <2> QED BY <2>2, <2>3, CurrentKept, Zenon
<1>4. ASSUME \/ \E c \in Contents : UpdateBegin(c)
             \/ UpdateSnap \/ UpdateRemove \/ NodeKept \/ NodeFails \/ NodeStarts \/ NodeInstalled
             \/ EndpointInstalled \/ OldCloseFails \/ OldRemoved \/ NodeLookedUp \/ UpdatePublish
             \/ UpdateGroups
      PROVE  Current'
  <2>1. Alive /\ box' = box
    <3>1. CASE \E c \in Contents : UpdateBegin(c)
        BY <3>1, Zenon DEF UpdateBegin
    <3>2. CASE UpdateSnap \/ UpdateRemove \/ NodeKept \/ NodeLookedUp
        BY <3>2, Zenon DEF UpdateSnap, UpdateRemove, NodeKept, NodeLookedUp, AtNode
    <3>3. CASE NodeFails \/ OldRemoved
        BY <3>3, Zenon DEF NodeFails, OldRemoved, NodeSkipped, AtNode
    <3>4. CASE NodeStarts \/ NodeInstalled \/ EndpointInstalled \/ OldCloseFails
        BY <3>4, Zenon DEF NodeStarts, NodeInstalled, EndpointInstalled, OldCloseFails, NodeCreated, AtNode
    <3>5. CASE UpdatePublish \/ UpdateGroups
        BY <3>5, Zenon DEF UpdatePublish, UpdateGroups
    <3> QED BY <1>4, <3>1, <3>2, <3>3, <3>4, <3>5, Zenon
  <2>2. Running /\ Alive' /\ Current
      BY <2>1, Zenon DEF Running
  <2> QED BY <1>4, <2>2, CurrentUpdateBegin, CurrentUpdateSnap, CurrentUpdateRemove, CurrentNodeKept,
             CurrentNodeFails, CurrentNodeStarts, CurrentNodeInstalled, CurrentEndpointInstalled,
             CurrentOldCloseFails, CurrentOldRemoved, CurrentNodeLookedUp, CurrentUpdatePublish,
             CurrentUpdateGroups, Zenon
<1> QED BY <1>1, <1>2, <1>3, <1>4, Zenon DEF Next

-----------------------------------------------------------------------------
(* MembersOpen                                                             *)

\* A provider's node or "Compatible" is started and found by its tag.
LEMMA CandidatesOpen ==
    ASSUME Base, Safe, Running, Current, upd.pc \in {"idle", "groups"}, NEW o \in Elems(Candidates)
    PROVE  status[o] = "started" /\ Lookup("outbound", tagOf[o]) # None
<1>1. /\ "outbound" \in Kinds /\ "endpoint" \in Kinds
      /\ active \in [Kinds -> Seq(Objects \cup {None})] /\ direct \in Seq({Compatible})
    BY BaseTypes, Zenon DEF Base
<1>2. None \notin Elems(Collected)
  <2>1. active["outbound"] \in Seq(Objects) /\ active["endpoint"] \in Seq(Objects)
      BY <1>1, RunningFacts, Zenon DEF Solid
  <2>2. Collected \in Seq(Objects)
      BY <2>1, ElemsConcat, Zenon DEF Collected
  <2>3. Elems(Collected) \subseteq Objects
      BY <2>2, ElemsType, Zenon
  <2> QED BY <2>3, NoneIsNoObject, Zenon
<1>3. o = Compatible \/ \E k \in Kinds : o \in Elems(active[k])
    BY <1>1, <1>2, CandidatesType, Zenon
<1>4. \E k \in Kinds, t \in AllTags : o = byTag[k][t] /\ byTag[k][t] # None
  <2>1. CASE o = Compatible
    <3>1. byTag["outbound"][CompatibleTag] = Compatible /\ Compatible # None
        BY DEF Current, Compatible, None
    <3> QED BY <1>1, <2>1, <3>1, TagTypes, ZenonT(60)
  <2>2. ASSUME NEW k \in Kinds, o \in Elems(active[k])
        PROVE  \E t \in AllTags : o = byTag[k][t] /\ byTag[k][t] # None
    <3>1. Settled(k)
        BY Zenon DEF Current
    <3> QED BY <2>2, <3>1, TagTypes, Zenon DEF Settled
  <2> QED BY <1>3, <2>1, <2>2, Zenon
<1>5. PICK k \in Kinds, t \in AllTags : o = byTag[k][t] /\ byTag[k][t] # None
    BY <1>4, Zenon
<1>6. tagOf[o] = t
    BY <1>5, RunningFacts, Zenon
<1>7. upd.pc # "remove"
    OBVIOUS
<1>8. status[o] = "started"
    BY <1>5, <1>7, Zenon DEF Current, Healthy
<1>9. Lookup("outbound", t) # None
    BY <1>5 DEF Lookup, Kinds
<1> QED BY <1>6, <1>8, <1>9, Zenon

\* Every step of an update but UpdateGroups leaves it in progress.
LEMMA UpdateGoesOn ==
    ASSUME Base,
           \/ \E c \in Contents : UpdateBegin(c)
           \/ UpdateSnap \/ UpdateRemove \/ NodeKept \/ NodeFails \/ NodeStarts \/ NodeInstalled
           \/ EndpointInstalled \/ OldCloseFails \/ OldRemoved \/ NodeLookedUp \/ UpdatePublish
    PROVE  upd'.pc # "idle"
<1>1. "idle" \notin {"snap", "nodes", "locked", "lookup", "remove", "groups"}
    OBVIOUS
<1>2. ASSUME NEW k, NEW c, Begin(k, c) PROVE upd'.pc = "snap"
    BY <1>2 DEF Begin
<1>3. CASE \E c \in Contents : UpdateBegin(c)
    BY <1>1, <1>2, <1>3, Zenon DEF UpdateBegin
<1>4. CASE UpdatePublish
  <2>1. Begin("endpoint", upd.new) \/ upd' = [Idle EXCEPT !.pc = "groups"]
      BY <1>4, Zenon DEF UpdatePublish
  <2>2. upd' = [Idle EXCEPT !.pc = "groups"] => upd'.pc = "groups"
      BY DEF Idle
  <2> QED BY <1>1, <1>2, <2>1, <2>2, Zenon
<1>6. ASSUME upd.pc \in Places PROVE upd \in Working
    BY <1>6, BaseTypes, Zenon
<1>7. CASE UpdateSnap
  <2>1. upd \in Working /\ upd' = [upd EXCEPT !.pc = "nodes", !.snap = active[upd.kind]]
      BY <1>6, <1>7, Zenon DEF UpdateSnap, Places
  <2>2. upd'.pc = "nodes"
      BY <2>1, Zenon DEF Working
  <2> QED BY <1>1, <2>2, Zenon
<1>8. CASE UpdateRemove
  <2>1. upd \in Working
      BY <1>6, <1>8, Zenon DEF UpdateRemove, Places
  <2>2. upd'.pc = "nodes"
      BY <1>8, <2>1, RemoveFields, Zenon
  <2> QED BY <1>1, <2>2, Zenon
<1>9. CASE NodeKept
  <2>1. upd \in Working
      BY <1>6, <1>9, Zenon DEF NodeKept, AtNode, Places
  <2>2. upd' = [upd EXCEPT !.pc = "nodes", !.i = @ + 1, !.built = Append(@, Lookup(upd.kind, Node.tag))]
      BY <1>9, <2>1, KeptFields, Zenon
  <2>3. upd'.pc = "nodes"
      BY <2>1, <2>2, Zenon DEF Working
  <2> QED BY <1>1, <2>3, Zenon
<1>10. CASE NodeLookedUp
  <2>1. /\ upd \in Working
        /\ upd' = [upd EXCEPT !.pc = "nodes", !.i = @ + 1, !.built = Append(@, Lookup(upd.kind, Node.tag))]
      BY <1>6, <1>10, Zenon DEF NodeLookedUp, Places
  <2>2. upd'.pc = "nodes"
      BY <2>1, Zenon DEF Working
  <2> QED BY <1>1, <2>2, Zenon
<1>11. CASE NodeFails \/ OldRemoved
  <2>1. upd \in Working /\ NodeSkipped
      BY <1>6, <1>11, Zenon DEF NodeFails, OldRemoved, AtNode, Places
  <2>2. upd'.pc = "nodes"
      BY <2>1, SkippedFields, Zenon
  <2> QED BY <1>1, <2>2, Zenon
<1>12. CASE NodeStarts \/ NodeInstalled \/ EndpointInstalled \/ OldCloseFails
  <2>1. upd.pc \in Places
      BY <1>12, Zenon DEF NodeStarts, NodeInstalled, EndpointInstalled, OldCloseFails, AtNode, Places
  <2>2. upd \in Working
      BY <1>6, <2>1, Zenon
  <2>3. \E p \in {"locked", "lookup", "remove"}, o \in {None, made + 1} : NodeCreated(p, o)
      BY <1>12, Zenon DEF NodeStarts, NodeInstalled, EndpointInstalled, OldCloseFails
  <2>4. PICK p \in {"locked", "lookup", "remove"}, o \in {None, made + 1} : NodeCreated(p, o)
      BY <2>3, Zenon
  <2>5. upd'.pc = p
      BY <2>2, <2>4, Zenon DEF NodeCreated, Working
  <2> QED BY <1>1, <2>4, <2>5, Zenon
<1> QED BY <1>3, <1>4, <1>7, <1>8, <1>9, <1>10, <1>11, <1>12, Zenon

\* The members the selector starts with.
LEMMA MembersInit ==
    ASSUME HasLast, Init, Base, Safe, Current
    PROVE  MembersOpen
<1>1. /\ members = Candidates /\ ~DefaultMissing(members) /\ selected = OutboundSelect(members)
      /\ upd = Idle /\ panicked = {} /\ box = "running"
    BY Zenon DEF Init, MgrInit
<1>2. Running /\ upd.pc = "idle"
    BY <1>1 DEF Running, Alive, Idle
<1>3. members \in Seq(Objects) /\ members # <<>>
    BY Zenon DEF Base, TypeOK
<1>4. selected \in Elems(members)
    BY <1>1, <1>3, SelectsMember, Zenon
<1>5. \A o \in Elems(members) : status[o] = "started" /\ Lookup("outbound", tagOf[o]) # None
    BY <1>1, <1>2, CandidatesOpen, Zenon
<1> QED BY <1>1, <1>4, <1>5, Zenon DEF MembersOpen

\* The selector takes the provider's list when the last kind is published; until
\* the next update only the panel's choice among the members changes.
LEMMA MembersNext ==
    ASSUME HasLast, Base, Safe, Running => Current, MembersOpen, [Next]_vars
    PROVE  MembersOpen'
<1> SUFFICES ASSUME Quiet', ~refused'
             PROVE  /\ members' = Candidates'
                    /\ \A o \in Elems(members') : status'[o] = "started" /\ Lookup("outbound", tagOf[o])' # None
                    /\ selected' \in Elems(members')
    BY Zenon DEF MembersOpen, Elems
<1>1. Alive' /\ box' = "running" /\ upd'.pc = "idle"
    BY Zenon DEF Quiet
<1>2. ASSUME UNCHANGED <<byTag, tagOf, status, panicked, active, upd, box, direct, members, refused>>,
             selected' = selected \/ selected' \in Elems(members)
      PROVE  /\ members' = Candidates'
             /\ \A o \in Elems(members') : status'[o] = "started" /\ Lookup("outbound", tagOf[o])' # None
             /\ selected' \in Elems(members')
  <2>1. Quiet /\ ~refused
      BY <1>1, <1>2, Zenon DEF Quiet, Alive
  <2>2. /\ members = Candidates /\ selected \in Elems(members)
        /\ \A o \in Elems(members) : status[o] = "started" /\ Lookup("outbound", tagOf[o]) # None
      BY <2>1, Zenon DEF MembersOpen
  <2>3. Candidates' = Candidates
      BY <1>2, Zenon DEF Candidates, Collected
  <2>4. \A o : Lookup("outbound", tagOf[o])' = Lookup("outbound", tagOf[o])
      BY <1>2, Zenon DEF Lookup
  <2> QED BY <1>2, <2>2, <2>3, <2>4, Zenon
<1>3. CASE UNCHANGED vars
  <2>1. UNCHANGED <<byTag, tagOf, status, panicked, active, upd, box, direct, members, selected, refused>>
      BY <1>3, Zenon DEF vars, mgrVars, provVars, groupVars
  <2> QED BY <1>2, <2>1, Zenon
<1>4. CASE \E t \in AllTags : SelectOutbound(t)
  <2>1. PICK t \in AllTags : SelectOutbound(t)
      BY <1>4, Zenon
  <2>2. /\ t \in TagsOf(members) /\ selected' = ByTag(members, t)
        /\ UNCHANGED mgrVars /\ UNCHANGED provVars /\ UNCHANGED <<direct, members, refused>>
      BY <2>1, Zenon DEF SelectOutbound
  <2>3. UNCHANGED <<byTag, tagOf, status, panicked, active, upd, box, direct, members, refused>>
      BY <2>2, Zenon DEF mgrVars, provVars
  <2>4. selected' \in Elems(members)
      BY <2>2, ByTagMember, Zenon DEF Base, TypeOK
  <2> QED BY <1>2, <2>3, <2>4, Zenon
<1>5. CASE UpdateGroups
  <2>1. /\ Alive /\ upd.pc = "groups" /\ box' = box
        /\ UNCHANGED <<byTag, tagOf, status, active, direct>>
      BY <1>5, Zenon DEF UpdateGroups, mgrVars
  <2>2. Running /\ Current
      BY <1>1, <2>1, Zenon DEF Running
  <2>3. None \notin Elems(Collected)
    <3> SUFFICES ASSUME None \in Elems(Collected) PROVE FALSE
        OBVIOUS
    <3>1. panicked' = panicked \cup {"nil"}
        BY <1>5, Zenon DEF UpdateGroups
    <3> QED BY <1>1, <3>1, Zenon DEF Alive
  <2>4. members' = Candidates /\ selected' = OutboundSelect(Candidates) /\ ~DefaultMissing(Candidates)
      BY <1>5, <2>3, Zenon DEF UpdateGroups
  <2>5. Candidates \in Seq(Objects) /\ Candidates # <<>>
      BY <2>3, BaseTypes, CandidatesType, Zenon DEF Base
  <2>6. selected' \in Elems(members')
      BY <2>4, <2>5, SelectsMember, Zenon
  <2>7. \A o \in Elems(Candidates) : status[o] = "started" /\ Lookup("outbound", tagOf[o]) # None
      BY <2>1, <2>2, CandidatesOpen, Zenon
  <2>8. Candidates' = Candidates
      BY <2>1, Zenon DEF Candidates, Collected
  <2>9. \A o : Lookup("outbound", tagOf[o])' = Lookup("outbound", tagOf[o])
      BY <2>1, Zenon DEF Lookup
  <2> QED BY <2>1, <2>4, <2>6, <2>7, <2>8, <2>9, Zenon
<1>6. CASE CloseEndpoints \/ ProviderClose \/ ProviderRemoves \/ CloseOutbounds
  <2>1. box' \in {"endpoint", "provider", "closed"}
      BY <1>6, Zenon DEF CloseEndpoints, ProviderClose, ProviderRemoves, CloseOutbounds, BoxStep
  <2>2. "running" \notin {"endpoint", "provider", "closed"}
      OBVIOUS
  <2> QED BY <1>1, <2>1, <2>2, Zenon
<1>7. CASE \/ \E c \in Contents : UpdateBegin(c)
           \/ UpdateSnap \/ UpdateRemove \/ NodeKept \/ NodeFails \/ NodeStarts \/ NodeInstalled
           \/ EndpointInstalled \/ OldCloseFails \/ OldRemoved \/ NodeLookedUp \/ UpdatePublish
  <2>1. upd'.pc # "idle"
      BY <1>7, UpdateGoesOn, Zenon
  <2> QED BY <1>1, <2>1, Zenon
<1> QED BY <1>3, <1>4, <1>5, <1>6, <1>7, Zenon DEF Next

-----------------------------------------------------------------------------
(* The theorems                                                            *)

LOCAL INSTANCE WellFoundedInduction

\* The last position is the one that is least far from the end.
LEMMA Lasts == HasLast
<1> SUFFICES ASSUME NEW n \in Nat, NEW S \in SUBSET (1..n), S # {}
             PROVE  \E i \in S : \A j \in S : j <= i
    BY Zenon DEF HasLast
<1> DEFINE T == {n - i : i \in S}
<1>1. T \subseteq Nat /\ T # {}
  <2>1. \A i \in S : n - i \in Nat
      OBVIOUS
  <2> QED BY <2>1, Zenon
<1>2. PICK x \in T : \A y \in T : ~ (<<y, x>> \in OpToRel(<, Nat))
  <2> HIDE DEF T
  <2> QED BY <1>1, NatLessThanWellFounded, WFMin, Zenon
<1>3. ASSUME NEW y \in T PROVE ~ (y < x)
  <2> HIDE DEF T
  <2>1. x \in Nat /\ y \in Nat /\ ~ (<<y, x>> \in OpToRel(<, Nat))
      BY <1>1, <1>2, Zenon
  <2>2. <<y, x>> \in Nat \X Nat /\ <<y, x>>[1] = y /\ <<y, x>>[2] = x
      BY <2>1, Zenon
  <2> QED BY <2>1, <2>2, Zenon DEF OpToRel
<1>4. PICK i \in S : x = n - i
    OBVIOUS
<1>5. \A j \in S : j <= i
    BY <1>3, <1>4
<1> QED BY <1>5, Zenon

\* The invariant is inductive: every step of an update, of the selector and of
\* Box.Close keeps the shape of the state (Base), what the managers hold (Safe),
\* how far the update has got (Current) and what the selector shows.
THEOREM ProviderInvariant == Spec => []Inv
<1>1. Init => Inv
  <2> SUFFICES ASSUME Init PROVE Inv
      OBVIOUS
  <2> QED BY Lasts, BaseInit, SafeInit, CurrentInit, MembersInit, Zenon DEF Inv
<1>2. Inv /\ [Next]_vars => Inv'
  <2> SUFFICES ASSUME Inv, [Next]_vars PROVE Inv'
      OBVIOUS
  <2>1. Base /\ Safe /\ (Running => Current) /\ MembersOpen
      BY Zenon DEF Inv
  <2>2. Base'
      BY <2>1, Lasts, BaseNext, Zenon
  <2>3. Safe'
      BY <2>1, SafeNext, Zenon
  <2>4. Running' => Current'
      BY <2>1, CurrentNext, Zenon
  <2>5. MembersOpen'
      BY <2>1, Lasts, MembersNext, Zenon
  <2> QED BY <2>2, <2>3, <2>4, <2>5, Zenon DEF Inv
<1> QED BY <1>1, <1>2, PTL DEF Spec

\* The managers' maps and lists hold objects or nil, the selector's members and
\* its selection are outbounds, never nil.
THEOREM ProviderTypeCorrect == Spec => []TypeOK
<1>1. Inv => TypeOK
    BY Zenon DEF Inv, Base
<1> QED BY <1>1, ProviderInvariant, PTL

\* Between two updates the selector's members are the provider's nodes, started
\* and found by their tags, and one of them is selected, unless the selector
\* refused the update for want of its default (onProviderUpdated).
THEOREM ProviderMembersOpen == Spec => []MembersOpen
<1>1. Inv => MembersOpen
    BY Zenon DEF Inv
<1> QED BY <1>1, ProviderInvariant, PTL

\* Every started outbound or endpoint is where a Remove, a Create or a Close
\* finds it, or Remove or Create dropped it, unless an update overlapped
\* Box.Close.
THEOREM ProviderStartedIsManaged == Spec => []StartedIsManaged
<1>1. Inv => StartedIsManaged
    BY Zenon DEF Inv, Safe
<1> QED BY <1>1, ProviderInvariant, PTL

\* When Box.Close has returned nothing is left started but what Remove or Create
\* had dropped.
THEOREM ProviderClosedAtEnd == Spec => []ClosedAtEnd
<1>1. Inv => ClosedAtEnd
    BY SafeAtEnd, Zenon DEF Inv
<1> QED BY <1>1, ProviderInvariant, PTL

\* Without an overlap the outbound manager's "invalid inbound index" panics are
\* not reached and no list holds a nil outbound.
THEOREM ProviderOutboundIndexValid == Spec => []OutboundIndexValid
<1>1. Inv => OutboundIndexValid
    BY Zenon DEF Inv, Safe
<1> QED BY <1>1, ProviderInvariant, PTL
=============================================================================
