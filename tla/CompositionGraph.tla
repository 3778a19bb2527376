---------------------------- MODULE CompositionGraph ----------------------------
(***************************************************************************)
(* The dependency graph: GetGraph fetches (kubernetes_graph_fetch.go) and  *)
(* BuildGraph derives the nodes and edges (kubernetes_graph.go and         *)
(* kubernetes_graph_objects.go).                                           *)
(*                                                                         *)
(* One request fetches while the cluster goes on changing.  The kinds of   *)
(* the XRDs are listed by goroutines, a few at a time, which append to the *)
(* XRs in the order in which they end.  A list is one read of the cluster, *)
(* answered by the requested one (KubeRequests says when it is).  What the *)
(* objects refer to is constant; whether an object is there, and whether   *)
(* it is ready, changes.  The empty string is None.                        *)
(***************************************************************************)
EXTENDS Naturals, FiniteSets, SequencesExt

CONSTANTS XRDs,         \* the XRDs in list order: [kind, versions]
          Compositions, \* [name, xr, steps]: kind it composes, functions it calls
          Functions,    \* names of the installed functions
          XRs,          \* [id, composition, refs]: composite resources
          Managed,      \* ids of the managed resources
          Volatile,     \* ids of those whose state changes
          Slots,        \* graphListConcurrency
          MaxItems,     \* managedMaxItemsPerType
          MaxFaults,    \* bound: lists that fail
          MaxChanges,   \* bound: changes of the cluster
          Place,        \* where an id comes when ids are sorted
          None          \* ""

Id(kind, namespace, name) == [kind |-> kind, ns |-> namespace, name |-> name]
Objects == {r.id : r \in XRs} \cup Managed
XROf(id) == CHOOSE r \in XRs : r.id = id
Kinds == {XRDs[i].kind : i \in DOMAIN XRDs}
XRDOf(kind) == CHOOSE i \in DOMAIN XRDs : XRDs[i].kind = kind
ManagedKinds == {m.kind : m \in Managed}
States == {"absent", "ready", "unready"}

----------------------------------------------------------------------------
(* Sorting.  An item is sorted with three numbers before it, of which the   *)
(* first ones count most.                                                   *)

Before(k, l) ==
    \/ k[1] < l[1]
    \/ k[1] = l[1] /\ k[2] < l[2]
    \/ k[1] = l[1] /\ k[2] = l[2] /\ k[3] < l[3]

Rank(entries, k) == Cardinality({l \in entries : Before(l, k)})
Sorted(entries) ==
    [n \in 1..Cardinality(entries) |-> CHOOSE k \in entries : Rank(entries, k) = n - 1]

----------------------------------------------------------------------------
(* BuildGraph.  A graph is its nodes, a function from ids, and its edges.   *)

\* The node of an object that was listed, and of one that was only named.
Known(type, ready) == [type |-> type, ready |-> ready, unresolved |-> FALSE]
Stub(type) == [type |-> type, ready |-> None, unresolved |-> TRUE]

XRDId(kind) == Id("XRD", None, kind)
CompositionId(name) == Id("Composition", None, name)
FunctionId(name) == Id("Function", None, name)

\* addXRDs, addFunctions and addCompositions; a function that a pipeline calls
\* and that is not installed becomes a stub.
Definitions ==
    LET called == UNION {c.steps : c \in Compositions}
        ids == {XRDId(k) : k \in Kinds} \cup {CompositionId(c.name) : c \in Compositions}
               \cup {FunctionId(f) : f \in Functions \cup called}
    IN [nodes |-> [x \in ids |-> IF x.kind = "Function" /\ x.name \notin Functions
                                   THEN Stub("Function") ELSE Known(x.kind, None)],
        edges |-> {<<XRDId(c.xr), CompositionId(c.name)>> : c \in {d \in Compositions : d.xr \in Kinds}}
                  \cup UNION {{<<CompositionId(c.name), FunctionId(f)>> : f \in c.steps} : c \in Compositions}]

\* addXRs, for XRs with their states: each hangs on its XRD, and on its Composition
\* if there is one.
AddXRs(g, xrs) ==
    LET composition == [x \in DOMAIN xrs |-> CompositionId(XROf(x).composition)]
    IN [nodes |-> [x \in DOMAIN g.nodes \cup DOMAIN xrs |->
                      IF x \in DOMAIN xrs THEN Known("XR", xrs[x]) ELSE g.nodes[x]],
        edges |-> g.edges \cup {<<XRDId(x.kind), x>> : x \in DOMAIN xrs}
                  \cup {<<composition[x], x>> : x \in {y \in DOMAIN xrs : composition[y] \in DOMAIN g.nodes}}]

\* Where a reference may lead, in the order in which it is looked for; nowhere
\* without kind or name.
Candidates(xrId, ref) ==
    LET In(namespace) == Id(ref.kind, namespace, ref.name)
    IN IF ref.kind = None \/ ref.name = None THEN <<>>
       ELSE IF ref.ns # None THEN <<In(ref.ns)>>
       ELSE <<In(xrId.ns), In(None)>>

\* The first of the candidates that is there, else the first one.
Target(ids, there) ==
    LET found == {n \in DOMAIN ids : ids[n] \in there}
    IN ids[IF found = {} THEN 1 ELSE CHOOSE n \in found : \A m \in found : n <= m]

\* addRef: to a node there is, else to a managed resource, else to a stub.
AddRef(g, listed, xrId, ref) ==
    LET ids == Candidates(xrId, ref)
        target == Target(ids, DOMAIN g.nodes \cup DOMAIN listed)
        node == IF target \in DOMAIN listed THEN Known("Composed", listed[target])
                ELSE Stub(IF target.kind \in Kinds THEN "XR" ELSE "Composed")
    IN IF ids = <<>> THEN g
       ELSE [nodes |-> [x \in DOMAIN g.nodes \cup {target} |->
                           IF x \in DOMAIN g.nodes THEN g.nodes[x] ELSE node],
             edges |-> g.edges \cup {<<xrId, target>>}]

\* The references of XRs, to be sorted: kind by kind as turn has it, by XR, and in
\* the order that the XR has them in.
References(xrs, turn) ==
    UNION {{<<turn[XRDOf(x.kind)], Place[x], n, x>> : n \in DOMAIN XROf(x).refs} : x \in xrs}

\* (mutation of BuildGraph) The references of an XR are added with it.
BuildGraphInOnePass(xrs, listed, turn) ==
    FoldLeft(LAMBDA g, k : FoldLeft(LAMBDA h, ref : AddRef(h, listed, k[4], ref),
                                    AddXRs(g, [y \in {k[4]} |-> xrs[y]]), XROf(k[4]).refs),
             Definitions, Sorted({<<turn[XRDOf(x.kind)], Place[x], 0, x>> : x \in DOMAIN xrs}))

\* The references come after all XRs have nodes.
BuildGraph(xrs, listed, turn) ==
    LET refs == References(DOMAIN xrs, turn)
        sorted == Sorted(refs)
        grown[n \in 0..Cardinality(refs)] ==
            IF n = 0 THEN AddXRs(Definitions, xrs)
            ELSE LET r == sorted[n] IN AddRef(grown[n - 1], listed, r[4], XROf(r[4]).refs[r[3]])
    IN grown[Cardinality(refs)]

Ids == Objects \cup DOMAIN Definitions.nodes
       \cup UNION {UNION {ToSet(Candidates(r.id, r.refs[n])) : n \in DOMAIN r.refs} : r \in XRs}

\* A kind, with its API group, is namespaced or not; the definitions have kinds of
\* their own; and no kind is made by an XRD and by a provider.
ASSUME GraphAssumption ==
    /\ Volatile \subseteq Objects
    /\ Slots \in Nat \ {0} /\ MaxItems \in Nat \ {0}
    /\ MaxFaults \in Nat /\ MaxChanges \in Nat
    /\ Len(XRDs) \in Nat /\ DOMAIN XRDs = 1..Len(XRDs)
    /\ \A i, j \in DOMAIN XRDs : XRDs[i].kind = XRDs[j].kind => i = j
    /\ IsFiniteSet(Compositions) /\ \A c \in Compositions : IsFiniteSet(c.steps)
    /\ IsFiniteSet(Functions) /\ IsFiniteSet(XRs) /\ IsFiniteSet(Managed)
    /\ \A r, q \in XRs : r.id = q.id => r = q
    /\ \A r \in XRs : /\ r.id.kind \in Kinds
                      /\ Len(r.refs) \in Nat /\ DOMAIN r.refs = 1..Len(r.refs)
    /\ \A x, y \in Objects : x.kind = y.kind => (x.ns = None <=> y.ns = None)
    /\ \A r \in XRs : \A n \in DOMAIN r.refs :
          /\ r.refs[n].kind \notin {"XRD", "Composition", "Function"}
          /\ r.refs[n].ns # None => \A x \in Objects : x.kind = r.refs[n].kind => x.ns # None
    /\ \A x \in Objects : x.kind \notin {"XRD", "Composition", "Function"}
    /\ \A m \in Managed : m.kind \notin Kinds
    /\ Place \in [Ids -> Nat]
    /\ \A x, y \in Ids : Place[x] = Place[y] => x = y

----------------------------------------------------------------------------
VARIABLES cluster,   \* the state of each object
          cached,    \* the managed list an earlier request stored: id -> state, or None
          skip,      \* GraphOptions.SkipManaged
          stage,     \* the list GetGraph is at, then "done" or "error", and "received" by the page
          next,      \* the XRD the loop of listXRs has come to
          working,   \* the XRDs whose goroutine has a slot
          got,       \* what each goroutine read: id -> state, or None
          order,     \* the XRDs in the order in which their XRs were appended
          managed,   \* the managed list: id -> state
          warnings,  \* [code, kind]
          silent,    \* history: the managed kinds whose list failed
          seen,      \* history: the states each object had during the request
          faults,    \* lists that failed
          changes    \* changes of the cluster so far

world == <<cluster, seen, changes>>
fetch == <<next, working, got, order>>
vars == <<world, cached, skip, stage, fetch, managed, warnings, silent, faults>>

\* The XRs that were listed, and the graph, whose lists come in the order in which
\* they were appended.
Fetched == [x \in UNION {DOMAIN got[i] : i \in ToSet(order)} |-> got[XRDOf(x.kind)][x]]
Turn == [i \in ToSet(order) |-> CHOOSE n \in DOMAIN order : order[n] = i]
Graph == BuildGraph(Fetched, managed, Turn)

----------------------------------------------------------------------------
(* GetGraph.                                                                *)

Read(ids) == [x \in {y \in ids : cluster[y] # "absent"} |-> cluster[x]]
OfKinds(list, kinds) == [x \in {y \in DOMAIN list : y.kind \in kinds} |-> list[x]]

\* Managed lists that GetManagedResources may return for the items there are: of
\* every kind at most MaxItems.
Capped(list) ==
    {[x \in ids |-> list[x]] : ids \in {s \in SUBSET DOMAIN list :
        \A k \in ManagedKinds :
            LET all == {x \in DOMAIN list : x.kind = k}
            IN IF Cardinality(all) <= MaxItems THEN all \subseteq s
               ELSE Cardinality(s \cap all) = MaxItems}}

KindsAtItemCap(list) ==
    {k \in ManagedKinds : Cardinality({x \in DOMAIN list : x.kind = k}) >= MaxItems}

Warning(code, kind) == [code |-> code, kind |-> kind]

Clusters == {c \in [Objects -> States] : \A x \in Objects \ Volatile : c[x] = "ready"}

Init ==
    /\ cluster \in Clusters
    /\ cached \in {None} \cup UNION {Capped([x \in {y \in Managed : c[y] # "absent"} |-> c[x]]) : c \in Clusters}
    /\ skip \in BOOLEAN
    /\ stage = "xrds"
    /\ next = 1 /\ working = {}
    /\ got = [i \in DOMAIN XRDs |-> None]
    /\ order = <<>>
    /\ managed = <<>>
    /\ warnings = {}
    /\ silent = {}
    /\ seen = [x \in Objects |-> {cluster[x]}]
    /\ faults = 0 /\ changes = 0

\* A list of XRDs, Compositions or Functions; a failed one ends the request.
ListDefinitions ==
    /\ \/ stage = "xrds" /\ stage' = "compositions"
       \/ stage = "compositions" /\ stage' = "functions"
       \/ stage = "functions" /\ stage' = "kinds"
    /\ UNCHANGED <<world, cached, skip, fetch, managed, warnings, silent, faults>>

FailDefinitions ==
    /\ stage \in {"xrds", "compositions", "functions"}
    /\ faults < MaxFaults /\ faults' = faults + 1
    /\ stage' = "error"
    /\ UNCHANGED <<world, cached, skip, fetch, managed, warnings, silent>>

\* (mutation of Spawn) The slot is taken by the goroutine, not by the loop.
SpawnWithoutSlot ==
    /\ stage = "kinds" /\ next \in DOMAIN XRDs
    /\ working' = working \cup {next}
    /\ next' = next + 1
    /\ UNCHANGED <<world, cached, skip, stage, got, order, managed, warnings, silent, faults>>

\* The loop of listXRs takes a slot and starts a goroutine.
Spawn ==
    /\ stage = "kinds" /\ next \in DOMAIN XRDs
    /\ Cardinality(working) < Slots
    /\ working' = working \cup {next}
    /\ next' = next + 1
    /\ UNCHANGED <<world, cached, skip, stage, got, order, managed, warnings, silent, faults>>

\* graphXRDVersion: the served, referenceable version, else the first one; the
\* API server lists a kind in a version that is served.
Version(xrd) ==
    LET chosen == SelectInSeq(xrd.versions, LAMBDA v : v.referenceable /\ v.served)
    IN xrd.versions[IF chosen = 0 THEN 1 ELSE chosen]

ListKind(i) ==
    /\ i \in working /\ got[i] = None
    /\ Version(XRDs[i]).served
    /\ got' = [got EXCEPT ![i] = Read({r.id : r \in {q \in XRs : q.id.kind = XRDs[i].kind}})]
    /\ UNCHANGED <<world, cached, skip, stage, next, working, order, managed, warnings, silent, faults>>

\* (mutation of AppendXRs) The slot is kept.
AppendInSlot(i) ==
    /\ i \in working /\ got[i] # None
    /\ i \notin ToSet(order)
    /\ order' = Append(order, i)
    /\ UNCHANGED <<world, cached, skip, stage, next, working, got, managed, warnings, silent, faults>>

\* The goroutine ends: it appends what it read and gives the slot back.
AppendXRs(i) ==
    /\ i \in working /\ got[i] # None
    /\ order' = Append(order, i)
    /\ working' = working \ {i}
    /\ UNCHANGED <<world, cached, skip, stage, next, got, managed, warnings, silent, faults>>

\* (mutation of FailKind) The kind is left out without a word.
FailKindSilently(i) ==
    /\ i \in working /\ got[i] = None
    /\ \/ ~Version(XRDs[i]).served /\ UNCHANGED faults
       \/ faults < MaxFaults /\ faults' = faults + 1
    /\ working' = working \ {i}
    /\ UNCHANGED <<world, cached, skip, stage, next, got, order, managed, warnings, silent>>

FailKind(i) ==
    /\ i \in working /\ got[i] = None
    /\ \/ ~Version(XRDs[i]).served /\ UNCHANGED faults
       \/ faults < MaxFaults /\ faults' = faults + 1
    /\ warnings' = warnings \cup {Warning("xr-kind-unavailable", XRDs[i].kind)}
    /\ working' = working \ {i}
    /\ UNCHANGED <<world, cached, skip, stage, next, got, order, managed, silent>>

\* wg.Wait is over.
Listed == stage = "kinds" /\ next \notin DOMAIN XRDs /\ working = {}

SkipManaged ==
    /\ Listed /\ skip
    /\ warnings' = warnings \cup {Warning("managed-skipped", None)}
    /\ stage' = "done"
    /\ UNCHANGED <<world, cached, skip, fetch, managed, silent, faults>>

\* The warnings of listManaged about a list.
TakeManaged(list, fromCache) ==
    /\ managed' = list
    /\ warnings' = warnings
          \cup (IF fromCache THEN {Warning("managed-cached", None)} ELSE {})
          \cup {Warning("managed-capped", k) : k \in KindsAtItemCap(list)}
    /\ stage' = "done"

UseCached ==
    /\ Listed /\ ~skip
    /\ cached # None
    /\ TakeManaged(cached, TRUE)
    /\ UNCHANGED <<world, cached, skip, fetch, silent, faults>>

\* GetManagedResources lists anew, as there is no cached list or it is too old.
\* The kinds whose list fails are left out, and the list is cached without them.
ListManaged ==
    /\ Listed /\ ~skip
    /\ \E failed \in SUBSET ManagedKinds :
        /\ Cardinality(failed) <= MaxFaults - faults
        /\ faults' = faults + Cardinality(failed)
        /\ silent' = failed
        /\ \E list \in Capped(Read({m \in Managed : m.kind \notin failed})) :
            /\ TakeManaged(list, FALSE)
            /\ cached' = list
    /\ UNCHANGED <<world, skip, fetch>>

FailManaged ==
    /\ Listed /\ ~skip
    /\ faults < MaxFaults /\ faults' = faults + 1
    /\ warnings' = warnings \cup {Warning("managed-unavailable", None)}
    /\ stage' = "done"
    /\ UNCHANGED <<world, cached, skip, fetch, managed, silent>>

\* An object comes, goes, or turns ready or not, while the request is on.
Change(x, state) ==
    /\ stage \notin {"done", "error", "received"}
    /\ changes < MaxChanges /\ changes' = changes + 1
    /\ state # cluster[x]
    /\ cluster' = [cluster EXCEPT ![x] = state]
    /\ seen' = [seen EXCEPT ![x] = @ \cup {state}]
    /\ UNCHANGED <<cached, skip, stage, fetch, managed, warnings, silent, faults>>

Next ==
    \/ ListDefinitions \/ FailDefinitions
    \/ Spawn
    \/ \E i \in DOMAIN XRDs : ListKind(i) \/ AppendXRs(i) \/ FailKind(i)
    \/ SkipManaged \/ UseCached \/ ListManaged \/ FailManaged
    \/ \E x \in Volatile, state \in States : Change(x, state)

Spec == Init /\ [][Next]_vars

----------------------------------------------------------------------------
(* Properties.                                                              *)

GTypeOK ==
    /\ cluster \in [Objects -> States]
    /\ cached = None \/ \A x \in DOMAIN cached : x \in Managed /\ cached[x] \in States
    /\ skip \in BOOLEAN
    /\ stage \in {"xrds", "compositions", "functions", "kinds", "done", "error", "received"}
    /\ next \in 1..Len(XRDs) + 1
    /\ working \subseteq 1..next - 1 /\ Cardinality(working) <= Slots
    /\ ToSet(order) \cap working = {} /\ Cardinality(ToSet(order)) = Len(order)
    /\ \A i \in ToSet(order) : DOMAIN got[i] \subseteq {r.id : r \in XRs}
    /\ DOMAIN managed \subseteq Managed
    /\ silent \subseteq ManagedKinds
    /\ seen \in [Objects -> SUBSET States]
    /\ faults \in 0..MaxFaults /\ changes \in 0..MaxChanges

\* What the warnings say of an object: its kind was not listed, or the managed
\* list is missing, old or cut off.
Excused(x) ==
    \/ Warning("xr-kind-unavailable", x.kind) \in warnings
    \/ x \in Managed /\ \/ \E w \in warnings : w.code \in {"managed-skipped", "managed-unavailable", "managed-cached"}
                        \/ Warning("managed-capped", x.kind) \in warnings
                        \/ x.kind \in silent

\* The graph shows of an object a state that it had while the request was on, or
\* has a warning that says why not: no stub stands for an object that was there
\* all along, and no node for one that was never there.  The one exception is a
\* managed kind whose list failed, which carries no warning.
GraphShowsCluster ==
    stage = "done" =>
        \A x \in DOMAIN Graph.nodes \cap Objects :
            LET node == Graph.nodes[x]
            IN Excused(x) \/ (IF node.unresolved THEN "absent" ELSE node.ready) \in seen[x]

\* Every reference of an XR in the graph has its edge, and it leads to the object
\* that it names if that was there all along, whatever the lists' order.
RefsFindTarget ==
    stage = "done" =>
        LET graph == Graph IN
        \A xr \in XRs : xr.id \in DOMAIN graph.nodes /\ ~graph.nodes[xr.id].unresolved =>
            \A i \in DOMAIN xr.refs :
                LET ids == ToSet(Candidates(xr.id, xr.refs[i]))
                    linked == {x \in ids : <<xr.id, x>> \in graph.edges}
                IN /\ ids # {} => linked # {} /\ linked \subseteq DOMAIN graph.nodes
                   /\ \A x \in ids \cap Objects :
                        Excused(x) \/ "absent" \in seen[x] \/ (x \in linked /\ ~graph.nodes[x].unresolved)

\* The order in which the goroutines end decides at most which stubs there are.
OnlyStubsDependOnOrder ==
    stage = "done" =>
        LET Resolved(g) == [nodes |-> {<<x, g.nodes[x]>> : x \in {y \in DOMAIN g.nodes : ~g.nodes[y].unresolved}},
                            edges |-> {e \in g.edges : ~g.nodes[e[2]].unresolved}]
        IN Resolved(Graph) = Resolved(BuildGraph(Fetched, managed, [i \in DOMAIN XRDs |-> i]))

\* Both at once: what the references become is settled by the clusters' contents,
\* and by the order of the lists only as far as stubs go.
ReferencesSettled == RefsFindTarget /\ OnlyStubsDependOnOrder

\* GetGraph returns: the loop waits for a slot while goroutines hold them all, and
\* then for every goroutine.
GraphReturns == <>(stage \in {"done", "error", "received"})
==============================================================================
