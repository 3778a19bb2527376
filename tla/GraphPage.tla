-------------------------------- MODULE GraphPage --------------------------------
(***************************************************************************)
(* The graph page: what of a graph is drawn, and where                     *)
(* (src/presentation/utils/graph/, pages/Graph.jsx, hooks/useGraphFilters  *)
(* and useGraphSelection).  The graph is the one that CompositionGraph     *)
(* fetches and builds; once it is received the request is forgotten.       *)
(*                                                                         *)
(* Names are compared by a fixed order of the ids.  The text search, which *)
(* is one more filter on names, is left out.                               *)
(***************************************************************************)
EXTENDS CompositionGraph

CONSTANTS Types,      \* NODE_TYPES
          Namespaces, \* bound: the namespaces that are picked
          Focusable,  \* bound: the nodes that are focused on
          LimitSteps, \* bound: the limits, the same for every type
          MaxPicks    \* bound: filters changed

ASSUME PageAssumption ==
    /\ {"XRD", "Composition", "Function", "XR", "Composed"} \subseteq Types
    /\ LimitSteps \subseteq Nat /\ \E n \in LimitSteps : \A m \in LimitSteps : m <= n

VARIABLES graph,    \* raw of useGraphData after withoutComposedStubs, or None
          filters,  \* useGraphFilters: the filters that are kept in the URL
          picks     \* filters changed so far

page == <<graph, filters, picks>>
pvars == <<vars, page>>

----------------------------------------------------------------------------
(* Graphs (graphModel.js, graphHealth.js, graphFilters.js).                 *)

Type(g, x) == g.nodes[x].type
OfType(g, type) == {x \in DOMAIN g.nodes : Type(g, x) = type}
Unhealthy(g, x) == g.nodes[x].ready = "unready"
Healthy(g, x) == g.nodes[x].ready = "ready"

\* keepOnly: the nodes, and the edges that have both ends.
KeepOnly(g, ids) ==
    LET kept == DOMAIN g.nodes \cap ids
    IN [nodes |-> [x \in kept |-> g.nodes[x]],
        edges |-> {e \in g.edges : e[1] \in kept /\ e[2] \in kept}]

\* A composed resource that is not in the managed list is usually a plain object.
WithoutComposedStubs(g) ==
    [g EXCEPT !.nodes = [x \in DOMAIN @ |->
        IF @[x].type = "Composed" THEN [@[x] EXCEPT !.unresolved = FALSE] ELSE @[x]]]

----------------------------------------------------------------------------
(* The chain of a node (graphLineage.js).                                   *)

Down(g, ids) == {e[2] : e \in {d \in g.edges : d[1] \in ids}}
Up(g, ids) == {e[1] : e \in {d \in g.edges : d[2] \in ids}}

Backwards(g) == {<<e[2], e[1]>> : e \in g.edges}

\* All that is reached from ids along some edges: as many steps as there are nodes
\* are enough.
Closure(g, edges, ids) ==
    LET most == Cardinality(DOMAIN g.nodes)
        found[n \in 0..most] ==
            IF n = 0 THEN ids
            ELSE LET last == found[n - 1] IN last \cup {e[2] : e \in {d \in edges : d[1] \in last}}
    IN found[most]
Descendants(g, ids) == Closure(g, g.edges, ids)
Ancestors(g, ids) == Closure(g, Backwards(g), ids)

\* Walks up from the XRs to those that compose them, and no further.
XRsComposing(g, ids) == Closure(g, {e \in Backwards(g) : Type(g, e[2]) = "XR"}, ids)

\* (mutation of Lineage) Only the node's own chain.
LineageWithoutDefinitions(g, id) == Descendants(g, {id}) \cup Ancestors(g, {id})

\* getLineage: what the node depends on and what is built from it.  An XR also
\* brings in what defines the XRs it created, a definition what composes its XRs.
Lineage(g, id) ==
    LET descendants == Descendants(g, {id})
        xrs == {x \in descendants : Type(g, x) = "XR"}
        definitions == {x \in Up(g, xrs) : Type(g, x) \in {"XRD", "Composition"}}
        functions == {x \in Down(g, definitions) : Type(g, x) = "Function"}
    IN descendants \cup Ancestors(g, {id})
       \cup (IF Type(g, id) = "XR" THEN definitions \cup functions ELSE XRsComposing(g, xrs))

----------------------------------------------------------------------------
(* Filters (graphFilters.js, graphFilterState.js).                          *)

FocusOnLineage(g, focus) == IF focus \in DOMAIN g.nodes THEN KeepOnly(g, Lineage(g, focus)) ELSE g

\* createAttributeMatcher.  A Composition has no health of its own.
Matches(g, f) ==
    {x \in DOMAIN g.nodes :
        /\ f.ns = None \/ x.ns = None \/ x.ns = f.ns
        /\ f.kind = None \/ x.kind = f.kind
        /\ \/ f.health = None \/ Type(g, x) = "Composition"
           \/ f.health = "healthy" /\ Healthy(g, x)
           \/ f.health = "unhealthy" /\ Unhealthy(g, x)}

DropCompositionsWithoutXR(g, focus) ==
    KeepOnly(g, {x \in DOMAIN g.nodes : Type(g, x) = "Composition" =>
                    x = focus \/ Down(g, {x}) \cap OfType(g, "XR") # {}})

\* With a namespace picked, definitions stay if they lead to an XR that stays.
KeepDefinitionsLeadingToInstances(g) ==
    LET instances == OfType(g, "XR") \cup OfType(g, "Composed")
        leading == Up(g, OfType(g, "XR")) \cap (OfType(g, "XRD") \cup OfType(g, "Composition"))
    IN KeepOnly(g, instances \cup leading \cup (Down(g, instances \cup leading) \cap OfType(g, "Function")))

\* XRD to XR is implied by XRD to Composition to XR.
HideImpliedXRDEdges(g) ==
    [g EXCEPT !.edges = {e \in @ : ~(/\ Type(g, e[1]) = "XRD" /\ Type(g, e[2]) = "XR"
                                     /\ Up(g, {e[2]}) \cap OfType(g, "Composition") # {})}]

\* (mutation of ApplyFilters) The edges are hidden before the types are.
ApplyFiltersToTheRest(g, f) ==
    LET all == HideImpliedXRDEdges(g)
        shown == FocusOnLineage(KeepOnly(all, {x \in DOMAIN g.nodes : Type(g, x) \in f.types}), f.focus)
        matched == KeepOnly(shown, Matches(shown, f) \cup {f.focus})
        leading == IF f.health = None THEN matched ELSE DropCompositionsWithoutXR(matched, f.focus)
    IN IF f.ns = None THEN leading ELSE KeepDefinitionsLeadingToInstances(leading)

ApplyFilters(g, f) ==
    LET shown == FocusOnLineage(KeepOnly(g, {x \in DOMAIN g.nodes : Type(g, x) \in f.types}), f.focus)
        matched == KeepOnly(shown, Matches(shown, f) \cup {f.focus})
        leading == IF f.health = None THEN matched ELSE DropCompositionsWithoutXR(matched, f.focus)
    IN HideImpliedXRDEdges(IF f.ns = None THEN leading ELSE KeepDefinitionsLeadingToInstances(leading))

----------------------------------------------------------------------------
(* Limits (graphLimits.js).                                                 *)

\* The first n, which slice takes; 0 sorts before 1.
First(n, entries) == {k[4] : k \in {l \in entries : Rank(entries, l) < n}}
Later(condition) == IF condition THEN 1 ELSE 0

\* spreadAcrossKinds: one of each kind in turn.
Round(nodes, x) == Cardinality({y \in nodes : y.kind = x.kind /\ Place[y] < Place[x]})
KindTurn(nodes, x) ==
    LET places == {Place[y] : y \in {z \in nodes : z.kind = x.kind}}
    IN CHOOSE p \in places : \A q \in places : p <= q

\* (mutation of ChooseXRs) An even spread of all of them.
ChooseXRsEvenly(g) ==
    LET xrs == OfType(g, "XR") IN {<<0, Round(xrs, x), KindTurn(xrs, x), x>> : x \in xrs}

\* Unhealthy ones first.
ChooseXRs(g) ==
    LET Like(x) == {y \in OfType(g, "XR") : Unhealthy(g, y) <=> Unhealthy(g, x)}
    IN {<<Later(~Unhealthy(g, x)), Round(Like(x), x), KindTurn(Like(x), x), x>> : x \in OfType(g, "XR")}

\* (mutation of ChooseComposed) The composed resources are chosen on their own.
ChooseAnyComposed(g, whole, xrs, chosen) ==
    {<<Later(~Unhealthy(g, x)), 0, Place[x], x>> : x \in OfType(g, "Composed")}

\* Those of the chosen XRs, one XR at a time; all of them when no XR matched.
ChooseComposed(g, whole, xrs, chosen) ==
    LET Over(x) == Up(whole, {x}) \cap chosen
        Ranks(x) == {Rank(xrs, k) : k \in {l \in xrs : l[4] \in Over(x)}}
        Parent(x) == CHOOSE n \in Ranks(x) : \A m \in Ranks(x) : n <= m
    IN IF OfType(g, "XR") = {}
         THEN {<<Later(~Unhealthy(g, x)), 0, Place[x], x>> : x \in OfType(g, "Composed")}
         ELSE {<<Later(~Unhealthy(g, x)), Parent(x), Place[x], x>> :
                  x \in {y \in OfType(g, "Composed") : Over(y) # {}}}

\* Those linked to what is chosen first, then unhealthy ones.
ChooseDefinitions(g, type, linked) ==
    {<<Later(x \notin linked), Later(~Unhealthy(g, x)), Place[x], x>> : x \in OfType(g, type)}

\* applyLimits: g is what the filters matched, whole the graph that was loaded.
ApplyLimits(g, whole, limit) ==
    LET xrs == First(limit, ChooseXRs(g))
        over == Up(whole, xrs)
        compositions == First(limit, ChooseDefinitions(g, "Composition", over))
    IN KeepOnly(g, xrs \cup First(limit, ChooseComposed(g, whole, ChooseXRs(g), xrs))
                   \cup First(limit, ChooseDefinitions(g, "XRD", over)) \cup compositions
                   \cup First(limit, ChooseDefinitions(g, "Function", Down(g, compositions))))

----------------------------------------------------------------------------
(* The columns (graphLayout.js).                                            *)

\* One pass over the edges between XRs; a depth never exceeds their number.
DeepenOnce(g, depth) ==
    LET nested == {e \in g.edges : Type(g, e[1]) = "XR" /\ Type(g, e[2]) = "XR"}
        edges == Sorted({<<Place[e[1]], Place[e[2]], 0, e>> : e \in nested})
        deeper[n \in 0..Cardinality(nested)] ==
            IF n = 0 THEN depth
            ELSE LET d == deeper[n - 1]
                     e == edges[n][4]
                 IN IF d[e[1]] + 1 > d[e[2]] /\ d[e[1]] < Cardinality(DOMAIN depth)
                      THEN [d EXCEPT ![e[2]] = d[e[1]] + 1] ELSE d
    IN deeper[Cardinality(nested)]

\* (mutation of NestingDepths) One pass is taken for enough.
NestingDepthsInOnePass(g) == DeepenOnce(g, [x \in OfType(g, "XR") |-> 0])

\* getNestingDepths: as many passes as there are XRs, so that a cycle ends.
NestingDepths(g) ==
    LET xrs == OfType(g, "XR")
        deeper[n \in 0..Cardinality(xrs)] ==
            IF n = 0 THEN [x \in xrs |-> 0] ELSE DeepenOnce(g, deeper[n - 1])
    IN deeper[Cardinality(xrs)]

Column(g, depths, x) ==
    CASE Type(g, x) = "XRD" -> 0
      [] Type(g, x) = "Composition" -> 1
      [] Type(g, x) = "Function" -> 2
      [] Type(g, x) = "XR" -> 2 + depths[x]
      [] OTHER -> 3 + (CHOOSE n \in {0} \cup {depths[y] : y \in DOMAIN depths} :
                         \A y \in DOMAIN depths : depths[y] <= n)

----------------------------------------------------------------------------
(* The page.                                                                *)

NoFilters == [types |-> Types, ns |-> None, kind |-> None, health |-> None, focus |-> None,
              limit |-> CHOOSE n \in LimitSteps : \A m \in LimitSteps : m <= n]

PInit == Init /\ graph = None /\ filters = NoFilters /\ picks = 0

\* The request goes on without the page.
Fetch == Next /\ UNCHANGED page

\* The answer replaces what is shown.
Receive ==
    /\ stage = "done"
    /\ graph' = WithoutComposedStubs(Graph)
    /\ stage' = "received"
    /\ cluster' = [x \in Objects |-> "ready"] /\ seen' = [x \in Objects |-> {"ready"}]
    /\ changes' = 0 /\ faults' = 0
    /\ cached' = None /\ skip' = FALSE
    /\ next' = 1 /\ working' = {} /\ got' = [i \in DOMAIN XRDs |-> None] /\ order' = <<>>
    /\ managed' = <<>> /\ warnings' = {} /\ silent' = {}
    /\ UNCHANGED <<filters, picks>>

\* updateFilters, and Clear.  A list of types that is empty is not written to the
\* URL as such, so that hiding the last type shows them all.
Pick(patched) ==
    /\ graph # None
    /\ picks < MaxPicks /\ picks' = picks + 1
    /\ filters' = IF patched.types = {} THEN [patched EXCEPT !.types = Types] ELSE patched
    /\ UNCHANGED <<vars, graph>>

ToggleType(t) == Pick([filters EXCEPT !.types = IF t \in @ THEN @ \ {t} ELSE @ \cup {t}])
PickNamespace(n) == Pick([filters EXCEPT !.ns = n])
PickKind(k) == Pick([filters EXCEPT !.kind = k])
ToggleHealth(h) == Pick([filters EXCEPT !.health = IF @ = h THEN None ELSE h])
\* Only a node that is on the page can be selected, and then focused on.
Focus(x) == graph # None /\ x \in DOMAIN graph.nodes /\ Pick([filters EXCEPT !.focus = x])
SetLimit(n) == Pick([filters EXCEPT !.limit = n])
ClearFilters == filters # NoFilters /\ Pick(NoFilters)

PNext ==
    \/ Fetch \/ Receive \/ ClearFilters
    \/ \E t \in Types : ToggleType(t)
    \/ \E n \in Namespaces : PickNamespace(n)
    \/ \E k \in ManagedKinds \cup Kinds : PickKind(k)
    \/ \E h \in {"healthy", "unhealthy"} : ToggleHealth(h)
    \/ \E x \in Focusable : Focus(x)
    \/ \E n \in LimitSteps : SetLimit(n)

PSpec == PInit /\ [][PNext]_pvars

\* The Go scheduler runs the request and its goroutines, and the API server
\* answers each list, with items or with an error.
FairPSpec ==
    /\ PSpec
    /\ WF_pvars(ListDefinitions /\ UNCHANGED page) /\ WF_pvars(Spawn /\ UNCHANGED page)
    /\ \A i \in DOMAIN XRDs : /\ WF_pvars((ListKind(i) \/ FailKind(i)) /\ UNCHANGED page)
                              /\ WF_pvars(AppendXRs(i) /\ UNCHANGED page)
    /\ WF_pvars((SkipManaged \/ ListManaged) /\ UNCHANGED page)

----------------------------------------------------------------------------
(* Properties of what is drawn.                                             *)

Matched == ApplyFilters(graph, filters)
View == ApplyLimits(Matched, graph, filters.limit)

\* An XR that is drawn hangs on its XRD, if that is drawn: directly or by its
\* Composition, unless a limit has cut that off.  A composed resource hangs on an
\* XR that composes it, if any XR matched.
ChainsStayWhole ==
    graph # None =>
        LET matched == Matched
            view == View
            drawn == DOMAIN view.nodes
        IN /\ \A xr \in OfType(view, "XR") :
                XRDId(xr.kind) \in drawn /\ <<XRDId(xr.kind), xr>> \in graph.edges =>
                    \/ Up(view, {xr}) \cap (OfType(view, "XRD") \cup OfType(view, "Composition")) # {}
                    \/ (Up(matched, {xr}) \cap OfType(matched, "Composition")) \ drawn # {}
           /\ \A x \in OfType(view, "Composed") :
                OfType(matched, "XR") # {} => Up(graph, {x}) \cap OfType(view, "XR") # {}

\* A limit hides no unhealthy XR while it shows a healthy one, and no unhealthy
\* composed resource of a drawn XR while it shows a healthy one.
UnhealthyDrawnFirst ==
    graph # None =>
        LET matched == Matched
            view == View
            children == Down(graph, OfType(view, "XR"))
        IN \A x \in DOMAIN view.nodes, y \in DOMAIN matched.nodes \ DOMAIN view.nodes :
              /\ Type(view, x) = Type(matched, y)
              /\ Type(view, x) = "XR" \/ (Type(view, x) = "Composed" /\ {x, y} \subseteq children)
              => ~Unhealthy(matched, y) \/ Unhealthy(matched, x)

\* Focusing on an XR keeps, whatever is nested in it, every XR it leads to with the
\* XRD and the Composition behind that, and every XR it is part of.
FocusKeepsChain ==
    graph # None /\ filters.focus \in DOMAIN graph.nodes /\ Type(graph, filters.focus) = "XR"
    /\ filters = [NoFilters EXCEPT !.focus = filters.focus, !.limit = filters.limit] =>
        LET matched == DOMAIN Matched.nodes
            built == Descendants(graph, {filters.focus})
        IN /\ built \cup Ancestors(graph, {filters.focus}) \subseteq matched
           /\ \A x \in built : Type(graph, x) = "XR" =>
                {y \in Up(graph, {x}) : Type(graph, y) \in {"XRD", "Composition"}} \subseteq matched

\* What filters, focus and limits may hide: no link of a drawn chain, nothing of
\* the focused node's own chain, and nothing unhealthy before something healthy.
ViewKeepsWhatMatters == ChainsStayWhole /\ FocusKeepsChain /\ UnhealthyDrawnFirst

\* Every arrow points to the right, unless it starts at an XR on a cycle of XRs or
\* below one.
ArrowsPointRight ==
    graph # None =>
        LET view == View
            depths == NestingDepths(view)
            cyclic == {x \in OfType(view, "XR") : x \in Descendants(view, Down(view, {x}))}
        IN \A e \in view.edges :
              e[1] \in Descendants(view, cyclic)
              \/ Column(view, depths, e[1]) < Column(view, depths, e[2])
==============================================================================
