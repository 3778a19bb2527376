--------------------------------- MODULE Pages ---------------------------------
(***************************************************************************)
(* A list page or widget of the browser from the moment it is opened: the  *)
(* user selects contexts, filters, searches, sorts and turns pages while   *)
(* its calls are answered late, out of order or not at all, and the        *)
(* clusters change.  Leaving a page unmounts it and its state, so each     *)
(* page is a behaviour of its own, chosen at the start.                    *)
(***************************************************************************)
EXTENDS Widgets

Init ==
    /\ route \in Routes
    /\ context \in Contexts
    /\ query \in (IF route = "search" THEN BOOLEAN ELSE {FALSE})
    /\ rows = <<>> /\ total = None
    /\ error = "none" /\ filter = "all" /\ table = Fresh
    /\ fetched = {} /\ fromCache = FALSE
    /\ LET asks == route # "search" \/ query
       IN /\ loading = asks /\ latest = (IF asks THEN 1 ELSE 0)
          /\ calls = [n \in Calls |-> IF asks /\ n = 1 THEN Call(context, 1, "all", FALSE, FALSE) ELSE None]
    /\ cluster \in Worlds /\ cache = [c \in Contexts |-> None]
    /\ steps = 0
    /\ source = {} /\ overtaken = FALSE /\ stranded = FALSE

Screen ==
    CASE route = "providers" -> ProvidersScreen
      [] route = "functions" -> FunctionsScreen
      [] route = "xrds" -> XRDsScreen
      [] route = "mrds" -> MRDsScreen
      [] route = "mraps" -> MRAPsScreen
      [] route = "compositeResourceKind" -> CompositeResourceKindScreen
      [] route = "resourceKind" -> ResourceKindScreen
      [] route = "managed" -> ManagedScreen
      [] route = "search" -> SearchScreen
      [] route = "claims" -> ClaimsScreen
      [] route = "compositeResources" -> CompositeResourcesScreen
      [] route = "compositions" -> CompositionsScreen
      [] route \in Counters -> CountScreen
      [] route = "health" -> HealthScreen
      [] route = "namespaces" -> NamespacesScreen
      [] route = "activity" -> ActivityScreen
      [] route = "recent" -> RecentScreen
      [] route = "sidebar" -> SidebarScreen

\* The drop-down filters that are on the screen.
Offered ==
    /\ route \notin {"mraps", "compositions"} \cup Widgets
    /\ IF route = "search" THEN query ELSE Screen \in {"table", "cards"}
    /\ CASE route = "claims" -> ClaimsOffered
         [] route = "compositeResourceKind" -> CompositeResourceKindOffered
         [] route = "resourceKind" -> ResourceKindOffered
         [] route = "managed" -> ManagedOffered
         [] OTHER -> TRUE

----------------------------------------------------------------------------
(* The user.                                                                *)

Step == steps < MaxSteps /\ steps' = steps + 1

\* The context drop-down is outside of the page.
SelectContext(c) ==
    /\ Step
    /\ c # context /\ error # "crashed"
    /\ context' = c
    /\ IF route \in ServerSide THEN SelectTableContext(c) /\ UNCHANGED fromCache
                               ELSE LoadContext(c)
    /\ UNCHANGED <<route, query, world>>

PickFilter(f) ==
    /\ Step
    /\ f # filter /\ Offered
    /\ IF route \in ServerSide THEN PickTableFilter(f) /\ UNCHANGED fromCache
                               ELSE PickListFilter(f)
    /\ UNCHANGED <<route, context, query, world>>

\* The table, or the cards, get another page or search; a table of the server
\* side fetches if that changes anything.
SetTable(t) ==
    IF route \in ServerSide /\ t # table THEN Fetch(context, t, filter)
    ELSE table' = t /\ UNCHANGED <<rows, total, loading, error, calls, latest, source, overtaken>>

\* (mutation of TypeSearch) The page is kept.
TypeSearchOnPage ==
    /\ Step
    /\ Screen \in {"table", "cards"}
    /\ SetTable([table EXCEPT !.search = ~@])
    /\ stranded' = (stranded /\ ~Resting)
    /\ UNCHANGED <<route, context, query, filter, fetched, fromCache, world>>

\* Both go back to the first page.
TypeSearch ==
    /\ Step
    /\ Screen \in {"table", "cards"}
    /\ SetTable([table EXCEPT !.page = 1, !.search = ~@])
    /\ stranded' = (stranded /\ ~Resting)
    /\ UNCHANGED <<route, context, query, filter, fetched, fromCache, world>>

Sort ==
    /\ Step
    /\ Screen = "table" /\ table.page # 1
    /\ SetTable([table EXCEPT !.page = 1])
    /\ stranded' = (stranded /\ ~Resting)
    /\ UNCHANGED <<route, context, query, filter, fetched, fromCache, world>>

TurnTo(p) ==
    /\ Step
    /\ Screen = "table" /\ p \in Turns
    /\ SetTable([table EXCEPT !.page = p])
    /\ stranded' = (stranded \/ ~Resting)
    /\ UNCHANGED <<route, context, query, filter, fetched, fromCache, world>>

\* The query in the address is given or cleared.
SetQuery ==
    /\ Step
    /\ route = "search"
    /\ query' = ~query
    /\ PerformSearch(context, ~query, filter)
    /\ UNCHANGED <<route, context, filter, world>>

Refresh ==
    /\ Step
    /\ route = "managed" /\ fromCache /\ ManagedScreen = "table"
    /\ Load(Call(context, 1, "all", FALSE, TRUE))
    /\ UNCHANGED <<route, context, query, filter, world>>

----------------------------------------------------------------------------
(* The calls and the clusters.                                              *)

Outcomes(call) ==
    CASE route \in ServerSide -> TableOutcomes(call)
      [] route \in Widgets -> WidgetOutcomes(call)
      [] OTHER -> ListOutcomes(call)

\* The clusters are read; what fails is bounded.
Serve(n) ==
    /\ calls[n] # None /\ calls[n].out = None
    /\ \E out \in Outcomes(calls[n]) :
          LET call == calls[n]
              managed == route \in {"managed", "managedCount"}
              hit == managed /\ Cached(call)
              whole == hit \/ out = List(call.context)
          IN /\ IF whole THEN UNCHANGED steps ELSE Step
             /\ calls' = [calls EXCEPT ![n].out = out, ![n].cached = @ \/ hit]
             /\ cache' = IF managed /\ out # Failed THEN [cache EXCEPT ![call.context] = out] ELSE cache
             /\ stranded' = (stranded \/ ~whole)
    /\ UNCHANGED <<route, context, page, latest, cluster, source, overtaken>>

Answer(n) ==
    /\ calls[n] # None /\ calls[n].out # None
    /\ CASE error = "crashed" -> Drop(n) /\ UNCHANGED <<page, history>>
         [] error # "crashed" /\ route \in ServerSide -> TableAnswer(n)
         [] error # "crashed" /\ route \in Widgets -> WidgetAnswer(n)
         [] OTHER -> ListAnswer(n)
    /\ UNCHANGED <<route, context, world, steps>>

Expire(c) ==
    /\ Step
    /\ route \in {"managed", "managedCount"} /\ cache[c] # None
    /\ cache' = [cache EXCEPT ![c] = None]
    /\ UNCHANGED <<route, context, page, calls, latest, cluster, history>>

Change(c, x) ==
    /\ Step
    /\ cluster' = [cluster EXCEPT ![c] = IF x \in @ THEN @ \ {x} ELSE @ \cup {x}]
    /\ stranded' = TRUE
    /\ UNCHANGED <<route, context, page, calls, latest, cache, source, overtaken>>

Next ==
    \/ \E c \in Contexts : SelectContext(c) \/ Expire(c)
    \/ \E f \in {"all", "ready", "none"} : PickFilter(f)
    \/ TypeSearch \/ Sort \/ SetQuery \/ Refresh
    \/ \E p \in 1..MaxPage : TurnTo(p)
    \/ \E n \in Calls : Serve(n) \/ Answer(n)
    \/ \E c \in Contexts, x \in Items : Change(c, x)

Spec == Init /\ [][Next]_vars

----------------------------------------------------------------------------
(* Properties.                                                              *)

\* Types; the calls are at most those the slots hold, an answer is a list of
\* one context, and a page that is loading has a call under way.
PTypeOK ==
    /\ route \in Routes /\ context \in Contexts
    /\ query \in BOOLEAN /\ loading \in BOOLEAN /\ fromCache \in BOOLEAN
    /\ rows \in Seq(Rows) /\ total \in Nat \cup {None}
    /\ error \in {"none", "shown", "crashed"} /\ filter \in {"all", "ready", "none"}
    /\ table \in [page : 1..MaxPage, search : BOOLEAN]
    /\ fetched \subseteq Items
    /\ \A n \in Calls : calls[n] # None =>
          /\ calls[n] \in AnyCall
          /\ calls[n].out # Failed => \A row \in Range(calls[n].got) : row.context = calls[n].context
    /\ loading /\ (route = "search" => query) /\ error # "crashed" => ~Resting

\* Those that ignore the answers of earlier loads.
Guarded == {"providers", "search", "sidebar"}

\* All calls are answered, and no answer of an earlier load came too late for a
\* page that does not ignore those.
Settled ==
    /\ Resting /\ (overtaken => route \in Guarded)
    /\ error # "crashed" /\ (route = "search" => query)

\* The newest load was answered with one list.
OneList == Failed \notin source /\ Cardinality(source) = 1
TheList == CHOOSE list \in source : TRUE

\* What of a list passes the page's filter and search.
Matches(list) ==
    LET call == [Call(context, 1, filter, FALSE, FALSE) EXCEPT !.out = list]
    IN Found(CASE route = "compositeResources" -> NewestXRs(call).out
               [] route = "recent" -> Cut(2 * PageSize, list)
               [] OTHER -> list,
             filter, table.search \/ route = "search")

\* Those whose failed loads leave them empty, without a message.
Silent == ServerSide \cup {"sidebar"}

\* What the page holds of it.
Expected(list) ==
    CASE route = "compositions" /\ ~table.search -> Cut(PageSize, list)
      [] route = "search" -> Found(list, filter, TRUE)
      [] route = "activity" -> Cut(PageSize, list)
      [] route = "recent" -> Cut(2 * PageSize, list)
      [] route \in Cards \cup (Tables \ {"search"}) \cup (Widgets \ {"activity", "recent"}) -> list
      [] OTHER -> PageOf(Matches(list), table.page)

\* Once all calls are answered, a page shows the answer to its newest load:
\* the rows of that list, for the context, page, filter and search the user
\* sees, or that it could not be had.  Pages that cancel their loads do so
\* whatever was overtaken; for the others it takes that no earlier answer
\* arrived after the newest.  Managed resources come in pages of a list that
\* may change between them; if it does not, no row is lost or repeated.
ShowsLatestLoad ==
    Settled =>
        /\ ~loading
        /\ Failed \in source => IF route \in Silent THEN rows = <<>> ELSE error = "shown"
        /\ OneList => /\ error = "none"
                      /\ rows = Expected(TheList)
                      /\ \A row \in Range(rows) : row.context = context

\* A table that says there is no data although rows pass its filter and its
\* search is on a page that the list, the filter, the context or a late answer
\* emptied: searching, sorting and turning pages never lead there.
EmptyOnlyIfNothingFound ==
    (Settled /\ OneList /\ Screen = "table" /\ Shown = <<>>) =>
        stranded \/ Matches(TheList) = <<>>

=============================================================================
