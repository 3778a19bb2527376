-------------------------------- MODULE Widgets --------------------------------
(***************************************************************************)
(* The widgets of the dashboard and the list of kinds in the sidebar: they *)
(* load when a context is selected, as the list pages do, and show numbers *)
(* or a few rows of the answer.  The dashboard shows all of its widgets at *)
(* once; they share nothing but the selected context, so each one is a     *)
(* behaviour of its own.                                                   *)
(***************************************************************************)
EXTENDS ListPages, TablePages

----------------------------------------------------------------------------
(* What the use cases return.                                               *)

\* Composite resources and claims, asked for together: what fails of either
\* counts as none, so any of the objects may be missing.
BothLists(c) == {Listing(c, items) : items \in SUBSET cluster[c]}

\* The names of the kinds, from the definitions.
GetCompositeResourceKinds(c) == OrFailed(c) \cup {<<>>}

WidgetOutcomes(call) ==
    CASE route = "claimsCount" -> GetClaims(call.context)
      [] route = "compositionsCount" -> OrFailed(call.context)
      [] route = "xrdsCount" -> GetXRDs(call.context)
      [] route = "managedCount" -> GetManaged(call)
      [] route = "providersStatus" -> GetProviders(call.context)
      [] route = "functionsCount" -> GetFunctions(call.context)
      [] route \in Combined -> BothLists(call.context)
      [] route = "recent" -> GetCompositeResources(call.context)
      [] route = "sidebar" -> GetCompositeResourceKinds(call.context)

----------------------------------------------------------------------------
(* Answers.  No widget cancels a load: the last answer to arrive counts.    *)

\* Rows are kept to be counted; an error clears them.
ClaimsCount(n) == TakeAny(n, <<>>)
CompositionsCount(n) == TakeAny(n, <<>>)
XRDsCount(n) == TakeAny(n, <<>>)
ManagedCount(n) == TakeAny(n, <<>>)
ProvidersStatus(n) == TakeAny(n, <<>>)
FunctionsCount(n) == TakeAny(n, <<>>)
\* The numbers of ready, unready and unknown ones, and by namespace.
ResourceHealth(n) == TakeAny(n, <<>>)
NamespaceDistribution(n) == TakeAny(n, <<>>)

\* Some of the newest, and whether the table of the widget leaves the screen.
ShowNewest(n, max) ==
    LET newest == Cut(max, calls[n].out)
    IN /\ loading' = FALSE
       /\ Take(n)
       /\ rows' = newest
       /\ table' = IF newest = <<>> THEN Fresh ELSE table
       /\ UNCHANGED error
       /\ Settle(n)

\* Five are shown of at most twenty of each list.
RecentActivity(n) == ShowNewest(n, PageSize)
\* Ten of at most twenty, in a table of five a page.
RecentCompositeResources(n) == ShowNewest(n, 2 * PageSize)

\* The effect's cleanup ends older loads; a failure leaves no kinds.
SidebarKinds(n) ==
    IF ~Newest(n) THEN Ignore(n)
    ELSE /\ loading' = FALSE
         /\ Take(n)
         /\ Fill(IF calls[n].out = Failed THEN <<>> ELSE calls[n].out)
         /\ Settle(n)

WidgetAnswer(n) ==
    /\ CASE route = "claimsCount" -> ClaimsCount(n)
         [] route = "compositionsCount" -> CompositionsCount(n)
         [] route = "xrdsCount" -> XRDsCount(n)
         [] route = "managedCount" -> ManagedCount(n)
         [] route = "providersStatus" -> ProvidersStatus(n)
         [] route = "functionsCount" -> FunctionsCount(n)
         [] route = "health" -> ResourceHealth(n)
         [] route = "namespaces" -> NamespaceDistribution(n)
         [] route = "activity" -> RecentActivity(n)
         [] route = "recent" -> RecentCompositeResources(n)
         [] route = "sidebar" -> SidebarKinds(n)
    /\ UNCHANGED <<query, filter>>

----------------------------------------------------------------------------
(* Screens.                                                                 *)

CountScreen == Loaded("count")
HealthScreen == Loaded("count")
NamespacesScreen == Loaded(IF rows = <<>> THEN "nothing" ELSE "count")
ActivityScreen == Loaded(IF rows = <<>> THEN "nothing" ELSE "list")
RecentScreen == Loaded(IF rows = <<>> THEN "nothing" ELSE "table")
\* Without kinds there is no menu to open; with those of an earlier context it
\* says that it is loading.
SidebarScreen == IF rows = <<>> THEN "nothing" ELSE Loaded("menu")
=============================================================================
